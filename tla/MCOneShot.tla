----------------------------- MODULE MCOneShot -----------------------------
(***************************************************************************)
(* The programs that run once from start to end, each for itself: the      *)
(* container starters (UserNs), the address walk (V2pAddr), the PCI memory *)
(* mapper (PciMem) and the register analyser (AnaMem). They share nothing; *)
(* a behaviour is one run of one of them.                                  *)
(***************************************************************************)
EXTENDS UserNs, V2pAddr, PciMem, AnaMem

VARIABLE program

allVars == <<program, vars, v2pVars, pciVars, anaVars>>

(* Five levels of tables, with two entries at the first and the last two.  *)
MCPtrs == <<2, 1, 1, 2, 2>>

Programs == {"ns", "v2p_addr", "pcimem", "anamem"}

OneShotInit ==
    /\ program \in Programs
    /\ Init /\ (program # "ns" => ~plain)
    /\ V2pInit /\ PciInit
    /\ AnaInit /\ (program # "anamem" => traced = {})

Ns == program = "ns" /\ UNCHANGED <<program, v2pVars, pciVars, anaVars>>
NsSteps == Ns /\ Next
V2pSteps == program = "v2p_addr" /\ V2pNext /\ UNCHANGED <<program, vars, pciVars, anaVars>>
PciSteps == program = "pcimem" /\ PciNext /\ UNCHANGED <<program, vars, v2pVars, anaVars>>
AnaSteps == program = "anamem" /\ AnaNext /\ UNCHANGED <<program, vars, v2pVars, pciVars>>

OneShotNext == NsSteps \/ V2pSteps \/ PciSteps \/ AnaSteps

OneShotSpec ==
    /\ OneShotInit /\ [][OneShotNext]_allVars
    /\ WF_allVars(Ns /\ ParentStep /\ UNCHANGED plain)
    /\ WF_allVars(Ns /\ ChildStep /\ UNCHANGED plain)
=============================================================================
