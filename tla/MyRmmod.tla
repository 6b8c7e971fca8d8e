------------------------------ MODULE MyRmmod ------------------------------
(***************************************************************************)
(* code/myrmmod/myrmmod.c next to the driver it is made for: each time it  *)
(* is loaded it walks the list of modules and calls module_put on memmap,  *)
(* returning a reference it does not own.                                  *)
(***************************************************************************)
EXTENDS MemMap

CONSTANT MaxPuts     \* bound on the references returned by myrmmod

ASSUME MaxPutsAssumption == MaxPuts \in Nat

VARIABLE puts        \* history: references of memmap returned by myrmmod

vars == <<modvars, driver, users, fault, puts>>

(* Shapes of the state.                                                    *)
TypeOK == MemMapTypeOK /\ puts \in Nat

Init == MemMapInit /\ puts = 0

(* print_module_init, with the default parameter name = "memmap".          *)
print_module_init ==
    /\ Up /\ Listed /\ puts < MaxPuts
    /\ module_put
    /\ puts' = IF refcnt > 0 THEN puts + 1 ELSE puts
    /\ UNCHANGED <<state, driver, users, fault>>

Next == print_module_init \/ (MemMapNext /\ UNCHANGED puts)

Spec == Init /\ [][Next]_vars

---------------------------------------------------------------------------
(* The count covers every open file, the loader's own references and       *)
(* nothing else, up to the references myrmmod took away: memmap is never   *)
(* kept loaded by a file that is closed.                                   *)
Owed == Cardinality({p \in Procs : file[p] = "ok"})
        + (IF state \in {"coming", "live"} THEN 1 ELSE 0)
        + (IF state = "coming" THEN 1 ELSE 0)

RefsCover == Up => refcnt <= Owed /\ Owed <= refcnt + puts

Life == INSTANCE ModuleUse WITH
            Users <- Procs,
            usable <- state \in {"coming", "live"},
            using <- Open

(* As long as myrmmod leaves the count alone, every step of the driver and *)
(* its users is a step of a module that goes only without users: an open   *)
(* file counts once, from open (memmap.c:39) to the last of its descriptor *)
(* and its mapping, and the load fails or the module goes with none open.  *)
StepsKeepUsers == [][puts' = 0 => Life!UseNext]_(Life!useVars)

(* What can go wrong and why. The module's code is used after it is freed, *)
(* and rmmod hits the kernel's BUG_ON, only after myrmmod took a           *)
(* reference; the fault handler takes a missing page only then or in a     *)
(* mapping that was extended past the area (the test `offset > MAP_LEN`,   *)
(* memmap.c:100, lets the first page after the area through).              *)
FaultHasCause ==
    /\ fault \in {"bug_on", "freed_code"} => puts > 0
    /\ fault = "null_page" => puts > 0 \/ \E p \in Procs : grown[p]
=============================================================================
