----------------------------- MODULE ModuleUse -----------------------------
(***************************************************************************)
(* What the reference count of a loadable module is for: users come while  *)
(* the module can be used and stay as long as they like, and the module    *)
(* goes only when there is none.                                           *)
(***************************************************************************)
CONSTANT Users

VARIABLES usable,   \* the module is loaded and not on its way out
          using     \* those who hold on to it

useVars == <<usable, using>>

UseInit == usable = FALSE /\ using = {}

Arrive == ~usable /\ using = {} /\ usable' = TRUE /\ UNCHANGED using
Depart == usable /\ using = {} /\ usable' = FALSE /\ UNCHANGED using

Enter(u) == usable /\ u \notin using /\ using' = using \cup {u} /\ UNCHANGED usable
Leave(u) == usable /\ u \in using /\ using' = using \ {u} /\ UNCHANGED usable

UseNext == Arrive \/ Depart \/ \E u \in Users : Enter(u) \/ Leave(u)

UseSpec == UseInit /\ [][UseNext]_useVars
=============================================================================
