----------------------------- MODULE ModuleRef -----------------------------
(***************************************************************************)
(* The kernel's life cycle and reference count of one loadable module, as  *)
(* memmap.c and myrmmod.c use them: the loader holds a base reference for  *)
(* the module's life and one more while its init routine runs; whoever     *)
(* uses the module takes one with try_module_get and returns it with       *)
(* module_put.                                                             *)
(***************************************************************************)
EXTENDS Integers

VARIABLES state,    \* MODULE_STATE_*
          refcnt    \* module->refcnt, MODULE_REF_BASE (1) included

RefStates == {"unloaded", "coming", "live", "going"}

(* The module is in the list of modules.                                   *)
Listed == state # "unloaded"

(* try_module_get fails for a module that is going or has no reference.    *)
CanGet == state \in {"coming", "live"} /\ refcnt > 0

try_module_get == CanGet /\ refcnt' = refcnt + 1

(* module_put never takes the count below zero.                            *)
AfterPut == IF refcnt > 0 THEN refcnt - 1 ELSE 0

module_put == refcnt' = AfterPut

(* insmod, up to the call of the init routine; and after it returned.      *)
LoadModule == state = "unloaded" /\ state' = "coming" /\ refcnt' = 2
InitReturned == state = "coming" /\ state' = "live" /\ module_put
InitFailed == state = "coming" /\ state' = "unloaded" /\ refcnt' = 0

(* rmmod takes the base reference away and gives up, putting it back, if   *)
(* others are left. A count that is already zero is a BUG_ON.              *)
StopModule == state = "live" /\ refcnt = 1 /\ state' = "going" /\ refcnt' = 0
StopIsBug == state = "live" /\ refcnt = 0

(* The exit routine returned: the module's memory is freed.                *)
ExitReturned == state = "going" /\ state' = "unloaded" /\ UNCHANGED refcnt
=============================================================================
