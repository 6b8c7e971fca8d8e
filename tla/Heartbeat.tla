---------------------------- MODULE Heartbeat ----------------------------
(***************************************************************************)
(* The heartbeat timer module, code/timer/timer.c (VERSION 2, the branch   *)
(* that is compiled): a kmalloc'ed timer_list whose callback re-arms       *)
(* itself, set up by mytimer_init and torn down by mytimer_exit with       *)
(* del_timer (not del_timer_sync) followed by kfree.                       *)
(*                                                                         *)
(* The timer core (who decrements jiffies, runs expired timers and frees   *)
(* the module's text) is the kernel's and is modelled from its use here.   *)
(* Time is counted in jiffies: First is msecs_to_jiffies(1), the delay of  *)
(* the first arming, Period is msecs_to_jiffies(1000).                     *)
(***************************************************************************)
EXTENDS Naturals

CONSTANTS First,    \* jiffies until the first beat        (timer.c:91)
          Period    \* jiffies between two beats           (timer.c:83)

ASSUME FirstAssumption == First \in Nat \ {0}
ASSUME PeriodAssumption == Period \in Nat /\ First <= Period

VARIABLES
    mod,      \* where the module is in its life
    mem,      \* what p_heartbeat_timer points to
    pending,  \* the timer_list is queued in the timer core
    left,     \* jiffies until it expires, meaningful when pending
    running,  \* the callback is executing and has not re-armed yet
    age,      \* jiffies since the callback was last entered (up to Period)
    stale,    \* a timer_list is queued whose memory has been freed
    raced,    \* history: del_timer ran while the callback was executing
    fault     \* the first memory fault of the kernel

vars == <<mod, mem, pending, left, running, age, stale, raced, fault>>

ModStates == {"unloaded", "live", "deleted", "exited"}
Faults == {"none", "null_deref", "use_after_free"}

(* Shapes of the state.                                                    *)
TypeOK ==
    /\ mod \in ModStates
    /\ mem \in {"null", "allocated", "freed"}
    /\ pending \in BOOLEAN
    /\ left \in 0..Period
    /\ running \in BOOLEAN
    /\ age \in 0..Period
    /\ stale \in BOOLEAN
    /\ raced \in BOOLEAN
    /\ fault \in Faults

Init ==
    /\ mod = "unloaded" /\ mem = "null"
    /\ pending = FALSE /\ left = 0 /\ running = FALSE /\ age = Period
    /\ stale = FALSE /\ raced = FALSE /\ fault = "none"

(* After the first fault the kernel has oopsed and nothing is claimed.     *)
Up == fault = "none"

---------------------------------------------------------------------------
(* Bug: the callback re-arms with the delay of the first arming.           *)
BugModTimer(n) == pending' = TRUE /\ left' = First

(* os_mod_timer and the mod_timer of the callback: queue the timer, or     *)
(* move it, to expire n jiffies from now.                                  *)
ModTimer(n) == pending' = TRUE /\ left' = n

(* mytimer_init: allocate, set up, arm for First. kmalloc's result is not  *)
(* checked, so a failed allocation is written through by timer_setup.      *)
InitOk ==
    /\ mem' = "allocated" /\ ModTimer(First)
    /\ UNCHANGED fault

InitNoMemory ==
    /\ mem' = "null" /\ fault' = "null_deref"
    /\ UNCHANGED <<pending, left>>

mytimer_init ==
    /\ Up /\ mod = "unloaded"
    /\ mod' = "live" /\ age' = Period
    /\ InitOk \/ InitNoMemory
    /\ UNCHANGED <<running, stale, raced>>

(* A jiffy passes. Expiry may be late: time also passes while an expired   *)
(* timer waits for the softirq and while the callback runs.                *)
Tick ==
    /\ Up
    /\ age < Period \/ (pending /\ left > 0)
    /\ age' = IF age < Period THEN age + 1 ELSE age
    /\ left' = IF pending /\ left > 0 THEN left - 1 ELSE left
    /\ UNCHANGED <<mod, mem, pending, running, stale, raced, fault>>

(* The timer core dequeues an expired timer and calls its function.        *)
Expire ==
    /\ Up /\ pending /\ left = 0 /\ ~running
    /\ pending' = FALSE /\ running' = TRUE /\ age' = 0
    /\ UNCHANGED <<mod, mem, left, stale, raced, fault>>

(* Bug: the callback does not re-arm the timer.                            *)
BugCallback ==
    /\ Up /\ running
    /\ running' = FALSE
    /\ UNCHANGED <<mod, mem, pending, left, age, stale, raced, fault>>

(* The rest of qgpu_heartbeat_callback: re-arm through the global pointer, *)
(* whatever that pointer designates by now.                                *)
qgpu_heartbeat_callback ==
    /\ Up /\ running
    /\ running' = FALSE
    /\ \/ mem = "allocated" /\ ModTimer(Period) /\ UNCHANGED fault
       \/ mem # "allocated" /\ fault' = "use_after_free" /\ UNCHANGED <<pending, left>>
    /\ UNCHANGED <<mod, mem, age, stale, raced>>

(* Bug: the timer is not dequeued.                                         *)
BugDelTimer ==
    /\ Up /\ mod = "live"
    /\ mod' = "deleted" /\ raced' = (raced \/ running)
    /\ UNCHANGED <<mem, pending, left, running, age, stale, fault>>

(* qgpu_del_timer, first statement. del_timer dequeues a pending timer and *)
(* does not wait for a callback that has already started.                  *)
os_del_timer ==
    /\ Up /\ mod = "live"
    /\ mod' = "deleted" /\ pending' = FALSE
    /\ raced' = (raced \/ running)
    /\ UNCHANGED <<mem, left, running, age, stale, fault>>

(* Bug: the memory is not freed.                                           *)
BugFreeTimerlist ==
    /\ Up /\ mod = "deleted"
    /\ mod' = "exited"
    /\ UNCHANGED <<mem, pending, left, running, age, stale, raced, fault>>

(* qgpu_del_timer, second statement. The global keeps the freed address;   *)
(* a timer queued again in the meantime stays queued in freed memory.      *)
os_free_timerlist ==
    /\ Up /\ mod = "deleted"
    /\ mod' = "exited" /\ mem' = "freed"
    /\ stale' = (stale \/ pending) /\ pending' = FALSE
    /\ UNCHANGED <<left, running, age, raced, fault>>

(* delete_module frees the module's text after a grace period, which a     *)
(* callback running in softirq context holds up.                           *)
FreeModule ==
    /\ Up /\ mod = "exited" /\ ~running
    /\ mod' = "unloaded"
    /\ UNCHANGED <<mem, pending, left, running, age, stale, raced, fault>>

(* The timer core reaches an entry whose memory was freed; how long that   *)
(* takes is left open.                                                     *)
ExpireStale ==
    /\ Up /\ stale
    /\ fault' = "use_after_free"
    /\ UNCHANGED <<mod, mem, pending, left, running, age, stale, raced>>

Next ==
    \/ mytimer_init \/ os_del_timer \/ os_free_timerlist \/ FreeModule
    \/ qgpu_heartbeat_callback
    \/ Tick \/ Expire \/ ExpireStale

(* The clock ticks, the timer softirq runs expired timers and a callback   *)
(* is not preempted for ever; an exit routine that was entered runs on.    *)
(* Loading and unloading are up to the user.                               *)
Fairness ==
    /\ WF_vars(Tick) /\ WF_vars(Expire) /\ WF_vars(ExpireStale)
    /\ WF_vars(qgpu_heartbeat_callback)
    /\ WF_vars(os_free_timerlist) /\ WF_vars(FreeModule)

Spec == Init /\ [][Next]_vars
FairSpec == Spec /\ Fairness

---------------------------------------------------------------------------
(* Unloading is safe outside one window: freed timer memory is used, or    *)
(* left queued, only when qgpu_del_timer (timer.c:94-98) overlapped a      *)
(* callback that had not re-armed yet; and once mytimer_exit has returned  *)
(* without that overlap no callback runs and nothing is queued.            *)
SafeUnload ==
    ~raced => /\ fault # "use_after_free" /\ ~stale
              /\ mod \in {"exited", "unloaded"} => ~pending /\ ~running

(* The window is not benign: once it has been hit, at every moment a use   *)
(* of freed memory is still to come, either by the callback's mod_timer    *)
(* (timer.c:83) or by the timer core reaching the freed entry.             *)
RaceDoomed ==
    raced /\ Up =>
        \/ running /\ mod \in {"deleted", "exited"}
        \/ pending /\ mod = "deleted"
        \/ stale

(* The same as a promise about the future: no unload that overlapped the   *)
(* callback is survived, however the steps interleave (a reload that finds *)
(* no memory may get there first).                                         *)
RaceIsFatal == raced ~> ~Up

(* "set another timeout 1 sec in the future" (timer.c:82): two entries of  *)
(* the callback within one load are never closer than Period jiffies.      *)
BeatSpacing == [][~running /\ running' => age >= Period]_vars

(* While the module stays loaded the heart goes on beating.                *)
KeepsBeating == mod = "live" ~> (running \/ mod # "live" \/ ~Up)

(* What makes BeatSpacing hold: a queued timer still has to wait for the   *)
(* part of Period that has not passed since the last entry.                *)
SpacingInv == pending => age + left >= Period
=============================================================================
