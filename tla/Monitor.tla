------------------------------ MODULE Monitor ------------------------------
(***************************************************************************)
(* The load monitor, code/monitor/monitor.c: an hrtimer that checks the    *)
(* one-minute load every Interval and dumps all tasks when the load is at  *)
(* least one, at most once in Throttle.                                    *)
(*                                                                         *)
(* Time is discrete and passes between any two statements, the dump        *)
(* included, which runs in interrupt context and may take long. Instants   *)
(* are kept relative to now.                                               *)
(***************************************************************************)
EXTENDS Integers

CONSTANTS Interval,   \* ms_to_ktime(10)       (monitor.c:119,128)
          Throttle,   \* 3 * 1000 ms           (monitor.c:106)
          Avenrun,    \* values avenrun[0] takes, fixed point with 11 bits
          MaxLate     \* bound on how late the timer interrupt may be

ASSUME IntervalAssumption == Interval \in Nat \ {0}
ASSUME ThrottleAssumption == Throttle \in Nat
ASSUME AvenrunAssumption == Avenrun \subseteq Nat
ASSUME MaxLateAssumption == MaxLate \in Nat

VARIABLES
    mod,      \* "unloaded", "live" or "cancelling"
    queued,   \* the hrtimer is enqueued
    due,      \* time until it expires; negative when it is late
    phase,    \* time since start_timer, modulo Interval
    hpc,      \* next statement of monitor_handler
    avenrun,  \* the kernel's avenrun[0]
    load,     \* check_load's local variable
    since,    \* now - last, up to Throttle
    gap       \* history: time since this load's last dump began, up to Throttle

vars == <<mod, queued, due, phase, hpc, avenrun, load, since, gap>>

(* Shapes of the state.                                                    *)
TypeOK ==
    /\ mod \in {"unloaded", "live", "cancelling"}
    /\ queued \in BOOLEAN
    /\ due \in (-MaxLate)..Interval /\ phase \in 0..(Interval - 1)
    /\ hpc \in {"idle", "check", "throttle", "stamp", "dump", "forward"}
    /\ avenrun \in Avenrun /\ load \in Nat
    /\ since \in 0..Throttle /\ gap \in 0..Throttle

FIXED_1 == 2048
LOAD_INT(x) == x \div FIXED_1
LOAD_FRAC(x) == LOAD_INT((x % FIXED_1) * 100)

Init ==
    /\ mod = "unloaded" /\ queued = FALSE /\ due = 0 /\ phase = 0
    /\ hpc = "idle" /\ avenrun \in Avenrun /\ load = 0
    /\ since = Throttle /\ gap = Throttle

UpTo(x, max) == IF x < max THEN x + 1 ELSE max

---------------------------------------------------------------------------
(* monitor_init: start the timer Interval from now (without the symbol     *)
(* avenrun the load fails and changes nothing). `last` is zero, which      *)
(* is longer ago than Throttle on a machine that has been up that long; it *)
(* is zero again after a reload.                                           *)
monitor_init ==
    /\ mod = "unloaded" /\ mod' = "live"
    /\ queued' = TRUE /\ due' = Interval /\ phase' = 0
    /\ since' = Throttle /\ gap' = Throttle
    /\ UNCHANGED <<hpc, avenrun, load>>

(* Time passes.                                                            *)
Tick ==
    /\ mod # "unloaded" /\ due > -MaxLate
    /\ due' = due - 1 /\ phase' = (phase + 1) % Interval
    /\ since' = UpTo(since, Throttle) /\ gap' = UpTo(gap, Throttle)
    /\ UNCHANGED <<mod, queued, hpc, avenrun, load>>

(* The scheduler updates the load averages.                                *)
UpdateLoad ==
    /\ avenrun' \in Avenrun /\ avenrun' # avenrun
    /\ UNCHANGED <<mod, queued, due, phase, hpc, load, since, gap>>

(* The hrtimer interrupt dequeues the timer and calls monitor_handler.     *)
Expire ==
    /\ queued /\ due <= 0 /\ hpc = "idle"
    /\ queued' = FALSE /\ hpc' = "check"
    /\ UNCHANGED <<mod, due, phase, avenrun, load, since, gap>>

(* check_load reads the load; below one there is nothing to do.            *)
CheckLoad ==
    /\ hpc = "check"
    /\ load' = LOAD_INT(avenrun)
    /\ hpc' = IF load' < 1 THEN "forward" ELSE "throttle"
    /\ UNCHANGED <<mod, queued, due, phase, avenrun, since, gap>>

(* Bug: the throttle is off by one.                                        *)
BugCheckThrottle ==
    /\ hpc = "throttle"
    /\ hpc' = IF since + 1 < Throttle THEN "forward" ELSE "stamp"
    /\ UNCHANGED <<mod, queued, due, phase, avenrun, load, since, gap>>

(* It reads the clock a first time for the throttle ...                    *)
CheckThrottle ==
    /\ hpc = "throttle"
    /\ hpc' = IF since < Throttle THEN "forward" ELSE "stamp"
    /\ UNCHANGED <<mod, queued, due, phase, avenrun, load, since, gap>>

(* ... and a second time for `last`, then dumps.                           *)
Stamp ==
    /\ hpc = "stamp" /\ hpc' = "dump"
    /\ since' = 0 /\ gap' = 0
    /\ UNCHANGED <<mod, queued, due, phase, avenrun, load>>

print_all_task_stack ==
    /\ hpc = "dump" /\ hpc' = "forward"
    /\ UNCHANGED <<mod, queued, due, phase, avenrun, load, since, gap>>

(* Bug: the next expiry is counted from now, so that lateness adds up.     *)
BugForward ==
    /\ hpc = "forward" /\ hpc' = "idle"
    /\ due' = Interval /\ queued' = TRUE
    /\ UNCHANGED <<mod, phase, avenrun, load, since, gap>>

(* hrtimer_forward_now adds whole Intervals to the expiry until it lies in *)
(* the future; HRTIMER_RESTART enqueues the timer again.                   *)
Forward ==
    /\ hpc = "forward" /\ hpc' = "idle"
    /\ due' = Interval - ((-due) % Interval) /\ queued' = TRUE
    /\ UNCHANGED <<mod, phase, avenrun, load, since, gap>>

(* monitor_exit enters hrtimer_cancel ...                                  *)
monitor_exit ==
    /\ mod = "live" /\ mod' = "cancelling"
    /\ UNCHANGED <<queued, due, phase, hpc, avenrun, load, since, gap>>

(* Bug: hrtimer_try_to_cancel, which does not wait for the handler.        *)
BugCancel ==
    /\ mod = "cancelling" /\ mod' = "unloaded" /\ queued' = FALSE
    /\ UNCHANGED <<due, phase, hpc, avenrun, load, since, gap>>

(* ... which retries until the handler is not running.                     *)
hrtimer_cancel ==
    /\ mod = "cancelling" /\ hpc = "idle"
    /\ mod' = "unloaded" /\ queued' = FALSE
    /\ UNCHANGED <<due, phase, hpc, avenrun, load, since, gap>>

Next ==
    \/ monitor_init \/ monitor_exit \/ hrtimer_cancel
    \/ Tick \/ UpdateLoad \/ Expire
    \/ CheckLoad \/ CheckThrottle \/ Stamp \/ print_all_task_stack \/ Forward

Spec == Init /\ [][Next]_vars

---------------------------------------------------------------------------
(* After monitor_exit (monitor.c:143-147) no handler runs and none will,   *)
(* although the handler re-enqueues its own timer; while the module is     *)
(* loaded the timer is never lost: it is queued or the handler runs.       *)
TimerOwned == (mod = "unloaded") <=> (~queued /\ hpc = "idle")

(* "each 10 ms" (monitor/readme.txt:4): checks keep to the grid of         *)
(* Interval set when the timer was started, however late an interrupt or   *)
(* however long a dump.                                                    *)
OnGrid == queued => (phase + due) % Interval = 0

(* The comment at monitor.c:103: two dumps of one load begin at least      *)
(* Throttle apart, although the clock is read twice and the dump itself    *)
(* takes time.                                                             *)
DumpSpacing == [][hpc = "stamp" /\ hpc' = "dump" => gap >= Throttle]_vars

(* "when the load is greater than 3, print all tasks" (README.md:39 and    *)
(* monitor/readme.txt:3). `load` is the integer part of the load that was  *)
(* read (line 97), so that a load above 3 has load >= 3.                   *)
DumpsAboveThree == hpc = "dump" => load >= 3
=============================================================================
