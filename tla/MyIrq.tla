------------------------------- MODULE MyIrq -------------------------------
(***************************************************************************)
(* The shared-interrupt module, code/irq/myirq.c: an interrupt handler     *)
(* that schedules a tasklet and counts, set up by testirq_init and torn    *)
(* down by testirq_exit, on several processors.                            *)
(*                                                                         *)
(* The interrupt core and the tasklet softirq are the kernel's and are     *)
(* modelled from their use here: an interrupt line never runs its handlers *)
(* on two processors at once; a scheduled tasklet is queued on the         *)
(* processor that scheduled it and runs there when no handler does.        *)
(***************************************************************************)
EXTENDS Naturals

CONSTANTS CPUs,      \* processors
          Lines,     \* interrupt numbers the parameter `irq` may hold
          NoCPU,     \* "not on any processor"
          MaxIrqs    \* bound on the interrupts of one load

ASSUME CPUsAssumption == NoCPU \notin CPUs
ASSUME MaxIrqsAssumption == MaxIrqs \in Nat

VARIABLES
    mod,        \* which statement of testirq_init or testirq_exit is next
    param,      \* the module parameter irq, writable through sysfs
    line,       \* the line request_irq was called for
    registered, \* test_handler is registered on that line
    data,       \* dev_data: [irq, count]
    hpc, hcpu,  \* test_handler: next statement, and its processor
    tmp,        \* the value of count it loaded for count++
    sched,      \* TASKLET_STATE_SCHED
    queue,      \* how often the tasklet is in each processor's queue
    run,        \* processor on which tasklet_handler executes
    seen,       \* the count tasklet_handler printed last
    handled,    \* history: interrupts of this load whose handler returned
    unsafe,     \* history: those whose handler began before count was reset
    early,      \* history: the tasklet was scheduled before tasklet_init, in
                \* this load ("now") or in an earlier one ("past")
    misread,    \* history: irq was rewritten before dev_data->irq was set
    owed,       \* history: no run of tasklet_handler has begun since the last
                \* interrupt asked for one
    dangling,   \* something still refers to the code of an unloaded module
    fault       \* the first fault of the kernel

handler == <<hpc, hcpu, tmp>>
tasklet == <<sched, queue, run, seen>>
history == <<handled, unsafe, early, misread, owed>>
vars == <<mod, param, line, registered, data, handler, tasklet, history, dangling, fault>>

(* request_irq returned; dev_data->irq set; count reset: the handler may   *)
(* run and the tasklet is still all zeroes.                                *)
Window == {"requested", "irq_set", "count_reset"}
Exiting == {"irq_freed", "irq_synced", "killing", "exited"}
ModStates == {"unloaded", "live"} \cup Window \cup Exiting
Faults == {"none", "null_call", "bug", "freed_code"}

(* Shapes of the state.                                                    *)
TypeOK ==
    /\ mod \in ModStates /\ param \in Lines /\ line \in Lines
    /\ registered \in BOOLEAN
    /\ data \in [irq : Lines, count : 0..MaxIrqs]
    /\ hpc \in {"idle", "entered", "scheduled", "loaded"}
    /\ hcpu \in CPUs \cup {NoCPU} /\ tmp \in 0..MaxIrqs
    /\ sched \in BOOLEAN /\ queue \in [CPUs -> Nat]
    /\ run \in CPUs \cup {NoCPU} /\ seen \in 0..MaxIrqs
    /\ handled \in 0..MaxIrqs /\ unsafe \in 0..MaxIrqs
    /\ early \in {"no", "now", "past"} /\ misread \in BOOLEAN /\ owed \in BOOLEAN
    /\ dangling \in BOOLEAN /\ fault \in Faults

Init ==
    /\ mod = "unloaded" /\ param \in Lines /\ line = param
    /\ registered = FALSE /\ data = [irq |-> param, count |-> 0]
    /\ hpc = "idle" /\ hcpu = NoCPU /\ tmp = 0
    /\ sched = FALSE /\ queue = [c \in CPUs |-> 0] /\ run = NoCPU /\ seen = 0
    /\ handled = 0 /\ unsafe = 0 /\ early = "no" /\ misread = FALSE /\ owed = FALSE
    /\ dangling = FALSE /\ fault = "none"

Up == fault = "none"
Queued == \E c \in CPUs : queue[c] > 0
InFlight == IF hpc = "idle" THEN 0 ELSE 1

---------------------------------------------------------------------------
(* testirq_init. kzalloc and request_irq either both succeed or the load   *)
(* fails and leaves nothing behind.                                        *)
RequestIrq ==
    /\ Up /\ mod = "unloaded" /\ mod' = "requested"
    /\ line' = param /\ registered' = TRUE
    /\ data' = [data EXCEPT !.count = 0]
    /\ sched' = FALSE /\ seen' = 0
    /\ handled' = 0 /\ unsafe' = 0
    /\ early' = IF early = "now" THEN "past" ELSE early
    /\ UNCHANGED <<param, handler, queue, run, misread, owed, dangling, fault>>

(* dev_data->irq = irq reads the parameter a second time.                  *)
SetIrq ==
    /\ Up /\ mod = "requested" /\ mod' = "irq_set"
    /\ data' = [data EXCEPT !.irq = param]
    /\ misread' = (misread \/ param # line)
    /\ UNCHANGED <<param, line, registered, handler, tasklet, handled, unsafe, early,
                   owed, dangling, fault>>

(* dev_data->count = 0, with every handler so far, the running one         *)
(* included, having started before it.                                     *)
ResetCount ==
    /\ Up /\ mod = "irq_set" /\ mod' = "count_reset"
    /\ data' = [data EXCEPT !.count = 0]
    /\ unsafe' = handled + InFlight
    /\ UNCHANGED <<param, line, registered, handler, tasklet, handled, early, misread,
                   owed, dangling, fault>>

(* Bug: the state bits are left as they are.                               *)
BugTaskletInit ==
    /\ Up /\ mod = "count_reset" /\ mod' = "live"
    /\ UNCHANGED <<param, line, registered, data, handler, tasklet, history, dangling, fault>>

(* tasklet_init zeroes the state bits, whether or not it is queued.        *)
TaskletInit ==
    /\ Up /\ mod = "count_reset" /\ mod' = "live"
    /\ sched' = FALSE
    /\ UNCHANGED <<param, line, registered, data, handler, queue, run, seen, history,
                   dangling, fault>>

---------------------------------------------------------------------------
(* test_handler. An interrupt of the line arrives at processor c.          *)
Interrupt(c) ==
    /\ Up /\ registered /\ hpc = "idle" /\ handled < MaxIrqs
    /\ hpc' = "entered" /\ hcpu' = c /\ owed' = TRUE
    /\ UNCHANGED <<mod, param, line, registered, data, tmp, tasklet, handled, unsafe, early,
                   misread, dangling, fault>>

(* Bug: the tasklet is scheduled for the first interrupt only.             *)
BugTaskletSchedule ==
    /\ Up /\ hpc = "entered" /\ hpc' = "scheduled"
    /\ sched' = (sched \/ data.count = 0)
    /\ queue' = IF sched \/ data.count # 0 THEN queue ELSE [queue EXCEPT ![hcpu] = @ + 1]
    /\ early' = IF mod \in Window /\ ~sched THEN "now" ELSE early
    /\ UNCHANGED <<mod, param, line, registered, data, hcpu, tmp, run, seen, handled,
                   unsafe, misread, owed, dangling, fault>>

(* Bug: a tasklet whose function is running is not scheduled again.        *)
BugScheduleRunning ==
    /\ Up /\ hpc = "entered" /\ hpc' = "scheduled"
    /\ sched' = (sched \/ run = NoCPU)
    /\ queue' = IF sched \/ run # NoCPU THEN queue ELSE [queue EXCEPT ![hcpu] = @ + 1]
    /\ early' = IF mod \in Window /\ ~sched THEN "now" ELSE early
    /\ UNCHANGED <<mod, param, line, registered, data, hcpu, tmp, run, seen, handled,
                   unsafe, misread, owed, dangling, fault>>

(* tasklet_schedule: nothing when the bit is set, else set it and queue.   *)
TaskletSchedule ==
    /\ Up /\ hpc = "entered" /\ hpc' = "scheduled"
    /\ sched' = TRUE
    /\ queue' = IF sched THEN queue ELSE [queue EXCEPT ![hcpu] = @ + 1]
    /\ early' = IF mod \in Window /\ ~sched THEN "now" ELSE early
    /\ UNCHANGED <<mod, param, line, registered, data, hcpu, tmp, run, seen, handled,
                   unsafe, misread, owed, dangling, fault>>

(* count++ is a load ...                                                   *)
LoadCount ==
    /\ Up /\ hpc = "scheduled" /\ hpc' = "loaded"
    /\ tmp' = data.count
    /\ UNCHANGED <<mod, param, line, registered, data, hcpu, tasklet, history, dangling, fault>>

(* Bug: count is not incremented.                                          *)
BugStoreCount ==
    /\ Up /\ hpc = "loaded" /\ hpc' = "idle" /\ hcpu' = NoCPU
    /\ handled' = handled + 1
    /\ UNCHANGED <<mod, param, line, registered, data, tmp, tasklet, unsafe, early, misread,
                   owed, dangling, fault>>

(* ... and a store; then the handler returns.                              *)
StoreCount ==
    /\ Up /\ hpc = "loaded" /\ hpc' = "idle" /\ hcpu' = NoCPU
    /\ data' = [data EXCEPT !.count = tmp + 1]
    /\ handled' = handled + 1
    /\ UNCHANGED <<mod, param, line, registered, tmp, tasklet, unsafe, early, misread,
                   owed, dangling, fault>>

---------------------------------------------------------------------------
(* Bug: the SCHED bit stays set while the function runs and after it.      *)
BugSoftIrq(c) ==
    /\ Up /\ queue[c] > 0 /\ hcpu # c /\ run = NoCPU /\ mod \notin Window
    /\ queue' = [queue EXCEPT ![c] = @ - 1] /\ run' = c
    /\ UNCHANGED <<mod, param, line, registered, data, handler, sched, seen, history,
                   dangling, fault>>

(* The tasklet softirq of processor c takes the tasklet off its queue. A   *)
(* clear SCHED bit is a BUG(), a zeroed function pointer a call of NULL.   *)
(* A run that begins serves the interrupts whose tasklet_schedule was made.*)
SoftIrq(c) ==
    /\ Up /\ queue[c] > 0 /\ hcpu # c /\ run = NoCPU
    /\ queue' = [queue EXCEPT ![c] = @ - 1]
    /\ IF ~sched
       THEN fault' = "bug" /\ UNCHANGED <<sched, run, owed>>
       ELSE IF mod \in Window
       THEN fault' = "null_call" /\ UNCHANGED <<sched, run, owed>>
       ELSE /\ sched' = FALSE /\ run' = c /\ UNCHANGED fault
            /\ owed' = (owed /\ hpc = "entered")
    /\ UNCHANGED <<mod, param, line, registered, data, handler, seen, handled, unsafe, early,
                   misread, dangling>>

(* tasklet_handler prints count and returns.                               *)
tasklet_handler ==
    /\ Up /\ run # NoCPU /\ hcpu # run
    /\ seen' = data.count /\ run' = NoCPU
    /\ UNCHANGED <<mod, param, line, registered, data, handler, sched, queue, history,
                   dangling, fault>>

---------------------------------------------------------------------------
(* testirq_exit. free_irq removes the handler if it is on the line named   *)
(* by dev_data->irq (otherwise it only warns) ...                          *)
FreeIrq ==
    /\ Up /\ mod = "live" /\ mod' = "irq_freed"
    /\ registered' = (registered /\ data.irq # line)
    /\ UNCHANGED <<param, line, data, handler, tasklet, history, dangling, fault>>

(* ... and waits for a handler that is running on that line.               *)
SyncIrq ==
    /\ Up /\ mod = "irq_freed" /\ mod' = "irq_synced"
    /\ data.irq = line => hpc = "idle"
    /\ UNCHANGED <<param, line, registered, data, handler, tasklet, history, dangling, fault>>

(* Bug: testirq_exit does not kill the tasklet.                            *)
BugKillGrab ==
    /\ Up /\ mod = "irq_synced" /\ mod' = "killing"
    /\ UNCHANGED <<param, line, registered, data, handler, tasklet, history, dangling, fault>>

(* tasklet_kill waits for the SCHED bit to be clear and takes it ...       *)
KillGrab ==
    /\ Up /\ mod = "irq_synced" /\ mod' = "killing"
    /\ ~sched /\ sched' = TRUE
    /\ UNCHANGED <<param, line, registered, data, handler, queue, run, seen, history,
                   dangling, fault>>

(* ... waits for the function to return, and gives the bit back.           *)
KillDone ==
    /\ Up /\ mod = "killing" /\ mod' = "exited"
    /\ run = NoCPU /\ sched' = FALSE
    /\ UNCHANGED <<param, line, registered, data, handler, queue, run, seen, history,
                   dangling, fault>>

(* The module's code is freed after a grace period, dev_data never. What   *)
(* is still registered or queued now refers to freed code.                 *)
FreeModule ==
    /\ Up /\ mod = "exited" /\ mod' = "unloaded"
    /\ hpc = "idle" /\ run = NoCPU
    /\ dangling' = (dangling \/ registered \/ Queued)
    /\ registered' = FALSE /\ queue' = [c \in CPUs |-> 0]
    /\ UNCHANGED <<param, line, data, handler, sched, run, seen, history, fault>>

(* The interrupt core or the softirq calls into that code.                 *)
CallFreed ==
    /\ Up /\ dangling
    /\ fault' = "freed_code"
    /\ UNCHANGED <<mod, param, line, registered, data, handler, tasklet, history, dangling>>

(* root writes /sys/module/myirq/parameters/irq, or names it at insmod.    *)
WriteParam ==
    /\ Up /\ param' \in Lines /\ param' # param
    /\ UNCHANGED <<mod, line, registered, data, handler, tasklet, history, dangling, fault>>

Next ==
    \/ RequestIrq \/ SetIrq \/ ResetCount \/ TaskletInit
    \/ \E c \in CPUs : Interrupt(c) \/ SoftIrq(c)
    \/ TaskletSchedule \/ LoadCount \/ StoreCount \/ tasklet_handler
    \/ FreeIrq \/ SyncIrq \/ KillGrab \/ KillDone \/ FreeModule
    \/ CallFreed \/ WriteParam

(* Code that was entered runs on, softirqs are served and a line that has  *)
(* a dangling handler sees another interrupt. Interrupts, loading,         *)
(* unloading and writes to the parameter may never happen.                 *)
Fairness ==
    /\ WF_vars(SetIrq) /\ WF_vars(ResetCount) /\ WF_vars(TaskletInit)
    /\ WF_vars(TaskletSchedule) /\ WF_vars(LoadCount) /\ WF_vars(StoreCount)
    /\ \A c \in CPUs : WF_vars(SoftIrq(c))
    /\ WF_vars(tasklet_handler)
    /\ WF_vars(SyncIrq) /\ WF_vars(KillGrab) /\ WF_vars(KillDone) /\ WF_vars(FreeModule)
    /\ WF_vars(CallFreed)

Spec == Init /\ [][Next]_vars
FairSpec == Spec /\ Fairness

---------------------------------------------------------------------------
(* The module faults, or leaves something of itself behind at unload, only *)
(* through its two windows: an interrupt between request_irq (line 46) and *)
(* tasklet_init (line 55) that schedules the zeroed tasklet, or a write to *)
(* the parameter between request_irq and its second reading (line 52).     *)
FaultNeedsWindow ==
    early = "no" /\ ~misread =>
        /\ Up /\ ~dangling
        /\ mod \in {"exited", "unloaded"} =>
              ~registered /\ hpc = "idle" /\ ~Queued /\ ~sched /\ run = NoCPU

(* The first window is not survived by a module that stays loaded:         *)
(* whichever of the softirq and tasklet_init comes first, and however      *)
(* often the tasklet is scheduled again, the kernel faults. (An exit can   *)
(* still save it: tasklet_kill sets the bit that tasklet_init cleared.)    *)
EarlyIsFatal == (early = "now" /\ mod \in Window) ~> (~Up \/ mod \in Exiting)

(* count (lines 33 and 54) accounts for the interrupts handled: only those *)
(* whose handler began before count = 0 may be missing, and none is        *)
(* counted twice, although the reset races with count++.                   *)
CountAccounts ==
    hpc = "idle" /\ Up /\ mod \in {"live", "count_reset"} =>
        data.count <= handled /\ handled <= data.count + unsafe

(* The bottom half may miss the last interrupt, because test_handler       *)
(* schedules it (line 32) before it counts (line 33), and never more: when *)
(* everything is quiet the count printed last is at most one behind.       *)
LagAtMostOne ==
    Up /\ mod = "live" /\ early # "now" /\ unsafe = 0 /\ hpc = "idle" /\ ~Queued /\ run = NoCPU =>
        data.count <= seen + 1

(* No wakeup is lost: after every interrupt a run of the bottom half       *)
(* begins, later than the tasklet_schedule of that interrupt (line 32). A  *)
(* run that was already in progress does not count, nor does the module's  *)
(* exit excuse it: tasklet_kill (line 62) waits for the run. What comes of *)
(* the two windows may fault instead.                                      *)
BottomHalfRuns == owed ~> (~owed \/ ~Up)

(* testirq_exit returns: tasklet_kill does not wait for ever.              *)
ExitReturns == mod = "irq_freed" ~> (mod = "unloaded" \/ ~Up)
=============================================================================
