---------------------------- MODULE MyIrqProofs ----------------------------
(***************************************************************************)
(* What holds of the interrupt handler and its tasklet on any number of    *)
(* processors, with any set of lines and any bound on the interrupts.      *)
(***************************************************************************)
EXTENDS MyIrq, TLAPS

AfterReset == {"count_reset", "live"} \cup Exiting
Serving == Window \cup {"live", "irq_freed", "irq_synced"}

Empty == \A c \in CPUs : queue[c] = 0
Pending == Queued \/ run # NoCPU

(* A handler is on a processor and has room to count; an unloaded module   *)
(* has none, and nothing of it is registered, queued or running.           *)
HandlerInv ==
    /\ hpc = "idle" <=> hcpu = NoCPU
    /\ hpc # "idle" => handled < MaxIrqs
    /\ mod = "unloaded" => hpc = "idle" /\ run = NoCPU /\ ~registered /\ Empty

(* Unless it was scheduled too early, the tasklet is queued exactly when   *)
(* its bit is set, and once; before tasklet_init it is not.                *)
Once == \E c \in CPUs : queue[c] = 1 /\ \A d \in CPUs \ {c} : queue[d] = 0

QueueInv ==
    early # "now" /\ mod \in Serving =>
        /\ sched => Once
        /\ ~sched => Empty
        /\ mod \in Window => ~sched

(* What an undisturbed life looks like on the way out.                     *)
GoodInv ==
    early = "no" /\ ~misread =>
        /\ Up /\ ~dangling
        /\ registered => mod \in Window \cup {"live"}
        /\ mod \notin {"unloaded", "requested"} => data.irq = line
        /\ mod \in {"irq_synced", "killing", "exited"} => hpc = "idle"
        /\ mod \in {"killing", "exited"} => Empty
        /\ mod \in {"exited", "unloaded"} => ~sched /\ run = NoCPU

(* The counter and the value a handler loaded from it, against the number  *)
(* of handlers that returned.                                              *)
CountInv ==
    /\ mod # "unloaded" =>
          data.count <= handled /\ (hpc = "loaded" => tmp <= handled)
    /\ mod \in AfterReset =>
          /\ handled <= data.count + unsafe
          /\ hpc = "loaded" => handled <= tmp + unsafe

(* How far the bottom half may be behind when no run of it is to come.     *)
LagInv ==
    Up /\ mod \in {"count_reset", "live"} /\ early # "now" /\ unsafe = 0 /\ ~Pending =>
        data.count <= (IF hpc \in {"scheduled", "loaded"} THEN seen ELSE seen + 1)

(* The inductive invariant.                                                *)
IInv == TypeOK /\ HandlerInv /\ QueueInv /\ GoodInv /\ CountInv /\ LagInv

---------------------------------------------------------------------------
LEMMA InitIInv == Init => IInv
<1> SUFFICES ASSUME Init PROVE IInv
  OBVIOUS
<1> USE DEF Init
<1>1. TypeOK
  <2>1. data \in [irq : Lines, count : 0..MaxIrqs] /\ 0 \in 0..MaxIrqs
    BY MaxIrqsAssumption
  <2>2. queue \in [CPUs -> Nat]
    OBVIOUS
  <2> QED
    BY <2>1, <2>2 DEF TypeOK, ModStates, Faults
<1>2. HandlerInv /\ QueueInv
  BY DEF HandlerInv, QueueInv, Empty, Serving, Window
<1>3. GoodInv /\ CountInv /\ LagInv
  BY DEF GoodInv, CountInv, LagInv, Up, AfterReset, Exiting
<1> QED
  BY <1>1, <1>2, <1>3 DEF IInv

LEMMA RequestIrqIInv == IInv /\ RequestIrq => IInv'
<1> SUFFICES ASSUME IInv, RequestIrq PROVE IInv'
  OBVIOUS
<1> USE DEF RequestIrq, handler, history
<1>1. TypeOK'
  <2>1. data' \in [irq : Lines, count : 0..MaxIrqs] /\ 0 \in 0..MaxIrqs
    BY MaxIrqsAssumption DEF IInv, TypeOK
  <2>2. early' \in {"no", "now", "past"}
    BY DEF IInv, TypeOK
  <2> QED
    BY <2>1, <2>2 DEF IInv, TypeOK, ModStates, Window
<1>2. HandlerInv'
  BY DEF IInv, TypeOK, HandlerInv, Empty
<1>3. QueueInv'
  BY DEF IInv, TypeOK, HandlerInv, QueueInv, Once, Empty, Serving, Window, Exiting
<1>4. GoodInv'
  BY DEF IInv, TypeOK, HandlerInv, QueueInv, GoodInv, Up, Empty, Serving, Window, Exiting
<1>5. CountInv'
  BY DEF IInv, TypeOK, HandlerInv, CountInv, AfterReset, Exiting
<1>6. LagInv'
  BY DEF IInv, TypeOK, LagInv, Up, Pending, Queued
<1> QED
  BY <1>1, <1>2, <1>3, <1>4, <1>5, <1>6 DEF IInv

LEMMA SetIrqIInv == IInv /\ SetIrq => IInv'
<1> SUFFICES ASSUME IInv, SetIrq PROVE IInv'
  OBVIOUS
<1> USE DEF SetIrq, handler, tasklet
<1>1. TypeOK'
  BY MaxIrqsAssumption DEF IInv, TypeOK, ModStates, Window, Exiting, Faults, HandlerInv
<1>2. HandlerInv'
  BY DEF IInv, TypeOK, HandlerInv, Empty
<1>3. QueueInv'
  BY DEF IInv, TypeOK, HandlerInv, QueueInv, Once, Empty, Serving, Window, Exiting
<1>4. GoodInv'
  BY DEF IInv, TypeOK, HandlerInv, QueueInv, GoodInv, Up, Empty, Serving, Window, Exiting
<1>5. CountInv'
  BY DEF IInv, TypeOK, HandlerInv, CountInv, AfterReset, Exiting
<1>6. LagInv'
  BY DEF IInv, TypeOK, LagInv, Up, Pending, Queued
<1> QED
  BY <1>1, <1>2, <1>3, <1>4, <1>5, <1>6 DEF IInv

LEMMA ResetCountIInv == IInv /\ ResetCount => IInv'
<1> SUFFICES ASSUME IInv, ResetCount PROVE IInv'
  OBVIOUS
<1> USE DEF ResetCount, handler, tasklet, InFlight
<1>1. TypeOK'
  BY MaxIrqsAssumption DEF IInv, TypeOK, ModStates, Window, Exiting, Faults, HandlerInv
<1>2. HandlerInv'
  BY DEF IInv, TypeOK, HandlerInv, Empty
<1>3. QueueInv'
  BY DEF IInv, TypeOK, HandlerInv, QueueInv, Once, Empty, Serving, Window, Exiting
<1>4. GoodInv'
  BY DEF IInv, TypeOK, HandlerInv, QueueInv, GoodInv, Up, Empty, Serving, Window, Exiting
<1>5. CountInv'
  BY DEF IInv, TypeOK, HandlerInv, CountInv, AfterReset, Exiting
<1>6. LagInv'
  BY DEF IInv, TypeOK, LagInv, Up, Pending, Queued
<1> QED
  BY <1>1, <1>2, <1>3, <1>4, <1>5, <1>6 DEF IInv

LEMMA TaskletInitIInv == IInv /\ TaskletInit => IInv'
<1> SUFFICES ASSUME IInv, TaskletInit PROVE IInv'
  OBVIOUS
<1> USE DEF TaskletInit, handler, history
<1>1. TypeOK'
  BY MaxIrqsAssumption DEF IInv, TypeOK, ModStates, Window, Exiting, Faults, HandlerInv
<1>2. HandlerInv'
  BY DEF IInv, TypeOK, HandlerInv, Empty
<1>3. QueueInv'
  BY DEF IInv, TypeOK, HandlerInv, QueueInv, Once, Empty, Serving, Window, Exiting
<1>4. GoodInv'
  BY DEF IInv, TypeOK, HandlerInv, QueueInv, GoodInv, Up, Empty, Serving, Window, Exiting
<1>5. CountInv'
  BY DEF IInv, TypeOK, HandlerInv, CountInv, AfterReset, Exiting
<1>6. LagInv'
  BY DEF IInv, TypeOK, LagInv, Up, Pending, Queued
<1> QED
  BY <1>1, <1>2, <1>3, <1>4, <1>5, <1>6 DEF IInv

LEMMA InterruptIInv ==
    ASSUME IInv, NEW c \in CPUs, Interrupt(c)
    PROVE  IInv'
<1> USE DEF Interrupt, tasklet, history
<1>1. TypeOK'
  BY MaxIrqsAssumption DEF IInv, TypeOK, ModStates, Window, Exiting, Faults, HandlerInv
<1>2. HandlerInv'
  BY CPUsAssumption DEF IInv, TypeOK, HandlerInv, Empty
<1>3. QueueInv'
  BY DEF IInv, TypeOK, HandlerInv, QueueInv, Once, Empty, Serving, Window, Exiting
<1>4. GoodInv'
  BY DEF IInv, TypeOK, HandlerInv, QueueInv, GoodInv, Up, Empty, Serving, Window, Exiting
<1>5. CountInv'
  BY DEF IInv, TypeOK, HandlerInv, CountInv, AfterReset, Exiting
<1>6. LagInv'
  BY DEF IInv, TypeOK, LagInv, Up, Pending, Queued
<1> QED
  BY <1>1, <1>2, <1>3, <1>4, <1>5, <1>6 DEF IInv

LEMMA TaskletScheduleIInv == IInv /\ TaskletSchedule => IInv'
<1> SUFFICES ASSUME IInv, TaskletSchedule PROVE IInv'
  OBVIOUS
<1> USE DEF TaskletSchedule
<1>1. TypeOK'
  BY MaxIrqsAssumption DEF IInv, TypeOK, ModStates, Window, Exiting, Faults, HandlerInv
<1>2. HandlerInv'
  BY DEF IInv, TypeOK, HandlerInv, Empty
<1>3. QueueInv'
  BY DEF IInv, TypeOK, HandlerInv, QueueInv, Once, Empty, Serving, Window, Exiting
<1>4. GoodInv'
  BY DEF IInv, TypeOK, HandlerInv, QueueInv, GoodInv, Up, Empty, Serving, Window, Exiting
<1>5. CountInv'
  BY DEF IInv, TypeOK, HandlerInv, CountInv, AfterReset, Exiting
<1>6. LagInv'
  <2> SUFFICES ASSUME mod \in {"count_reset", "live"}, early' # "now"
               PROVE  Queued'
    BY DEF LagInv, Pending
  <2>1. hcpu \in CPUs
    BY DEF IInv, TypeOK, HandlerInv
  <2>2. early # "now" /\ mod \in Serving
    BY DEF IInv, TypeOK, Serving, Window
  <2>3. CASE sched
    <3>1. PICK c \in CPUs : queue[c] = 1
      BY <2>2, <2>3 DEF IInv, QueueInv, Once
    <3> QED
      BY <2>3, <3>1 DEF Queued
  <2>4. CASE ~sched
    <3>1. queue'[hcpu] = queue[hcpu] + 1 /\ queue[hcpu] \in Nat
      BY <2>1, <2>4 DEF IInv, TypeOK
    <3> QED
      BY <2>1, <3>1 DEF Queued
  <2> QED
    BY <2>3, <2>4
<1> QED
  BY <1>1, <1>2, <1>3, <1>4, <1>5, <1>6 DEF IInv

LEMMA LoadCountIInv == IInv /\ LoadCount => IInv'
<1> SUFFICES ASSUME IInv, LoadCount PROVE IInv'
  OBVIOUS
<1> USE DEF LoadCount, tasklet, history
<1>1. TypeOK'
  BY MaxIrqsAssumption DEF IInv, TypeOK, ModStates, Window, Exiting, Faults, HandlerInv
<1>2. HandlerInv'
  BY DEF IInv, TypeOK, HandlerInv, Empty
<1>3. QueueInv'
  BY DEF IInv, TypeOK, HandlerInv, QueueInv, Once, Empty, Serving, Window, Exiting
<1>4. GoodInv'
  BY DEF IInv, TypeOK, HandlerInv, QueueInv, GoodInv, Up, Empty, Serving, Window, Exiting
<1>5. CountInv'
  BY DEF IInv, TypeOK, HandlerInv, CountInv, AfterReset, Exiting
<1>6. LagInv'
  BY DEF IInv, TypeOK, LagInv, Up, Pending, Queued
<1> QED
  BY <1>1, <1>2, <1>3, <1>4, <1>5, <1>6 DEF IInv

LEMMA StoreCountIInv == IInv /\ StoreCount => IInv'
<1> SUFFICES ASSUME IInv, StoreCount PROVE IInv'
  OBVIOUS
<1> USE DEF StoreCount, tasklet
<1>1. TypeOK'
  <2>1. tmp + 1 \in 0..MaxIrqs /\ handled + 1 \in 0..MaxIrqs
    BY MaxIrqsAssumption DEF IInv, TypeOK, HandlerInv, CountInv
  <2>2. data' \in [irq : Lines, count : 0..MaxIrqs]
    BY <2>1 DEF IInv, TypeOK
  <2> QED
    BY <2>1, <2>2 DEF IInv, TypeOK
<1>2. HandlerInv'
  BY DEF IInv, TypeOK, HandlerInv, Empty
<1>3. QueueInv'
  BY DEF IInv, TypeOK, HandlerInv, QueueInv, Once, Empty, Serving, Window, Exiting
<1>4. GoodInv'
  BY DEF IInv, TypeOK, HandlerInv, QueueInv, GoodInv, Up, Empty, Serving, Window, Exiting
<1>5. CountInv'
  BY DEF IInv, TypeOK, HandlerInv, CountInv, AfterReset, Exiting
<1>6. LagInv'
  <2> SUFFICES ASSUME LagInv!1'
               PROVE  data'.count <= seen + 1
    BY DEF LagInv
  <2>1. mod \in {"count_reset", "live"} /\ early # "now" /\ unsafe = 0 /\ ~Pending
    BY DEF Pending, Queued
  <2>2. data.count <= seen /\ data.count \in Nat /\ tmp \in Nat /\ seen \in Nat
    BY <2>1 DEF IInv, TypeOK, LagInv
  <2>3. tmp <= data.count
    BY <2>1 DEF IInv, TypeOK, CountInv, AfterReset
  <2>4. data'.count = tmp + 1
    BY DEF IInv, TypeOK
  <2> QED
    BY <2>2, <2>3, <2>4
<1> QED
  BY <1>1, <1>2, <1>3, <1>4, <1>5, <1>6 DEF IInv

LEMMA SoftIrqIInv ==
    ASSUME IInv, NEW c \in CPUs, SoftIrq(c)
    PROVE  IInv'
<1> USE DEF SoftIrq, handler, history
<1>1. TypeOK'
  <2>1. queue' \in [CPUs -> Nat]
    BY DEF IInv, TypeOK
  <2>2. sched' \in BOOLEAN /\ run' \in CPUs \cup {NoCPU} /\ fault' \in Faults
    BY DEF IInv, TypeOK, Faults
  <2> QED
    BY <2>1, <2>2 DEF IInv, TypeOK
<1>2. HandlerInv'
  BY DEF IInv, TypeOK, HandlerInv, Empty
<1>3. QueueInv'
  BY DEF IInv, TypeOK, HandlerInv, QueueInv, Once, Empty, Serving, Window, Exiting
<1>4. GoodInv'
  <2> SUFFICES ASSUME early = "no", ~misread PROVE GoodInv'
    BY DEF GoodInv
  <2>1. ~Empty /\ mod # "unloaded"
    BY DEF IInv, TypeOK, HandlerInv, Empty
  <2>2. mod \in Serving
    BY <2>1 DEF IInv, TypeOK, GoodInv, ModStates, Exiting, Serving
  <2>3. sched /\ mod \notin Window
    BY <2>1, <2>2 DEF IInv, TypeOK, QueueInv
  <2>4. UNCHANGED fault
    BY <2>3
  <2> QED
    BY <2>2, <2>3, <2>4 DEF IInv, TypeOK, GoodInv, Up, Serving, Window
<1>5. CountInv'
  BY DEF IInv, TypeOK, HandlerInv, CountInv, AfterReset, Exiting
<1>6. LagInv'
  <2> SUFFICES ASSUME LagInv!1'
               PROVE  FALSE
    BY DEF LagInv
  <2>1. mod \in Serving /\ early # "now" /\ ~Empty
    BY DEF Serving, Window, IInv, TypeOK, Empty
  <2>2. sched /\ mod \notin Window
    BY <2>1 DEF IInv, TypeOK, QueueInv
  <2>3. run' = c
    BY <2>2
  <2> QED
    BY <2>3, CPUsAssumption DEF Pending
<1> QED
  BY <1>1, <1>2, <1>3, <1>4, <1>5, <1>6 DEF IInv

LEMMA TaskletHandlerIInv == IInv /\ tasklet_handler => IInv'
<1> SUFFICES ASSUME IInv, tasklet_handler PROVE IInv'
  OBVIOUS
<1> USE DEF tasklet_handler, handler, history
<1>1. TypeOK'
  BY MaxIrqsAssumption DEF IInv, TypeOK, ModStates, Window, Exiting, Faults, HandlerInv
<1>2. HandlerInv'
  BY DEF IInv, TypeOK, HandlerInv, Empty
<1>3. QueueInv'
  BY DEF IInv, TypeOK, HandlerInv, QueueInv, Once, Empty, Serving, Window, Exiting
<1>4. GoodInv'
  BY DEF IInv, TypeOK, HandlerInv, QueueInv, GoodInv, Up, Empty, Serving, Window, Exiting
<1>5. CountInv'
  BY DEF IInv, TypeOK, HandlerInv, CountInv, AfterReset, Exiting
<1>6. LagInv'
  BY DEF IInv, TypeOK, LagInv, Up, Pending, Queued
<1> QED
  BY <1>1, <1>2, <1>3, <1>4, <1>5, <1>6 DEF IInv

LEMMA FreeIrqIInv == IInv /\ FreeIrq => IInv'
<1> SUFFICES ASSUME IInv, FreeIrq PROVE IInv'
  OBVIOUS
<1> USE DEF FreeIrq, handler, tasklet, history
<1>1. TypeOK'
  BY MaxIrqsAssumption DEF IInv, TypeOK, ModStates, Window, Exiting, Faults, HandlerInv
<1>2. HandlerInv'
  BY DEF IInv, TypeOK, HandlerInv, Empty
<1>3. QueueInv'
  BY DEF IInv, TypeOK, HandlerInv, QueueInv, Once, Empty, Serving, Window, Exiting
<1>4. GoodInv'
  BY DEF IInv, TypeOK, HandlerInv, QueueInv, GoodInv, Up, Empty, Serving, Window, Exiting
<1>5. CountInv'
  BY DEF IInv, TypeOK, HandlerInv, CountInv, AfterReset, Exiting
<1>6. LagInv'
  BY DEF IInv, TypeOK, LagInv, Up, Pending, Queued
<1> QED
  BY <1>1, <1>2, <1>3, <1>4, <1>5, <1>6 DEF IInv

LEMMA SyncIrqIInv == IInv /\ SyncIrq => IInv'
<1> SUFFICES ASSUME IInv, SyncIrq PROVE IInv'
  OBVIOUS
<1> USE DEF SyncIrq, handler, tasklet, history
<1>1. TypeOK'
  BY MaxIrqsAssumption DEF IInv, TypeOK, ModStates, Window, Exiting, Faults, HandlerInv
<1>2. HandlerInv'
  BY DEF IInv, TypeOK, HandlerInv, Empty
<1>3. QueueInv'
  BY DEF IInv, TypeOK, HandlerInv, QueueInv, Once, Empty, Serving, Window, Exiting
<1>4. GoodInv'
  BY DEF IInv, TypeOK, HandlerInv, QueueInv, GoodInv, Up, Empty, Serving, Window, Exiting
<1>5. CountInv'
  BY DEF IInv, TypeOK, HandlerInv, CountInv, AfterReset, Exiting
<1>6. LagInv'
  BY DEF IInv, TypeOK, LagInv, Up, Pending, Queued
<1> QED
  BY <1>1, <1>2, <1>3, <1>4, <1>5, <1>6 DEF IInv

LEMMA KillGrabIInv == IInv /\ KillGrab => IInv'
<1> SUFFICES ASSUME IInv, KillGrab PROVE IInv'
  OBVIOUS
<1> USE DEF KillGrab, handler, history
<1>1. TypeOK'
  BY MaxIrqsAssumption DEF IInv, TypeOK, ModStates, Window, Exiting, Faults, HandlerInv
<1>2. HandlerInv'
  BY DEF IInv, TypeOK, HandlerInv, Empty
<1>3. QueueInv'
  BY DEF IInv, TypeOK, HandlerInv, QueueInv, Once, Empty, Serving, Window, Exiting
<1>4. GoodInv'
  BY DEF IInv, TypeOK, HandlerInv, QueueInv, GoodInv, Up, Empty, Serving, Window, Exiting
<1>5. CountInv'
  BY DEF IInv, TypeOK, HandlerInv, CountInv, AfterReset, Exiting
<1>6. LagInv'
  BY DEF IInv, TypeOK, LagInv, Up, Pending, Queued
<1> QED
  BY <1>1, <1>2, <1>3, <1>4, <1>5, <1>6 DEF IInv

LEMMA KillDoneIInv == IInv /\ KillDone => IInv'
<1> SUFFICES ASSUME IInv, KillDone PROVE IInv'
  OBVIOUS
<1> USE DEF KillDone, handler, history
<1>1. TypeOK'
  BY MaxIrqsAssumption DEF IInv, TypeOK, ModStates, Window, Exiting, Faults, HandlerInv
<1>2. HandlerInv'
  BY DEF IInv, TypeOK, HandlerInv, Empty
<1>3. QueueInv'
  BY DEF IInv, TypeOK, HandlerInv, QueueInv, Once, Empty, Serving, Window, Exiting
<1>4. GoodInv'
  BY DEF IInv, TypeOK, HandlerInv, QueueInv, GoodInv, Up, Empty, Serving, Window, Exiting
<1>5. CountInv'
  BY DEF IInv, TypeOK, HandlerInv, CountInv, AfterReset, Exiting
<1>6. LagInv'
  BY DEF IInv, TypeOK, LagInv, Up, Pending, Queued
<1> QED
  BY <1>1, <1>2, <1>3, <1>4, <1>5, <1>6 DEF IInv

LEMMA FreeModuleIInv == IInv /\ FreeModule => IInv'
<1> SUFFICES ASSUME IInv, FreeModule PROVE IInv'
  OBVIOUS
<1> USE DEF FreeModule, handler, history
<1>1. TypeOK'
  BY MaxIrqsAssumption DEF IInv, TypeOK, ModStates, Window, Exiting, Faults, HandlerInv
<1>2. HandlerInv'
  BY DEF IInv, TypeOK, HandlerInv, Empty
<1>3. QueueInv'
  BY DEF IInv, TypeOK, HandlerInv, QueueInv, Once, Empty, Serving, Window, Exiting
<1>4. GoodInv'
  <2> SUFFICES ASSUME early = "no", ~misread PROVE GoodInv'
    BY DEF GoodInv
  <2>1. ~registered /\ Empty /\ ~dangling /\ ~sched
    BY DEF IInv, GoodInv, Window
  <2>2. ~Queued
    BY <2>1 DEF Empty, Queued
  <2>3. dangling' = FALSE
    BY <2>1, <2>2 DEF IInv, TypeOK
  <2> QED
    BY <2>1, <2>3 DEF GoodInv, Up
<1>5. CountInv'
  BY DEF IInv, TypeOK, HandlerInv, CountInv, AfterReset, Exiting
<1>6. LagInv'
  BY DEF IInv, TypeOK, LagInv, Up, Pending, Queued
<1> QED
  BY <1>1, <1>2, <1>3, <1>4, <1>5, <1>6 DEF IInv

LEMMA CallFreedIInv == IInv /\ CallFreed => IInv'
<1> SUFFICES ASSUME IInv, CallFreed PROVE IInv'
  OBVIOUS
<1> USE DEF CallFreed, handler, tasklet, history
<1>1. TypeOK'
  BY MaxIrqsAssumption DEF IInv, TypeOK, ModStates, Window, Exiting, Faults, HandlerInv
<1>2. HandlerInv'
  BY DEF IInv, TypeOK, HandlerInv, Empty
<1>3. QueueInv'
  BY DEF IInv, TypeOK, HandlerInv, QueueInv, Once, Empty, Serving, Window, Exiting
<1>4. GoodInv'
  BY DEF IInv, TypeOK, HandlerInv, QueueInv, GoodInv, Up, Empty, Serving, Window, Exiting
<1>5. CountInv'
  BY DEF IInv, TypeOK, HandlerInv, CountInv, AfterReset, Exiting
<1>6. LagInv'
  BY DEF IInv, TypeOK, LagInv, Up, Pending, Queued
<1> QED
  BY <1>1, <1>2, <1>3, <1>4, <1>5, <1>6 DEF IInv

LEMMA WriteParamIInv == IInv /\ WriteParam => IInv'
<1> SUFFICES ASSUME IInv, WriteParam PROVE IInv'
  OBVIOUS
<1> USE DEF WriteParam, handler, tasklet, history
<1>1. TypeOK'
  BY MaxIrqsAssumption DEF IInv, TypeOK, ModStates, Window, Exiting, Faults, HandlerInv
<1>2. HandlerInv'
  BY DEF IInv, TypeOK, HandlerInv, Empty
<1>3. QueueInv'
  BY DEF IInv, TypeOK, HandlerInv, QueueInv, Once, Empty, Serving, Window, Exiting
<1>4. GoodInv'
  BY DEF IInv, TypeOK, HandlerInv, QueueInv, GoodInv, Up, Empty, Serving, Window, Exiting
<1>5. CountInv'
  BY DEF IInv, TypeOK, HandlerInv, CountInv, AfterReset, Exiting
<1>6. LagInv'
  BY DEF IInv, TypeOK, LagInv, Up, Pending, Queued
<1> QED
  BY <1>1, <1>2, <1>3, <1>4, <1>5, <1>6 DEF IInv

---------------------------------------------------------------------------
LEMMA StepIInv == IInv /\ [Next]_vars => IInv'
<1> SUFFICES ASSUME IInv, [Next]_vars PROVE IInv'
  OBVIOUS
<1>1. CASE UNCHANGED vars
  BY <1>1 DEF vars, handler, tasklet, history, IInv, TypeOK, HandlerInv, QueueInv, GoodInv,
              CountInv, LagInv, Up, Empty, Once, Pending, Queued
<1>2. CASE \E c \in CPUs : Interrupt(c) \/ SoftIrq(c)
  BY <1>2, InterruptIInv, SoftIrqIInv
<1>3. CASE RequestIrq \/ SetIrq \/ ResetCount \/ TaskletInit
  BY <1>3, RequestIrqIInv, SetIrqIInv, ResetCountIInv, TaskletInitIInv
<1>4. CASE TaskletSchedule \/ LoadCount \/ StoreCount \/ tasklet_handler
  BY <1>4, TaskletScheduleIInv, LoadCountIInv, StoreCountIInv, TaskletHandlerIInv
<1>5. CASE FreeIrq \/ SyncIrq \/ KillGrab \/ KillDone \/ FreeModule
  BY <1>5, FreeIrqIInv, SyncIrqIInv, KillGrabIInv, KillDoneIInv, FreeModuleIInv
<1>6. CASE CallFreed \/ WriteParam
  BY <1>6, CallFreedIInv, WriteParamIInv
<1> QED
  BY <1>1, <1>2, <1>3, <1>4, <1>5, <1>6 DEF Next

LEMMA Invariance == Spec => []IInv
BY InitIInv, StepIInv, PTL DEF Spec

(* On any number of processors, a fault of the kernel and a handler or     *)
(* tasklet that outlives the module have one of two causes: an interrupt   *)
(* before tasklet_init (myirq.c:55), or a parameter rewritten before it is *)
(* read again (myirq.c:52). Without them free_irq and tasklet_kill leave   *)
(* nothing registered, queued or running.                                  *)
THEOREM OnlyWindowsFault == Spec => []FaultNeedsWindow
<1>1. IInv => FaultNeedsWindow
  <2> SUFFICES ASSUME IInv, early = "no", ~misread
               PROVE  /\ Up /\ ~dangling
                      /\ mod \in {"exited", "unloaded"} =>
                            ~registered /\ hpc = "idle" /\ ~Queued /\ ~sched /\ run = NoCPU
    BY DEF FaultNeedsWindow
  <2>1. /\ Up /\ ~dangling
        /\ mod \in {"exited", "unloaded"} => ~registered /\ ~sched /\ run = NoCPU
    BY DEF IInv, GoodInv, Window
  <2>2. mod \in {"exited", "unloaded"} => hpc = "idle" /\ Empty
    BY DEF IInv, HandlerInv, GoodInv
  <2> QED
    BY <2>1, <2>2 DEF Empty, Queued
<1> QED
  BY <1>1, Invariance, PTL

(* Although dev_data->count = 0 (myirq.c:54) races with count++ of a       *)
(* handler that already runs (myirq.c:33), no interrupt is counted twice   *)
(* and only those that began before the reset can be missing.              *)
THEOREM CountIsAccounted == Spec => []CountAccounts
<1>1. IInv => CountAccounts
  BY DEF IInv, CountInv, CountAccounts, AfterReset
<1> QED
  BY <1>1, Invariance, PTL

(* When no run of the bottom half is pending, the count it printed last is *)
(* at most one behind: scheduling before counting (myirq.c:32-33) loses    *)
(* sight of one interrupt at most, on any number of processors.            *)
THEOREM BottomHalfLag == Spec => []LagAtMostOne
<1>1. IInv => LagAtMostOne
  BY DEF IInv, LagInv, LagAtMostOne, Pending
<1> QED
  BY <1>1, Invariance, PTL

=============================================================================
