--------------------------- MODULE MonitorProofs ---------------------------
(***************************************************************************)
(* What the load monitor promises for every check interval, throttle and   *)
(* lateness, proved with TLAPS.                                            *)
(***************************************************************************)
EXTENDS Monitor, TLAPS

(* The fraction printed with %02lu (monitor.c:38) has two digits.          *)
LEMMA TwoDigits == \A x \in Nat : LOAD_FRAC(x) \in 0..99
BY DEF LOAD_FRAC, LOAD_INT, FIXED_1

---------------------------------------------------------------------------
(* Remainders with a variable modulus, one fact at a time.                 *)
LEMMA DivMod ==
    ASSUME NEW P \in Nat \ {0}, NEW x \in Int
    PROVE  /\ x \div P \in Int /\ x % P \in 0..P-1
           /\ x = P * (x \div P) + (x % P)
OBVIOUS

LEMMA RemainderUnique ==
    ASSUME NEW P \in Nat \ {0}, NEW q \in Int, NEW r \in 0..P-1,
           NEW q2 \in Int, NEW r2 \in 0..P-1, P * q + r = P * q2 + r2
    PROVE  r = r2
<1>1. ASSUME q < q2 PROVE FALSE
  <2>1. P * q2 >= P * (q + 1)
    BY <1>1
  <2> QED
    BY <2>1
<1>2. ASSUME q2 < q PROVE FALSE
  <2>1. P * q >= P * (q2 + 1)
    BY <1>2
  <2> QED
    BY <2>1
<1> QED
  BY <1>1, <1>2

(* Adding whole multiples does not move a point off the grid.              *)
LEMMA SameRemainder ==
    ASSUME NEW P \in Nat \ {0}, NEW x \in Int, NEW k \in Int
    PROVE  (x + P * k) % P = x % P
<1> DEFINE y == x + P * k
           q == x \div P
           r == x % P
           q2 == y \div P
           r2 == y % P
<1>1. P * k \in Int /\ y \in Int
  OBVIOUS
<1>2. /\ q \in Int /\ r \in 0..P-1 /\ x = P * q + r
      /\ q2 \in Int /\ r2 \in 0..P-1 /\ y = P * q2 + r2
  <2> HIDE DEF y
  <2> QED
    BY <1>1, DivMod
<1>3. y = x + P * k
  OBVIOUS
<1> HIDE DEF y, q, r, q2, r2
<1>4. P * (q + k) = P * q + P * k /\ P * q \in Int /\ q + k \in Int
  BY <1>2
<1>5. P * (q + k) + r = P * q2 + r2
  BY <1>1, <1>2, <1>3, <1>4
<1>6. r = r2
  BY <1>2, <1>4, <1>5, RemainderUnique
<1> QED
  BY <1>6 DEF y, r, r2

---------------------------------------------------------------------------
(* The inductive invariant. The grid is kept while the handler runs, too,  *)
(* when the timer is not queued; `since` is what the throttle looks at and *)
(* never runs ahead of the time since the last dump.                       *)
GridInv == mod # "unloaded" => (phase + due) % Interval = 0

SpacingInv == since = gap /\ (hpc = "stamp" => since = Throttle)

IInv == TypeOK /\ TimerOwned /\ GridInv /\ SpacingInv

LEMMA InitIInv == Init => IInv
<1> SUFFICES ASSUME Init PROVE IInv
  OBVIOUS
<1>1. TypeOK
  <2>1. queued \in BOOLEAN /\ avenrun \in Avenrun
    BY DEF Init
  <2>2. /\ due \in (-MaxLate)..Interval /\ phase \in 0..(Interval - 1) /\ load \in Nat
        /\ since \in 0..Throttle /\ gap \in 0..Throttle
    BY IntervalAssumption, ThrottleAssumption, MaxLateAssumption DEF Init
  <2>3. /\ mod \in {"unloaded", "live", "cancelling"}
        /\ hpc \in {"idle", "check", "throttle", "stamp", "dump", "forward"}
    BY DEF Init
  <2> QED
    BY <2>1, <2>2, <2>3 DEF TypeOK
<1>2. TimerOwned
  BY DEF Init, TimerOwned
<1>3. GridInv /\ SpacingInv
  BY DEF Init, GridInv, SpacingInv
<1> QED
  BY <1>1, <1>2, <1>3 DEF IInv

(* One tick moves the phase and the expiry by one each, modulo Interval.   *)
LEMMA TickGrid == ASSUME IInv, Tick PROVE GridInv'
<1>1. /\ mod # "unloaded" /\ mod' = mod /\ due \in Int /\ due' = due - 1
      /\ phase \in 0..Interval-1 /\ phase' = (phase + 1) % Interval
      /\ (phase + due) % Interval = 0 /\ Interval \in Nat \ {0}
  BY IntervalAssumption, MaxLateAssumption DEF Tick, IInv, TypeOK, GridInv
<1>2. CASE phase + 1 < Interval
  <2>1. phase' = phase + 1
    BY <1>1, <1>2
  <2> QED
    BY <1>1, <2>1 DEF GridInv
<1>3. CASE phase + 1 = Interval
  <2>1. phase' = 0
    BY <1>1, <1>3
  <2>2. phase' + due' = (phase + due) + Interval * (-1)
    BY <1>1, <1>3, <2>1
  <2>3. phase + due \in Int
    BY <1>1
  <2>4. ((phase + due) + Interval * (-1)) % Interval = (phase + due) % Interval
    BY <1>1, <2>3, SameRemainder
  <2> QED
    BY <1>1, <2>2, <2>4 DEF GridInv
<1> QED
  BY <1>1, <1>2, <1>3

(* hrtimer_forward_now adds a whole number of intervals.                   *)
LEMMA ForwardGrid ==
    ASSUME IInv, Forward PROVE GridInv' /\ due' \in 1..Interval
<1> DEFINE q == (-due) \div Interval
           r == (-due) % Interval
<1>1. /\ mod' = mod /\ due \in Int /\ due' = Interval - r /\ phase' = phase
      /\ phase \in Int /\ Interval \in Nat \ {0}
      /\ mod # "unloaded" => (phase + due) % Interval = 0
  BY IntervalAssumption, MaxLateAssumption DEF Forward, IInv, TypeOK, GridInv
<1>2. q \in Int /\ r \in 0..Interval-1 /\ -due = Interval * q + r
  BY <1>1, DivMod
<1> HIDE DEF q, r
<1>3. Interval * (q + 1) = Interval * q + Interval /\ Interval * q \in Int
  BY <1>1, <1>2
<1>4. phase' + due' = (phase + due) + Interval * (q + 1)
  BY <1>1, <1>2, <1>3
<1>5. ((phase + due) + Interval * (q + 1)) % Interval = (phase + due) % Interval
  <2>1. phase + due \in Int /\ q + 1 \in Int
    BY <1>1, <1>2
  <2> QED
    BY <1>1, <2>1, SameRemainder
<1>6. GridInv'
  BY <1>1, <1>4, <1>5 DEF GridInv
<1>7. due' \in 1..Interval
  BY <1>1, <1>2
<1> QED
  BY <1>6, <1>7

LEMMA NextIInv == IInv /\ [Next]_vars => IInv'
<1> SUFFICES ASSUME IInv, [Next]_vars PROVE IInv'
  OBVIOUS
<1> USE IntervalAssumption, ThrottleAssumption, MaxLateAssumption
<1>1. CASE monitor_init
  <2>1. GridInv'
    BY <1>1 DEF monitor_init, GridInv
  <2> QED
    BY <1>1, <2>1 DEF monitor_init, IInv, TypeOK, TimerOwned, SpacingInv
<1>2. CASE Tick
  <2>1. phase' \in 0..Interval-1
    BY <1>2 DEF Tick, IInv, TypeOK
  <2>2. TypeOK'
    BY <1>2, <2>1 DEF Tick, IInv, TypeOK, UpTo
  <2>3. TimerOwned' /\ SpacingInv'
    BY <1>2 DEF Tick, IInv, TypeOK, TimerOwned, SpacingInv, UpTo
  <2> QED
    BY <1>2, <2>2, <2>3, TickGrid DEF IInv
<1>3. CASE UpdateLoad
  BY <1>3 DEF UpdateLoad, IInv, TypeOK, TimerOwned, GridInv, SpacingInv
<1>4. CASE Expire
  BY <1>4 DEF Expire, IInv, TypeOK, TimerOwned, GridInv, SpacingInv
<1>5. CASE CheckLoad
  <2>1. load' \in Nat
    BY <1>5, AvenrunAssumption DEF CheckLoad, LOAD_INT, FIXED_1, IInv, TypeOK
  <2> QED
    BY <1>5, <2>1 DEF CheckLoad, IInv, TypeOK, TimerOwned, GridInv, SpacingInv
<1>6. CASE CheckThrottle
  BY <1>6 DEF CheckThrottle, IInv, TypeOK, TimerOwned, GridInv, SpacingInv
<1>7. CASE Stamp
  BY <1>7 DEF Stamp, IInv, TypeOK, TimerOwned, GridInv, SpacingInv
<1>8. CASE print_all_task_stack
  BY <1>8 DEF print_all_task_stack, IInv, TypeOK, TimerOwned, GridInv, SpacingInv
<1>9. CASE Forward
  <2>1. GridInv' /\ due' \in (-MaxLate)..Interval
    BY <1>9, ForwardGrid
  <2>2. /\ hpc = "forward" /\ hpc' = "idle" /\ queued' = TRUE
        /\ UNCHANGED <<mod, phase, avenrun, load, since, gap>>
    BY <1>9 DEF Forward
  <2> QED
    BY <2>1, <2>2 DEF IInv, TypeOK, TimerOwned, SpacingInv
<1>10. CASE monitor_exit
  BY <1>10 DEF monitor_exit, IInv, TypeOK, TimerOwned, GridInv, SpacingInv
<1>11. CASE hrtimer_cancel
  BY <1>11 DEF hrtimer_cancel, IInv, TypeOK, TimerOwned, GridInv, SpacingInv
<1>12. CASE UNCHANGED vars
  BY <1>12 DEF vars, IInv, TypeOK, TimerOwned, GridInv, SpacingInv
<1> QED
  BY <1>1, <1>2, <1>3, <1>4, <1>5, <1>6, <1>7, <1>8, <1>9, <1>10, <1>11, <1>12 DEF Next

LEMMA SpecIInv == Spec => []IInv
BY InitIInv, NextIInv, PTL DEF Spec

---------------------------------------------------------------------------
(* hrtimer_cancel in monitor_exit (monitor.c:143-147) leaves neither a     *)
(* queued timer nor a running handler, and until then none gets lost.      *)
THEOREM TimerIsOwned == Spec => []TimerOwned
<1>1. IInv => TimerOwned
  BY DEF IInv
<1> QED
  BY <1>1, SpecIInv, PTL

(* However late an interrupt and however long a dump, checks stay on the   *)
(* grid set by start_timer (monitor.c:119 and 128).                        *)
THEOREM ChecksOnGrid == Spec => []OnGrid
<1>1. IInv => OnGrid
  BY DEF IInv, TimerOwned, GridInv, OnGrid
<1> QED
  BY <1>1, SpecIInv, PTL

(* Two dumps of one load begin at least Throttle apart (monitor.c:102-109).*)
THEOREM DumpsAreSpaced == Spec => DumpSpacing
<1>1. IInv /\ [Next]_vars => [hpc = "stamp" /\ hpc' = "dump" => gap >= Throttle]_vars
  BY ThrottleAssumption DEF IInv, SpacingInv
<1> QED
  BY <1>1, SpecIInv, PTL DEF Spec, DumpSpacing
=============================================================================
