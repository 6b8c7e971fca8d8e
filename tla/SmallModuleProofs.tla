------------------------- MODULE SmallModuleProofs -------------------------
(***************************************************************************)
(* What holds of the two smallest kernel modules that start something of   *)
(* their own: the heartbeat timer, for every period, and the list with its *)
(* thread, for a list of every length.                                     *)
(***************************************************************************)
EXTENDS Heartbeat, MyListOpt, Integers, WellFoundedInduction, TLAPS

(* SafeUnload and RaceDoomed are not inductive by themselves: they need to *)
(* know which states of the memory, the queue and the callback go with     *)
(* which stage of the module's life.                                       *)
LifeInv ==
    /\ mod \in {"live", "deleted"} /\ Up => mem = "allocated"
    /\ mod \in {"exited", "unloaded"} /\ Up => mem # "allocated"
    /\ mod = "unloaded" /\ Up => ~running
    /\ mod = "deleted" /\ (pending \/ running) => raced
    /\ mod = "exited" /\ running => raced
    /\ stale => raced
    /\ mod \in {"exited", "unloaded"} => ~pending

IInv == TypeOK /\ LifeInv /\ SafeUnload /\ RaceDoomed /\ SpacingInv

LEMMA InitIInv == Init => IInv
<1> SUFFICES ASSUME Init PROVE IInv
  OBVIOUS
<1>1. TypeOK
  <2>1. left \in 0..Period /\ age \in 0..Period
    BY PeriodAssumption DEF Init
  <2> QED
    BY <2>1 DEF Init, TypeOK, ModStates, Faults
<1>2. LifeInv /\ SafeUnload /\ RaceDoomed /\ SpacingInv
  BY DEF Init, LifeInv, SafeUnload, RaceDoomed, SpacingInv, Up
<1> QED
  BY <1>1, <1>2 DEF IInv

(* Each part of the invariant is preserved by every action.                *)
LEMMA NextIInv == IInv /\ [Next]_vars => IInv'
<1> SUFFICES ASSUME IInv, [Next]_vars PROVE IInv'
  OBVIOUS
<1> USE FirstAssumption, PeriodAssumption
    DEF IInv, TypeOK, LifeInv, SafeUnload, RaceDoomed, SpacingInv, Up, ModStates, Faults
<1>1. CASE mytimer_init
  <2>1. CASE InitOk
    BY <1>1, <2>1 DEF mytimer_init, InitOk, ModTimer
  <2>2. CASE InitNoMemory
    BY <1>1, <2>2 DEF mytimer_init, InitNoMemory
  <2> QED
    BY <1>1, <2>1, <2>2 DEF mytimer_init
<1>2. CASE os_del_timer
  BY <1>2 DEF os_del_timer
<1>3. CASE os_free_timerlist
  BY <1>3 DEF os_free_timerlist
<1>4. CASE FreeModule
  BY <1>4 DEF FreeModule
<1>5. CASE qgpu_heartbeat_callback
  <2> running /\ running' = FALSE /\ UNCHANGED <<mod, mem, age, stale, raced>>
    BY <1>5 DEF qgpu_heartbeat_callback
  <2>1. CASE mem = "allocated"
    <3>1. pending' = TRUE /\ left' = Period /\ UNCHANGED fault
      BY <1>5, <2>1 DEF qgpu_heartbeat_callback, ModTimer
    <3>2. left' \in 0..Period /\ age' + left' >= Period
      BY <3>1
    <3>3. TypeOK' /\ SpacingInv'
      BY <3>1, <3>2
    <3>4. LifeInv' /\ SafeUnload' /\ RaceDoomed'
      BY <1>5, <2>1, <3>1 DEF qgpu_heartbeat_callback
    <3> QED
      BY <3>3, <3>4
  <2>2. CASE mem # "allocated"
    <3>1. raced
      BY <1>5, <2>2 DEF qgpu_heartbeat_callback
    <3>2. fault' = "use_after_free" /\ UNCHANGED <<pending, left>>
      BY <1>5, <2>2 DEF qgpu_heartbeat_callback
    <3> QED
      BY <3>1, <3>2
  <2> QED
    BY <2>1, <2>2
<1>6. CASE Tick
  <2>1. age' \in 0..Period /\ left' \in 0..Period
    BY <1>6 DEF Tick
  <2>2. SpacingInv'
    BY <1>6 DEF Tick
  <2> QED
    BY <1>6, <2>1, <2>2 DEF Tick
<1>7. CASE Expire
  BY <1>7 DEF Expire
<1>8. CASE ExpireStale
  BY <1>8 DEF ExpireStale
<1>9. CASE UNCHANGED vars
  BY <1>9 DEF vars
<1> QED
  BY <1>1, <1>2, <1>3, <1>4, <1>5, <1>6, <1>7, <1>8, <1>9 DEF Next

LEMMA SpecIInv == Spec => []IInv
BY InitIInv, NextIInv, PTL DEF Spec

(* Every reachable state has its declared shape; in particular the number  *)
(* of jiffies left never goes below zero or above Period.                  *)
THEOREM TypeCorrect == Spec => []TypeOK
<1>1. IInv => TypeOK
  BY DEF IInv
<1> QED
  BY <1>1, SpecIInv, PTL

(* Freed timer memory is touched only after an exit that overlapped the    *)
(* callback (timer.c:94-98), for every timing.                             *)
THEOREM UnloadSafety == Spec => []SafeUnload
<1>1. IInv => SafeUnload
  BY DEF IInv
<1> QED
  BY <1>1, SpecIInv, PTL

(* After such an overlap a use of freed memory is always still pending     *)
(* until the kernel faults.                                                *)
THEOREM RaceIsDoomed == Spec => []RaceDoomed
<1>1. IInv => RaceDoomed
  BY DEF IInv
<1> QED
  BY <1>1, SpecIInv, PTL

(* Two beats of one load are at least Period jiffies apart (timer.c:82).   *)
THEOREM BeatsAreSpaced == Spec => BeatSpacing
<1>1. IInv /\ [Next]_vars => [~running /\ running' => age >= Period]_vars
  <2> SUFFICES ASSUME IInv, Next, ~running, running' PROVE age >= Period
    OBVIOUS
  <2>1. Expire
    BY DEF Next, mytimer_init, os_del_timer, os_free_timerlist, FreeModule,
           qgpu_heartbeat_callback, Tick, ExpireStale
  <2> QED
    BY <2>1, PeriodAssumption DEF Expire, IInv, TypeOK, SpacingInv
<1> QED
  BY <1>1, SpecIInv, PTL DEF Spec, BeatSpacing

---------------------------------------------------------------------------
(* The list and the thread. While init deletes, the even ids below i are   *)
(* followed by all ids from i on, up to the one that was not allocated.    *)
Below == IF i < failed THEN i ELSE failed
Evens == (Below + 1) \div 2
Thinned == [k \in 1..(Evens + failed - Below) |->
               IF k <= Evens THEN 2 * (k - 1) ELSE Below + (k - 1 - Evens)]

OrderInv ==
    /\ stage = "adding" => failed = N /\ myList = [k \in 1..i |-> k - 1]
    /\ stage = "deleting" => myList = Thinned
    /\ stage \in {"exiting", "stopping"} => myList = <<>>

ThreadInv ==
    /\ stage \in {"adding", "deleting", "starting"} => thread = "none"
    /\ CleanUnload

ListInv == ListTypeOK /\ OrderInv /\ ThreadInv /\ ListAndHeap

(* A set of naturals that is not empty has a least element.                *)
LEMMA Least ==
    ASSUME NEW T, T \subseteq Nat, T # {}
    PROVE  \E n \in T : \A m \in T : n <= m
<1>1. IsWellFoundedOn(OpToRel(<, Nat), Nat)
  BY NatLessThanWellFounded
<1>2. PICK n \in T : \A y \in T : ~(<<y, n>> \in OpToRel(<, Nat))
  BY <1>1, WFMin
<1>3. \A y \in T : ~(y < n)
  BY <1>2 DEF OpToRel
<1> QED
  BY <1>3

(* One more element, and how a function that is computed element by        *)
(* element is known once it is known for the element before.               *)
OneMore(id, del_all, f, n) ==
    IF n = 0 THEN <<>>
    ELSE IF myList[n] = id \/ del_all THEN f[n - 1]
    ELSE Append(f[n - 1], myList[n])

LEMMA LeftIs ==
    ASSUME NEW id, NEW del_all \in BOOLEAN, NEW g, Len(myList) \in Nat,
           g = [n \in 0..Len(myList) |-> OneMore(id, del_all, g, n)]
    PROVE  Left(id, del_all) = g[Len(myList)]
<1> DEFINE Body(f) == [n \in 0..Len(myList) |-> OneMore(id, del_all, f, n)]
           kept == CHOOSE f : f = Body(f)
<1>1. kept = Body(kept)
  <2> HIDE DEF Body
  <2> QED
    BY DEF Body
<1>2. Left(id, del_all) = kept[Len(myList)]
  BY DEF Left, OneMore
<1> HIDE DEF kept
<1> DEFINE T == {n \in 0..Len(myList) : kept[n] # g[n]}
<1>3. T = {}
  <2> SUFFICES ASSUME T # {} PROVE FALSE
    OBVIOUS
  <2>1. PICK n \in T : \A m \in T : n <= m
    <3>1. T \subseteq Nat
      OBVIOUS
    <3> HIDE DEF T
    <3> QED
      BY <3>1, Least
  <2>2. n \in 0..Len(myList) /\ kept[n] # g[n]
    BY <2>1
  <2>3. kept[n] = OneMore(id, del_all, kept, n) /\ g[n] = OneMore(id, del_all, g, n)
    BY <1>1, <2>2
  <2>4. n # 0
    BY <2>2, <2>3 DEF OneMore
  <2>5. n - 1 \in 0..Len(myList) /\ ~(n <= n - 1)
    BY <2>2, <2>4
  <2>6. kept[n - 1] = g[n - 1]
    BY <2>1, <2>5
  <2> QED
    BY <2>2, <2>3, <2>6 DEF OneMore
<1> QED
  BY <1>2, <1>3

(* All elements go.                                                        *)
LEMMA NothingLeft ==
    ASSUME myList \in Seq(Nat)
    PROVE  Left(0, TRUE) = <<>>
<1> DEFINE g == [n \in 0..Len(myList) |-> <<>>]
<1>1. Len(myList) \in Nat
  OBVIOUS
<1>2. \A n \in 0..Len(myList) : g[n] = OneMore(0, TRUE, g, n)
  BY <1>1 DEF OneMore
<1>3. g = [n \in 0..Len(myList) |-> OneMore(0, TRUE, g, n)]
  BY <1>2
<1>4. g[Len(myList)] = <<>>
  BY <1>1
<1> HIDE DEF g
<1> QED
  BY <1>1, <1>3, <1>4, LeftIs

(* At most one element goes; j is its place, or one after the list.        *)
Without(j) == [k \in 1..(IF j <= Len(myList) THEN Len(myList) - 1 ELSE Len(myList)) |->
                  IF k < j THEN myList[k] ELSE myList[k + 1]]

LEMMA OneUnlinked ==
    ASSUME myList \in Seq(Nat), NEW id, NEW j \in 1..(Len(myList) + 1),
           \A k \in 1..Len(myList) : myList[k] = id <=> k = j
    PROVE  Left(id, FALSE) = Without(j)
<1> DEFINE Upto(n) == [k \in 1..(IF j <= n THEN n - 1 ELSE n) |->
                          IF k < j THEN myList[k] ELSE myList[k + 1]]
           g == [n \in 0..Len(myList) |-> Upto(n)]
<1>1. Len(myList) \in Nat /\ \A k \in 1..Len(myList) : myList[k] \in Nat
  OBVIOUS
<1>2. ASSUME NEW n \in 0..Len(myList)
      PROVE  /\ n = 0 => Upto(n) = <<>>
             /\ n = j => Upto(n) = Upto(n - 1)
             /\ n # 0 /\ n # j => Upto(n) = Append(Upto(n - 1), myList[n])
  <2>1. n = 0 => Upto(n) = <<>>
    OBVIOUS
  <2>2. n = j => Upto(n) = Upto(n - 1)
    BY <1>1
  <2>3. ASSUME n # 0, n # j PROVE Upto(n) = Append(Upto(n - 1), myList[n])
    <3> DEFINE u == Upto(n - 1)
               v == Upto(n)
               w == Append(u, myList[n])
    <3>1. CASE n < j
      <4>1. u = [k \in 1..(n - 1) |-> myList[k]] /\ v = [k \in 1..n |-> myList[k]]
        BY <1>1, <3>1
      <4> HIDE DEF u, v
      <4>2. u \in Seq(Nat) /\ Len(u) = n - 1 /\ v \in Seq(Nat) /\ Len(v) = n
        BY <1>1, <2>3, <4>1
      <4>3. \A k \in 1..n : v[k] = w[k]
        BY <1>1, <2>3, <4>1, <4>2
      <4>4. w \in Seq(Nat) /\ Len(w) = n
        BY <1>1, <2>3, <4>2
      <4> HIDE DEF w
      <4>5. v = w
        BY <4>2, <4>3, <4>4
      <4> QED
        BY <4>5 DEF u, v, w
    <3>2. CASE n > j
      <4>1. /\ u = [k \in 1..(n - 2) |-> IF k < j THEN myList[k] ELSE myList[k + 1]]
            /\ v = [k \in 1..(n - 1) |-> IF k < j THEN myList[k] ELSE myList[k + 1]]
        BY <1>1, <3>2
      <4> HIDE DEF u, v
      <4>2. u \in Seq(Nat) /\ Len(u) = n - 2 /\ v \in Seq(Nat) /\ Len(v) = n - 1
        BY <1>1, <2>3, <3>2, <4>1
      <4>3. \A k \in 1..(n - 1) : v[k] = w[k]
        BY <1>1, <2>3, <3>2, <4>1, <4>2
      <4>4. w \in Seq(Nat) /\ Len(w) = n - 1 /\ n - 1 \in Nat
        BY <1>1, <2>3, <3>2, <4>2
      <4> DEFINE l == n - 1
      <4> HIDE DEF w, l
      <4>5. v = w
        <5>1. /\ v \in Seq(Nat) /\ w \in Seq(Nat) /\ Len(v) = l /\ Len(w) = l /\ l \in Nat
              /\ \A k \in 1..l : v[k] = w[k]
          BY <4>2, <4>3, <4>4 DEF l
        <5> QED
          BY <5>1
      <4> QED
        BY <4>5 DEF u, v, w
    <3> QED
      BY <2>3, <3>1, <3>2
  <2> QED
    BY <2>1, <2>2, <2>3
<1>3. Without(j) = Upto(Len(myList))
  BY DEF Without
<1> HIDE DEF Upto
<1>4. \A n \in 0..Len(myList) : g[n] = OneMore(id, FALSE, g, n)
  <2> SUFFICES ASSUME NEW n \in 0..Len(myList) PROVE g[n] = OneMore(id, FALSE, g, n)
    OBVIOUS
  <2>1. n # 0 => n - 1 \in 0..Len(myList) /\ n \in 1..Len(myList)
    BY <1>1
  <2> QED
    BY <1>2, <2>1 DEF OneMore
<1>5. g = [n \in 0..Len(myList) |-> OneMore(id, FALSE, g, n)]
  BY <1>4
<1>6. g[Len(myList)] = Without(j)
  BY <1>1, <1>3
<1> HIDE DEF g
<1> QED
  BY <1>1, <1>5, <1>6, LeftIs

(* What DelOdd finds and leaves.                                           *)
LEMMA ThinnedType ==
    ASSUME i \in Nat, failed \in Nat
    PROVE  /\ Below \in 0..failed /\ Below <= i /\ Evens \in Nat /\ Evens <= Below
           /\ Evens = (Below + 1) \div 2
           /\ Len(Thinned) = Evens + failed - Below
           /\ Thinned \in Seq(0..(failed - 1))
<1>1. Below \in 0..failed /\ Below <= i
  BY DEF Below
<1>2. Evens \in Nat /\ Evens <= Below /\ Evens = (Below + 1) \div 2 /\ 2 * Evens <= Below + 1
  BY <1>1 DEF Evens
<1> HIDE DEF Below, Evens
<1> DEFINE l == Evens + failed - Below
<1>3. l \in Nat /\ \A k \in 1..l : /\ k <= Evens => 2 * (k - 1) \in 0..(failed - 1)
                                  /\ ~(k <= Evens) => Below + (k - 1 - Evens) \in 0..(failed - 1)
  BY <1>1, <1>2
<1>4. Thinned = [k \in 1..l |-> IF k <= Evens THEN 2 * (k - 1) ELSE Below + (k - 1 - Evens)]
  BY DEF Thinned
<1> HIDE DEF l
<1>5. Thinned \in Seq(0..(failed - 1)) /\ Len(Thinned) = l
  <2> DEFINE S == 0..(failed - 1)
             e(k) == IF k <= Evens THEN 2 * (k - 1) ELSE Below + (k - 1 - Evens)
  <2>1. ASSUME NEW k \in 1..l PROVE e(k) \in S
    <3>1. CASE k <= Evens
      <4>1. e(k) = 2 * (k - 1)
        BY <3>1
      <4>2. 2 * (k - 1) \in S
        BY <1>1, <1>2, <1>3, <3>1
      <4> QED
        BY <4>1, <4>2
    <3>2. CASE ~(k <= Evens)
      BY <1>3, <3>2
    <3> QED
      BY <3>1, <3>2
  <2> HIDE DEF S, e
  <2>2. [k \in 1..l |-> e(k)] \in Seq(S) /\ Len([k \in 1..l |-> e(k)]) = l
    BY <1>3, <2>1
  <2> QED
    BY <1>4, <2>2 DEF S, e
<1> QED
  BY <1>1, <1>2, <1>5 DEF l

(* The element with number i is the one after the even ones, if the list   *)
(* goes so far.                                                            *)
LEMMA WhereIsI ==
    ASSUME i \in Nat, failed \in Nat, myList = Thinned, i % 2 = 1
    PROVE  LET j == IF i < failed THEN Evens + 1 ELSE Len(myList) + 1
           IN  /\ j \in 1..(Len(myList) + 1)
               /\ \A k \in 1..Len(myList) : myList[k] = i <=> k = j
<1>1. /\ Below \in 0..failed /\ Below <= i /\ Evens \in Nat /\ Evens <= Below
      /\ Evens = (Below + 1) \div 2 /\ Len(myList) = Evens + failed - Below
  BY ThinnedType
<1>2. \A k \in 1..Len(myList) :
         myList[k] = IF k <= Evens THEN 2 * (k - 1) ELSE Below + (k - 1 - Evens)
  BY <1>1 DEF Thinned
<1>3. Below = IF i < failed THEN i ELSE failed
  BY DEF Below
<1> HIDE DEF Below, Evens
<1>4. CASE i < failed
  <2>1. Below = i /\ 2 * Evens = i + 1
    BY <1>1, <1>3, <1>4
  <2> QED
    BY <1>1, <1>2, <1>4, <2>1
<1>5. CASE ~(i < failed)
  <2>1. Below = failed /\ Evens \in Nat /\ Len(myList) = Evens
    BY <1>1, <1>3, <1>5
  <2>2. \A k \in 1..Len(myList) : myList[k] < i
    BY <1>1, <1>2, <1>5, <2>1
  <2> QED
    BY <1>5, <2>1, <2>2
<1> QED
  BY <1>4, <1>5

(* The list is thinned one number further.                                 *)
LEMMA ThinnedFurther ==
    ASSUME i \in Nat, failed \in Nat, myList = Thinned, i' = i + 1, failed' = failed,
           IF i % 2 = 1 THEN myList' = Left(i, FALSE) ELSE myList' = myList
    PROVE  myList' = Thinned'
<1>1. /\ Below \in 0..failed /\ Below <= i /\ Evens \in Nat /\ Evens <= Below
      /\ Evens = (Below + 1) \div 2 /\ Len(myList) = Evens + failed - Below
      /\ myList \in Seq(Nat)
  <2>1. Thinned \in Seq(Nat)
    BY ThinnedType
  <2> QED
    BY <2>1, ThinnedType
<1>2. myList = [k \in 1..(Evens + failed - Below) |->
                   IF k <= Evens THEN 2 * (k - 1) ELSE Below + (k - 1 - Evens)]
  BY DEF Thinned
<1>3. Thinned' = [k \in 1..(Evens' + failed - Below') |->
                     IF k <= Evens' THEN 2 * (k - 1) ELSE Below' + (k - 1 - Evens')]
  BY DEF Thinned
<1>4. /\ Below = IF i < failed THEN i ELSE failed
      /\ Below' = IF i + 1 < failed THEN i + 1 ELSE failed
      /\ Evens' = (Below' + 1) \div 2
  BY DEF Below, Evens
<1> HIDE DEF Below, Evens, Thinned
<1>5. CASE i % 2 = 1
  <2> DEFINE j == IF i < failed THEN Evens + 1 ELSE Len(myList) + 1
  <2>1. j \in 1..(Len(myList) + 1) /\ \A k \in 1..Len(myList) : myList[k] = i <=> k = j
    BY <1>5, WhereIsI
  <2>2. myList' = Without(j)
    <3> HIDE DEF j
    <3> QED
      BY <1>1, <1>5, <2>1, OneUnlinked
  <2>3. CASE i < failed
    <3>1. Below = i /\ Below' = i + 1 /\ 2 * Evens = i + 1 /\ Evens' = Evens
      BY <1>1, <1>4, <1>5, <2>3
    <3>2. Without(j) = [k \in 1..(Len(myList) - 1) |->
                           IF k < Evens + 1 THEN myList[k] ELSE myList[k + 1]]
      BY <1>1, <2>3, <3>1 DEF Without
    <3>3. Len(myList) - 1 = Evens' + failed - Below'
      BY <1>1, <2>3, <3>1
    <3>4. \A k \in 1..(Len(myList) - 1) :
             (IF k < Evens + 1 THEN myList[k] ELSE myList[k + 1])
             = IF k <= Evens' THEN 2 * (k - 1) ELSE Below' + (k - 1 - Evens')
      BY <1>1, <1>2, <2>3, <3>1
    <3> QED
      BY <1>3, <2>2, <3>2, <3>3, <3>4
  <2>4. CASE ~(i < failed)
    <3>1. Below = failed /\ Below' = failed /\ Evens' = Evens
      BY <1>1, <1>4, <2>4
    <3>2. Without(j) = [k \in 1..Len(myList) |-> myList[k]]
      BY <1>1, <2>4 DEF Without
    <3>3. Without(j) = myList
      <4>1. myList = [k \in 1..Len(myList) |-> myList[k]]
        BY <1>1, <1>2
      <4> QED
        BY <3>2, <4>1
    <3> QED
      BY <1>2, <1>3, <2>2, <3>1, <3>3
  <2> QED
    BY <2>3, <2>4
<1>6. CASE i % 2 # 1
  <2>1. CASE i < failed
    <3>1. Below = i /\ Below' = i + 1 /\ 2 * Evens = i /\ Evens' = Evens + 1
      BY <1>1, <1>4, <1>6, <2>1
    <3>2. Evens' + failed - Below' = Evens + failed - Below
      BY <1>1, <2>1, <3>1
    <3>3. \A k \in 1..(Evens + failed - Below) :
             (IF k <= Evens THEN 2 * (k - 1) ELSE Below + (k - 1 - Evens))
             = IF k <= Evens' THEN 2 * (k - 1) ELSE Below' + (k - 1 - Evens')
      BY <1>1, <2>1, <3>1
    <3> QED
      BY <1>2, <1>3, <1>6, <3>2, <3>3
  <2>2. CASE ~(i < failed)
    <3>1. Below = failed /\ Below' = failed /\ Evens' = Evens
      BY <1>1, <1>4, <2>2
    <3> QED
      BY <1>2, <1>3, <1>6, <3>1
  <2> QED
    BY <2>1, <2>2
<1> QED
  BY <1>5, <1>6

LEMMA WithoutType ==
    ASSUME NEW S, myList \in Seq(S), NEW j \in 1..(Len(myList) + 1)
    PROVE  Without(j) \in Seq(S)
<1> DEFINE l == IF j <= Len(myList) THEN Len(myList) - 1 ELSE Len(myList)
           e(k) == IF k < j THEN myList[k] ELSE myList[k + 1]
<1>1. Len(myList) \in Nat /\ \A k \in 1..Len(myList) : myList[k] \in S
  OBVIOUS
<1>2. l \in Nat /\ \A k \in 1..l : e(k) \in S
  BY <1>1
<1>3. Without(j) = [k \in 1..l |-> e(k)]
  BY DEF Without
<1> HIDE DEF l, e
<1> QED
  BY <1>2, <1>3

(* An unlinked element is freed and no other.                              *)
LEMMA FreedAreUnlinked ==
    ASSUME myList \in Seq(Nat), NEW id, NEW j \in 1..(Len(myList) + 1),
           \A k \in 1..Len(myList) : myList[k] = id <=> k = j,
           heap = InList, myList' = Without(j), heap' = heap \ {e \in InList : e = id}
    PROVE  heap' = InList'
<1>1. Len(myList) \in Nat /\ DOMAIN myList = 1..Len(myList)
  OBVIOUS
<1>2. DOMAIN myList' = 1..(IF j <= Len(myList) THEN Len(myList) - 1 ELSE Len(myList))
      /\ \A k \in DOMAIN myList' : myList'[k] = IF k < j THEN myList[k] ELSE myList[k + 1]
  BY DEF Without
<1>3. ASSUME NEW e \in heap' PROVE e \in InList'
  <2>1. PICK k \in 1..Len(myList) : myList[k] = e /\ k # j
    BY <1>1, <1>3 DEF InList
  <2>2. CASE k < j
    <3>1. k \in DOMAIN myList' /\ myList'[k] = e
      BY <1>1, <1>2, <2>1, <2>2
    <3> QED
      BY <3>1 DEF InList
  <2>3. CASE ~(k < j)
    <3>1. k - 1 \in DOMAIN myList' /\ myList'[k - 1] = e
      BY <1>1, <1>2, <2>1, <2>3
    <3> QED
      BY <3>1 DEF InList
  <2> QED
    BY <2>2, <2>3
<1>4. ASSUME NEW e \in InList' PROVE e \in heap'
  <2>1. PICK k \in DOMAIN myList' : myList'[k] = e
    BY <1>4 DEF InList
  <2>2. \E n \in 1..Len(myList) : n # j /\ myList[n] = e
    <3>1. CASE k < j
      BY <1>1, <1>2, <2>1, <3>1
    <3>2. CASE ~(k < j)
      <4>1. k + 1 \in 1..Len(myList) /\ k + 1 # j /\ myList[k + 1] = e
        BY <1>1, <1>2, <2>1, <3>2
      <4> QED
        BY <4>1
    <3> QED
      BY <3>1, <3>2
  <2> QED
    BY <1>1, <2>2 DEF InList
<1> QED
  BY <1>3, <1>4

LEMMA ListInitInv == ListInit => ListInv
<1> SUFFICES ASSUME ListInit PROVE ListInv
  OBVIOUS
<1>1. stop \in BOOLEAN /\ leaked \in BOOLEAN /\ myList \in Seq(0..(N - 1)) /\ DOMAIN myList = {}
  <2>1. stop \in BOOLEAN /\ leaked \in BOOLEAN
    BY DEF ListInit
  <2>2. myList \in Seq(0..(N - 1)) /\ DOMAIN myList = {}
    BY DEF ListInit
  <2> QED
    BY <2>1, <2>2
<1>2. ListTypeOK
  BY <1>1, NAssumption, MaxTimesAssumption DEF ListInit, ListTypeOK
<1>3. OrderInv /\ ThreadInv /\ ListAndHeap
  BY <1>1 DEF ListInit, OrderInv, ThreadInv, CleanUnload, ListAndHeap, InList
<1> QED
  BY <1>2, <1>3 DEF ListInv

LEMMA ListStepInv == ListInv /\ [ListNext]_listVars => ListInv'
<1> SUFFICES ASSUME ListInv, [ListNext]_listVars PROVE ListInv'
  OBVIOUS
<1>0. ListTypeOK /\ OrderInv /\ ThreadInv /\ ListAndHeap
  BY DEF ListInv
<1>1. ASSUME UNCHANGED <<i, failed>> PROVE Thinned' = Thinned
  BY <1>1 DEF Thinned, Below, Evens
<1>2. ASSUME UNCHANGED myList PROVE InList' = InList
  BY <1>2 DEF InList
<1>3. CASE UNCHANGED listVars
  <2>1. UNCHANGED <<stage, i, myList, heap, failed, thread, stop, entry_times, leaked>>
    BY <1>3 DEF listVars, list
  <2>2. ListTypeOK' /\ OrderInv' /\ ThreadInv'
    BY <1>0, <1>1, <2>1 DEF ListTypeOK, OrderInv, ThreadInv, CleanUnload
  <2>3. ListAndHeap'
    BY <1>0, <1>2, <2>1 DEF ListAndHeap
  <2> QED
    BY <2>2, <2>3 DEF ListInv
<1>4. CASE Load
  <2>1. stop' \in BOOLEAN /\ leaked' \in BOOLEAN
    BY <1>0, <1>4 DEF Load, ListTypeOK
  <2>2. myList' \in Seq(0..(N - 1)) /\ DOMAIN myList' = {} /\ myList' = [k \in 1..i' |-> k - 1]
    BY <1>4 DEF Load
  <2>3. ListTypeOK'
    BY <1>4, <2>1, <2>2, NAssumption, MaxTimesAssumption DEF Load, ListTypeOK
  <2>4. OrderInv' /\ ThreadInv' /\ ListAndHeap'
    BY <1>4, <2>2 DEF Load, OrderInv, ThreadInv, CleanUnload, ListAndHeap, InList
  <2> QED
    BY <2>3, <2>4 DEF ListInv
<1>5. CASE AddOne
  <2>1. /\ stage = "adding" /\ i < N /\ i \in Nat /\ i' = i + 1 /\ myList' = Append(myList, i)
        /\ heap' = heap \cup {i}
        /\ UNCHANGED <<stage, failed, thread, stop, entry_times, leaked>>
        /\ failed = N /\ myList = [k \in 1..i |-> k - 1] /\ myList \in Seq(0..(N - 1))
        /\ heap = InList
    BY <1>0, <1>5 DEF AddOne, ListTypeOK, OrderInv, ListAndHeap
  <2>2. Len(myList) = i /\ Len(myList') = i + 1 /\ myList' \in Seq(0..(N - 1))
    BY <2>1, NAssumption
  <2>3. \A k \in 1..(i + 1) : myList'[k] = k - 1
    BY <2>1, <2>2
  <2>4. DOMAIN myList' = 1..(i + 1)
    BY <2>1, <2>2
  <2>5. myList' = [k \in 1..(i + 1) |-> k - 1]
    BY <2>2, <2>3, <2>4
  <2>6. heap' = InList'
    <3>1. InList = {k - 1 : k \in 1..i} /\ InList' = {k - 1 : k \in 1..(i + 1)}
      BY <2>1, <2>5 DEF InList
    <3> QED
      BY <2>1, <3>1
  <2>7. ListTypeOK'
    BY <1>0, <2>1, <2>2, NAssumption DEF ListTypeOK
  <2>8. OrderInv' /\ ThreadInv' /\ ListAndHeap'
    BY <1>0, <2>1, <2>5, <2>6 DEF OrderInv, ThreadInv, CleanUnload, ListAndHeap
  <2> QED
    BY <2>7, <2>8 DEF ListInv
<1>6. CASE AddFails \/ AddDone
  <2>1. /\ stage = "adding" /\ stage' = "deleting" /\ i \in Nat /\ failed' = i /\ i' = 0
        /\ UNCHANGED <<myList, heap, thread, stop, entry_times, leaked>>
        /\ myList = [k \in 1..i |-> k - 1]
    BY <1>0, <1>6 DEF AddFails, AddDone, ListTypeOK, OrderInv
  <2>2. Below' = 0 /\ Evens' = 0
    BY <2>1 DEF Below, Evens
  <2>3. Thinned' = [k \in 1..i |-> k - 1]
    <3>1. Thinned' = [k \in 1..(0 + i - 0) |-> IF k <= 0 THEN 2 * (k - 1) ELSE 0 + (k - 1 - 0)]
      BY <2>1, <2>2 DEF Thinned
    <3> QED
      BY <2>1, <3>1
  <2>4. ListTypeOK' /\ OrderInv' /\ ThreadInv'
    BY <1>0, <2>1, <2>3, NAssumption DEF ListTypeOK, OrderInv, ThreadInv, CleanUnload
  <2>5. ListAndHeap'
    BY <1>0, <1>2, <2>1 DEF ListAndHeap
  <2> QED
    BY <2>4, <2>5 DEF ListInv
<1>7. CASE DelOdd
  <2>1. /\ stage = "deleting" /\ i < N /\ i \in Nat /\ i' = i + 1
        /\ failed \in Nat /\ failed \in 0..N
        /\ UNCHANGED <<stage, failed, thread, stop, entry_times, leaked>>
        /\ myList = Thinned /\ myList \in Seq(0..(N - 1)) /\ heap = InList
    BY <1>0, <1>7, NAssumption DEF DelOdd, ListTypeOK, OrderInv, ListAndHeap
  <2>2. CASE i % 2 = 1
    <3> DEFINE j == IF i < failed THEN Evens + 1 ELSE Len(myList) + 1
    <3>1. myList \in Seq(Nat)
      BY <2>1, NAssumption
    <3>2. j \in 1..(Len(myList) + 1) /\ \A k \in 1..Len(myList) : myList[k] = i <=> k = j
      BY <2>1, <2>2, WhereIsI
    <3> HIDE DEF j
    <3>3. myList' = Left(i, FALSE) /\ heap' = heap \ {e \in InList : e = i}
      BY <1>7, <2>2 DEF DelOdd, mylistopt_del
    <3>4. myList' = Without(j)
      BY <3>1, <3>2, <3>3, OneUnlinked
    <3>5. myList' \in Seq(0..(N - 1))
      BY <2>1, <3>2, <3>4, WithoutType
    <3>6. heap' = InList' /\ heap' \subseteq heap
      BY <2>1, <3>1, <3>2, <3>3, <3>4, FreedAreUnlinked
    <3>7. myList' = Thinned'
      BY <2>1, <2>2, <3>3, ThinnedFurther
    <3>8. ListTypeOK'
      BY <1>0, <2>1, <3>5, <3>6, NAssumption DEF ListTypeOK
    <3>9. OrderInv' /\ ThreadInv' /\ ListAndHeap'
      BY <1>0, <2>1, <3>6, <3>7 DEF OrderInv, ThreadInv, CleanUnload, ListAndHeap
    <3> QED
      BY <3>8, <3>9 DEF ListInv
  <2>3. CASE i % 2 # 1
    <3>1. UNCHANGED <<myList, heap>>
      BY <1>7, <2>3 DEF DelOdd
    <3>2. myList' = Thinned'
      BY <2>1, <2>3, <3>1, ThinnedFurther
    <3>3. ListTypeOK'
      BY <1>0, <2>1, <3>1, NAssumption DEF ListTypeOK
    <3>4. OrderInv' /\ ThreadInv' /\ ListAndHeap'
      BY <1>0, <1>2, <2>1, <3>1, <3>2 DEF OrderInv, ThreadInv, CleanUnload, ListAndHeap
    <3> QED
      BY <3>3, <3>4 DEF ListInv
  <2> QED
    BY <2>2, <2>3
<1>8. CASE DelDone
  <2>1. /\ stage = "deleting" /\ i = N /\ stage' = "starting" /\ failed \in 0..N
        /\ UNCHANGED <<i, myList, heap, failed, thread, stop, entry_times, leaked>>
        /\ myList = Thinned
    BY <1>0, <1>8 DEF DelDone, list, ListTypeOK, OrderInv
  <2>2. Below = failed /\ failed \in Nat
    BY <2>1, NAssumption DEF Below
  <2>3. Evens = (failed + 1) \div 2 /\ Evens \in Nat
    BY <2>2 DEF Evens
  <2>4. Thinned = [k \in 1..Evens |-> 2 * (k - 1)]
    <3>1. Evens + failed - Below = Evens
      BY <2>2, <2>3
    <3>2. Thinned = [k \in 1..Evens |-> IF k <= Evens THEN 2 * (k - 1)
                                        ELSE Below + (k - 1 - Evens)]
      BY <3>1 DEF Thinned
    <3> QED
      BY <2>3, <3>2
  <2>5. ListTypeOK' /\ OrderInv' /\ ThreadInv'
    BY <1>0, <2>1 DEF ListTypeOK, OrderInv, ThreadInv, CleanUnload
  <2>6. ListAndHeap'
    BY <1>0, <1>2, <2>1, <2>3, <2>4 DEF ListAndHeap
  <2> QED
    BY <2>5, <2>6 DEF ListInv
<1>9. CASE StartThread
  <2>1. /\ stage = "starting" /\ stage' = "live" /\ thread' = "woken"
        /\ UNCHANGED <<i, myList, heap, failed, stop, entry_times, leaked>>
    BY <1>9 DEF StartThread, list
  <2>2. ListTypeOK' /\ OrderInv' /\ ThreadInv'
    BY <1>0, <2>1 DEF ListTypeOK, OrderInv, ThreadInv, CleanUnload
  <2>3. ListAndHeap'
    BY <1>0, <1>2, <2>1 DEF ListAndHeap
  <2> QED
    BY <2>2, <2>3 DEF ListInv
<1>10. CASE StartFails
  <2>1. /\ stage = "starting" /\ stage' = "unloaded" /\ leaked' = (leaked \/ heap # {})
        /\ UNCHANGED <<i, myList, heap, failed, thread, stop, entry_times>>
    BY <1>10 DEF StartFails, list
  <2>2. leaked' \in BOOLEAN /\ (heap # {} => leaked')
    BY <2>1
  <2>3. ListTypeOK' /\ OrderInv' /\ ThreadInv'
    BY <1>0, <2>1, <2>2 DEF ListTypeOK, OrderInv, ThreadInv, CleanUnload
  <2>4. ListAndHeap'
    BY <1>0, <1>2, <2>1 DEF ListAndHeap
  <2> QED
    BY <2>3, <2>4 DEF ListInv
<1>11. CASE ThreadBegins \/ ThreadChecks \/ ThreadBody
  <2>1. /\ thread \in {"woken", "check", "body"} /\ thread' \in {"check", "body", "exited"}
        /\ entry_times' \in 0..MaxTimes
        /\ UNCHANGED <<stage, i, myList, heap, failed, stop, leaked>>
    BY <1>0, <1>11, MaxTimesAssumption
       DEF ThreadBegins, ThreadChecks, ThreadBody, list, ListTypeOK
  <2>2. stage \notin {"unloaded", "adding", "deleting", "starting"}
    BY <1>0, <2>1 DEF ThreadInv, CleanUnload
  <2>3. ListTypeOK' /\ OrderInv' /\ ThreadInv'
    BY <1>0, <2>1, <2>2 DEF ListTypeOK, OrderInv, ThreadInv, CleanUnload
  <2>4. ListAndHeap'
    BY <1>0, <1>2, <2>1 DEF ListAndHeap
  <2> QED
    BY <2>3, <2>4 DEF ListInv
<1>12. CASE DelAll
  <2>1. /\ stage = "live" /\ stage' = "exiting" /\ myList' = Left(0, TRUE)
        /\ heap' = heap \ {e \in InList : e = 0 \/ TRUE}
        /\ UNCHANGED <<i, failed, thread, stop, entry_times, leaked>>
        /\ heap = InList /\ myList \in Seq(0..(N - 1))
    BY <1>0, <1>12 DEF DelAll, mylistopt_del, ListTypeOK, ListAndHeap
  <2>2. heap' = {}
    BY <2>1
  <2>3. myList \in Seq(Nat)
    BY <2>1, NAssumption
  <2>4. myList' = <<>>
    BY <2>1, <2>3, NothingLeft
  <2>5. myList' \in Seq(0..(N - 1)) /\ InList' = {}
    <3>1. myList' \in Seq(0..(N - 1)) /\ DOMAIN myList' = {}
      BY <2>4
    <3> QED
      BY <3>1 DEF InList
  <2>6. ListTypeOK' /\ OrderInv' /\ ThreadInv' /\ ListAndHeap'
    BY <1>0, <2>1, <2>2, <2>4, <2>5
       DEF ListTypeOK, OrderInv, ThreadInv, CleanUnload, ListAndHeap
  <2> QED
    BY <2>6 DEF ListInv
<1>13. CASE KthreadStop \/ Stopped
  <2>1. /\ stage' \in {"stopping", "unloaded"} /\ stop' \in BOOLEAN
        /\ stage' = "unloaded" => thread = "exited"
        /\ stage \in {"exiting", "stopping"}
        /\ UNCHANGED <<i, myList, heap, failed, thread, entry_times, leaked>>
    BY <1>0, <1>13 DEF KthreadStop, Stopped, list, ListTypeOK
  <2>2. heap = {} /\ myList = <<>>
    <3>1. myList = <<>>
      BY <1>0, <2>1 DEF OrderInv
    <3>2. DOMAIN myList = {} /\ heap = InList
      BY <1>0, <3>1 DEF ListAndHeap
    <3> QED
      BY <3>1, <3>2 DEF InList
  <2>3. ListTypeOK' /\ OrderInv' /\ ThreadInv'
    BY <1>0, <2>1, <2>2 DEF ListTypeOK, OrderInv, ThreadInv, CleanUnload
  <2>4. ListAndHeap'
    BY <1>0, <1>2, <2>1 DEF ListAndHeap
  <2> QED
    BY <2>3, <2>4 DEF ListInv
<1> QED
  BY <1>3, <1>4, <1>5, <1>6, <1>7, <1>8, <1>9, <1>10, <1>11, <1>12, <1>13 DEF ListNext

LEMMA ListInvariance == ListSpec => []ListInv
BY ListInitInv, ListStepInv, PTL DEF ListSpec

(* For a list of any length and whichever allocation fails, the elements   *)
(* in memory are those in the list (mylistopt.c:67-81), and the loop of    *)
(* mylistopt_init (lines 92-96) leaves exactly the even ids, in order.     *)
THEOREM ListIsRight == ListSpec => []ListAndHeap
<1>1. ListInv => ListAndHeap
  BY DEF ListInv
<1> QED
  BY <1>1, ListInvariance, PTL

(* After an unload nothing of the module runs and its list is freed, at    *)
(* whatever moment exit and thread meet; only a load without a thread      *)
(* (mylistopt.c:102-107) leaves its list behind.                           *)
THEOREM UnloadIsClean == ListSpec => []CleanUnload
<1>1. ListInv => CleanUnload
  BY DEF ListInv, ThreadInv
<1> QED
  BY <1>1, ListInvariance, PTL
=============================================================================
