----------------------------- MODULE MyListOpt -----------------------------
(***************************************************************************)
(* The list and kernel-thread exercise, code/mylistopt/mylistopt.c. Init   *)
(* fills a list, deletes every second element and starts a thread that     *)
(* loops until it is told to stop; exit empties the list and stops the     *)
(* thread. The list is only touched by init and exit; the thread runs      *)
(* beside them.                                                            *)
(***************************************************************************)
EXTENDS Naturals, Sequences

CONSTANTS N,          \* MAX_LIST_N, 100 in the code
          MaxTimes    \* bound on the static counter entry_times

ASSUME NAssumption == N \in Nat
ASSUME MaxTimesAssumption == MaxTimes \in Nat

VARIABLES
    stage,        \* which statement of init or exit is next
    i,            \* the loop variable of mylistopt_add_all and mylistopt_init
    myList,       \* the ids in list order
    heap,         \* ids of the elements that are allocated
    failed,       \* history: the id whose allocation failed, N if none did
    thread,       \* my_kernel_task
    stop,         \* kthread_should_stop()
    entry_times,  \* how often the thread went round
    leaked        \* history: elements of failed loads, never freed

list == <<i, myList, heap, failed>>
listVars == <<stage, list, thread, stop, entry_times, leaked>>

(* Shapes of the state.                                                    *)
ListTypeOK ==
    /\ stage \in {"unloaded", "adding", "deleting", "starting", "live", "exiting", "stopping"}
    /\ i \in 0..N /\ myList \in Seq(0..(N - 1)) /\ heap \subseteq 0..(N - 1)
    /\ failed \in 0..N
    /\ thread \in {"none", "woken", "check", "body", "exited"}
    /\ stop \in BOOLEAN /\ entry_times \in 0..MaxTimes
    /\ leaked \in BOOLEAN

InList == {myList[k] : k \in DOMAIN myList}

ListInit ==
    /\ stage = "unloaded" /\ i = 0 /\ myList = <<>> /\ heap = {} /\ failed = N
    /\ thread = "none" /\ stop = FALSE /\ entry_times = 0 /\ leaked = FALSE

---------------------------------------------------------------------------
(* insmod: the module's static data is fresh.                              *)
Load ==
    /\ stage = "unloaded" /\ stage' = "adding"
    /\ i' = 0 /\ myList' = <<>> /\ heap' = {} /\ failed' = N
    /\ thread' = "none" /\ stop' = FALSE /\ entry_times' = 0
    /\ UNCHANGED leaked

(* mylistopt_add_all: one element, or give up; its result is ignored.      *)
AddOne ==
    /\ stage = "adding" /\ i < N
    /\ myList' = Append(myList, i) /\ heap' = heap \cup {i} /\ i' = i + 1
    /\ UNCHANGED <<stage, failed, thread, stop, entry_times, leaked>>

AddFails ==
    /\ stage = "adding" /\ i < N
    /\ stage' = "deleting" /\ failed' = i /\ i' = 0
    /\ UNCHANGED <<myList, heap, thread, stop, entry_times, leaked>>

AddDone ==
    /\ stage = "adding" /\ i = N
    /\ stage' = "deleting" /\ i' = 0
    /\ UNCHANGED <<myList, heap, failed, thread, stop, entry_times, leaked>>

(* list_for_each_safe: element by element, what is left of the list.       *)
Left(id, del_all) ==
    LET kept[n \in 0..Len(myList)] ==
            IF n = 0 THEN <<>>
            ELSE IF myList[n] = id \/ del_all THEN kept[n - 1]
            ELSE Append(kept[n - 1], myList[n])
    IN  kept[Len(myList)]

(* Bug: the element is unlinked and not freed.                             *)
BugDel(id, del_all) == myList' = Left(id, del_all) /\ UNCHANGED heap

(* mylistopt_del: unlink and free every element that matches.              *)
mylistopt_del(id, del_all) ==
    /\ myList' = Left(id, del_all)
    /\ heap' = heap \ {e \in InList : e = id \/ del_all}

(* One round of the deleting loop of mylistopt_init.                       *)
DelOdd ==
    /\ stage = "deleting" /\ i < N /\ i' = i + 1
    /\ IF i % 2 = 1 THEN mylistopt_del(i, FALSE) ELSE UNCHANGED <<myList, heap>>
    /\ UNCHANGED <<stage, failed, thread, stop, entry_times, leaked>>

DelDone ==
    /\ stage = "deleting" /\ i = N /\ stage' = "starting"
    /\ UNCHANGED <<list, thread, stop, entry_times, leaked>>

(* kthread_create and wake_up_process; if there is no thread the load      *)
(* fails, and what the list holds is never freed.                          *)
StartThread ==
    /\ stage = "starting" /\ stage' = "live" /\ thread' = "woken"
    /\ UNCHANGED <<list, stop, entry_times, leaked>>

StartFails ==
    /\ stage = "starting" /\ stage' = "unloaded"
    /\ leaked' = (leaked \/ heap # {})
    /\ UNCHANGED <<list, thread, stop, entry_times>>

---------------------------------------------------------------------------
(* mytask_thread_func. A thread that is stopped before it first runs never *)
(* calls it.                                                               *)
ThreadBegins ==
    /\ thread = "woken" /\ thread' = IF stop THEN "exited" ELSE "check"
    /\ UNCHANGED <<stage, list, stop, entry_times, leaked>>

(* Bug: the line the comment calls indispensable is missing.               *)
BugThreadChecks ==
    /\ thread = "check" /\ thread' = "body"
    /\ UNCHANGED <<stage, list, stop, entry_times, leaked>>

ThreadChecks ==
    /\ thread = "check" /\ thread' = IF stop THEN "exited" ELSE "body"
    /\ UNCHANGED <<stage, list, stop, entry_times, leaked>>

(* Print, count, schedule_timeout: the state is TASK_RUNNING, so that the  *)
(* call returns whenever the scheduler comes back.                         *)
ThreadBody ==
    /\ thread = "body" /\ thread' = "check"
    /\ entry_times' = IF entry_times < MaxTimes THEN entry_times + 1 ELSE entry_times
    /\ UNCHANGED <<stage, list, stop, leaked>>

---------------------------------------------------------------------------
(* mylistopt_exit: empty the list, then ask the thread to stop ...         *)
DelAll ==
    /\ stage = "live" /\ stage' = "exiting"
    /\ mylistopt_del(0, TRUE)
    /\ UNCHANGED <<i, failed, thread, stop, entry_times, leaked>>

KthreadStop ==
    /\ stage = "exiting" /\ stage' = "stopping"
    /\ stop' = TRUE
    /\ UNCHANGED <<list, thread, entry_times, leaked>>

(* Bug: exit does not wait for the thread.                                 *)
BugStopped ==
    /\ stage = "stopping" /\ stage' = "unloaded"
    /\ UNCHANGED <<list, thread, stop, entry_times, leaked>>

(* ... and wait until it has; then the module's code is freed.             *)
Stopped ==
    /\ stage = "stopping" /\ thread = "exited"
    /\ stage' = "unloaded"
    /\ UNCHANGED <<list, thread, stop, entry_times, leaked>>

ListNext ==
    \/ Load \/ AddOne \/ AddFails \/ AddDone \/ DelOdd \/ DelDone
    \/ StartThread \/ StartFails
    \/ ThreadBegins \/ ThreadChecks \/ ThreadBody
    \/ DelAll \/ KthreadStop \/ Stopped

(* The thread is scheduled, and an exit routine that was entered runs on.  *)
ListFairness ==
    /\ WF_listVars(ThreadBegins) /\ WF_listVars(ThreadChecks) /\ WF_listVars(ThreadBody)
    /\ WF_listVars(KthreadStop) /\ WF_listVars(Stopped)

ListSpec == ListInit /\ [][ListNext]_listVars
FairListSpec == ListSpec /\ ListFairness

---------------------------------------------------------------------------
(* The list at the end of init (lines 92-96) holds exactly the even ids    *)
(* that could be allocated, in order, and every element ever allocated is  *)
(* either in the list or freed: an unlinked element does not leak and a    *)
(* freed one is not left in the list.                                      *)
ListAndHeap ==
    /\ heap = InList
    /\ stage \in {"starting", "live"} =>
          myList = [k \in 1..((failed + 1) \div 2) |-> 2 * (k - 1)]

(* Once the module is gone its thread is not running, and its memory is    *)
(* freed unless the thread could not be created (lines 102-107).           *)
CleanUnload ==
    stage = "unloaded" => /\ thread \in {"none", "exited"}
                          /\ heap # {} => leaked

(* "this line must be there, otherwise the thread cannot be stopped and    *)
(* everything hangs" (line 28): with it, rmmod returns.                    *)
ExitReturns == stage = "exiting" ~> stage = "unloaded"
=============================================================================
