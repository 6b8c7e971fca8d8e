------------------------------ MODULE MemMap ------------------------------
(***************************************************************************)
(* The mmap driver, code/memmap/memmap.c, and the processes that use it    *)
(* (my_read.c, my_write.c and others): a vmalloc'ed area of PageCnt pages  *)
(* mapped into user space on demand by the fault handler.                  *)
(*                                                                         *)
(* Addresses and sizes are counted in pages. A mapping begins at user page *)
(* 0; giving back its front moves vm_start and vm_pgoff, as munmap does;   *)
(* mremap extends it at the end without asking the driver.                 *)
(***************************************************************************)
EXTENDS ModuleRef, FiniteSets

CONSTANTS Procs,     \* processes, each with one open file at most
          PageCnt,   \* PAGE_CNT, 1000 in the code
          MaxGrow    \* bound on the pages mremap adds to a mapping

ASSUME ProcsAssumption == IsFiniteSet(Procs)
ASSUME PageCntAssumption == PageCnt \in Nat \ {0}
ASSUME MaxGrowAssumption == MaxGrow \in Nat

VARIABLES
    dpc,       \* where the driver's init or exit routine is
    area,      \* s_vmalloc_area
    file,      \* the process's open file
    fd,        \* the process still has a descriptor for it
    vma,       \* its mapping: [on, start, len, map]; on = FALSE: none
    trimmed,   \* history: the front of this mapping was given back
    grown,     \* history: this mapping was extended
    fault      \* the first fault of the kernel

modvars == <<state, refcnt>>
driver == <<dpc, area>>
users == <<file, fd, vma, trimmed, grown>>

Addrs == 0..(PageCnt + MaxGrow - 1)
NoPage == -1
NoVma == [on |-> FALSE, start |-> 0, len |-> 0, map |-> [a \in Addrs |-> NoPage]]
Vmas == [on : BOOLEAN, start : 0..(PageCnt + MaxGrow), len : 0..(PageCnt + MaxGrow),
         map : [Addrs -> -1..(PageCnt - 1)]]

(* The user pages the mapping covers.                                      *)
Covered(v) == {a \in Addrs : v.start <= a /\ a < v.start + v.len}

MemMapTypeOK ==
    /\ state \in RefStates /\ refcnt \in Nat
    /\ dpc \in {"off", "init", "registered", "allocated", "run", "freed"}
    /\ area \in {"null", "alloc", "freed"}
    /\ file \in [Procs -> {"none", "ok", "orphan"}]
    /\ fd \in [Procs -> BOOLEAN]
    /\ vma \in [Procs -> Vmas]
    /\ trimmed \in [Procs -> BOOLEAN] /\ grown \in [Procs -> BOOLEAN]
    /\ fault \in {"none", "null_deref", "null_page", "bug_on", "freed_code"}

MemMapInit ==
    /\ state = "unloaded" /\ refcnt = 0 /\ dpc = "off" /\ area = "null"
    /\ file = [p \in Procs |-> "none"] /\ fd = [p \in Procs |-> FALSE]
    /\ vma = [p \in Procs |-> NoVma]
    /\ trimmed = [p \in Procs |-> FALSE] /\ grown = [p \in Procs |-> FALSE]
    /\ fault = "none"

Up == fault = "none"
Open == {p \in Procs : file[p] # "none"}
Registered == dpc \in {"registered", "allocated", "run", "freed"}

---------------------------------------------------------------------------
(* my_memmap_drv_init: register the device, or fail; allocate, without a   *)
(* check; reserve and fill the pages.                                      *)
Load ==
    /\ Up /\ LoadModule
    /\ dpc' = "init" /\ area' = "null"
    /\ UNCHANGED <<users, fault>>

Register ==
    /\ Up /\ dpc = "init"
    /\ \/ dpc' = "registered" /\ UNCHANGED modvars
       \/ dpc' = "off" /\ InitFailed
    /\ UNCHANGED <<area, users, fault>>

AllocArea ==
    /\ Up /\ dpc = "registered"
    /\ \/ area' = "alloc" /\ dpc' = "allocated" /\ UNCHANGED fault
       \/ fault' = "null_deref" /\ UNCHANGED <<area, dpc>>
    /\ UNCHANGED <<modvars, users>>

FillPages ==
    /\ Up /\ dpc = "allocated" /\ dpc' = "run"
    /\ InitReturned
    /\ UNCHANGED <<area, users, fault>>

(* rmmod, then my_memmap_drv_exit: free the area, unregister, return.      *)
Unload ==
    /\ Up /\ \/ StopModule /\ UNCHANGED fault
             \/ StopIsBug /\ fault' = "bug_on" /\ UNCHANGED modvars
    /\ UNCHANGED <<driver, users>>

FreeArea ==
    /\ Up /\ state = "going" /\ dpc = "run"
    /\ dpc' = "freed" /\ area' = "freed"
    /\ UNCHANGED <<modvars, users, fault>>

Unregister ==
    /\ Up /\ dpc = "freed" /\ dpc' = "off"
    /\ ExitReturned
    /\ file' = [p \in Procs |-> IF file[p] = "none" THEN "none" ELSE "orphan"]
    /\ UNCHANGED <<area, fd, vma, trimmed, grown, fault>>

---------------------------------------------------------------------------
(* What a process does with the device.                                    *)

(* Bug: no owner in my_memmap_dev_ops, so no reference is taken.           *)
BugOpen(p) ==
    /\ Up /\ Registered /\ file[p] = "none" /\ CanGet
    /\ file' = [file EXCEPT ![p] = "ok"] /\ fd' = [fd EXCEPT ![p] = TRUE]
    /\ UNCHANGED <<modvars, driver, vma, trimmed, grown, fault>>

(* open(2): the character-device layer takes a reference for the file.     *)
my_memmap_open(p) ==
    /\ Up /\ Registered /\ file[p] = "none" /\ try_module_get
    /\ file' = [file EXCEPT ![p] = "ok"] /\ fd' = [fd EXCEPT ![p] = TRUE]
    /\ UNCHANGED <<state, driver, vma, trimmed, grown, fault>>

(* Bug: the reference is not returned.                                     *)
BugRelease(p) == file' = [file EXCEPT ![p] = "none"] /\ UNCHANGED modvars

(* The last use of the file returns the reference.                         *)
Release(p) ==
    /\ file' = [file EXCEPT ![p] = "none"]
    /\ module_put /\ UNCHANGED state

Keep == UNCHANGED <<modvars, file>>

Close(p) ==
    /\ Up /\ file[p] = "ok" /\ fd[p]
    /\ fd' = [fd EXCEPT ![p] = FALSE]
    /\ IF vma[p].on THEN Keep ELSE Release(p)
    /\ UNCHANGED <<driver, vma, trimmed, grown, fault>>

(* Bug: a mapping may begin after the area's first page.                   *)
BugMapOk(len, write, shared, offset) == len <= PageCnt /\ (write => shared)

(* Bug: the size test lets one page too many through.                      *)
BugMapSize(len, write, shared, offset) ==
    len <= PageCnt + 1 /\ (write => shared) /\ offset = 0

(* The tests of my_memmap_map.                                             *)
MapOk(len, write, shared, offset) == len <= PageCnt /\ (write => shared) /\ offset = 0

(* mmap(2); one that is refused changes nothing. Page `offset` of the area *)
(* is meant to be at user page offset.                                     *)
my_memmap_map(p, len, write, shared, offset) ==
    /\ Up /\ file[p] = "ok" /\ fd[p] /\ ~vma[p].on
    /\ MapOk(len, write, shared, offset) /\ offset + len <= PageCnt + MaxGrow
    /\ vma' = [vma EXCEPT ![p] = [NoVma EXCEPT !.on = TRUE, !.start = offset, !.len = len]]
    /\ trimmed' = [trimmed EXCEPT ![p] = FALSE] /\ grown' = [grown EXCEPT ![p] = FALSE]
    /\ UNCHANGED <<modvars, driver, file, fd, fault>>

(* munmap(2) of the first page of a longer mapping: the rest is a mapping  *)
(* of its own, with the vm_start and vm_pgoff of its first page.           *)
Trim(p) ==
    /\ Up /\ file[p] = "ok" /\ vma[p].on /\ vma[p].len > 1
    /\ vma' = [vma EXCEPT ![p].start = @ + 1, ![p].len = @ - 1,
                          ![p].map = [@ EXCEPT ![vma[p].start] = NoPage]]
    /\ trimmed' = [trimmed EXCEPT ![p] = TRUE]
    /\ UNCHANGED <<modvars, driver, file, fd, grown, fault>>

(* mremap(2) by one page.                                                  *)
Grow(p) ==
    /\ Up /\ file[p] = "ok" /\ vma[p].on
    /\ vma[p].start + vma[p].len < PageCnt + MaxGrow
    /\ vma' = [vma EXCEPT ![p].len = @ + 1]
    /\ grown' = [grown EXCEPT ![p] = TRUE]
    /\ UNCHANGED <<modvars, driver, file, fd, trimmed, fault>>

(* munmap(2) of the whole mapping: my_memmap_vma_ops_close, and the end of *)
(* the file if its descriptor is closed.                                   *)
Unmap(p) ==
    /\ Up /\ file[p] = "ok" /\ vma[p].on
    /\ vma' = [vma EXCEPT ![p] = NoVma]
    /\ IF fd[p] THEN Keep ELSE Release(p)
    /\ trimmed' = [trimmed EXCEPT ![p] = FALSE] /\ grown' = [grown EXCEPT ![p] = FALSE]
    /\ UNCHANGED <<driver, fd, fault>>

(* my_memmap_vma_ops_fault computes the page of the area from the distance *)
(* to vm_start; it uses vmf->pgoff only for what it prints.                *)
Offset(v, a) == a - v.start

(* The page is absent and the process touches it. Without an area, or more *)
(* than one page beyond it, the process gets SIGBUS. One page beyond it,   *)
(* or when the area has been freed, there is no struct page to take.       *)
my_memmap_vma_ops_fault(p, a) ==
    /\ Up /\ file[p] = "ok" /\ vma[p].on
    /\ a \in Covered(vma[p]) /\ vma[p].map[a] = NoPage
    /\ area # "null" /\ Offset(vma[p], a) <= PageCnt
    /\ IF area = "freed" \/ Offset(vma[p], a) = PageCnt
       THEN fault' = "null_page" /\ UNCHANGED vma
       ELSE vma' = [vma EXCEPT ![p].map[a] = Offset(vma[p], a)] /\ UNCHANGED fault
    /\ UNCHANGED <<modvars, driver, file, fd, trimmed, grown>>

(* A process whose file belongs to a module that is gone uses or closes    *)
(* it: its operations are in freed memory.                                 *)
UseOrphan(p) ==
    /\ Up /\ file[p] = "orphan"
    /\ fault' = "freed_code"
    /\ UNCHANGED <<modvars, driver, users>>

MemMapNext ==
    \/ Load \/ Register \/ AllocArea \/ FillPages \/ Unload \/ FreeArea \/ Unregister
    \/ \E p \in Procs :
          \/ my_memmap_open(p) \/ Close(p) \/ Trim(p) \/ Grow(p) \/ Unmap(p) \/ UseOrphan(p)
          \/ \E len \in 1..(PageCnt + 1), write, shared \in BOOLEAN, offset \in 0..1 :
                my_memmap_map(p, len, write, shared, offset)
          \/ \E a \in Addrs : my_memmap_vma_ops_fault(p, a)

---------------------------------------------------------------------------
(* The page of the area that stands at a user page is the one whose number *)
(* in the file (vmf->pgoff) the mapping gives it, in every mapping whose   *)
(* front was never given back; extending it does not matter.               *)
RightPage ==
    \A p \in Procs : vma[p].on /\ ~trimmed[p] =>
        \A a \in Covered(vma[p]) : vma[p].map[a] \in {NoPage, a}

(* "vmf->pgoff ... says which page of the whole segment" (README.md:27),   *)
(* and the log line "map kvaddr: ... to (uaddr: ...)" (memmap.c:107)       *)
(* computes the page it reports as mapped from vmf->pgoff: the reported    *)
(* page is the one that was mapped.                                        *)
LogTellsTruth ==
    \A p \in Procs : vma[p].on =>
        \A a \in Covered(vma[p]) : vma[p].map[a] \in {NoPage, a}
=============================================================================
