------------------------------- MODULE BlkDev -------------------------------
(***************************************************************************)
(* The RAM-disk block device, code/mydev/blkdev/myblkdev.c: a vmalloc'ed   *)
(* area whose size is a module parameter, behind a queue of requests that  *)
(* the block layer hands to my_request with the queue's lock held.         *)
(*                                                                         *)
(* Memory is counted in bytes, as the code counts it, with ints of IntMod  *)
(* values; a sector holds one value. The block layer is external. What     *)
(* blk_get_request returns is left open: the oldest request of the queue,  *)
(* which is what the loop is written for, a new request that it makes up   *)
(* (position -1, no sectors, no bio), nothing, or an error pointer.        *)
(***************************************************************************)
EXTENDS ModuleRef, CInt, Sequences

CONSTANTS SectorSize,  \* sector_size, 512 in the code
          Mega,        \* bytes of 1024 * 1024
          Sizes,       \* values given to the module parameter size
          Vals,        \* what a sector can be made to hold
          MaxQueue     \* bound on the requests that are not finished

ASSUME SectorAssumption == SectorSize \in Nat \ {0} /\ 2 * SectorSize <= IntMod
ASSUME MegaAssumption == Mega \in Nat /\ Mega % SectorSize = 0 /\ IntMod % SectorSize = 0
ASSUME SizesAssumption == Sizes \subseteq Nat
ASSUME MaxQueueAssumption == MaxQueue \in Nat

VARIABLES
    dpc,         \* next statement of my_init or my_exit
    diskmb,      \* the parameter
    ramdisk,     \* "null", "alloc" or "freed"
    mem,         \* the value in each of its sectors
    queue,       \* my_request_queue exists
    registered,  \* the major number is registered
    my_gd,       \* "none", "alloc" or "added"
    opened,      \* somebody has the device open
    reqs,        \* requests in the queue, in order
    serving,     \* my_request: "idle", "get", "queued" or "fresh"
    rq,          \* the request it has
    answer,      \* what its last memcpy delivered to a reader
    lateFail,    \* history: this load failed after the queue was made
    fault        \* the first fault of the kernel

modvars == <<state, refcnt>>
disk == <<diskmb, ramdisk, mem>>
device == <<queue, registered, my_gd>>
requests == <<reqs, serving, rq, answer>>
vars == <<modvars, dpc, disk, device, opened, requests, lateFail, fault>>

Up == fault = "none"
NoRq == [op |-> "read", pos |-> 0, len |-> 0, val |-> "raw"]

disk_size == ToInt(diskmb * Mega)

(* set_capacity: sectors of the disk.                                      *)
Capacity == disk_size \div SectorSize

Init ==
    /\ state = "unloaded" /\ refcnt = 0 /\ dpc = "off"
    /\ diskmb \in Sizes /\ ramdisk = "null" /\ mem = <<>>
    /\ queue = FALSE /\ registered = FALSE /\ my_gd = "none" /\ opened = FALSE
    /\ reqs = <<>> /\ serving = "idle" /\ rq = NoRq /\ answer = <<>>
    /\ lateFail = FALSE /\ fault = "none"

---------------------------------------------------------------------------
(* insmod with some size; static data is zero again.                       *)
Load ==
    /\ Up /\ LoadModule /\ dpc' = "vmalloc" /\ diskmb' \in Sizes
    /\ ramdisk' = "null" /\ mem' = <<>>
    /\ queue' = FALSE /\ registered' = FALSE /\ my_gd' = "none" /\ lateFail' = FALSE
    /\ UNCHANGED <<opened, requests, fault>>

LoadFails == InitFailed /\ dpc' = "off"

(* vmalloc(disk_size) fails for a size that wrapped to zero or below.      *)
AllocRamdisk ==
    /\ Up /\ dpc = "vmalloc"
    /\ \/ /\ disk_size > 0 /\ ramdisk' = "alloc" /\ dpc' = "queue"
          /\ mem' = [s \in 0..(Capacity - 1) |-> "raw"]
          /\ UNCHANGED modvars
       \/ LoadFails /\ UNCHANGED <<ramdisk, mem>>
    /\ UNCHANGED <<diskmb, device, opened, requests, lateFail, fault>>

InitQueue ==
    /\ Up /\ dpc = "queue"
    /\ \/ queue' = TRUE /\ dpc' = "register" /\ UNCHANGED <<modvars, ramdisk>>
       \/ LoadFails /\ ramdisk' = "freed" /\ UNCHANGED queue
    /\ UNCHANGED <<diskmb, mem, registered, my_gd, opened, requests, lateFail, fault>>

(* From here on the error paths leave the queue behind.                    *)
RegisterBlkdev ==
    /\ Up /\ dpc = "register"
    /\ \/ registered' = TRUE /\ dpc' = "gendisk" /\ UNCHANGED <<modvars, ramdisk, lateFail>>
       \/ LoadFails /\ ramdisk' = "freed" /\ lateFail' = TRUE /\ UNCHANGED registered
    /\ UNCHANGED <<diskmb, mem, queue, my_gd, opened, requests, fault>>

(* Bug: the major number stays registered when there is no gendisk.        *)
BugAllocGendisk ==
    /\ Up /\ dpc = "gendisk"
    /\ \/ my_gd' = "alloc" /\ dpc' = "add" /\ UNCHANGED <<modvars, ramdisk, registered, lateFail>>
       \/ LoadFails /\ ramdisk' = "freed" /\ lateFail' = TRUE /\ UNCHANGED <<my_gd, registered>>
    /\ UNCHANGED <<diskmb, mem, queue, opened, requests, fault>>

AllocGendisk ==
    /\ Up /\ dpc = "gendisk"
    /\ \/ my_gd' = "alloc" /\ dpc' = "add" /\ UNCHANGED <<modvars, ramdisk, registered, lateFail>>
       \/ /\ LoadFails /\ ramdisk' = "freed" /\ registered' = FALSE /\ lateFail' = TRUE
          /\ UNCHANGED my_gd
    /\ UNCHANGED <<diskmb, mem, queue, opened, requests, fault>>

(* add_disk: from now on the device can be opened; it is, for a moment, by *)
(* the scan for partitions, before my_init returns.                        *)
AddDisk ==
    /\ Up /\ dpc = "add" /\ my_gd = "alloc" /\ my_gd' = "added"
    /\ UNCHANGED <<modvars, dpc, disk, queue, registered, opened, requests, lateFail, fault>>

InitDone ==
    /\ Up /\ dpc = "add" /\ my_gd = "added" /\ dpc' = "run" /\ InitReturned
    /\ UNCHANGED <<disk, device, opened, requests, lateFail, fault>>

(* rmmod, and my_exit.                                                     *)
Unload ==
    /\ Up /\ StopModule
    /\ UNCHANGED <<dpc, disk, device, opened, requests, lateFail, fault>>

DelGendisk ==
    /\ Up /\ state = "going" /\ dpc = "run" /\ dpc' = "put" /\ my_gd' = "alloc"
    /\ UNCHANGED <<modvars, disk, queue, registered, opened, requests, lateFail, fault>>

PutDisk ==
    /\ Up /\ dpc = "put" /\ dpc' = "cleanup" /\ my_gd' = "none" /\ registered' = FALSE
    /\ UNCHANGED <<modvars, disk, queue, opened, requests, lateFail, fault>>

(* blk_cleanup_queue waits for what is in the queue and in my_request.     *)
CleanupQueue ==
    /\ Up /\ dpc = "cleanup" /\ reqs = <<>> /\ serving = "idle"
    /\ dpc' = "vfree" /\ queue' = FALSE
    /\ UNCHANGED <<modvars, disk, registered, my_gd, opened, requests, lateFail, fault>>

FreeRamdisk ==
    /\ Up /\ dpc = "vfree" /\ dpc' = "off" /\ ExitReturned /\ ramdisk' = "freed"
    /\ UNCHANGED <<diskmb, mem, device, opened, requests, lateFail, fault>>

---------------------------------------------------------------------------
(* The block layer. open(2) takes a reference to fops->owner; close(2)     *)
(* waits for the requests of the device and returns it.                    *)
Open ==
    /\ Up /\ my_gd = "added" /\ ~opened /\ try_module_get /\ opened' = TRUE
    /\ UNCHANGED <<state, dpc, disk, device, requests, lateFail, fault>>

Unfinished == (IF serving = "queued" THEN <<rq>> ELSE <<>>) \o reqs

Close ==
    /\ Up /\ opened /\ Unfinished = <<>> /\ opened' = FALSE
    /\ module_put /\ UNCHANGED state
    /\ UNCHANGED <<dpc, disk, device, requests, lateFail, fault>>

(* A request within the capacity; the block layer refuses any other.       *)
Queue(op, pos, len, val) ==
    /\ Up /\ opened /\ Len(Unfinished) < MaxQueue
    /\ pos + len <= Capacity
    /\ reqs' = Append(reqs, [op |-> op, pos |-> pos, len |-> len, val |-> val])
    /\ UNCHANGED <<modvars, dpc, disk, device, opened, serving, rq, answer, lateFail, fault>>

(* It calls my_request when there is something in the queue.               *)
StartRequests ==
    /\ Up /\ serving = "idle" /\ reqs # <<>> /\ serving' = "get"
    /\ UNCHANGED <<modvars, dpc, disk, device, opened, reqs, rq, answer, lateFail, fault>>

(* blk_get_request. An error pointer is not zero: the loop goes on with it.*)
blk_get_request ==
    /\ Up /\ serving = "get" /\ answer' = <<>>
    /\ \/ /\ reqs # <<>> /\ rq' = Head(reqs) /\ reqs' = Tail(reqs)
          /\ serving' = "queued" /\ UNCHANGED fault
       \/ /\ rq' = [NoRq EXCEPT !.pos = -1] /\ serving' = "fresh" /\ UNCHANGED <<reqs, fault>>
       \/ rq' = NoRq /\ serving' = "idle" /\ UNCHANGED <<reqs, fault>>
       \/ fault' = "err_ptr" /\ UNCHANGED <<reqs, rq, serving>>
    /\ UNCHANGED <<modvars, dpc, disk, device, opened, lateFail>>

---------------------------------------------------------------------------
(* my_request computes with unsigned sector and nr_sectors and int size.   *)

(* Bug: a signed sector.                                                   *)
BugPtr(pos) == ToInt(pos * SectorSize)

(* ptr - ramdisk                                                           *)
Ptr(pos) == ((pos % IntMod) * SectorSize) % IntMod
Size(nr) == ToInt(nr * SectorSize)

(* Bug: the last sector counts as beyond the end.                          *)
BugBeyond(pos, nr) == Ptr(pos) + Size(nr) >= disk_size

(* "end of device"                                                         *)
Beyond(pos, nr) == Ptr(pos) + Size(nr) > disk_size

(* The sectors of the area that memcpy(ptr, ..., size) touches.            *)
Touched(pos, nr) == {s \in DOMAIN mem : /\ Ptr(pos) <= s * SectorSize
                                        /\ s * SectorSize < Ptr(pos) + Size(nr)}

(* What the memcpy of one round may run into.                              *)
CopyFault(pos, nr) ==
    CASE serving = "fresh"    -> "null_bio"
      [] ramdisk # "alloc"    -> "use_after_free"
      [] Ptr(pos) + Size(nr) > Capacity * SectorSize -> "stray_copy"
      [] OTHER                -> "none"

(* The switch on the direction, with its two calls of memcpy.              *)
Copy(nr) ==
    \/ /\ rq.op = "write" /\ UNCHANGED answer
       /\ mem' = [s \in DOMAIN mem |-> IF s \in Touched(rq.pos, nr) THEN rq.val ELSE mem[s]]
    \/ /\ rq.op = "read" /\ UNCHANGED mem
       /\ answer' = [k \in 1..nr |-> mem[(Ptr(rq.pos) \div SectorSize) + k - 1]]

(* __blk_end_request_cur(rq, 0) finishes the nr sectors of the current     *)
(* segment, as a success, and says whether something is left.              *)
EndRequestCur(nr) ==
    IF nr = rq.len
    THEN rq' = NoRq /\ serving' = "get"
    ELSE rq' = [rq EXCEPT !.pos = @ + nr, !.len = @ - nr] /\ UNCHANGED serving

(* One round of the loop, for a segment of nr sectors. A request that was  *)
(* made up is not copied, but finished, with all it has.                   *)
my_request(nr) ==
    /\ Up /\ serving \in {"queued", "fresh"}
    /\ fault' = IF Beyond(rq.pos, nr) THEN "none" ELSE CopyFault(rq.pos, nr)
    /\ IF Beyond(rq.pos, nr) \/ fault' # "none" THEN UNCHANGED <<mem, answer>> ELSE Copy(nr)
    /\ EndRequestCur(nr)
    /\ UNCHANGED <<modvars, dpc, diskmb, ramdisk, device, opened, reqs, lateFail>>

Next ==
    \/ Load \/ AllocRamdisk \/ InitQueue \/ RegisterBlkdev \/ AllocGendisk
    \/ AddDisk \/ InitDone
    \/ Unload \/ DelGendisk \/ PutDisk \/ CleanupQueue \/ FreeRamdisk
    \/ Open \/ Close \/ StartRequests \/ blk_get_request
    \/ \E pos \in 0..(Capacity - 1), len \in 1..Capacity :
          \/ Queue("read", pos, len, "raw")
          \/ \E val \in Vals : Queue("write", pos, len, val)
    \/ \E nr \in (IF rq.len = 0 THEN {0} ELSE 1..rq.len) : my_request(nr)

Spec == Init /\ [][Next]_vars

---------------------------------------------------------------------------
(* The disk as its users see it.                                           *)
Store == INSTANCE BlockStore WITH
            plugged <- my_gd = "added",
            content <- IF my_gd = "added" THEN mem ELSE <<>>,
            todo <- Unfinished

(* my_request is a disk: every request is carried out sector by sector in  *)
(* order, also when it comes in several segments (line 58) or the size of  *)
(* the disk wrapped around (line 103); no sector is skipped, none but the  *)
(* request's own is changed, and the disk goes away only when no request   *)
(* is left (line 152).                                                     *)
ServesDisk == Store!StoreSpec

(* The only thing my_request trips over is an error pointer, which its     *)
(* loop takes for a request (line 31). The test at line 39 keeps every     *)
(* memcpy in the area, with 32-bit arithmetic and any parameter, and also  *)
(* keeps requests without a bio, whose position is -1, away from it; the   *)
(* area is not freed under a request.                                      *)
RequestsAreSafe == fault \in {"none", "err_ptr"}

(* What a failed load or an unload leaves behind: nothing, except the      *)
(* queue when my_init failed after making it (lines 118-133). Nobody can   *)
(* reach that queue: there is no disk, and no request is under way.        *)
CleanFailure ==
    Up /\ dpc = "off" =>
        /\ ramdisk # "alloc" /\ ~registered /\ my_gd = "none"
        /\ queue => lateFail
        /\ ~opened /\ Unfinished = <<>>
=============================================================================
