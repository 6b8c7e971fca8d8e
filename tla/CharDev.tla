------------------------------ MODULE CharDev ------------------------------
(***************************************************************************)
(* The two character-device exercises, code/mydev/cdev/mycdev.c (kind      *)
(* "cdev": region, cdev_alloc, cdev_add) and code/mydev/mdev/mymdev.c      *)
(* (kind "mdev": misc_register), with processes like mycdev_user.c. Their  *)
(* file operations are the same: read copies the first 64 bytes of pbuf to *)
(* the user, write copies 64 bytes into it and prints it as a string.      *)
(*                                                                         *)
(* The 64 bytes are Cells pieces that are copied one at a time, without a  *)
(* lock. A piece holds the name of who wrote it.                           *)
(***************************************************************************)
EXTENDS ModuleRef, Sequences, FiniteSets

CONSTANTS Procs,   \* processes
          Cells    \* pieces a transfer of 64 bytes is made of

ASSUME ProcsAssumption == IsFiniteSet(Procs)
ASSUME CellsAssumption == Cells \in Nat \ {0}

VARIABLES
    kind,      \* which of the two modules this is
    dpc,       \* next statement of the init or exit routine
    region,    \* who owns the device number in my_dev
    my_cdev,   \* the cdev exists
    added,     \* the device can be opened
    pbuf,      \* "null", "alloc" or "freed"
    cells,            \* what the first 64 bytes of pbuf hold
    pc, copied,       \* each process: what it does, and how far it is
    rbuf,             \* the pieces its last read has copied
    noCdev,    \* history: cdev_alloc failed in this load
    blurred,   \* history: two writers, or a writer and init, overlapped
    disturbed, \* history: processes whose read overlapped a write
    fault      \* the first fault of the kernel

modvars == <<state, refcnt>>
device == <<kind, dpc, region, my_cdev, added>>
content == <<pbuf, cells>>
procs == <<pc, copied, rbuf>>
history == <<noCdev, blurred, disturbed>>
vars == <<modvars, device, content, procs, history, fault>>

Up == fault = "none"
Doing(what) == {p \in Procs : pc[p] = what}

Init ==
    /\ state = "unloaded" /\ refcnt = 0
    /\ kind \in {"cdev", "mdev"} /\ dpc = "off" /\ region = "none"
    /\ my_cdev = FALSE /\ added = FALSE
    /\ pbuf = "null" /\ cells = [k \in 1..Cells |-> "raw"]
    /\ pc = [p \in Procs |-> "closed"] /\ copied = [p \in Procs |-> 0]
    /\ rbuf = [p \in Procs |-> <<>>]
    /\ noCdev = FALSE /\ blurred = FALSE /\ disturbed = {}
    /\ fault = "none"

---------------------------------------------------------------------------
(* insmod: static data is zero again.                                      *)
Load ==
    /\ Up /\ LoadModule /\ dpc' = "register"
    /\ my_cdev' = FALSE /\ added' = FALSE /\ noCdev' = FALSE
    /\ pbuf' = "null" /\ cells' = [k \in 1..Cells |-> "raw"]
    /\ UNCHANGED <<kind, region, procs, blurred, disturbed, fault>>

(* The load fails before anything was set up, or is undone.                *)
LoadFails == InitFailed /\ dpc' = "off"

(* mycdev_init: alloc_chrdev_region takes a free number. There is one of   *)
(* interest, so that a number taken by another driver is one failure more. *)
AllocRegion ==
    /\ Up /\ kind = "cdev" /\ dpc = "register"
    /\ \/ region = "none" /\ region' = "ours" /\ dpc' = "cdev" /\ UNCHANGED modvars
       \/ LoadFails /\ UNCHANGED region
    /\ UNCHANGED <<kind, my_cdev, added, content, procs, history, fault>>

(* cdev_alloc. When it fails the region is given back and the routine      *)
(* returns ret, which is still 0: the load succeeds without a device.      *)
CdevAlloc ==
    /\ Up /\ dpc = "cdev"
    /\ \/ my_cdev' = TRUE /\ dpc' = "add" /\ UNCHANGED <<modvars, region, noCdev>>
       \/ region' = "none" /\ noCdev' = TRUE /\ dpc' = "run" /\ InitReturned
          /\ UNCHANGED my_cdev
    /\ UNCHANGED <<kind, added, content, procs, blurred, disturbed, fault>>

(* cdev_add, or cdev_del and unregister.                                   *)
CdevAdd ==
    /\ Up /\ dpc = "add"
    /\ \/ added' = TRUE /\ dpc' = "alloc" /\ UNCHANGED <<modvars, region>>
       \/ region' = "none" /\ LoadFails /\ UNCHANGED added
    /\ UNCHANGED <<kind, my_cdev, content, procs, history, fault>>

(* mymdev_init: misc_register does all of this, or fails.                  *)
MiscRegister ==
    /\ Up /\ kind = "mdev" /\ dpc = "register"
    /\ \/ added' = TRUE /\ dpc' = "alloc" /\ UNCHANGED modvars
       \/ LoadFails /\ UNCHANGED added
    /\ UNCHANGED <<kind, region, my_cdev, content, procs, history, fault>>

(* pbuf = vmalloc(1024), unchecked: memset writes through a null pointer.  *)
AllocPbuf ==
    /\ Up /\ dpc = "alloc"
    /\ \/ pbuf' = "alloc" /\ dpc' = "fill" /\ UNCHANGED fault
       \/ fault' = "null_deref" /\ UNCHANGED <<pbuf, dpc>>
    /\ UNCHANGED <<modvars, kind, region, my_cdev, added, cells, procs, history>>

(* memset ...                                                              *)
ZeroPbuf ==
    /\ Up /\ dpc = "fill" /\ dpc' = "sprintf"
    /\ cells' = [k \in 1..Cells |-> "init"]
    /\ blurred' = (blurred \/ Doing("writing") # {})
    /\ disturbed' = disturbed \cup Doing("reading")
    /\ UNCHANGED <<modvars, kind, region, my_cdev, added, pbuf, procs, noCdev, fault>>

(* ... and sprintf, into the first piece; the end of the init routine.     *)
FillPbuf ==
    /\ Up /\ dpc = "sprintf" /\ dpc' = "run" /\ InitReturned
    /\ cells' = [cells EXCEPT ![1] = "init"]
    /\ blurred' = (blurred \/ Doing("writing") # {})
    /\ disturbed' = disturbed \cup Doing("reading")
    /\ UNCHANGED <<kind, region, my_cdev, added, pbuf, procs, noCdev, fault>>

(* rmmod, and mycdev_exit or mymdev_exit.                                  *)
Unload ==
    /\ Up /\ StopModule
    /\ UNCHANGED <<device, content, procs, history, fault>>

(* Bug: the cdev module never gives its device number back.                *)
BugRemoveDevice ==
    /\ Up /\ state = "going" /\ dpc = "run" /\ dpc' = "vfree"
    /\ added' = FALSE /\ my_cdev' = FALSE
    /\ UNCHANGED <<modvars, kind, region, content, procs, history, fault>>

(* cdev_del if there is one; unregister_chrdev_region takes the number     *)
(* away from whoever has it. misc_deregister for the other module.         *)
RemoveDevice ==
    /\ Up /\ state = "going" /\ dpc = "run" /\ dpc' = "vfree"
    /\ added' = FALSE /\ my_cdev' = FALSE
    /\ region' = IF kind = "cdev" THEN "none" ELSE region
    /\ UNCHANGED <<modvars, kind, content, procs, noCdev, blurred, disturbed, fault>>

FreePbuf ==
    /\ Up /\ dpc = "vfree" /\ dpc' = "off" /\ ExitReturned
    /\ pbuf' = IF pbuf = "alloc" THEN "freed" ELSE pbuf
    /\ UNCHANGED <<kind, region, my_cdev, added, cells, procs, history, fault>>

(* Another driver asks for a device number and gets the one that is free,  *)
(* or returns it.                                                          *)
OtherDriver ==
    /\ Up /\ \/ region = "none" /\ region' = "other"
             \/ region = "other" /\ region' = "none"
    /\ UNCHANGED <<modvars, kind, dpc, my_cdev, added, content, procs, history, fault>>

---------------------------------------------------------------------------
(* Bug: no owner in the file operations, so no reference is taken.         *)
BugOpen(p) ==
    /\ Up /\ added /\ pc[p] = "closed" /\ CanGet
    /\ pc' = [pc EXCEPT ![p] = "open"]
    /\ UNCHANGED <<modvars, device, content, copied, rbuf, history, fault>>

(* open(2) takes a reference to the module, close(2) returns it.           *)
mycdev_open(p) ==
    /\ Up /\ added /\ pc[p] = "closed" /\ try_module_get /\ UNCHANGED state
    /\ pc' = [pc EXCEPT ![p] = "open"]
    /\ UNCHANGED <<device, content, copied, rbuf, history, fault>>

Close(p) ==
    /\ Up /\ pc[p] = "open" /\ module_put /\ UNCHANGED state
    /\ pc' = [pc EXCEPT ![p] = "closed"]
    /\ UNCHANGED <<device, content, copied, rbuf, history, fault>>

(* The pointer is read once per transfer. Through a null one nothing is    *)
(* copied, or the copy faults: that depends on the kernel's configuration. *)
FirstPiece == IF pbuf = "null" THEN Cells ELSE 0
NullCopy == UNCHANGED fault \/ (pbuf = "null" /\ fault' = "null_deref")

(* mycdev_read begins. It asks for no lock and looks at no length.         *)
BeginRead(p) ==
    /\ Up /\ pc[p] = "open"
    /\ pc' = [pc EXCEPT ![p] = "reading"]
    /\ copied' = [copied EXCEPT ![p] = FirstPiece]
    /\ rbuf' = [rbuf EXCEPT ![p] = <<>>]
    /\ disturbed' = IF Doing("writing") = {} /\ dpc # "sprintf"
                    THEN disturbed \ {p} ELSE disturbed \cup {p}
    /\ NullCopy
    /\ UNCHANGED <<modvars, device, content, noCdev, blurred>>

(* One piece of copy_to_user.                                              *)
CopyOut(p) ==
    /\ Up /\ pc[p] = "reading" /\ copied[p] < Cells
    /\ copied' = [copied EXCEPT ![p] = @ + 1]
    /\ IF pbuf = "freed" THEN fault' = "use_after_free" ELSE UNCHANGED fault
    /\ rbuf' = [rbuf EXCEPT ![p] = Append(@, cells[copied[p] + 1])]
    /\ UNCHANGED <<modvars, device, content, pc, history>>

EndRead(p) ==
    /\ Up /\ pc[p] = "reading" /\ copied[p] = Cells
    /\ pc' = [pc EXCEPT ![p] = "open"]
    /\ UNCHANGED <<modvars, device, content, copied, rbuf, history, fault>>

(* mycdev_write begins.                                                    *)
BeginWrite(p) ==
    /\ Up /\ pc[p] = "open"
    /\ pc' = [pc EXCEPT ![p] = "writing"]
    /\ copied' = [copied EXCEPT ![p] = FirstPiece]
    /\ blurred' = (blurred \/ Doing("writing") # {} \/ dpc = "sprintf")
    /\ disturbed' = disturbed \cup Doing("reading")
    /\ NullCopy
    /\ UNCHANGED <<modvars, device, content, rbuf, noCdev>>

(* Bug: a transfer ends after its first piece.                             *)
BugCopyIn(p) ==
    /\ Up /\ pc[p] = "writing" /\ copied[p] < Cells
    /\ copied' = [copied EXCEPT ![p] = Cells]
    /\ cells' = [cells EXCEPT ![copied[p] + 1] = p]
    /\ UNCHANGED <<modvars, device, pbuf, pc, rbuf, history, fault>>

(* One piece of copy_from_user.                                            *)
CopyIn(p) ==
    /\ Up /\ pc[p] = "writing" /\ copied[p] < Cells
    /\ copied' = [copied EXCEPT ![p] = @ + 1]
    /\ IF pbuf = "freed" THEN fault' = "use_after_free" ELSE UNCHANGED fault
    /\ cells' = [cells EXCEPT ![copied[p] + 1] = p]
    /\ UNCHANGED <<modvars, device, pbuf, pc, rbuf, history>>

(* The printk of mycdev_write changes nothing; the string it prints ends   *)
(* in the bytes after the first 64, which stay zero.                       *)
PrintPbuf(p) ==
    /\ Up /\ pc[p] = "writing" /\ copied[p] = Cells
    /\ pc' = [pc EXCEPT ![p] = "open"]
    /\ UNCHANGED <<modvars, device, content, copied, rbuf, history, fault>>

Next ==
    \/ Load \/ AllocRegion \/ CdevAlloc \/ CdevAdd \/ MiscRegister \/ AllocPbuf
    \/ ZeroPbuf \/ FillPbuf
    \/ Unload \/ RemoveDevice \/ FreePbuf \/ OtherDriver
    \/ \E p \in Procs :
          \/ mycdev_open(p) \/ Close(p)
          \/ BeginRead(p) \/ CopyOut(p) \/ EndRead(p)
          \/ BeginWrite(p) \/ CopyIn(p) \/ PrintPbuf(p)

Spec == Init /\ [][Next]_vars

---------------------------------------------------------------------------
(* A read that overlapped no write returns one writer's 64 bytes, whole,   *)
(* as long as no two writers ever overlapped (lines 29-42 take no lock and *)
(* init fills pbuf after the device can be opened, lines 69-78).           *)
TornNeedsOverlap ==
    \A p \in Procs \ disturbed :
        blurred \/ \A j, k \in DOMAIN rbuf[p] : rbuf[p][j] = rbuf[p][k]

(* While the cdev module is loaded the device number is its own, unless    *)
(* cdev_alloc failed (lines 63-67, where the region is given back and the  *)
(* load still succeeds): only then can mycdev_exit (line 100) take away    *)
(* another driver's number. Unloaded, the module holds none.               *)
RegionOwned ==
    Up /\ kind = "cdev" =>
        /\ dpc = "run" /\ ~noCdev => region = "ours"
        /\ dpc = "off" => region # "ours"

(* Open files keep the module: pbuf is freed (line 101) when none is open, *)
(* and no transfer touches it afterwards.                                  *)
BufferOutlivesFiles ==
    /\ fault # "use_after_free"
    /\ pbuf = "freed" /\ Up => \A p \in Procs : pc[p] = "closed"

Life == INSTANCE ModuleUse WITH
            Users <- Procs,
            usable <- state \in {"coming", "live"},
            using <- Procs \ Doing("closed")

(* Both drivers implement a module that goes only without users: .owner in *)
(* the file operations (line 45) makes every open file count, through each *)
(* of the error paths of the two init routines (lines 53-92), and closing  *)
(* it gives back no more than was taken.                                   *)
GoesWithoutUsers == Life!UseSpec
=============================================================================
