--------------------------- MODULE CharDevProofs ---------------------------
(***************************************************************************)
(* What holds of the two character devices for any finite set of processes *)
(* and a transfer of any number of pieces.                                 *)
(***************************************************************************)
EXTENDS CharDev, FiniteSetTheorems, TLAPS

Early == {"register", "cdev", "add"}          \* before the device can be opened
Filling == {"alloc", "fill", "sprintf"}       \* it can, and init still runs
Names == Procs \cup {"raw", "init"}
Holders == Procs \ Doing("closed")

TypeInv ==
    /\ state \in RefStates /\ refcnt \in Nat
    /\ kind \in {"cdev", "mdev"} /\ region \in {"none", "ours", "other"}
    /\ dpc \in {"off", "run", "vfree"} \cup Early \cup Filling
    /\ my_cdev \in BOOLEAN /\ added \in BOOLEAN
    /\ pbuf \in {"null", "alloc", "freed"}
    /\ pc \in [Procs -> {"closed", "open", "reading", "writing"}]
    /\ noCdev \in BOOLEAN
    /\ fault \in {"none", "null_deref", "use_after_free"}

(* Where the routines are, what the loader says, when files can be opened. *)
StageInv ==
    /\ state = "unloaded" <=> dpc = "off"
    /\ state = "coming" <=> dpc \in Early \cup Filling
    /\ dpc = "vfree" => state = "going"
    /\ dpc \in Early \cup {"vfree", "off"} => ~added
    /\ dpc \in Early => Holders = {}
    /\ state \in {"going", "unloaded"} => refcnt = 0

(* Who owns the device number, all along the cdev module's life.           *)
RegionInv ==
    kind = "cdev" =>
        /\ dpc \in {"cdev", "add"} \cup Filling => region = "ours"
        /\ dpc = "run" /\ ~noCdev => region = "ours"
        /\ dpc \in {"register", "vfree", "off"} => region # "ours"

(* The count is the open files and the loader's references, exactly.       *)
LoaderRefs == (IF state \in {"coming", "live"} THEN 1 ELSE 0)
              + (IF state = "coming" THEN 1 ELSE 0)

RefInv == refcnt = Cardinality(Holders) + LoaderRefs

BufferInv == (pbuf = "freed" => dpc = "off") /\ fault # "use_after_free"

LifeInv == TypeInv /\ StageInv /\ RegionInv /\ RefInv /\ BufferInv

---------------------------------------------------------------------------
(* What the 64 bytes hold as long as no two writers overlapped: one        *)
(* writer's pieces, or a new writer's before those of the one before.      *)
Uniform == \A j, k \in 1..Cells : cells[j] = cells[k]

Split(w) == /\ \A k \in 1..copied[w] : cells[k] = w
            /\ \A j, k \in (copied[w] + 1)..Cells : cells[j] = cells[k]

ContentType ==
    /\ cells \in [1..Cells -> Names] /\ copied \in [Procs -> 0..Cells]
    /\ rbuf \in [Procs -> Seq(Names)]
    /\ blurred \in BOOLEAN /\ disturbed \subseteq Procs

WriteInv ==
    /\ \A v, w \in Doing("writing") : v = w
    /\ Doing("writing") = {} => Uniform
    /\ \A w \in Doing("writing") : (copied[w] = Cells /\ Uniform) \/ Split(w)
    /\ dpc = "sprintf" => /\ Doing("writing") = {}
                          /\ \A k \in 1..Cells : cells[k] = "init"

(* A read that nothing disturbed so far has copied what is still there.    *)
ReadInv ==
    \A p \in Doing("reading") \ disturbed :
        /\ Doing("writing") = {} /\ dpc # "sprintf"
        /\ \A j \in DOMAIN rbuf[p] : rbuf[p][j] = cells[1]

ContentInv == ContentType /\ (~blurred => WriteInv /\ ReadInv) /\ TornNeedsOverlap

---------------------------------------------------------------------------
(* The open files, counted as they come and go.                            *)
LEMMA HolderCount ==
    ASSUME TypeInv
    PROVE  /\ IsFiniteSet(Holders) /\ Cardinality(Holders) \in Nat
           /\ Cardinality(Holders) = 0 <=> Holders = {}
<1>1. IsFiniteSet(Holders)
  BY ProcsAssumption, FS_Subset DEF Holders
<1> QED
  BY <1>1, FS_CardinalityType, FS_EmptySet

(* A module that is going or gone has no open file.                        *)
LEMMA GoneIsUnused ==
    ASSUME LifeInv, state \in {"going", "unloaded"}
    PROVE  Holders = {}
<1>1. refcnt = 0 /\ LoaderRefs = 0
  BY DEF LifeInv, StageInv, LoaderRefs
<1> QED
  BY <1>1, HolderCount DEF LifeInv, RefInv

LEMMA HolderAdd ==
    ASSUME TypeInv, NEW p \in Procs, pc[p] = "closed", pc' = [pc EXCEPT ![p] = "open"]
    PROVE  Holders' = Holders \cup {p} /\ p \notin Holders
           /\ Cardinality(Holders') = Cardinality(Holders) + 1
<1>1. Holders' = Holders \cup {p} /\ p \notin Holders
  BY DEF TypeInv, Holders, Doing
<1> QED
  BY <1>1, HolderCount, FS_AddElement

LEMMA HolderRemove ==
    ASSUME TypeInv, NEW p \in Procs, pc[p] = "open", pc' = [pc EXCEPT ![p] = "closed"]
    PROVE  /\ Holders' = Holders \ {p} /\ p \in Holders
           /\ Cardinality(Holders') = Cardinality(Holders) - 1 /\ Cardinality(Holders) > 0
<1>1. Holders' = Holders \ {p} /\ p \in Holders
  BY DEF TypeInv, Holders, Doing
<1>2. Cardinality(Holders) # 0
  BY <1>1, HolderCount
<1> QED
  BY <1>1, <1>2, HolderCount, FS_RemoveElement

LEMMA HolderSame ==
    ASSUME pc' = pc
    PROVE  Holders' = Holders
BY DEF Holders, Doing

---------------------------------------------------------------------------
LEMMA InitLife == Init => LifeInv
<1> SUFFICES ASSUME Init PROVE LifeInv
  OBVIOUS
<1> USE DEF Init
<1>1. TypeInv
  BY DEF TypeInv, RefStates
<1>2. Holders = {}
  BY DEF Holders, Doing
<1>3. StageInv /\ RegionInv /\ BufferInv
  BY <1>2 DEF StageInv, RegionInv, BufferInv, Early, Filling
<1>4. RefInv
  BY <1>1, <1>2, HolderCount DEF RefInv, LoaderRefs
<1> QED
  BY <1>1, <1>3, <1>4 DEF LifeInv

LEMMA LoadLife == LifeInv /\ Load => LifeInv'
<1> SUFFICES ASSUME LifeInv, Load PROVE LifeInv'
  OBVIOUS
<1> USE DEF Load, LoadModule
<1>1. Holders = {} /\ Holders' = Holders
  BY GoneIsUnused, HolderSame DEF procs
<1>2. TypeInv'
  BY DEF LifeInv, TypeInv, procs, RefStates, Early
<1>3. StageInv' /\ RegionInv' /\ BufferInv'
  BY <1>1 DEF LifeInv, StageInv, RegionInv, BufferInv, Early, Filling
<1>4. RefInv'
  BY <1>1, HolderCount DEF LifeInv, RefInv, LoaderRefs
<1> QED
  BY <1>2, <1>3, <1>4 DEF LifeInv

(* A load that fails does so before anyone can have opened the device.     *)
LEMMA LoadFailsLife ==
    ASSUME LifeInv, dpc \in Early, LoadFails, UNCHANGED procs
    PROVE  RefInv' /\ Holders' = {}
<1>1. Holders = {} /\ Holders' = Holders
  BY HolderSame DEF procs, LifeInv, StageInv
<1> QED
  BY <1>1, HolderCount DEF LifeInv, LoadFails, InitFailed, RefInv, LoaderRefs

LEMMA InitReturnedLife ==
    ASSUME LifeInv, InitReturned, UNCHANGED procs
    PROVE  RefInv' /\ Holders' = Holders /\ refcnt' \in Nat
<1>1. Holders' = Holders /\ Cardinality(Holders) \in Nat
  BY HolderSame, HolderCount DEF procs, LifeInv
<1> QED
  BY <1>1 DEF LifeInv, RefInv, LoaderRefs, InitReturned, module_put, AfterPut

LEMMA RefSame ==
    ASSUME LifeInv, UNCHANGED modvars, pc' = pc
    PROVE  RefInv' /\ Holders' = Holders /\ UNCHANGED <<state, refcnt>>
BY HolderSame DEF LifeInv, RefInv, LoaderRefs, modvars

LEMMA AllocRegionLife == LifeInv /\ AllocRegion => LifeInv'
<1> SUFFICES ASSUME LifeInv, AllocRegion PROVE LifeInv'
  OBVIOUS
<1> USE DEF AllocRegion, content, procs, history
<1>1. CASE region = "none" /\ region' = "ours" /\ dpc' = "cdev" /\ UNCHANGED modvars
  <2>1. RefInv' /\ Holders' = Holders /\ UNCHANGED <<state, refcnt>>
    BY <1>1, RefSame
  <2>2. TypeInv'
    BY <1>1, <2>1 DEF LifeInv, TypeInv, Early
  <2>3. StageInv' /\ RegionInv' /\ BufferInv'
    BY <1>1, <2>1 DEF LifeInv, StageInv, RegionInv, BufferInv, Early, Filling
  <2> QED
    BY <2>1, <2>2, <2>3 DEF LifeInv
<1>2. CASE LoadFails /\ UNCHANGED region
  <2>1. RefInv' /\ Holders' = {}
    BY <1>2, LoadFailsLife DEF Early
  <2>2. TypeInv'
    BY <1>2 DEF LifeInv, TypeInv, LoadFails, InitFailed, RefStates
  <2>3. StageInv' /\ RegionInv' /\ BufferInv'
    BY <1>2, <2>1 DEF LifeInv, StageInv, RegionInv, BufferInv, Early, Filling, LoadFails,
                      InitFailed
  <2> QED
    BY <2>1, <2>2, <2>3 DEF LifeInv
<1> QED
  BY <1>1, <1>2

LEMMA CdevAllocLife == LifeInv /\ CdevAlloc => LifeInv'
<1> SUFFICES ASSUME LifeInv, CdevAlloc PROVE LifeInv'
  OBVIOUS
<1> USE DEF CdevAlloc, content, procs
<1>1. CASE my_cdev' = TRUE /\ dpc' = "add" /\ UNCHANGED <<modvars, region, noCdev>>
  <2>1. RefInv' /\ Holders' = Holders /\ UNCHANGED <<state, refcnt>>
    BY <1>1, RefSame
  <2>2. TypeInv'
    BY <1>1, <2>1 DEF LifeInv, TypeInv, Early
  <2>3. StageInv' /\ RegionInv' /\ BufferInv'
    BY <1>1, <2>1 DEF LifeInv, StageInv, RegionInv, BufferInv, Early, Filling
  <2> QED
    BY <2>1, <2>2, <2>3 DEF LifeInv
<1>2. CASE region' = "none" /\ noCdev' = TRUE /\ dpc' = "run" /\ InitReturned
           /\ UNCHANGED my_cdev
  <2>1. RefInv' /\ Holders' = Holders /\ refcnt' \in Nat
    BY <1>2, InitReturnedLife
  <2>2. TypeInv'
    BY <1>2, <2>1 DEF LifeInv, TypeInv, InitReturned, RefStates
  <2>3. StageInv' /\ BufferInv'
    BY <1>2, <2>1 DEF LifeInv, StageInv, BufferInv, Early, Filling, InitReturned
  <2>4. noCdev' = TRUE /\ dpc' = "run"
    BY <1>2
  <2>5. RegionInv'
    BY <2>4 DEF RegionInv, Filling
  <2> QED
    BY <2>1, <2>2, <2>3, <2>5 DEF LifeInv
<1> QED
  BY <1>1, <1>2

LEMMA CdevAddLife == LifeInv /\ CdevAdd => LifeInv'
<1> SUFFICES ASSUME LifeInv, CdevAdd PROVE LifeInv'
  OBVIOUS
<1> USE DEF CdevAdd, content, procs, history
<1>1. CASE added' = TRUE /\ dpc' = "alloc" /\ UNCHANGED <<modvars, region>>
  <2>1. RefInv' /\ Holders' = Holders /\ UNCHANGED <<state, refcnt>>
    BY <1>1, RefSame
  <2>2. TypeInv'
    BY <1>1, <2>1 DEF LifeInv, TypeInv, Filling
  <2>3. StageInv' /\ RegionInv' /\ BufferInv'
    BY <1>1, <2>1 DEF LifeInv, StageInv, RegionInv, BufferInv, Early, Filling
  <2> QED
    BY <2>1, <2>2, <2>3 DEF LifeInv
<1>2. CASE region' = "none" /\ LoadFails /\ UNCHANGED added
  <2>1. RefInv' /\ Holders' = {}
    BY <1>2, LoadFailsLife DEF Early
  <2>2. TypeInv'
    BY <1>2 DEF LifeInv, TypeInv, LoadFails, InitFailed, RefStates
  <2>3. StageInv' /\ RegionInv' /\ BufferInv'
    BY <1>2, <2>1 DEF LifeInv, StageInv, RegionInv, BufferInv, Early, Filling, LoadFails,
                      InitFailed
  <2> QED
    BY <2>1, <2>2, <2>3 DEF LifeInv
<1> QED
  BY <1>1, <1>2

LEMMA MiscRegisterLife == LifeInv /\ MiscRegister => LifeInv'
<1> SUFFICES ASSUME LifeInv, MiscRegister PROVE LifeInv'
  OBVIOUS
<1> USE DEF MiscRegister, content, procs, history
<1>1. CASE added' = TRUE /\ dpc' = "alloc" /\ UNCHANGED modvars
  <2>1. RefInv' /\ Holders' = Holders /\ UNCHANGED <<state, refcnt>>
    BY <1>1, RefSame
  <2>2. TypeInv'
    BY <1>1, <2>1 DEF LifeInv, TypeInv, Filling
  <2>3. StageInv' /\ RegionInv' /\ BufferInv'
    BY <1>1, <2>1 DEF LifeInv, StageInv, RegionInv, BufferInv, Early, Filling
  <2> QED
    BY <2>1, <2>2, <2>3 DEF LifeInv
<1>2. CASE LoadFails /\ UNCHANGED added
  <2>1. RefInv' /\ Holders' = {}
    BY <1>2, LoadFailsLife DEF Early
  <2>2. TypeInv'
    BY <1>2 DEF LifeInv, TypeInv, LoadFails, InitFailed, RefStates
  <2>3. StageInv' /\ RegionInv' /\ BufferInv'
    BY <1>2, <2>1 DEF LifeInv, StageInv, RegionInv, BufferInv, Early, Filling, LoadFails,
                      InitFailed
  <2> QED
    BY <2>1, <2>2, <2>3 DEF LifeInv
<1> QED
  BY <1>1, <1>2

LEMMA AllocPbufLife == LifeInv /\ AllocPbuf => LifeInv'
<1> SUFFICES ASSUME LifeInv, AllocPbuf PROVE LifeInv'
  OBVIOUS
<1> USE DEF AllocPbuf, procs, history
<1>1. RefInv' /\ Holders' = Holders /\ UNCHANGED <<state, refcnt>>
  BY RefSame
<1>2. TypeInv'
  BY <1>1 DEF LifeInv, TypeInv, Filling
<1>3. StageInv' /\ RegionInv' /\ BufferInv'
  BY <1>1 DEF LifeInv, StageInv, RegionInv, BufferInv, Early, Filling
<1> QED
  BY <1>1, <1>2, <1>3 DEF LifeInv

LEMMA ZeroPbufLife == LifeInv /\ ZeroPbuf => LifeInv'
<1> SUFFICES ASSUME LifeInv, ZeroPbuf PROVE LifeInv'
  OBVIOUS
<1> USE DEF ZeroPbuf, procs
<1>1. RefInv' /\ Holders' = Holders /\ UNCHANGED <<state, refcnt>>
  BY RefSame
<1>2. TypeInv'
  BY <1>1 DEF LifeInv, TypeInv, Filling
<1>3. StageInv' /\ RegionInv' /\ BufferInv'
  BY <1>1 DEF LifeInv, StageInv, RegionInv, BufferInv, Early, Filling
<1> QED
  BY <1>1, <1>2, <1>3 DEF LifeInv

LEMMA FillPbufLife == LifeInv /\ FillPbuf => LifeInv'
<1> SUFFICES ASSUME LifeInv, FillPbuf PROVE LifeInv'
  OBVIOUS
<1> USE DEF FillPbuf, procs, InitReturned
<1>1. RefInv' /\ Holders' = Holders /\ refcnt' \in Nat
  BY InitReturnedLife
<1>2. TypeInv'
  BY <1>1 DEF LifeInv, TypeInv, RefStates
<1>3. StageInv' /\ RegionInv' /\ BufferInv'
  BY <1>1 DEF LifeInv, StageInv, RegionInv, BufferInv, Early, Filling
<1> QED
  BY <1>1, <1>2, <1>3 DEF LifeInv

LEMMA UnloadLife == LifeInv /\ Unload => LifeInv'
<1> SUFFICES ASSUME LifeInv, Unload PROVE LifeInv'
  OBVIOUS
<1> USE DEF Unload, StopModule, device, content, procs, history
<1>1. dpc = "run" /\ Holders' = Holders
  BY HolderSame DEF LifeInv, TypeInv, StageInv, Early, Filling
<1>2. TypeInv'
  BY DEF LifeInv, TypeInv, RefStates
<1>3. StageInv' /\ RegionInv' /\ BufferInv'
  BY <1>1 DEF LifeInv, StageInv, RegionInv, BufferInv, Early, Filling
<1>4. RefInv'
  BY <1>1, HolderCount DEF LifeInv, RefInv, LoaderRefs
<1> QED
  BY <1>2, <1>3, <1>4 DEF LifeInv

LEMMA RemoveDeviceLife == LifeInv /\ RemoveDevice => LifeInv'
<1> SUFFICES ASSUME LifeInv, RemoveDevice PROVE LifeInv'
  OBVIOUS
<1> USE DEF RemoveDevice, content, procs
<1>1. RefInv' /\ Holders' = Holders /\ UNCHANGED <<state, refcnt>>
  BY RefSame
<1>2. TypeInv'
  BY <1>1 DEF LifeInv, TypeInv
<1>3. StageInv' /\ RegionInv' /\ BufferInv'
  BY <1>1 DEF LifeInv, StageInv, RegionInv, BufferInv, Early, Filling
<1> QED
  BY <1>1, <1>2, <1>3 DEF LifeInv

LEMMA FreePbufLife == LifeInv /\ FreePbuf => LifeInv'
<1> SUFFICES ASSUME LifeInv, FreePbuf PROVE LifeInv'
  OBVIOUS
<1> USE DEF FreePbuf, ExitReturned, procs, history
<1>1. Holders' = Holders
  BY HolderSame
<1>2. TypeInv'
  BY DEF LifeInv, TypeInv, RefStates
<1>3. StageInv' /\ RegionInv' /\ BufferInv'
  BY <1>1 DEF LifeInv, StageInv, RegionInv, BufferInv, Early, Filling
<1>4. RefInv'
  BY <1>1 DEF LifeInv, RefInv, LoaderRefs
<1> QED
  BY <1>2, <1>3, <1>4 DEF LifeInv

LEMMA OtherDriverLife == LifeInv /\ OtherDriver => LifeInv'
<1> SUFFICES ASSUME LifeInv, OtherDriver PROVE LifeInv'
  OBVIOUS
<1> USE DEF OtherDriver, content, procs, history
<1>1. RefInv' /\ Holders' = Holders /\ UNCHANGED <<state, refcnt>>
  BY RefSame
<1>2. TypeInv'
  BY <1>1 DEF LifeInv, TypeInv
<1>3. StageInv' /\ RegionInv' /\ BufferInv'
  BY <1>1 DEF LifeInv, StageInv, RegionInv, BufferInv, Early, Filling
<1> QED
  BY <1>1, <1>2, <1>3 DEF LifeInv

LEMMA OpenLife == ASSUME LifeInv, NEW p \in Procs, mycdev_open(p) PROVE LifeInv'
<1> USE DEF mycdev_open, try_module_get, CanGet, device, content, history
<1>1. TypeInv'
  BY DEF LifeInv, TypeInv
<1>2. StageInv' /\ RegionInv' /\ BufferInv'
  BY DEF LifeInv, StageInv, RegionInv, BufferInv
<1>3. Cardinality(Holders') = Cardinality(Holders) + 1 /\ Cardinality(Holders) \in Nat
  BY HolderAdd, HolderCount DEF LifeInv
<1>4. RefInv'
  BY <1>3 DEF LifeInv, RefInv, LoaderRefs
<1> QED
  BY <1>1, <1>2, <1>4 DEF LifeInv

LEMMA CloseLife == ASSUME LifeInv, NEW p \in Procs, Close(p) PROVE LifeInv'
<1> USE DEF Close, module_put, AfterPut, device, content, history
<1>1. TypeInv'
  BY DEF LifeInv, TypeInv
<1>2. /\ Cardinality(Holders') = Cardinality(Holders) - 1 /\ Cardinality(Holders) > 0
      /\ Cardinality(Holders) \in Nat /\ Holders' \subseteq Holders
  BY HolderRemove, HolderCount DEF LifeInv
<1>3. StageInv' /\ RegionInv' /\ BufferInv'
  BY <1>2 DEF LifeInv, TypeInv, StageInv, RegionInv, BufferInv
<1>4. RefInv'
  BY <1>2 DEF LifeInv, RefInv, LoaderRefs
<1> QED
  BY <1>1, <1>3, <1>4 DEF LifeInv

(* A transfer keeps its file open; and an open file keeps the buffer.      *)
LEMMA TransferLife ==
    ASSUME LifeInv, NEW p \in Procs, NEW what \in {"open", "reading", "writing"},
           pc[p] # "closed", pc' = [pc EXCEPT ![p] = what],
           fault' \in {"none", "null_deref"}, UNCHANGED <<modvars, device, pbuf, noCdev>>
    PROVE  LifeInv'
<1>1. Holders' = Holders
  BY DEF LifeInv, TypeInv, Holders, Doing
<1>2. TypeInv'
  BY DEF LifeInv, TypeInv, modvars, device
<1>3. StageInv' /\ RegionInv' /\ BufferInv' /\ RefInv'
  BY <1>1 DEF LifeInv, StageInv, RegionInv, BufferInv, RefInv, LoaderRefs, modvars, device
<1> QED
  BY <1>2, <1>3 DEF LifeInv

LEMMA OpenHasBuffer == ASSUME LifeInv, NEW p \in Procs, pc[p] # "closed" PROVE pbuf # "freed"
<1>1. p \in Holders
  BY DEF Holders, Doing
<1> QED
  BY <1>1, GoneIsUnused DEF LifeInv, BufferInv, StageInv

LEMMA UserLife ==
    ASSUME LifeInv, NEW p \in Procs,
           \/ mycdev_open(p) \/ Close(p)
           \/ BeginRead(p) \/ CopyOut(p) \/ EndRead(p)
           \/ BeginWrite(p) \/ CopyIn(p) \/ PrintPbuf(p)
    PROVE  LifeInv'
<1>1. CASE mycdev_open(p)
  BY <1>1, OpenLife
<1>2. CASE Close(p)
  BY <1>2, CloseLife
<1>3. CASE BeginRead(p)
  BY <1>3, TransferLife DEF BeginRead, NullCopy, content, Up
<1>4. CASE EndRead(p)
  BY <1>4, TransferLife DEF EndRead, content, history, Up
<1>5. CASE BeginWrite(p)
  BY <1>5, TransferLife DEF BeginWrite, NullCopy, content, Up
<1>6. CASE PrintPbuf(p)
  BY <1>6, TransferLife DEF PrintPbuf, content, history, Up
<1>7. CASE CopyOut(p)
  <2>1. pbuf # "freed" /\ pc' = [pc EXCEPT ![p] = "reading"]
    BY <1>7, OpenHasBuffer DEF CopyOut, LifeInv, TypeInv
  <2> QED
    BY <1>7, <2>1, TransferLife DEF CopyOut, content, history, Up
<1>8. CASE CopyIn(p)
  <2>1. pbuf # "freed" /\ pc' = [pc EXCEPT ![p] = "writing"]
    BY <1>8, OpenHasBuffer DEF CopyIn, LifeInv, TypeInv
  <2> QED
    BY <1>8, <2>1, TransferLife DEF CopyIn, history, Up
<1> QED
  BY <1>1, <1>2, <1>3, <1>4, <1>5, <1>6, <1>7, <1>8

LEMMA StepLife == LifeInv /\ [Next]_vars => LifeInv'
<1> SUFFICES ASSUME LifeInv, [Next]_vars PROVE LifeInv'
  OBVIOUS
<1>1. CASE UNCHANGED vars
  BY <1>1 DEF vars, modvars, device, content, procs, history, LifeInv, TypeInv, StageInv,
              RegionInv, RefInv, LoaderRefs, BufferInv, Holders, Doing
<1> QED
  BY <1>1, LoadLife, AllocRegionLife, CdevAllocLife, CdevAddLife, MiscRegisterLife,
     AllocPbufLife, ZeroPbufLife, FillPbufLife, UnloadLife, RemoveDeviceLife, FreePbufLife,
     OtherDriverLife, UserLife DEF Next

LEMMA LifeInvariance == Spec => []LifeInv
BY InitLife, StepLife, PTL DEF Spec

(* The device number stays the cdev module's own through every error path  *)
(* of mycdev_init but the one of cdev_alloc, and is returned at unload.    *)
THEOREM NumberIsOwned == Spec => []RegionOwned
<1>1. LifeInv => RegionOwned
  BY DEF LifeInv, RegionInv, RegionOwned
<1> QED
  BY <1>1, LifeInvariance, PTL

(* No process, however many there are and wherever its transfer stands,    *)
(* reaches pbuf after vfree, and none has the device open then: the count  *)
(* is exactly the open files and the loader's references.                  *)
THEOREM BufferIsSafe == Spec => []BufferOutlivesFiles
<1>1. LifeInv => BufferOutlivesFiles
  <2> SUFFICES ASSUME LifeInv PROVE BufferOutlivesFiles
    OBVIOUS
  <2>1. fault # "use_after_free"
    BY DEF LifeInv, BufferInv
  <2>2. pbuf = "freed" => \A p \in Procs : pc[p] = "closed"
    BY OpenHasBuffer
  <2> QED
    BY <2>1, <2>2 DEF BufferOutlivesFiles
<1> QED
  BY <1>1, LifeInvariance, PTL

---------------------------------------------------------------------------
(* Each step is one of a module that goes only without users.              *)
LEMMA UseStep ==
    ASSUME LifeInv, [Next]_vars
    PROVE  [Life!UseNext]_(Life!useVars)
<1> USE DEF Life!useVars
<1>0. Holders = Procs \ Doing("closed") /\ Holders' = Procs \ Doing("closed")'
  BY DEF Holders
<1>1. CASE UNCHANGED vars
  BY <1>1 DEF vars, modvars, procs, Doing
<1>2. CASE Load
  <2>1. Holders = {} /\ UNCHANGED Holders
    BY <1>2, GoneIsUnused, HolderSame DEF Load, LoadModule, procs
  <2> QED
    BY <1>0, <1>2, <2>1 DEF Load, LoadModule, Life!UseNext, Life!Arrive
<1>3. CASE AllocRegion \/ CdevAdd \/ MiscRegister
  <2>1. Holders = {} /\ UNCHANGED Holders
    BY <1>3, HolderSame DEF AllocRegion, CdevAdd, MiscRegister, procs, LifeInv, StageInv, Early
  <2> QED
    BY <1>0, <1>3, <2>1 DEF AllocRegion, CdevAdd, MiscRegister, LoadFails, InitFailed, modvars,
                            Life!UseNext, Life!Depart
<1>4. CASE CdevAlloc \/ AllocPbuf \/ ZeroPbuf \/ FillPbuf \/ RemoveDevice \/ FreePbuf
           \/ OtherDriver
  BY <1>4 DEF CdevAlloc, AllocPbuf, ZeroPbuf, FillPbuf, RemoveDevice, FreePbuf, OtherDriver,
              InitReturned, ExitReturned, modvars, procs, Doing
<1>5. CASE Unload
  <2>1. UNCHANGED Holders
    BY <1>5, HolderSame DEF Unload, procs
  <2>2. Holders = {}
    <3>1. refcnt = 1 /\ LoaderRefs = 1
      BY <1>5 DEF Unload, StopModule, LoaderRefs
    <3> QED
      BY <3>1, HolderCount DEF LifeInv, RefInv
  <2> QED
    BY <1>0, <1>5, <2>1, <2>2 DEF Unload, StopModule, Life!UseNext, Life!Depart
<1>6. ASSUME NEW p \in Procs, mycdev_open(p) PROVE Life!UseNext
  <2>1. Holders' = Holders \cup {p} /\ p \notin Holders
    BY <1>6, HolderAdd DEF mycdev_open, LifeInv
  <2>2. Life!Enter(p)
    BY <1>0, <1>6, <2>1 DEF mycdev_open, try_module_get, CanGet, Life!Enter
  <2> QED
    BY <2>2 DEF Life!UseNext
<1>7. ASSUME NEW p \in Procs, Close(p) PROVE Life!UseNext
  <2>1. Holders' = Holders \ {p} /\ p \in Holders
    BY <1>7, HolderRemove DEF Close, LifeInv
  <2>2. state \in {"coming", "live"}
    BY <2>1, GoneIsUnused DEF LifeInv, TypeInv, RefStates
  <2>3. Life!Leave(p)
    BY <1>0, <1>7, <2>1, <2>2 DEF Close, Life!Leave
  <2> QED
    BY <2>3 DEF Life!UseNext
<1>8. ASSUME NEW p \in Procs,
             \/ BeginRead(p) \/ CopyOut(p) \/ EndRead(p)
             \/ BeginWrite(p) \/ CopyIn(p) \/ PrintPbuf(p)
      PROVE  UNCHANGED Life!useVars
  <2>1. UNCHANGED state
    BY <1>8 DEF BeginRead, CopyOut, EndRead, BeginWrite, CopyIn, PrintPbuf, modvars
  <2>2. Holders' = Holders
    BY <1>8 DEF BeginRead, CopyOut, EndRead, BeginWrite, CopyIn, PrintPbuf, LifeInv, TypeInv,
                Holders, Doing
  <2> QED
    BY <1>0, <2>1, <2>2
<1> HIDE DEF Life!useVars
<1> QED
  BY <1>1, <1>2, <1>3, <1>4, <1>5, <1>6, <1>7, <1>8 DEF Next

(* Both drivers implement a module that is entered while it can be used    *)
(* and goes only when no file is open (the .owner of the file operations), *)
(* for any number of processes and through every error path of the two     *)
(* init routines.                                                          *)
THEOREM DriverKeepsUsers == Spec => GoesWithoutUsers
<1>1. Init => Life!UseInit
  BY DEF Init, Life!UseInit, Doing
<1> QED
  BY <1>1, LifeInvariance, UseStep, PTL DEF Spec, GoesWithoutUsers, Life!UseSpec

---------------------------------------------------------------------------
(* The content.                                                            *)
LEMMA InitContent == Init => ContentInv
<1> SUFFICES ASSUME Init PROVE ContentInv
  OBVIOUS
<1> USE DEF Init
<1>1. ContentType
  <2>1. cells \in [1..Cells -> Names] /\ copied \in [Procs -> 0..Cells]
    BY CellsAssumption DEF Names
  <2>2. rbuf \in [Procs -> Seq(Names)]
    <3>1. <<>> \in Seq(Names)
      OBVIOUS
    <3> QED
      BY <3>1
  <2>3. blurred \in BOOLEAN /\ disturbed \subseteq Procs
    OBVIOUS
  <2> QED
    BY <2>1, <2>2, <2>3 DEF ContentType
<1>2. Doing("writing") = {} /\ Doing("reading") = {}
  BY DEF Doing
<1>3. WriteInv /\ ReadInv
  BY <1>2 DEF WriteInv, ReadInv, Uniform
<1>4. TornNeedsOverlap
  BY DEF TornNeedsOverlap
<1> QED
  BY <1>1, <1>3, <1>4 DEF ContentInv

(* Steps that move no byte and start no transfer.                          *)
LEMMA NoTransfer ==
    ASSUME ContentInv, UNCHANGED <<cells, copied, rbuf, blurred, disturbed>>,
           dpc' = "sprintf" => dpc = "sprintf",
           Doing("writing")' = Doing("writing"), Doing("reading")' \subseteq Doing("reading")
    PROVE  ContentInv'
<1>1. ContentType' /\ TornNeedsOverlap'
  BY DEF ContentInv, ContentType, TornNeedsOverlap
<1>2. ASSUME ~blurred PROVE WriteInv'
  BY <1>2 DEF ContentInv, WriteInv, Uniform, Split
<1>3. ASSUME ~blurred PROVE ReadInv'
  BY <1>3 DEF ContentInv, ReadInv
<1> QED
  BY <1>1, <1>2, <1>3 DEF ContentInv

LEMMA LoadContent == LifeInv /\ ContentInv /\ Load => ContentInv'
<1> SUFFICES ASSUME LifeInv, ContentInv, Load PROVE ContentInv'
  OBVIOUS
<1> USE DEF Load, LoadModule, procs
<1>1. Holders = {}
  BY GoneIsUnused
<1>2. Doing("writing")' = {} /\ Doing("reading")' = {}
  BY <1>1 DEF Holders, Doing
<1>3. ContentType' /\ TornNeedsOverlap'
  BY DEF ContentInv, ContentType, TornNeedsOverlap, Names
<1>4. \A k \in 1..Cells : cells'[k] = "raw"
  OBVIOUS
<1>5. WriteInv' /\ ReadInv'
  BY <1>2, <1>4 DEF WriteInv, ReadInv, Uniform
<1> QED
  BY <1>3, <1>5 DEF ContentInv

(* The init routine fills the buffer, beside whoever opened it already.    *)
LEMMA FillContent == LifeInv /\ ContentInv /\ (ZeroPbuf \/ FillPbuf) => ContentInv'
<1> SUFFICES ASSUME LifeInv, ContentInv, ZeroPbuf \/ FillPbuf PROVE ContentInv'
  OBVIOUS
<1>1. /\ UNCHANGED <<pc, copied, rbuf>>
      /\ blurred' = (blurred \/ Doing("writing") # {})
      /\ disturbed' = disturbed \cup Doing("reading")
  BY DEF ZeroPbuf, FillPbuf, procs
<1>2. cells' \in [1..Cells -> Names]
  BY DEF ZeroPbuf, FillPbuf, ContentInv, ContentType, Names
<1>3. blurred' \in BOOLEAN /\ disturbed' \subseteq Procs
  BY <1>1 DEF Doing, ContentInv, ContentType
<1>4. ContentType'
  BY <1>1, <1>2, <1>3 DEF ContentInv, ContentType
<1>5. Doing("writing")' = Doing("writing") /\ Doing("reading")' = Doing("reading")
  BY <1>1 DEF Doing
<1>6. ASSUME ~blurred' PROVE WriteInv' /\ ReadInv'
  <2>1. ~blurred /\ Doing("writing") = {}
    BY <1>1, <1>6 DEF ContentInv, ContentType
  <2>2. \A k \in 1..Cells : cells'[k] = "init"
    <3>1. CASE ZeroPbuf
      BY <3>1 DEF ZeroPbuf
    <3>2. CASE FillPbuf
      BY <2>1, <3>2 DEF FillPbuf, ContentInv, ContentType, WriteInv
    <3> QED
      BY <3>1, <3>2
  <2>3. WriteInv'
    BY <1>5, <2>1, <2>2 DEF WriteInv, Uniform
  <2>4. ReadInv'
    BY <1>1, <1>5 DEF ReadInv
  <2> QED
    BY <2>3, <2>4
<1>7. TornNeedsOverlap'
  <2>1. Procs \ disturbed' \subseteq Procs \ disturbed /\ (blurred => blurred')
    BY <1>1
  <2> QED
    BY <1>1, <2>1 DEF ContentInv, TornNeedsOverlap
<1> QED
  BY <1>4, <1>6, <1>7 DEF ContentInv

LEMMA BeginReadContent ==
    ASSUME LifeInv, ContentInv, NEW p \in Procs, BeginRead(p)
    PROVE  ContentInv'
<1> USE DEF BeginRead, device, content
<1>1. /\ copied' \in [Procs -> 0..Cells] /\ disturbed' \subseteq Procs
      /\ rbuf' \in [Procs -> Seq(Names)]
  BY CellsAssumption DEF ContentInv, ContentType, FirstPiece
<1>2. ContentType'
  BY <1>1 DEF ContentInv, ContentType
<1>3. Doing("writing")' = Doing("writing") /\ p \notin Doing("writing")
      /\ Doing("reading")' = Doing("reading") \cup {p}
  BY DEF LifeInv, TypeInv, Doing
<1>4. \A q \in Procs \ {p} : copied'[q] = copied[q] /\ rbuf'[q] = rbuf[q]
                            /\ (q \in disturbed' <=> q \in disturbed)
  BY DEF ContentInv, ContentType
<1>5. rbuf'[p] = <<>>
  BY DEF ContentInv, ContentType
<1>6. ASSUME ~blurred PROVE WriteInv'
  BY <1>3, <1>4, <1>6 DEF ContentInv, WriteInv, Uniform, Split, Doing
<1>7. ASSUME ~blurred PROVE ReadInv'
  <2> SUFFICES ASSUME NEW q \in Doing("reading")' \ disturbed'
               PROVE  /\ Doing("writing") = {} /\ dpc # "sprintf"
                      /\ \A j \in DOMAIN rbuf'[q] : rbuf'[q][j] = cells[1]
    BY <1>3 DEF ReadInv
  <2>1. CASE q = p
    BY <1>5, <2>1
  <2>2. CASE q # p
    BY <1>3, <1>4, <1>7, <2>2 DEF ContentInv, ReadInv, Doing
  <2> QED
    BY <2>1, <2>2
<1>8. TornNeedsOverlap'
  BY <1>4, <1>5 DEF ContentInv, TornNeedsOverlap
<1> QED
  BY <1>2, <1>6, <1>7, <1>8 DEF ContentInv

LEMMA CopyOutContent ==
    ASSUME LifeInv, ContentInv, NEW p \in Procs, CopyOut(p)
    PROVE  ContentInv'
<1> USE DEF CopyOut, device, content, history
<1>1. /\ copied[p] \in 0..Cells /\ copied[p] + 1 \in 1..Cells
      /\ cells[copied[p] + 1] \in Names /\ rbuf[p] \in Seq(Names)
  BY CellsAssumption DEF ContentInv, ContentType
<1>2. copied' \in [Procs -> 0..Cells]
  BY <1>1, CellsAssumption DEF ContentInv, ContentType
<1>3. rbuf' \in [Procs -> Seq(Names)]
  BY <1>1 DEF ContentInv, ContentType
<1>4. ContentType'
  BY <1>2, <1>3 DEF ContentInv, ContentType
<1>5. Doing("writing")' = Doing("writing") /\ Doing("reading")' = Doing("reading")
      /\ p \in Doing("reading") /\ p \notin Doing("writing")
  BY DEF Doing
<1>6. \A q \in Procs \ {p} : copied'[q] = copied[q] /\ rbuf'[q] = rbuf[q]
  BY DEF ContentInv, ContentType
<1>7. rbuf'[p] = Append(rbuf[p], cells[copied[p] + 1])
  BY DEF ContentInv, ContentType
<1>8. /\ Len(rbuf[p]) \in Nat /\ DOMAIN rbuf[p] = 1..Len(rbuf[p])
      /\ DOMAIN rbuf'[p] = 1..(Len(rbuf[p]) + 1)
      /\ \A j \in DOMAIN rbuf[p] : rbuf'[p][j] = rbuf[p][j]
      /\ rbuf'[p][Len(rbuf[p]) + 1] = cells[copied[p] + 1]
  BY <1>1, <1>7
<1>9. ASSUME ~blurred PROVE WriteInv'
  BY <1>5, <1>6, <1>9 DEF ContentInv, WriteInv, Uniform, Split, Doing
<1>10. ASSUME ~blurred, p \notin disturbed
       PROVE  \A j \in DOMAIN rbuf'[p] : rbuf'[p][j] = cells[1]
  <2>1. Doing("writing") = {} /\ \A j \in DOMAIN rbuf[p] : rbuf[p][j] = cells[1]
    BY <1>5, <1>10 DEF ContentInv, ReadInv
  <2>2. cells[copied[p] + 1] = cells[1]
    BY <1>1, <1>10, <2>1, CellsAssumption DEF ContentInv, WriteInv, Uniform
  <2> QED
    BY <1>8, <2>1, <2>2
<1>11. ASSUME ~blurred PROVE ReadInv'
  <2> SUFFICES ASSUME NEW q \in Doing("reading") \ disturbed
               PROVE  /\ Doing("writing") = {} /\ dpc # "sprintf"
                      /\ \A j \in DOMAIN rbuf'[q] : rbuf'[q][j] = cells[1]
    BY <1>5 DEF ReadInv
  <2>1. Doing("writing") = {} /\ dpc # "sprintf"
        /\ \A j \in DOMAIN rbuf[q] : rbuf[q][j] = cells[1]
    BY <1>11 DEF ContentInv, ReadInv
  <2> QED
    BY <1>6, <1>10, <1>11, <2>1 DEF Doing
<1>12. TornNeedsOverlap'
  BY <1>6, <1>10 DEF ContentInv, TornNeedsOverlap
<1> QED
  BY <1>4, <1>9, <1>11, <1>12 DEF ContentInv

LEMMA BeginWriteContent ==
    ASSUME LifeInv, ContentInv, NEW p \in Procs, BeginWrite(p)
    PROVE  ContentInv'
<1> USE DEF BeginWrite, device, content
<1>1. copied' \in [Procs -> 0..Cells] /\ copied'[p] \in {0, Cells}
  BY CellsAssumption DEF ContentInv, ContentType, FirstPiece
<1>2. blurred' \in BOOLEAN /\ disturbed' \subseteq Procs
  BY DEF ContentInv, ContentType, Doing
<1>3. ContentType'
  BY <1>1, <1>2 DEF ContentInv, ContentType
<1>4. Doing("writing")' = Doing("writing") \cup {p} /\ Doing("reading")' = Doing("reading")
  BY DEF LifeInv, TypeInv, Doing
<1>5. ASSUME ~blurred' PROVE WriteInv' /\ ReadInv'
  <2>1. ~blurred /\ Doing("writing") = {} /\ dpc # "sprintf"
    BY <1>5 DEF ContentInv, ContentType
  <2>2. Uniform
    BY <2>1 DEF ContentInv, WriteInv
  <2>3. Uniform' /\ (copied'[p] = Cells \/ Split(p)')
    BY <1>1, <2>2, CellsAssumption DEF Uniform, Split
  <2>4. WriteInv'
    BY <1>4, <2>1, <2>3 DEF WriteInv
  <2>5. ReadInv'
    BY <1>4 DEF ReadInv
  <2> QED
    BY <2>4, <2>5
<1>6. TornNeedsOverlap'
  <2>1. Procs \ disturbed' \subseteq Procs \ disturbed /\ (blurred => blurred')
    BY DEF ContentInv, ContentType
  <2>2. rbuf' = rbuf
    OBVIOUS
  <2> QED
    BY <2>1, <2>2 DEF ContentInv, TornNeedsOverlap
<1> QED
  BY <1>3, <1>5, <1>6 DEF ContentInv

LEMMA CopyInContent ==
    ASSUME LifeInv, ContentInv, NEW p \in Procs, CopyIn(p)
    PROVE  ContentInv'
<1> USE DEF CopyIn, device, history
<1>1. copied[p] \in 0..Cells /\ copied[p] + 1 \in 1..Cells /\ copied'[p] = copied[p] + 1
  BY CellsAssumption DEF ContentInv, ContentType
<1>2. copied' \in [Procs -> 0..Cells]
  BY <1>1, CellsAssumption DEF ContentInv, ContentType
<1>3. cells' \in [1..Cells -> Names]
  BY <1>1 DEF ContentInv, ContentType, Names
<1>4. ContentType'
  BY <1>2, <1>3 DEF ContentInv, ContentType
<1>5. Doing("writing")' = Doing("writing") /\ Doing("reading")' = Doing("reading")
      /\ p \in Doing("writing")
  BY DEF Doing
<1>6. ASSUME ~blurred PROVE WriteInv'
  <2>1. Doing("writing") = {p} /\ dpc # "sprintf"
    BY <1>5, <1>6 DEF ContentInv, WriteInv
  <2>2. Split(p)
    BY <1>1, <1>5, <1>6, CellsAssumption DEF ContentInv, WriteInv
  <2>3. \A k \in 1..Cells : cells'[k] = IF k = copied[p] + 1 THEN p ELSE cells[k]
    BY <1>1 DEF ContentInv, ContentType
  <2>4. Split(p)'
    BY <1>1, <2>2, <2>3, CellsAssumption DEF Split
  <2> QED
    BY <1>5, <2>1, <2>4 DEF WriteInv
<1>7. ASSUME ~blurred PROVE ReadInv'
  BY <1>5, <1>7 DEF ContentInv, ReadInv
<1>8. TornNeedsOverlap'
  BY DEF ContentInv, TornNeedsOverlap
<1> QED
  BY <1>4, <1>6, <1>7, <1>8 DEF ContentInv

(* The writer ends: the bytes are its own, or nobody moved any.            *)
LEMMA PrintPbufContent ==
    ASSUME LifeInv, ContentInv, NEW p \in Procs, PrintPbuf(p)
    PROVE  ContentInv'
<1> USE DEF PrintPbuf, device, content, history
<1>1. ContentType' /\ TornNeedsOverlap'
  BY DEF ContentInv, ContentType, TornNeedsOverlap
<1>2. Doing("writing")' = Doing("writing") \ {p} /\ Doing("reading")' = Doing("reading")
      /\ p \in Doing("writing")
  BY DEF LifeInv, TypeInv, Doing
<1>3. ASSUME ~blurred PROVE WriteInv'
  <2>1. Doing("writing") = {p} /\ dpc # "sprintf"
    BY <1>2, <1>3 DEF ContentInv, WriteInv
  <2>2. Uniform
    BY <1>2, <1>3 DEF ContentInv, WriteInv, Split, Uniform
  <2> QED
    BY <1>2, <2>1, <2>2 DEF WriteInv, Uniform
<1>4. ASSUME ~blurred PROVE ReadInv'
  BY <1>2, <1>4 DEF ContentInv, ReadInv
<1> QED
  BY <1>1, <1>3, <1>4 DEF ContentInv

LEMMA StepContent == LifeInv /\ ContentInv /\ [Next]_vars => ContentInv'
<1> SUFFICES ASSUME LifeInv, ContentInv, [Next]_vars PROVE ContentInv'
  OBVIOUS
<1>1. CASE \/ AllocRegion \/ CdevAlloc \/ CdevAdd \/ MiscRegister \/ AllocPbuf
           \/ Unload \/ RemoveDevice \/ FreePbuf \/ OtherDriver \/ UNCHANGED vars
  <2>1. UNCHANGED <<cells, copied, rbuf, blurred, disturbed, pc>>
    BY <1>1 DEF AllocRegion, CdevAlloc, CdevAdd, MiscRegister, AllocPbuf, Unload, RemoveDevice,
                FreePbuf, OtherDriver, vars, content, procs, history
  <2>2. dpc' = "sprintf" => dpc = "sprintf"
    BY <1>1 DEF AllocRegion, CdevAlloc, CdevAdd, MiscRegister, AllocPbuf, Unload, RemoveDevice,
                FreePbuf, OtherDriver, LoadFails, vars, device
  <2>3. Doing("writing")' = Doing("writing") /\ Doing("reading")' = Doing("reading")
    BY <2>1 DEF Doing
  <2> QED
    BY <2>1, <2>2, <2>3, NoTransfer
<1>2. ASSUME NEW p \in Procs, mycdev_open(p) \/ Close(p) \/ EndRead(p) PROVE ContentInv'
  <2>1. UNCHANGED <<cells, copied, rbuf, blurred, disturbed, dpc>>
    BY <1>2 DEF mycdev_open, Close, EndRead, device, content, history
  <2>2. Doing("writing")' = Doing("writing") /\ Doing("reading")' \subseteq Doing("reading")
    BY <1>2 DEF mycdev_open, Close, EndRead, LifeInv, TypeInv, Doing
  <2> QED
    BY <2>1, <2>2, NoTransfer
<1>3. CASE Load
  BY <1>3, LoadContent
<1>4. CASE ZeroPbuf \/ FillPbuf
  BY <1>4, FillContent
<1>5. ASSUME NEW p \in Procs,
             BeginRead(p) \/ CopyOut(p) \/ BeginWrite(p) \/ CopyIn(p) \/ PrintPbuf(p)
      PROVE  ContentInv'
  BY <1>5, BeginReadContent, CopyOutContent, BeginWriteContent, CopyInContent,
     PrintPbufContent
<1> QED
  BY <1>1, <1>2, <1>3, <1>4, <1>5 DEF Next

(* A read torn between two contents was overlapped by a write, or two      *)
(* writers overlapped before it, for any number of readers and writers and *)
(* any number of pieces the copy routines divide the 64 bytes into.        *)
THEOREM TearingNeedsOverlap == Spec => []TornNeedsOverlap
<1>1. Init => ContentInv
  BY InitContent
<1>2. LifeInv /\ ContentInv /\ [Next]_vars => ContentInv'
  BY StepContent
<1>3. ContentInv => TornNeedsOverlap
  BY DEF ContentInv
<1> QED
  BY <1>1, <1>2, <1>3, LifeInvariance, PTL DEF Spec

=============================================================================
