---------------------------- MODULE BlkDevProofs ----------------------------
(***************************************************************************)
(* What the RAM disk promises for every sector size, width of an int, size *)
(* parameter and length of the queue, proved with TLAPS.                   *)
(***************************************************************************)
EXTENDS BlkDev, TLAPS

(* Quotients and remainders with a variable modulus.                       *)
LEMMA DivMod ==
    ASSUME NEW m \in Nat \ {0}, NEW x \in Int
    PROVE  /\ x \div m \in Int /\ x % m \in 0..(m - 1)
           /\ x = m * (x \div m) + (x % m)
OBVIOUS

LEMMA Smaller ==
    ASSUME NEW m \in Nat \ {0}, NEW a \in Int, NEW b \in Int
    PROVE  /\ a <= b => m * a <= m * b
           /\ a < b => m * a + m <= m * b
           /\ m * a \in Int
<1>1. m * a \in Int /\ m * b \in Int /\ m * (a + 1) = m * a + m
  OBVIOUS
<1>2. a <= b => m * a <= m * b
  OBVIOUS
<1>3. a + 1 <= b => m * (a + 1) <= m * b
  OBVIOUS
<1> QED
  BY <1>1, <1>2, <1>3

LEMMA Order ==
    ASSUME NEW m \in Nat \ {0}, NEW a \in Int, NEW b \in Int
    PROVE  /\ m * a <= m * b <=> a <= b
           /\ m * a < m * b <=> a < b
BY Smaller

LEMMA Remainder ==
    ASSUME NEW m \in Nat \ {0}, NEW x \in Int, NEW q \in Int, NEW r \in 0..(m - 1),
           x = m * q + r
    PROVE  x % m = r /\ x \div m = q
<1> DEFINE q2 == x \div m
           r2 == x % m
<1>1. q2 \in Int /\ r2 \in 0..(m - 1) /\ x = m * q2 + r2
  BY DivMod
<1> HIDE DEF q2, r2
<1>2. ~(q < q2)
  BY <1>1, Smaller
<1>3. ~(q2 < q)
  BY <1>1, Smaller
<1>4. q = q2
  BY <1>1, <1>2, <1>3
<1>5. r = r2
  BY <1>1, <1>4
<1> QED
  BY <1>4, <1>5 DEF q2, r2

LEMMA SmallRemainder ==
    ASSUME NEW m \in Nat \ {0}, NEW x \in 0..(m - 1)
    PROVE  x % m = x
<1>1. x = m * 0 + x
  OBVIOUS
<1> QED
  BY <1>1, Remainder

(* An int is smaller than half the number of its values; a value in that   *)
(* range is kept.                                                          *)
LEMMA IntRange ==
    ASSUME NEW x \in Int
    PROVE  /\ ToInt(x) \in Int /\ 2 * ToInt(x) < IntMod
           /\ (x >= 0 /\ 2 * x < IntMod) => ToInt(x) = x
<1>1. x % IntMod \in 0..(IntMod - 1) /\ IntMod \in Nat \ {0}
  BY WidthAssumption, DivMod
<1>2. ToInt(x) \in Int /\ 2 * ToInt(x) < IntMod
  BY <1>1 DEF ToInt
<1>3. x >= 0 /\ 2 * x < IntMod => x % IntMod = x
  BY <1>1, SmallRemainder
<1> QED
  BY <1>1, <1>2, <1>3 DEF ToInt

---------------------------------------------------------------------------
(* The inductive invariant. Shapes of the state first.                     *)
Requests == [op : {"read", "write"}, pos : Nat, len : Nat \ {0}, val : Vals \cup {"raw"}]
Loading == {"vmalloc", "queue", "register", "gendisk", "add"}
Unloading == {"run", "put", "cleanup", "vfree"}

TypeInv ==
    /\ state \in RefStates /\ refcnt \in Nat
    /\ dpc \in {"off"} \cup Loading \cup Unloading /\ diskmb \in Sizes
    /\ queue \in BOOLEAN /\ registered \in BOOLEAN /\ opened \in BOOLEAN
    /\ lateFail \in BOOLEAN /\ reqs \in Seq(Requests)
    /\ serving \in {"idle", "get", "queued", "fresh"}

(* What exists at each statement of my_init and my_exit. The reference     *)
(* count is the loader's share and one for the open device.                *)
LifeInv ==
    /\ state = "unloaded" <=> dpc = "off"
    /\ state = "coming" <=> dpc \in Loading
    /\ state = "live" => dpc = "run"
    /\ refcnt = (IF state \in {"coming", "live"} THEN 1 ELSE 0)
                 + (IF state = "coming" THEN 1 ELSE 0) + (IF opened THEN 1 ELSE 0)
    /\ opened => state \in {"coming", "live"} /\ my_gd = "added"
    /\ dpc = "add" => my_gd \in {"alloc", "added"}
    /\ dpc = "run" => my_gd = "added"
    /\ dpc = "put" => my_gd = "alloc"
    /\ dpc \notin {"add", "run", "put"} => my_gd = "none"
    /\ registered <=> dpc \in {"gendisk", "add", "run", "put"}
    /\ queue => dpc \notin {"vmalloc", "queue", "vfree"} /\ (dpc = "off" => lateFail)

(* The area is there, with a value in each sector of the disk.             *)
AreaInv ==
    /\ ramdisk = "alloc" <=> dpc \notin {"off", "vmalloc"}
    /\ ramdisk = "alloc" => /\ disk_size > 0
                            /\ mem \in [0..(Capacity - 1) -> Vals \cup {"raw"}]

(* Requests that are not finished lie in the disk and keep it open; the    *)
(* loop runs only while there is a queue.                                  *)
Fits(r) == r.pos + r.len <= Capacity

RequestInv ==
    /\ reqs # <<>> \/ serving = "queued" => opened
    /\ \A k \in DOMAIN reqs : Fits(reqs[k])
    /\ serving = "queued" => rq \in Requests /\ Fits(rq)
    /\ serving = "fresh" => rq = [NoRq EXCEPT !.pos = -1]
    /\ serving # "idle" => dpc \in {"add", "run", "put", "cleanup"}

IInv == TypeInv /\ LifeInv /\ AreaInv /\ RequestInv /\ RequestsAreSafe

---------------------------------------------------------------------------
(* The arithmetic of my_request.                                           *)
LEMMA DiskRange ==
    ASSUME diskmb \in Sizes
    PROVE  /\ disk_size \in Int /\ 2 * disk_size < IntMod
           /\ Capacity \in Int /\ SectorSize * Capacity <= disk_size
           /\ disk_size > 0 => Capacity >= 0
<1>1. diskmb * Mega \in Int
  BY SizesAssumption, MegaAssumption
<1>2. disk_size \in Int /\ 2 * disk_size < IntMod
  BY <1>1, IntRange DEF disk_size
<1> HIDE DEF disk_size
<1>3. SectorSize \in Nat \ {0}
  BY SectorAssumption
<1>4. /\ Capacity \in Int /\ disk_size % SectorSize \in 0..(SectorSize - 1)
      /\ disk_size = SectorSize * Capacity + (disk_size % SectorSize)
  BY <1>2, <1>3, DivMod DEF Capacity
<1>5. disk_size > 0 => Capacity >= 0
  <2>1. SUFFICES ASSUME disk_size > 0, Capacity < 0 PROVE FALSE
    BY <1>4
  <2>2. SectorSize * Capacity + SectorSize <= SectorSize * 0
    BY <1>3, <1>4, <2>1, Smaller
  <2> QED
    BY <1>3, <1>4, <2>1, <2>2
<1> QED
  BY <1>2, <1>4, <1>5, <1>3, Smaller

(* In the disk, offsets and sizes do not wrap, the test for the end of the *)
(* device passes, and the copy touches the sectors of the request.         *)
LEMMA InRange ==
    ASSUME diskmb \in Sizes, NEW pos \in Nat, NEW nr \in Nat, pos + nr <= Capacity
    PROVE  /\ Ptr(pos) = SectorSize * pos /\ Size(nr) = SectorSize * nr
           /\ Ptr(pos) + Size(nr) = SectorSize * (pos + nr)
           /\ Ptr(pos) + Size(nr) \in Int /\ Capacity * SectorSize \in Int
           /\ Ptr(pos) + Size(nr) <= Capacity * SectorSize
           /\ ~Beyond(pos, nr)
           /\ Ptr(pos) \div SectorSize = pos
<1>1. /\ SectorSize \in Nat \ {0} /\ IntMod \in Nat \ {0}
      /\ disk_size \in Int /\ 2 * disk_size < IntMod
      /\ Capacity \in Int /\ SectorSize * Capacity <= disk_size
  BY SectorAssumption, WidthAssumption, DiskRange
<1> HIDE DEF disk_size, Capacity
<1>2. /\ SectorSize * pos \in Nat /\ SectorSize * nr \in Nat
      /\ SectorSize * (pos + nr) = SectorSize * pos + SectorSize * nr
      /\ pos <= SectorSize * pos
  BY <1>1
<1>3. SectorSize * (pos + nr) <= SectorSize * Capacity
  BY <1>1, Smaller
<1>4. /\ SectorSize * pos \in 0..(IntMod - 1) /\ pos \in 0..(IntMod - 1)
      /\ 2 * (SectorSize * nr) < IntMod
  BY <1>1, <1>2, <1>3
<1>5. pos % IntMod = pos /\ (SectorSize * pos) % IntMod = SectorSize * pos
  BY <1>1, <1>4, SmallRemainder
<1>6. pos * SectorSize = SectorSize * pos /\ nr * SectorSize = SectorSize * nr
      /\ Capacity * SectorSize = SectorSize * Capacity
  BY <1>1
<1>7. Ptr(pos) = SectorSize * pos
  BY <1>5, <1>6 DEF Ptr
<1>8. Size(nr) = SectorSize * nr
  BY <1>2, <1>4, <1>6, IntRange DEF Size
<1>9. Ptr(pos) \div SectorSize = pos
  <2>1. SectorSize * pos = SectorSize * pos + 0 /\ 0 \in 0..(SectorSize - 1)
    BY <1>1, <1>2
  <2> QED
    BY <1>1, <1>2, <1>7, <2>1, Remainder
<1> QED
  BY <1>1, <1>2, <1>3, <1>6, <1>7, <1>8, <1>9 DEF Beyond

(* A request that blk_get_request made up is always past the end.          *)
LEMMA MadeUpIsBeyond == ASSUME diskmb \in Sizes PROVE Beyond(-1, 0)
<1>1. /\ SectorSize \in Nat \ {0} /\ IntMod \in Nat \ {0} /\ 2 * SectorSize <= IntMod
      /\ disk_size \in Int /\ 2 * disk_size < IntMod
  BY SectorAssumption, WidthAssumption, DiskRange
<1> HIDE DEF disk_size
<1>2. (-1) % IntMod = IntMod - 1
  <2>1. /\ -1 = IntMod * (-1) + (IntMod - 1)
        /\ -1 \in Int /\ IntMod - 1 \in 0..(IntMod - 1)
    BY <1>1
  <2> QED
    BY <1>1, <2>1, Remainder
<1>3. Ptr(-1) = IntMod - SectorSize
  <2>1. (IntMod - 1) * SectorSize = IntMod * (SectorSize - 1) + (IntMod - SectorSize)
    BY <1>1
  <2>2. /\ (IntMod - 1) * SectorSize \in Int /\ SectorSize - 1 \in Int
        /\ IntMod - SectorSize \in 0..(IntMod - 1)
    BY <1>1
  <2>3. ((IntMod - 1) * SectorSize) % IntMod = IntMod - SectorSize
    BY <1>1, <2>1, <2>2, Remainder
  <2> QED
    BY <1>2, <2>3 DEF Ptr
<1>4. Size(0) = 0
  <2>1. 0 * SectorSize = 0
    BY <1>1
  <2> QED
    BY <1>1, <2>1, IntRange DEF Size
<1> QED
  BY <1>1, <1>3, <1>4 DEF Beyond

---------------------------------------------------------------------------
(* The invariant is kept.                                                  *)
LEMMA InitIInv == Init => IInv
<1> SUFFICES ASSUME Init PROVE IInv
  OBVIOUS
<1>1. TypeInv
  <2>1. queue \in BOOLEAN /\ registered \in BOOLEAN /\ opened \in BOOLEAN /\ lateFail \in BOOLEAN
    BY DEF Init
  <2> QED
    BY <2>1 DEF Init, TypeInv, RefStates, Loading, Unloading
<1>2. LifeInv
  BY DEF Init, LifeInv, Loading
<1>3. AreaInv /\ RequestInv /\ RequestsAreSafe
  BY DEF Init, AreaInv, RequestInv, RequestsAreSafe
<1> QED
  BY <1>1, <1>2, <1>3 DEF IInv

(* The disk keeps its size while the parameter is not set again.           *)
LEMMA SameSize ==
    ASSUME UNCHANGED diskmb
    PROVE  disk_size' = disk_size /\ Capacity' = Capacity /\ (\A r : Fits(r)' <=> Fits(r))
BY DEF disk_size, Capacity, Fits

LEMMA LoadIInv == ASSUME IInv, Load PROVE IInv'
<1> USE DEF IInv, Load, modvars, disk, device, requests, LoadFails,
        LoadModule, InitReturned, InitFailed, StopModule, ExitReturned, module_put, AfterPut
<1>1. TypeInv' /\ RequestsAreSafe'
  BY DEF TypeInv, LifeInv, RefStates, Loading, Unloading, RequestsAreSafe, Up
<1>2. LifeInv'
  BY DEF TypeInv, LifeInv, RefStates, Loading, Unloading
<1>3. AreaInv' /\ RequestInv'
  BY SameSize DEF TypeInv, LifeInv, AreaInv, RequestInv, Loading, Unloading
<1> QED
  BY <1>1, <1>2, <1>3

LEMMA AllocRamdiskIInv == ASSUME IInv, AllocRamdisk PROVE IInv'
<1> USE DEF IInv, AllocRamdisk, modvars, disk, device, requests, LoadFails,
        LoadModule, InitReturned, InitFailed, StopModule, ExitReturned, module_put, AfterPut
<1>1. TypeInv' /\ RequestsAreSafe'
  BY DEF TypeInv, LifeInv, RefStates, Loading, Unloading, RequestsAreSafe, Up
<1>2. LifeInv'
  BY DEF TypeInv, LifeInv, RefStates, Loading, Unloading
<1>3. AreaInv' /\ RequestInv'
  BY SameSize DEF TypeInv, LifeInv, AreaInv, RequestInv, Loading, Unloading
<1> QED
  BY <1>1, <1>2, <1>3

LEMMA InitQueueIInv == ASSUME IInv, InitQueue PROVE IInv'
<1> USE DEF IInv, InitQueue, modvars, disk, device, requests, LoadFails,
        LoadModule, InitReturned, InitFailed, StopModule, ExitReturned, module_put, AfterPut
<1>0. queue' \in BOOLEAN /\ registered' \in BOOLEAN /\ lateFail' \in BOOLEAN
  BY DEF TypeInv
<1>1. TypeInv' /\ RequestsAreSafe'
  BY <1>0 DEF TypeInv, LifeInv, RefStates, Loading, Unloading, RequestsAreSafe, Up
<1>2. LifeInv'
  BY <1>0 DEF TypeInv, LifeInv, RefStates, Loading, Unloading
<1>3. AreaInv' /\ RequestInv'
  BY SameSize DEF TypeInv, LifeInv, AreaInv, RequestInv, Loading, Unloading
<1> QED
  BY <1>1, <1>2, <1>3

LEMMA RegisterBlkdevIInv == ASSUME IInv, RegisterBlkdev PROVE IInv'
<1> USE DEF IInv, RegisterBlkdev, modvars, disk, device, requests, LoadFails,
        LoadModule, InitReturned, InitFailed, StopModule, ExitReturned, module_put, AfterPut
<1>0. queue' \in BOOLEAN /\ registered' \in BOOLEAN /\ lateFail' \in BOOLEAN
  BY DEF TypeInv
<1>1. TypeInv' /\ RequestsAreSafe'
  BY <1>0 DEF TypeInv, LifeInv, RefStates, Loading, Unloading, RequestsAreSafe, Up
<1>2. LifeInv'
  BY <1>0 DEF TypeInv, LifeInv, RefStates, Loading, Unloading
<1>3. AreaInv' /\ RequestInv'
  BY SameSize DEF TypeInv, LifeInv, AreaInv, RequestInv, Loading, Unloading
<1> QED
  BY <1>1, <1>2, <1>3

LEMMA AllocGendiskIInv == ASSUME IInv, AllocGendisk PROVE IInv'
<1> USE DEF IInv, AllocGendisk, modvars, disk, device, requests
<1>1. CASE my_gd' = "alloc" /\ dpc' = "add" /\ UNCHANGED <<modvars, ramdisk, registered, lateFail>>
  <2>1. TypeInv' /\ RequestsAreSafe'
    BY <1>1 DEF TypeInv, LifeInv, RefStates, Loading, Unloading, RequestsAreSafe, Up
  <2>2. LifeInv'
    BY <1>1 DEF TypeInv, LifeInv, RefStates, Loading, Unloading
  <2>3. AreaInv' /\ RequestInv'
    BY <1>1, SameSize DEF TypeInv, LifeInv, AreaInv, RequestInv, Loading, Unloading
  <2> QED
    BY <2>1, <2>2, <2>3
<1>2. CASE /\ LoadFails /\ ramdisk' = "freed" /\ registered' = FALSE /\ lateFail' = TRUE
           /\ UNCHANGED my_gd
  <2>0. registered' \in BOOLEAN /\ ~registered' /\ lateFail' \in BOOLEAN /\ lateFail'
    BY <1>2
  <2>1. TypeInv' /\ RequestsAreSafe'
    BY <1>2, <2>0 DEF TypeInv, LifeInv, RefStates, Loading, Unloading, RequestsAreSafe, Up,
                      LoadFails, InitFailed
  <2>2. LifeInv'
    BY <1>2, <2>0 DEF TypeInv, LifeInv, RefStates, Loading, Unloading, LoadFails, InitFailed
  <2>3. AreaInv' /\ RequestInv'
    BY <1>2, SameSize DEF TypeInv, LifeInv, AreaInv, RequestInv, Loading, Unloading,
                          LoadFails, InitFailed
  <2> QED
    BY <2>1, <2>2, <2>3
<1> QED
  BY <1>1, <1>2

LEMMA AddDiskIInv == ASSUME IInv, AddDisk PROVE IInv'
<1> USE DEF IInv, AddDisk, modvars, disk, device, requests, LoadFails,
        LoadModule, InitReturned, InitFailed, StopModule, ExitReturned, module_put, AfterPut
<1>1. TypeInv' /\ RequestsAreSafe'
  BY DEF TypeInv, LifeInv, RefStates, Loading, Unloading, RequestsAreSafe, Up
<1>2. LifeInv'
  BY DEF TypeInv, LifeInv, RefStates, Loading, Unloading
<1>3. AreaInv' /\ RequestInv'
  BY SameSize DEF TypeInv, LifeInv, AreaInv, RequestInv, Loading, Unloading
<1> QED
  BY <1>1, <1>2, <1>3

LEMMA InitDoneIInv == ASSUME IInv, InitDone PROVE IInv'
<1> USE DEF IInv, InitDone, modvars, disk, device, requests, LoadFails,
        LoadModule, InitReturned, InitFailed, StopModule, ExitReturned, module_put, AfterPut
<1>1. TypeInv' /\ RequestsAreSafe'
  BY DEF TypeInv, LifeInv, RefStates, Loading, Unloading, RequestsAreSafe, Up
<1>2. LifeInv'
  BY DEF TypeInv, LifeInv, RefStates, Loading, Unloading
<1>3. AreaInv' /\ RequestInv'
  BY SameSize DEF TypeInv, LifeInv, AreaInv, RequestInv, Loading, Unloading
<1> QED
  BY <1>1, <1>2, <1>3

LEMMA UnloadIInv == ASSUME IInv, Unload PROVE IInv'
<1> USE DEF IInv, Unload, modvars, disk, device, requests, LoadFails,
        LoadModule, InitReturned, InitFailed, StopModule, ExitReturned, module_put, AfterPut
<1>1. TypeInv' /\ RequestsAreSafe'
  BY DEF TypeInv, LifeInv, RefStates, Loading, Unloading, RequestsAreSafe, Up
<1>2. LifeInv'
  BY DEF TypeInv, LifeInv, RefStates, Loading, Unloading
<1>3. AreaInv' /\ RequestInv'
  BY SameSize DEF TypeInv, LifeInv, AreaInv, RequestInv, Loading, Unloading
<1> QED
  BY <1>1, <1>2, <1>3

LEMMA DelGendiskIInv == ASSUME IInv, DelGendisk PROVE IInv'
<1> USE DEF IInv, DelGendisk, modvars, disk, device, requests, LoadFails,
        LoadModule, InitReturned, InitFailed, StopModule, ExitReturned, module_put, AfterPut
<1>1. TypeInv' /\ RequestsAreSafe'
  BY DEF TypeInv, LifeInv, RefStates, Loading, Unloading, RequestsAreSafe, Up
<1>2. LifeInv'
  BY DEF TypeInv, LifeInv, RefStates, Loading, Unloading
<1>3. AreaInv' /\ RequestInv'
  BY SameSize DEF TypeInv, LifeInv, AreaInv, RequestInv, Loading, Unloading
<1> QED
  BY <1>1, <1>2, <1>3

LEMMA PutDiskIInv == ASSUME IInv, PutDisk PROVE IInv'
<1> USE DEF IInv, PutDisk, modvars, disk, device, requests, LoadFails,
        LoadModule, InitReturned, InitFailed, StopModule, ExitReturned, module_put, AfterPut
<1>1. TypeInv' /\ RequestsAreSafe'
  BY DEF TypeInv, LifeInv, RefStates, Loading, Unloading, RequestsAreSafe, Up
<1>2. LifeInv'
  BY DEF TypeInv, LifeInv, RefStates, Loading, Unloading
<1>3. AreaInv' /\ RequestInv'
  BY SameSize DEF TypeInv, LifeInv, AreaInv, RequestInv, Loading, Unloading
<1> QED
  BY <1>1, <1>2, <1>3

LEMMA CleanupQueueIInv == ASSUME IInv, CleanupQueue PROVE IInv'
<1> USE DEF IInv, CleanupQueue, modvars, disk, device, requests, LoadFails,
        LoadModule, InitReturned, InitFailed, StopModule, ExitReturned, module_put, AfterPut
<1>1. TypeInv' /\ RequestsAreSafe'
  BY DEF TypeInv, LifeInv, RefStates, Loading, Unloading, RequestsAreSafe, Up
<1>2. LifeInv'
  BY DEF TypeInv, LifeInv, RefStates, Loading, Unloading
<1>3. AreaInv' /\ RequestInv'
  BY SameSize DEF TypeInv, LifeInv, AreaInv, RequestInv, Loading, Unloading
<1> QED
  BY <1>1, <1>2, <1>3

LEMMA FreeRamdiskIInv == ASSUME IInv, FreeRamdisk PROVE IInv'
<1> USE DEF IInv, FreeRamdisk, modvars, disk, device, requests, LoadFails,
        LoadModule, InitReturned, InitFailed, StopModule, ExitReturned, module_put, AfterPut
<1>1. TypeInv' /\ RequestsAreSafe'
  BY DEF TypeInv, LifeInv, RefStates, Loading, Unloading, RequestsAreSafe, Up
<1>2. LifeInv'
  BY DEF TypeInv, LifeInv, RefStates, Loading, Unloading
<1>3. AreaInv' /\ RequestInv'
  BY SameSize DEF TypeInv, LifeInv, AreaInv, RequestInv, Loading, Unloading
<1> QED
  BY <1>1, <1>2, <1>3

LEMMA OpenIInv == ASSUME IInv, Open PROVE IInv'
<1> USE DEF IInv, Open, modvars, disk, device, requests, try_module_get, CanGet
<1>0. opened' \in BOOLEAN /\ opened' /\ ~opened
  OBVIOUS
<1>1. TypeInv' /\ RequestsAreSafe'
  BY <1>0 DEF TypeInv, RequestsAreSafe
<1>2. LifeInv'
  BY <1>0 DEF TypeInv, LifeInv, RefStates, Loading, Unloading
<1>3. AreaInv' /\ RequestInv'
  BY <1>0, SameSize DEF TypeInv, LifeInv, AreaInv, RequestInv, Loading, Unloading
<1> QED
  BY <1>1, <1>2, <1>3

(* What is unfinished is in the queue or in my_request.                    *)
LEMMA UnfinishedParts ==
    ASSUME TypeInv
    PROVE  /\ serving = "queued" => Unfinished = <<rq>> \o reqs
           /\ serving # "queued" => Unfinished = reqs
           /\ Unfinished = <<>> <=> reqs = <<>> /\ serving # "queued"
<1>1. serving = "queued" => Unfinished = <<rq>> \o reqs
  BY DEF Unfinished
<1>2. serving # "queued" => Unfinished = reqs
  BY DEF Unfinished, TypeInv
<1>3. serving = "queued" => Unfinished # <<>>
  <2>1. Len(<<rq>> \o reqs) = 1 + Len(reqs) /\ Len(reqs) \in Nat
    BY DEF TypeInv
  <2> QED
    BY <1>1, <2>1
<1> QED
  BY <1>1, <1>2, <1>3

LEMMA CloseIInv == ASSUME IInv, Close PROVE IInv'
<1> USE DEF IInv, Close, modvars, disk, device, requests, module_put, AfterPut
<1>0. opened' \in BOOLEAN /\ ~opened' /\ opened
  OBVIOUS
<1>1. TypeInv' /\ RequestsAreSafe'
  BY <1>0 DEF TypeInv, RequestsAreSafe
<1>2. LifeInv'
  BY <1>0 DEF TypeInv, LifeInv, RefStates, Loading, Unloading
<1>3. AreaInv' /\ RequestInv'
  BY <1>0, SameSize, UnfinishedParts
     DEF TypeInv, LifeInv, AreaInv, RequestInv, Loading, Unloading
<1> QED
  BY <1>1, <1>2, <1>3

LEMMA QueueIInv ==
    ASSUME IInv, NEW pos \in 0..(Capacity - 1), NEW len \in 1..Capacity,
           NEW op \in {"read", "write"}, NEW val \in Vals \cup {"raw"}, Queue(op, pos, len, val)
    PROVE  IInv'
<1> DEFINE r == [op |-> op, pos |-> pos, len |-> len, val |-> val]
<1> USE DEF IInv, Queue, modvars, disk, device
<1>0. r \in Requests /\ Fits(r) /\ reqs' = Append(reqs, r)
  BY DiskRange DEF Requests, TypeInv, Fits
<1> HIDE DEF r
<1>1. TypeInv' /\ RequestsAreSafe'
  BY <1>0 DEF TypeInv, RequestsAreSafe
<1>2. LifeInv' /\ AreaInv'
  BY SameSize DEF LifeInv, AreaInv
<1>3. Capacity' = Capacity
  BY SameSize
<1>4. (\A k \in DOMAIN reqs : Fits(reqs[k]))'
  BY <1>0, <1>3 DEF TypeInv, RequestInv, Fits
<1>5. RequestInv'
  BY <1>3, <1>4 DEF RequestInv, Fits
<1> QED
  BY <1>1, <1>2, <1>5

LEMMA StartRequestsIInv == ASSUME IInv, StartRequests PROVE IInv'
<1> USE DEF IInv, StartRequests, modvars, disk, device
<1>1. TypeInv' /\ RequestsAreSafe' /\ LifeInv' /\ AreaInv'
  BY SameSize DEF TypeInv, RequestsAreSafe, LifeInv, AreaInv
<1>2. RequestInv'
  BY SameSize DEF TypeInv, LifeInv, RequestInv, Loading, Unloading
<1> QED
  BY <1>1, <1>2

LEMMA GetRequestIInv == ASSUME IInv, blk_get_request PROVE IInv'
<1> USE DEF IInv, blk_get_request, modvars, disk, device
<1>1. LifeInv' /\ AreaInv' /\ RequestsAreSafe'
  BY SameSize DEF LifeInv, AreaInv, RequestsAreSafe, Up
<1>2. CASE /\ reqs # <<>> /\ rq' = Head(reqs) /\ reqs' = Tail(reqs)
           /\ serving' = "queued" /\ UNCHANGED fault
  <2>1. /\ Head(reqs) \in Requests /\ Fits(Head(reqs)) /\ Tail(reqs) \in Seq(Requests)
        /\ \A k \in DOMAIN Tail(reqs) : Fits(Tail(reqs)[k])
    BY <1>2 DEF TypeInv, RequestInv
  <2>2. TypeInv'
    BY <1>2, <2>1 DEF TypeInv
  <2>3. RequestInv'
    BY <1>2, <2>1, SameSize DEF TypeInv, RequestInv
  <2> QED
    BY <1>1, <2>2, <2>3
<1>3. CASE UNCHANGED reqs
  <2>1. TypeInv'
    BY <1>3 DEF TypeInv
  <2>2. RequestInv'
    BY <1>3, SameSize DEF TypeInv, RequestInv
  <2> QED
    BY <1>1, <2>1, <2>2
<1> QED
  BY <1>2, <1>3

(* One round of the loop. Nothing is copied for a request that was made    *)
(* up; otherwise the copy is one of sectors of the disk.                   *)
LEMMA QueuedRound ==
    ASSUME IInv, serving = "queued", NEW nr \in 1..rq.len
    PROVE  /\ rq \in Requests /\ nr \in Nat \ {0} /\ rq.pos + nr <= Capacity
           /\ ~Beyond(rq.pos, nr) /\ CopyFault(rq.pos, nr) = "none"
           /\ Ptr(rq.pos) \div SectorSize = rq.pos
           /\ opened /\ my_gd = "added" /\ mem \in [0..(Capacity - 1) -> Vals \cup {"raw"}]
<1>1. /\ rq \in Requests /\ rq.pos \in Nat /\ rq.len \in Nat \ {0}
      /\ Fits(rq) /\ diskmb \in Sizes /\ opened /\ my_gd = "added"
  BY DEF IInv, RequestInv, TypeInv, LifeInv, Requests
<1>2. ramdisk = "alloc" /\ mem \in [0..(Capacity - 1) -> Vals \cup {"raw"}]
  BY DEF IInv, RequestInv, AreaInv
<1>3. nr \in Nat \ {0} /\ rq.pos + nr <= Capacity
  BY <1>1, DiskRange DEF Fits
<1>4. /\ ~Beyond(rq.pos, nr) /\ Ptr(rq.pos) + Size(nr) <= Capacity * SectorSize
      /\ Ptr(rq.pos) \div SectorSize = rq.pos
  BY <1>1, <1>3, InRange
<1>5. Ptr(rq.pos) + Size(nr) \in Int /\ Capacity * SectorSize \in Int
  BY <1>1, <1>3, InRange
<1>6. ~(Ptr(rq.pos) + Size(nr) > Capacity * SectorSize)
  BY <1>4, <1>5
<1>7. CopyFault(rq.pos, nr) = "none"
  BY <1>2, <1>6 DEF CopyFault
<1> QED
  BY <1>1, <1>2, <1>3, <1>4, <1>7

LEMMA MadeUpRound ==
    ASSUME IInv, serving = "fresh", my_request(0)
    PROVE  /\ fault' = "none" /\ UNCHANGED <<mem, answer>>
           /\ rq' = NoRq /\ serving' = "get"
<1>1. rq.pos = -1 /\ rq.len = 0 /\ diskmb \in Sizes
  BY DEF IInv, RequestInv, TypeInv, NoRq
<1>2. Beyond(rq.pos, 0)
  BY <1>1, MadeUpIsBeyond
<1> QED
  BY <1>1, <1>2 DEF my_request, EndRequestCur

LEMMA RoundIInv ==
    ASSUME IInv, NEW nr \in (IF rq.len = 0 THEN {0} ELSE 1..rq.len), my_request(nr)
    PROVE  IInv'
<1> USE DEF modvars, device
<1>1. CASE serving = "fresh"
  <2>1. nr = 0
    BY <1>1 DEF IInv, RequestInv, NoRq
  <2>2. /\ fault' = "none" /\ UNCHANGED <<mem, answer>>
        /\ rq' = NoRq /\ serving' = "get"
    BY <1>1, <2>1, MadeUpRound
  <2>3. UNCHANGED <<modvars, dpc, diskmb, ramdisk, device, opened, reqs, lateFail>>
    BY DEF my_request
  <2>4. TypeInv' /\ LifeInv' /\ RequestsAreSafe'
    BY <2>2, <2>3 DEF IInv, TypeInv, LifeInv, RequestsAreSafe
  <2>5. AreaInv' /\ RequestInv'
    BY <1>1, <2>2, <2>3, SameSize DEF IInv, AreaInv, RequestInv
  <2> QED
    BY <2>4, <2>5 DEF IInv
<1>2. CASE serving = "queued"
  <2>1. nr \in 1..rq.len
    BY <1>2 DEF IInv, RequestInv, Requests
  <2>2. /\ rq \in Requests /\ nr \in Nat \ {0} /\ rq.pos + nr <= Capacity
        /\ ~Beyond(rq.pos, nr) /\ CopyFault(rq.pos, nr) = "none"
        /\ opened /\ mem \in [0..(Capacity - 1) -> Vals \cup {"raw"}]
    BY <1>2, <2>1, QueuedRound
  <2>3. fault' = "none" /\ Copy(nr)
    BY <2>2 DEF my_request
  <2>4. /\ UNCHANGED <<modvars, dpc, diskmb, ramdisk, device, opened, reqs, lateFail>>
        /\ EndRequestCur(nr)
    BY DEF my_request
  <2>5. mem' \in [0..(Capacity - 1) -> Vals \cup {"raw"}]
    <3>1. rq.val \in Vals \cup {"raw"}
      BY <2>2 DEF Requests
    <3> QED
      BY <2>2, <2>3, <3>1 DEF Copy
  <2>6. \/ rq' = NoRq /\ serving' = "get"
        \/ /\ serving' = "queued" /\ rq' \in Requests
           /\ rq'.pos + rq'.len <= Capacity
    <3>1. CASE nr = rq.len
      BY <2>4, <3>1 DEF EndRequestCur
    <3>2. CASE nr # rq.len
      <4>1. rq' = [rq EXCEPT !.pos = @ + nr, !.len = @ - nr] /\ serving' = serving
        BY <2>4, <3>2 DEF EndRequestCur
      <4>2. rq.len - nr \in Nat \ {0} /\ rq.pos + nr \in Nat /\ rq.pos + rq.len <= Capacity
        BY <1>2, <2>1, <2>2, <3>2 DEF Requests, IInv, RequestInv, Fits
      <4>3. rq' \in Requests /\ rq'.pos = rq.pos + nr /\ rq'.len = rq.len - nr
        BY <2>2, <4>1, <4>2 DEF Requests
      <4> QED
        BY <1>2, <2>1, <2>2, <4>1, <4>2, <4>3 DEF Requests
    <3> QED
      BY <3>1, <3>2
  <2>7. TypeInv' /\ LifeInv' /\ RequestsAreSafe'
    BY <2>3, <2>4, <2>6 DEF IInv, TypeInv, LifeInv, RequestsAreSafe
  <2>8. Capacity' = Capacity /\ disk_size' = disk_size
    BY <2>4, SameSize
  <2>9. AreaInv' /\ RequestInv'
    BY <1>2, <2>4, <2>5, <2>6, <2>8 DEF IInv, AreaInv, RequestInv, Fits
  <2> QED
    BY <2>7, <2>9 DEF IInv
<1> QED
  BY <1>1, <1>2 DEF my_request

LEMMA StepIInv == IInv /\ [Next]_vars => IInv'
<1> SUFFICES ASSUME IInv, [Next]_vars PROVE IInv'
  OBVIOUS
<1>1. CASE UNCHANGED vars
  <2>1. TypeInv' /\ LifeInv' /\ RequestsAreSafe'
    BY <1>1 DEF IInv, TypeInv, LifeInv, RequestsAreSafe, vars, modvars, disk, device, requests
  <2>2. AreaInv' /\ RequestInv'
    BY <1>1, SameSize DEF IInv, AreaInv, RequestInv, Fits, vars, modvars, disk, device, requests
  <2> QED
    BY <2>1, <2>2 DEF IInv
<1>2. ASSUME NEW pos \in 0..(Capacity - 1), NEW len \in 1..Capacity,
             Queue("read", pos, len, "raw") \/ \E val \in Vals : Queue("write", pos, len, val)
      PROVE  IInv'
  BY <1>2, QueueIInv
<1>3. ASSUME NEW nr \in (IF rq.len = 0 THEN {0} ELSE 1..rq.len), my_request(nr) PROVE IInv'
  BY <1>3, RoundIInv
<1> QED
  BY <1>1, <1>2, <1>3, LoadIInv, AllocRamdiskIInv, InitQueueIInv, RegisterBlkdevIInv,
     AllocGendiskIInv, AddDiskIInv, InitDoneIInv, UnloadIInv, DelGendiskIInv, PutDiskIInv,
     CleanupQueueIInv, FreeRamdiskIInv, OpenIInv, CloseIInv, StartRequestsIInv,
     GetRequestIInv DEF Next

LEMMA Invariance == Spec => []IInv
BY InitIInv, StepIInv, PTL DEF Spec

(* my_request never copies outside its area, nor after it was freed, nor   *)
(* for a request without a bio (lines 39-56).                              *)
THEOREM RequestSafety == Spec => []RequestsAreSafe
<1>1. IInv => RequestsAreSafe
  BY DEF IInv
<1> QED
  BY <1>1, Invariance, PTL

(* A failed load or an unload leaves nothing but a queue nobody reaches    *)
(* (lines 107-133, 150-158).                                               *)
THEOREM FailureIsClean == Spec => []CleanFailure
<1>1. IInv => CleanFailure
  <2> SUFFICES ASSUME IInv, dpc = "off" PROVE CleanFailure
    BY DEF CleanFailure
  <2>1. ramdisk # "alloc" /\ ~registered /\ my_gd = "none" /\ (queue => lateFail) /\ ~opened
    BY DEF IInv, LifeInv, AreaInv
  <2>2. Unfinished = <<>>
    BY <2>1, UnfinishedParts DEF IInv, RequestInv
  <2> QED
    BY <2>1, <2>2 DEF CleanFailure
<1> QED
  BY <1>1, Invariance, PTL

---------------------------------------------------------------------------
(* The refinement. A round for a queued request touches exactly the next   *)
(* nr sectors of the request.                                              *)
LEMMA TouchedSectors ==
    ASSUME IInv, serving = "queued", NEW nr \in 1..rq.len
    PROVE  \A s \in DOMAIN mem : s \in Touched(rq.pos, nr) <=> s \in rq.pos..(rq.pos + nr - 1)
<1>1. /\ rq \in Requests /\ nr \in Nat \ {0} /\ rq.pos + nr <= Capacity
      /\ mem \in [0..(Capacity - 1) -> Vals \cup {"raw"}]
  BY QueuedRound
<1>2. rq.pos \in Nat /\ diskmb \in Sizes /\ SectorSize \in Nat \ {0}
  BY <1>1, SectorAssumption DEF Requests, IInv, TypeInv
<1>3. /\ Ptr(rq.pos) = SectorSize * rq.pos
      /\ Ptr(rq.pos) + Size(nr) = SectorSize * (rq.pos + nr)
  BY <1>1, <1>2, InRange
<1> SUFFICES ASSUME NEW s \in DOMAIN mem
             PROVE  s \in Touched(rq.pos, nr) <=> s \in rq.pos..(rq.pos + nr - 1)
  OBVIOUS
<1>4. s \in Int
  BY <1>1, <1>2, DiskRange
<1>5. s * SectorSize = SectorSize * s
  BY <1>2, <1>4
<1>6. /\ SectorSize * rq.pos <= SectorSize * s <=> rq.pos <= s
      /\ SectorSize * s < SectorSize * (rq.pos + nr) <=> s < rq.pos + nr
  BY <1>1, <1>2, <1>4, Order
<1>7. s \in Touched(rq.pos, nr) <=> rq.pos <= s /\ s < rq.pos + nr
  BY <1>3, <1>5, <1>6 DEF Touched
<1> QED
  BY <1>1, <1>2, <1>4, <1>7

LEMMA InitStore == Init => Store!StoreInit
<1> SUFFICES ASSUME Init PROVE Store!StoreInit
  OBVIOUS
<1>1. serving # "queued" /\ TypeInv
  BY InitIInv DEF Init, IInv
<1>2. Unfinished = <<>>
  BY <1>1, UnfinishedParts DEF Init
<1> QED
  BY <1>2 DEF Init, Store!StoreInit

(* Loading, unloading, opening and closing leave the disk as it is, apart  *)
(* from the moment it appears and disappears.                              *)
LEMMA LoaderStore ==
    ASSUME IInv,
           \/ Load \/ AllocRamdisk \/ InitQueue \/ RegisterBlkdev \/ AllocGendisk \/ InitDone
           \/ Unload \/ PutDisk \/ CleanupQueue \/ FreeRamdisk \/ Open \/ Close
    PROVE  UNCHANGED Store!storeVars
<1>1. UNCHANGED requests
  BY DEF Load, AllocRamdisk, InitQueue, RegisterBlkdev, AllocGendisk, InitDone, Unload,
         PutDisk, CleanupQueue, FreeRamdisk, Open, Close
<1>2. my_gd = "added" <=> my_gd' = "added"
  BY DEF IInv, LifeInv, Load, AllocRamdisk, InitQueue, RegisterBlkdev, AllocGendisk, InitDone,
         Unload, PutDisk, CleanupQueue, FreeRamdisk, Open, Close, device, LoadModule
<1>3. my_gd = "added" => UNCHANGED mem
  BY DEF IInv, LifeInv, Load, AllocRamdisk, InitQueue, RegisterBlkdev, AllocGendisk, InitDone,
         Unload, PutDisk, CleanupQueue, FreeRamdisk, Open, Close, disk, LoadModule
<1>4. UNCHANGED Unfinished
  BY <1>1 DEF requests, Unfinished
<1> QED
  BY <1>1, <1>2, <1>3, <1>4 DEF requests, Store!storeVars

LEMMA AddDiskStore == ASSUME IInv, AddDisk PROVE Store!Plug
<1>1. UNCHANGED Unfinished
  BY DEF AddDisk, requests, Unfinished
<1> QED
  BY <1>1 DEF AddDisk, requests, Store!Plug

LEMMA DelGendiskStore == ASSUME IInv, DelGendisk PROVE Store!Unplug
<1>1. my_gd = "added" /\ ~opened
  BY DEF DelGendisk, IInv, LifeInv
<1>2. Unfinished = <<>>
  BY <1>1, UnfinishedParts DEF IInv, RequestInv
<1>3. UNCHANGED Unfinished
  BY DEF DelGendisk, requests, Unfinished
<1> QED
  BY <1>1, <1>2, <1>3 DEF DelGendisk, requests, Store!Unplug

(* Appending to the queue appends to what is unfinished.                   *)
LEMMA AppendUnfinished ==
    ASSUME TypeInv, NEW r, reqs' = Append(reqs, r), UNCHANGED <<serving, rq>>
    PROVE  /\ Len(Unfinished) \in Nat /\ Len(Unfinished') = Len(Unfinished) + 1
           /\ SubSeq(Unfinished', 1, Len(Unfinished)) = Unfinished
           /\ Unfinished'[Len(Unfinished')] = r
<1> DEFINE front == IF serving = "queued" THEN <<rq>> ELSE <<>>
           R == Requests \cup {rq, r}
<1>1. front \in Seq(R) /\ reqs \in Seq(R) /\ r \in R
  <2>1. r \in R /\ rq \in R /\ Requests \subseteq R
    OBVIOUS
  <2> HIDE DEF R
  <2>2. reqs \in Seq(Requests)
    BY DEF TypeInv
  <2> HIDE DEF front
  <2>3. /\ Len(reqs) \in Nat /\ DOMAIN reqs = 1..Len(reqs)
        /\ reqs = [k \in 1..Len(reqs) |-> reqs[k]]
        /\ \A k \in 1..Len(reqs) : reqs[k] \in R
    BY <2>1, <2>2
  <2>4. reqs \in Seq(R)
    BY <2>3
  <2>5. <<rq>> \in Seq(R) /\ <<>> \in Seq(R)
    BY <2>1
  <2> QED
    BY <2>1, <2>4, <2>5 DEF front
<1>2. Unfinished = front \o reqs /\ Unfinished' = front \o Append(reqs, r)
  BY DEF Unfinished
<1> HIDE DEF front, R
<1>3. front \o Append(reqs, r) = Append(front \o reqs, r) /\ front \o reqs \in Seq(R)
  <2>1. front \o reqs \in Seq(R) /\ Append(reqs, r) \in Seq(R)
    BY <1>1
  <2>2. front \o Append(reqs, r) \in Seq(R) /\ Append(front \o reqs, r) \in Seq(R)
    BY <1>1, <2>1
  <2>3. Len(front \o Append(reqs, r)) = Len(Append(front \o reqs, r))
    BY <1>1, <2>1
  <2>4. \A i \in 1..Len(front \o Append(reqs, r)) :
           (front \o Append(reqs, r))[i] = Append(front \o reqs, r)[i]
    BY <1>1, <2>1
  <2> QED
    BY <2>1, <2>2, <2>3, <2>4
<1> DEFINE u == front \o reqs
<1>4. u \in Seq(R) /\ Unfinished = u /\ Unfinished' = Append(u, r)
  BY <1>2, <1>3
<1> HIDE DEF u
<1>5. /\ Len(u) \in Nat /\ Len(Append(u, r)) = Len(u) + 1
      /\ Append(u, r)[Len(u) + 1] = r
  BY <1>1, <1>4
<1>6. SubSeq(Append(u, r), 1, Len(u)) = u
  BY <1>1, <1>4
<1> QED
  BY <1>4, <1>5, <1>6

LEMMA QueueStore ==
    ASSUME IInv, NEW pos \in 0..(Capacity - 1), NEW len \in 1..Capacity,
           NEW op, NEW val, Queue(op, pos, len, val)
    PROVE  Store!Submit
<1> DEFINE r == [op |-> op, pos |-> pos, len |-> len, val |-> val]
<1>1. my_gd = "added" /\ mem \in [0..(Capacity - 1) -> Vals \cup {"raw"}] /\ Capacity \in Int
  BY DiskRange DEF Queue, IInv, LifeInv, AreaInv, TypeInv
<1>2. /\ reqs' = Append(reqs, r)
      /\ UNCHANGED <<mem, my_gd, answer, serving, rq>>
  BY DEF Queue, disk, device
<1>3. /\ Len(Unfinished') = Len(Unfinished) + 1
      /\ SubSeq(Unfinished', 1, Len(Unfinished)) = Unfinished
      /\ Unfinished'[Len(Unfinished')] = r
  BY <1>2, AppendUnfinished DEF IInv
<1>4. r.len > 0 /\ r.pos..(r.pos + r.len - 1) \subseteq DOMAIN mem
  BY <1>1 DEF Queue
<1> HIDE DEF r
<1> QED
  BY <1>1, <1>2, <1>3, <1>4 DEF Store!Submit

LEMMA StartRequestsStore == ASSUME IInv, StartRequests PROVE UNCHANGED Store!storeVars
BY DEF StartRequests, disk, device, Unfinished, Store!storeVars

(* Taking a request from the queue leaves it unfinished.                   *)
LEMMA GetRequestStore == ASSUME IInv, blk_get_request PROVE Store!Forget
<1>1. serving = "get" /\ answer' = <<>> /\ UNCHANGED <<mem, my_gd>>
  BY DEF blk_get_request, disk, device
<1>2. Unfinished = reqs
  BY <1>1, UnfinishedParts DEF IInv
<1>3. Unfinished' = reqs
  <2>1. CASE reqs # <<>> /\ rq' = Head(reqs) /\ reqs' = Tail(reqs) /\ serving' = "queued"
    <3>1. reqs \in Seq(Requests)
      BY DEF IInv, TypeInv
    <3>2. <<Head(reqs)>> \o Tail(reqs) = reqs
      BY <2>1, <3>1
    <3> QED
      BY <2>1, <3>2 DEF Unfinished
  <2>2. CASE UNCHANGED reqs /\ serving' # "queued"
    BY <2>2, GetRequestIInv, UnfinishedParts DEF Unfinished, IInv, TypeInv
  <2> QED
    BY <1>1, <2>1, <2>2 DEF blk_get_request
<1> QED
  BY <1>1, <1>2, <1>3 DEF Store!Forget

(* A round for a queued request is a step of the disk.                     *)
LEMMA RoundStore ==
    ASSUME IInv, serving = "queued", NEW nr \in 1..rq.len, my_request(nr)
    PROVE  Unfinished # <<>> /\ Head(Unfinished) = rq /\ Store!Serve(nr)
<1>1. /\ rq \in Requests /\ nr \in Nat \ {0} /\ ~Beyond(rq.pos, nr)
      /\ CopyFault(rq.pos, nr) = "none" /\ Ptr(rq.pos) \div SectorSize = rq.pos
      /\ my_gd = "added" /\ mem \in [0..(Capacity - 1) -> Vals \cup {"raw"}]
  BY QueuedRound
<1>2. Copy(nr) /\ EndRequestCur(nr) /\ UNCHANGED <<my_gd, reqs>>
  BY <1>1 DEF my_request, device
<1>3. reqs \in Seq(Requests)
  BY DEF IInv, TypeInv
<1>4. /\ Unfinished = <<rq>> \o reqs /\ Unfinished # <<>>
      /\ Head(Unfinished) = rq /\ Tail(Unfinished) = reqs
  BY <1>1, <1>3, UnfinishedParts DEF IInv
<1>5. Unfinished' = IF nr = rq.len THEN reqs
                    ELSE <<[rq EXCEPT !.pos = @ + nr, !.len = @ - nr]>> \o reqs
  BY <1>2, <1>3 DEF EndRequestCur, Unfinished
<1>6. \/ /\ rq.op = "write" /\ UNCHANGED answer
         /\ mem' = [s \in DOMAIN mem |->
                       IF s \in rq.pos..(rq.pos + nr - 1) THEN rq.val ELSE mem[s]]
      \/ /\ rq.op = "read" /\ UNCHANGED mem
         /\ answer' = [k \in 1..nr |-> mem[rq.pos + k - 1]]
  <2>1. CASE rq.op = "write"
    <3>1. mem' = [s \in DOMAIN mem |-> IF s \in Touched(rq.pos, nr) THEN rq.val ELSE mem[s]]
      BY <1>2, <2>1 DEF Copy
    <3> QED
      BY <1>2, <2>1, <3>1, TouchedSectors DEF Copy
  <2>2. CASE rq.op = "read"
    BY <1>1, <1>2, <2>2 DEF Copy
  <2> QED
    BY <1>1, <2>1, <2>2 DEF Requests
<1> QED
  BY <1>1, <1>2, <1>4, <1>5, <1>6 DEF Store!Serve

LEMMA StoreStep == IInv /\ [Next]_vars => [Store!StoreNext]_(Store!storeVars)
<1> SUFFICES ASSUME IInv, [Next]_vars PROVE Store!StoreNext \/ UNCHANGED Store!storeVars
  OBVIOUS
<1> USE DEF Store!StoreNext
<1>1. CASE UNCHANGED vars
  BY <1>1 DEF vars, disk, device, requests, Unfinished, Store!storeVars
<1>2. CASE \/ Load \/ AllocRamdisk \/ InitQueue \/ RegisterBlkdev \/ AllocGendisk \/ InitDone
           \/ Unload \/ PutDisk \/ CleanupQueue \/ FreeRamdisk \/ Open \/ Close
  BY <1>2, LoaderStore
<1>3. CASE AddDisk \/ DelGendisk \/ StartRequests \/ blk_get_request
  BY <1>3, AddDiskStore, DelGendiskStore, StartRequestsStore, GetRequestStore
<1>4. ASSUME NEW pos \in 0..(Capacity - 1), NEW len \in 1..Capacity,
             Queue("read", pos, len, "raw") \/ \E val \in Vals : Queue("write", pos, len, val)
      PROVE  Store!Submit
  BY <1>4, QueueStore
<1>5. ASSUME NEW nr \in (IF rq.len = 0 THEN {0} ELSE 1..rq.len), my_request(nr)
      PROVE  Store!StoreNext \/ UNCHANGED Store!storeVars
  <2>1. CASE serving = "fresh"
    <3>1. nr = 0
      BY <2>1 DEF IInv, RequestInv, NoRq
    <3>2. UNCHANGED <<mem, answer, reqs, my_gd>> /\ serving' = "get"
      BY <1>5, <2>1, <3>1, MadeUpRound DEF my_request, device
    <3> QED
      BY <2>1, <3>2 DEF Unfinished, Store!storeVars
  <2>2. CASE serving = "queued"
    <3>1. nr \in 1..rq.len
      BY <2>2 DEF IInv, RequestInv, Requests
    <3>2. Unfinished # <<>> /\ nr \in 1..Head(Unfinished).len /\ Store!Serve(nr)
      BY <1>5, <2>2, <3>1, RoundStore
    <3> QED
      BY <3>2
  <2> QED
    BY <1>5, <2>1, <2>2 DEF my_request
<1> QED
  BY <1>1, <1>2, <1>3, <1>4, <1>5 DEF Next

(* The RAM disk is a disk: whatever segments the requests come in and      *)
(* whatever the size parameter, each is carried out sector by sector in    *)
(* order (my_request, lines 22-62; my_init and my_exit around it).         *)
THEOREM DiskIsServed == Spec => ServesDisk
BY InitStore, StoreStep, Invariance, PTL DEF Spec, ServesDisk, Store!StoreSpec
=============================================================================
