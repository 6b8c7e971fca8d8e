--------------------------- MODULE MyRmmodProofs ---------------------------
(***************************************************************************)
(* What holds of the mmap driver and of the reference-count dropper beside *)
(* it for any finite set of processes, any size of the area, any extension *)
(* of the mappings and any number of references taken away.                *)
(***************************************************************************)
EXTENDS MyRmmod, FiniteSetTheorems, TLAPS

OkFiles == {p \in Procs : file[p] = "ok"}

(* Where the driver's routines are and what the loader says of the module. *)
StageInv ==
    /\ state = "unloaded" <=> dpc = "off"
    /\ state = "coming" <=> dpc \in {"init", "registered", "allocated"}
    /\ dpc = "freed" => state = "going"
    /\ state \in {"unloaded", "going"} => refcnt = 0
    /\ area = "freed" => dpc \in {"freed", "off"}

(* Only a registered device has files, and only a count that was taken     *)
(* away leaves a file behind its module.                                   *)
FileInv ==
    /\ ~Registered => OkFiles = {}
    /\ (\E p \in Procs : file[p] = "orphan") => puts > 0

(* A mapping lies among the user pages, covers no more than the area until *)
(* it is extended, and begins at page 0 until its front is given back.     *)
VmaInv ==
    \A p \in Procs : vma[p].on =>
        /\ vma[p].len > 0 /\ vma[p].start + vma[p].len <= PageCnt + MaxGrow
        /\ ~grown[p] => vma[p].len <= PageCnt
        /\ ~trimmed[p] => vma[p].start = 0
                          /\ \A a \in Addrs : vma[p].map[a] \in {NoPage, a}

(* The inductive invariant.                                                *)
IInv == TypeOK /\ StageInv /\ FileInv /\ VmaInv /\ RefsCover /\ FaultHasCause

---------------------------------------------------------------------------
(* How many files are open, as files come and go.                          *)
LEMMA OkCount ==
    ASSUME TypeOK
    PROVE  /\ IsFiniteSet(OkFiles) /\ Cardinality(OkFiles) \in Nat
           /\ Cardinality(OkFiles) = 0 <=> OkFiles = {}
           /\ Owed = Cardinality(OkFiles)
                     + (IF state \in {"coming", "live"} THEN 1 ELSE 0)
                     + (IF state = "coming" THEN 1 ELSE 0)
<1>1. OkFiles \subseteq Procs
  BY DEF OkFiles
<1>2. IsFiniteSet(OkFiles)
  BY <1>1, ProcsAssumption, FS_Subset
<1>3. Cardinality(OkFiles) \in Nat /\ (Cardinality(OkFiles) = 0 <=> OkFiles = {})
  BY <1>2, FS_CardinalityType, FS_EmptySet
<1> QED
  BY <1>2, <1>3 DEF Owed, OkFiles

(* What is owed besides the files changes only with the state.             *)
LoaderRefs == (IF state \in {"coming", "live"} THEN 1 ELSE 0)
              + (IF state = "coming" THEN 1 ELSE 0)

LEMMA OwedIs ==
    ASSUME Cardinality(OkFiles) \in Nat, Cardinality(OkFiles') \in Nat, UNCHANGED state
    PROVE  /\ LoaderRefs \in Nat /\ Owed = Cardinality(OkFiles) + LoaderRefs
           /\ Owed' = Cardinality(OkFiles') + LoaderRefs
BY DEF Owed, OkFiles, LoaderRefs

LEMMA OkSame ==
    ASSUME file' = file
    PROVE  OkFiles' = OkFiles
BY DEF OkFiles

LEMMA OkAdd ==
    ASSUME TypeOK, NEW p \in Procs, file[p] = "none", file' = [file EXCEPT ![p] = "ok"]
    PROVE  Cardinality(OkFiles') = Cardinality(OkFiles) + 1
<1>1. OkFiles' = OkFiles \cup {p} /\ p \notin OkFiles
  BY DEF TypeOK, MemMapTypeOK, OkFiles
<1> QED
  BY <1>1, OkCount, FS_AddElement

LEMMA OkRemove ==
    ASSUME TypeOK, NEW p \in Procs, file[p] = "ok", file' = [file EXCEPT ![p] = "none"]
    PROVE  Cardinality(OkFiles') = Cardinality(OkFiles) - 1 /\ Cardinality(OkFiles) > 0
<1>1. OkFiles' = OkFiles \ {p} /\ p \in OkFiles
  BY DEF TypeOK, MemMapTypeOK, OkFiles
<1>2. Cardinality(OkFiles) # 0
  BY <1>1, OkCount
<1> QED
  BY <1>1, <1>2, OkCount, FS_RemoveElement

---------------------------------------------------------------------------
LEMMA InitIInv == Init => IInv
<1> SUFFICES ASSUME Init PROVE IInv
  OBVIOUS
<1> USE DEF Init, MemMapInit
<1>1. NoVma \in Vmas
  BY PageCntAssumption, MaxGrowAssumption DEF NoVma, Vmas, NoPage
<1>2. TypeOK
  BY <1>1 DEF TypeOK, MemMapTypeOK, RefStates
<1>3. OkFiles = {}
  BY DEF OkFiles
<1>4. StageInv /\ FileInv
  BY <1>3 DEF StageInv, FileInv, Registered
<1>5. VmaInv
  BY DEF VmaInv, NoVma
<1>6. RefsCover
  BY <1>2, <1>3, OkCount DEF RefsCover
<1>7. FaultHasCause
  BY DEF FaultHasCause
<1> QED
  BY <1>2, <1>4, <1>5, <1>6, <1>7 DEF IInv

(* The steps that leave files and mappings alone.                          *)
LEMMA UsersKept ==
    ASSUME IInv, UNCHANGED users
    PROVE  VmaInv' /\ OkFiles' = OkFiles
           /\ file' = file /\ fd' = fd /\ vma' = vma /\ trimmed' = trimmed /\ grown' = grown
BY OkSame DEF users, IInv, VmaInv, Covered

LEMMA LoadIInv == IInv /\ Load /\ UNCHANGED puts => IInv'
<1> SUFFICES ASSUME IInv, Load, UNCHANGED puts PROVE IInv'
  OBVIOUS
<1> USE DEF Load, LoadModule
<1>1. VmaInv' /\ OkFiles' = OkFiles /\ UNCHANGED <<file, fd, vma, trimmed, grown>>
  BY UsersKept
<1>2. TypeOK'
  BY <1>1 DEF IInv, TypeOK, MemMapTypeOK, RefStates
<1>3. OkFiles = {}
  BY DEF IInv, StageInv, FileInv, Registered
<1>4. StageInv' /\ FileInv'
  BY <1>1, <1>3 DEF IInv, StageInv, FileInv, Registered
<1>5. Cardinality(OkFiles) = 0
  BY <1>3, OkCount DEF IInv
<1>6. Owed' = 2
  BY <1>1, <1>2, <1>5, OkCount DEF Owed, OkFiles
<1>7. RefsCover'
  BY <1>6 DEF RefsCover, IInv, TypeOK
<1>8. FaultHasCause'
  BY <1>1 DEF FaultHasCause, IInv, Up
<1> QED
  BY <1>1, <1>2, <1>4, <1>7, <1>8 DEF IInv

LEMMA RegisterIInv == IInv /\ Register /\ UNCHANGED puts => IInv'
<1> SUFFICES ASSUME IInv, Register, UNCHANGED puts PROVE IInv'
  OBVIOUS
<1> USE DEF Register
<1>1. VmaInv' /\ OkFiles' = OkFiles /\ UNCHANGED <<file, fd, vma, trimmed, grown>>
  BY UsersKept
<1>2. state = "coming" /\ OkFiles = {} /\ Cardinality(OkFiles) = 0
  BY OkCount DEF IInv, StageInv, FileInv, Registered
<1>3. FaultHasCause'
  BY <1>1 DEF FaultHasCause, IInv, Up
<1>4. CASE dpc' = "registered" /\ UNCHANGED modvars
  <2>1. TypeOK'
    BY <1>1, <1>4 DEF IInv, TypeOK, MemMapTypeOK, modvars
  <2>2. StageInv' /\ FileInv'
    BY <1>1, <1>2, <1>4 DEF IInv, StageInv, FileInv, Registered, modvars
  <2>3. RefsCover'
    BY <1>1, <1>4 DEF IInv, RefsCover, Up, Owed, modvars
  <2> QED
    BY <1>1, <1>3, <2>1, <2>2, <2>3 DEF IInv
<1>5. CASE dpc' = "off" /\ InitFailed
  <2>1. TypeOK'
    BY <1>1, <1>5 DEF IInv, TypeOK, MemMapTypeOK, InitFailed, RefStates
  <2>2. StageInv' /\ FileInv'
    BY <1>1, <1>2, <1>5 DEF IInv, StageInv, FileInv, Registered, InitFailed
  <2>3. Owed' = 0
    BY <1>1, <1>2, <1>5 DEF Owed, OkFiles, InitFailed
  <2>4. RefsCover'
    BY <2>3, <1>5 DEF IInv, TypeOK, RefsCover, InitFailed
  <2> QED
    BY <1>1, <1>3, <2>1, <2>2, <2>4 DEF IInv
<1> QED
  BY <1>4, <1>5

LEMMA AllocAreaIInv == IInv /\ AllocArea /\ UNCHANGED puts => IInv'
<1> SUFFICES ASSUME IInv, AllocArea, UNCHANGED puts PROVE IInv'
  OBVIOUS
<1> USE DEF AllocArea
<1>1. VmaInv' /\ OkFiles' = OkFiles /\ UNCHANGED <<file, fd, vma, trimmed, grown>>
  BY UsersKept
<1>2. UNCHANGED <<state, refcnt>> /\ state = "coming"
  BY DEF modvars, IInv, StageInv
<1>3. TypeOK'
  BY <1>1, <1>2 DEF IInv, TypeOK, MemMapTypeOK
<1>4. StageInv' /\ FileInv'
  BY <1>1, <1>2 DEF IInv, StageInv, FileInv, Registered
<1>5. RefsCover'
  BY <1>1, <1>2 DEF IInv, RefsCover, Up, Owed
<1>6. FaultHasCause'
  BY <1>1 DEF FaultHasCause, IInv, Up
<1> QED
  BY <1>1, <1>3, <1>4, <1>5, <1>6 DEF IInv

LEMMA FillPagesIInv == IInv /\ FillPages /\ UNCHANGED puts => IInv'
<1> SUFFICES ASSUME IInv, FillPages, UNCHANGED puts PROVE IInv'
  OBVIOUS
<1> USE DEF FillPages, InitReturned, module_put, AfterPut
<1>1. VmaInv' /\ OkFiles' = OkFiles /\ UNCHANGED <<file, fd, vma, trimmed, grown>>
  BY UsersKept
<1>2. TypeOK'
  BY <1>1 DEF IInv, TypeOK, MemMapTypeOK, RefStates
<1>3. StageInv' /\ FileInv'
  BY <1>1 DEF IInv, StageInv, FileInv, Registered
<1>4. Owed = Cardinality(OkFiles) + 2 /\ Cardinality(OkFiles) \in Nat
  BY OkCount DEF IInv
<1>5. Owed' = Cardinality(OkFiles) + 1
  BY <1>1, <1>4 DEF Owed, OkFiles
<1>6. RefsCover'
  BY <1>4, <1>5 DEF IInv, RefsCover, Up, TypeOK, MemMapTypeOK
<1>7. FaultHasCause'
  BY <1>1 DEF FaultHasCause, IInv, Up
<1> QED
  BY <1>1, <1>2, <1>3, <1>6, <1>7 DEF IInv

LEMMA UnloadIInv == IInv /\ Unload /\ UNCHANGED puts => IInv'
<1> SUFFICES ASSUME IInv, Unload, UNCHANGED puts PROVE IInv'
  OBVIOUS
<1> USE DEF Unload, driver
<1>1. VmaInv' /\ OkFiles' = OkFiles /\ UNCHANGED <<file, fd, vma, trimmed, grown>>
  BY UsersKept
<1>2. Up /\ state = "live" /\ dpc = "run"
  BY DEF StopModule, StopIsBug, IInv, StageInv, TypeOK, MemMapTypeOK
<1>3. Owed = Cardinality(OkFiles) + 1 /\ Cardinality(OkFiles) \in Nat
  BY <1>2, OkCount DEF IInv
<1>4. CASE StopModule /\ UNCHANGED fault
  <2>1. TypeOK'
    BY <1>1, <1>4 DEF IInv, TypeOK, MemMapTypeOK, StopModule, RefStates
  <2>2. StageInv' /\ FileInv'
    BY <1>1, <1>2, <1>4 DEF IInv, StageInv, FileInv, Registered, StopModule
  <2>3. Owed' = Cardinality(OkFiles)
    BY <1>1, <1>3, <1>4 DEF Owed, OkFiles, StopModule
  <2>4. RefsCover'
    BY <1>2, <1>3, <1>4, <2>3 DEF IInv, TypeOK, RefsCover, StopModule
  <2>5. FaultHasCause'
    BY <1>1, <1>4 DEF FaultHasCause, IInv, Up
  <2> QED
    BY <1>1, <2>1, <2>2, <2>4, <2>5 DEF IInv
<1>5. CASE StopIsBug /\ fault' = "bug_on" /\ UNCHANGED modvars
  <2>1. TypeOK'
    BY <1>1, <1>5 DEF IInv, TypeOK, MemMapTypeOK, modvars
  <2>2. StageInv' /\ FileInv'
    BY <1>1, <1>5 DEF IInv, StageInv, FileInv, Registered, modvars
  <2>3. RefsCover'
    BY <1>5 DEF RefsCover, Up
  <2>4. puts > 0
    BY <1>2, <1>3, <1>5 DEF IInv, RefsCover, StopIsBug, TypeOK
  <2>5. FaultHasCause'
    BY <1>1, <1>5, <2>4 DEF FaultHasCause
  <2> QED
    BY <1>1, <2>1, <2>2, <2>3, <2>5 DEF IInv
<1> QED
  BY <1>4, <1>5

LEMMA FreeAreaIInv == IInv /\ FreeArea /\ UNCHANGED puts => IInv'
<1> SUFFICES ASSUME IInv, FreeArea, UNCHANGED puts PROVE IInv'
  OBVIOUS
<1> USE DEF FreeArea, modvars
<1>1. VmaInv' /\ OkFiles' = OkFiles /\ UNCHANGED <<file, fd, vma, trimmed, grown>>
  BY UsersKept
<1>2. TypeOK'
  BY <1>1 DEF IInv, TypeOK, MemMapTypeOK
<1>3. StageInv' /\ FileInv'
  BY <1>1 DEF IInv, StageInv, FileInv, Registered
<1>4. RefsCover'
  BY <1>1 DEF IInv, RefsCover, Up, Owed
<1>5. FaultHasCause'
  BY <1>1 DEF FaultHasCause, IInv, Up
<1> QED
  BY <1>1, <1>2, <1>3, <1>4, <1>5 DEF IInv

(* A file that is open while the module is on its way out was left there   *)
(* by myrmmod.                                                             *)
LEMMA OpenNeedsPut ==
    ASSUME IInv, Up, state \in {"going", "unloaded"}, OkFiles # {}
    PROVE  puts > 0
<1>1. Owed = Cardinality(OkFiles) /\ Cardinality(OkFiles) \in Nat /\ Cardinality(OkFiles) # 0
  BY OkCount DEF IInv
<1> QED
  BY <1>1 DEF IInv, RefsCover, StageInv, TypeOK

LEMMA UnregisterIInv == IInv /\ Unregister /\ UNCHANGED puts => IInv'
<1> SUFFICES ASSUME IInv, Unregister, UNCHANGED puts PROVE IInv'
  OBVIOUS
<1> USE DEF Unregister, ExitReturned
<1>1. TypeOK'
  BY DEF IInv, TypeOK, MemMapTypeOK, RefStates
<1>2. StageInv'
  BY DEF IInv, StageInv
<1>3. OkFiles' = {}
  BY DEF OkFiles, IInv, TypeOK, MemMapTypeOK
<1>4. FileInv'
  <2>1. ASSUME NEW p \in Procs, file'[p] = "orphan" PROVE puts > 0
    <3>1. file[p] \in {"ok", "orphan"}
      BY <2>1 DEF IInv, TypeOK, MemMapTypeOK
    <3>2. CASE file[p] = "ok"
      BY <3>2, OpenNeedsPut DEF OkFiles
    <3>3. CASE file[p] = "orphan"
      BY <3>3 DEF IInv, FileInv
    <3> QED
      BY <3>1, <3>2, <3>3
  <2> QED
    BY <1>3, <2>1 DEF FileInv
<1>5. VmaInv'
  BY DEF IInv, VmaInv
<1>6. Owed' = 0
  BY <1>3, FS_EmptySet DEF Owed, OkFiles
<1>7. RefsCover'
  BY <1>6 DEF IInv, RefsCover, StageInv, TypeOK
<1>8. FaultHasCause'
  BY DEF FaultHasCause, IInv, Up
<1> QED
  BY <1>1, <1>2, <1>4, <1>5, <1>7, <1>8 DEF IInv

---------------------------------------------------------------------------
(* What the processes do.                                                  *)
LEMMA OpenIInv ==
    ASSUME IInv, NEW p \in Procs, my_memmap_open(p), UNCHANGED puts
    PROVE  IInv'
<1> USE DEF my_memmap_open, try_module_get, CanGet, driver
<1>1. TypeOK'
  BY DEF IInv, TypeOK, MemMapTypeOK
<1>2. StageInv'
  BY DEF IInv, StageInv
<1>3. FileInv'
  BY DEF IInv, FileInv, TypeOK, MemMapTypeOK, Registered, OkFiles
<1>4. VmaInv'
  BY DEF IInv, VmaInv
<1>5. Owed' = Owed + 1 /\ Owed \in Nat
  <2>1. Cardinality(OkFiles') = Cardinality(OkFiles) + 1 /\ Cardinality(OkFiles) \in Nat
    BY OkAdd, OkCount DEF IInv
  <2>2. UNCHANGED state
    OBVIOUS
  <2> QED
    BY <2>1, <2>2, OwedIs
<1>6. RefsCover'
  BY <1>5, OkCount DEF IInv, RefsCover, TypeOK, MemMapTypeOK
<1>7. FaultHasCause'
  BY DEF FaultHasCause, IInv, Up
<1> QED
  BY <1>1, <1>2, <1>3, <1>4, <1>6, <1>7 DEF IInv

(* The reference is kept, or returned with the file.                       *)
LEMMA KeepOrRelease ==
    ASSUME IInv, NEW p \in Procs, Up, file[p] = "ok",
           Keep \/ Release(p), UNCHANGED <<driver, fault, puts>>
    PROVE  /\ state' = state /\ refcnt' \in Nat
           /\ file' \in [Procs -> {"none", "ok", "orphan"}]
           /\ StageInv' /\ FileInv' /\ RefsCover'
<1> USE DEF driver
<1>1. CASE Keep
  BY <1>1 DEF Keep, modvars, IInv, TypeOK, MemMapTypeOK, StageInv, FileInv, Registered,
              OkFiles, RefsCover, Up, Owed
<1>2. CASE Release(p)
  <2> USE DEF Release, module_put, AfterPut
  <2>1. state' = state /\ refcnt' \in Nat /\ file' \in [Procs -> {"none", "ok", "orphan"}]
    BY <1>2 DEF IInv, TypeOK, MemMapTypeOK
  <2>2. StageInv'
    BY <1>2 DEF IInv, StageInv
  <2>3. FileInv'
    BY <1>2 DEF IInv, TypeOK, MemMapTypeOK, FileInv, Registered, OkFiles
  <2>4. Owed' = Owed - 1 /\ Owed \in Nat /\ Owed > 0
    <3>1. /\ Cardinality(OkFiles') = Cardinality(OkFiles) - 1 /\ Cardinality(OkFiles) > 0
          /\ Cardinality(OkFiles) \in Nat
      BY <1>2, OkRemove, OkCount DEF IInv
    <3> QED
      BY <2>1, <3>1, OwedIs
  <2>5. RefsCover'
    BY <1>2, <2>4 DEF IInv, RefsCover, TypeOK, MemMapTypeOK
  <2> QED
    BY <2>1, <2>2, <2>3, <2>5
<1> QED
  BY <1>1, <1>2

LEMMA CloseIInv ==
    ASSUME IInv, NEW p \in Procs, Close(p), UNCHANGED puts
    PROVE  IInv'
<1> USE DEF Close
<1>1. /\ state' = state /\ refcnt' \in Nat /\ file' \in [Procs -> {"none", "ok", "orphan"}]
      /\ StageInv' /\ FileInv' /\ RefsCover'
  BY KeepOrRelease
<1>2. TypeOK'
  BY <1>1 DEF IInv, TypeOK, MemMapTypeOK, driver
<1>3. VmaInv'
  BY DEF IInv, VmaInv
<1>4. FaultHasCause'
  BY DEF FaultHasCause, IInv, Up
<1> QED
  BY <1>1, <1>2, <1>3, <1>4 DEF IInv

(* A mapping that changes touches neither the count nor the files.         *)
LEMMA RefsKept ==
    ASSUME IInv, Up, UNCHANGED <<modvars, driver, file, puts>>
    PROVE  /\ StageInv' /\ FileInv' /\ RefsCover'
           /\ UNCHANGED <<state, refcnt, dpc, area, file, puts>>
BY DEF modvars, driver, IInv, StageInv, FileInv, Registered, OkFiles, RefsCover, Up, Owed

(* The invariant of the mapping of one process.                            *)
VmaOk(v, t, g) ==
    v.on => /\ v.len > 0 /\ v.start + v.len <= PageCnt + MaxGrow
            /\ ~g => v.len <= PageCnt
            /\ ~t => v.start = 0 /\ \A a \in Addrs : v.map[a] \in {NoPage, a}

(* A step that gives one process another mapping.                          *)
LEMMA OneVma ==
    ASSUME IInv, NEW p \in Procs, NEW v \in Vmas, vma' = [vma EXCEPT ![p] = v],
           trimmed' \in [Procs -> BOOLEAN], grown' \in [Procs -> BOOLEAN],
           \A q \in Procs \ {p} : trimmed'[q] = trimmed[q] /\ grown'[q] = grown[q],
           VmaOk(v, trimmed'[p], grown'[p])
    PROVE  VmaInv' /\ vma' \in [Procs -> Vmas]
<1>1. vma' \in [Procs -> Vmas]
  BY DEF IInv, TypeOK, MemMapTypeOK
<1>2. vma'[p] = v /\ \A q \in Procs \ {p} : vma'[q] = vma[q]
  BY DEF IInv, TypeOK, MemMapTypeOK
<1>3. \A q \in Procs : VmaOk(vma[q], trimmed[q], grown[q])
  BY DEF IInv, VmaInv, VmaOk
<1>4. \A q \in Procs : VmaOk(vma'[q], trimmed'[q], grown'[q])
  BY <1>2, <1>3
<1> QED
  BY <1>1, <1>4 DEF VmaInv, VmaOk

LEMMA MapIInv ==
    ASSUME IInv, NEW p \in Procs, NEW len \in 1..(PageCnt + 1), NEW write \in BOOLEAN,
           NEW shared \in BOOLEAN, NEW offset \in 0..1,
           my_memmap_map(p, len, write, shared, offset), UNCHANGED puts
    PROVE  IInv'
<1> DEFINE m == [a \in Addrs |-> NoPage]
           v == [on |-> TRUE, start |-> 0, len |-> len, map |-> m]
<1>1. /\ len \in 0..PageCnt /\ len > 0
      /\ vma' = [vma EXCEPT ![p] = [NoVma EXCEPT !.on = TRUE, !.start = 0, !.len = len]]
  BY PageCntAssumption DEF my_memmap_map, MapOk
<1>flags. /\ trimmed' \in [Procs -> BOOLEAN] /\ grown' \in [Procs -> BOOLEAN]
      /\ \A q \in Procs \ {p} : trimmed'[q] = trimmed[q] /\ grown'[q] = grown[q]
      /\ ~trimmed'[p] /\ ~grown'[p]
  BY DEF my_memmap_map, IInv, TypeOK, MemMapTypeOK
<1>2. v \in Vmas
  <2>1. m \in [Addrs -> -1..(PageCnt - 1)]
    BY PageCntAssumption DEF NoPage
  <2> HIDE DEF m
  <2> QED
    BY <1>1, <2>1, PageCntAssumption, MaxGrowAssumption DEF Vmas
<1>3. VmaOk(v, trimmed'[p], grown'[p])
  <2>1. \A a \in Addrs : m[a] = NoPage
    OBVIOUS
  <2> HIDE DEF m
  <2> QED
    BY <1>1, <1>flags, <2>1, PageCntAssumption, MaxGrowAssumption DEF VmaOk
<1> USE DEF my_memmap_map
<1>4. vma' = [vma EXCEPT ![p] = v]
  BY <1>1 DEF NoVma
<1> HIDE DEF v, m
<1>5. VmaInv' /\ vma' \in [Procs -> Vmas]
  BY <1>2, <1>3, <1>4, <1>flags, OneVma
<1>6. StageInv' /\ FileInv' /\ RefsCover' /\ UNCHANGED <<state, refcnt, dpc, area, file, puts>>
  BY RefsKept
<1>7. TypeOK'
  BY <1>5, <1>6, <1>flags DEF IInv, TypeOK, MemMapTypeOK
<1>8. FaultHasCause'
  BY DEF FaultHasCause, Up
<1> QED
  BY <1>5, <1>6, <1>7, <1>8 DEF IInv

LEMMA TrimIInv ==
    ASSUME IInv, NEW p \in Procs, Trim(p), UNCHANGED puts
    PROVE  IInv'
<1> USE DEF Trim
<1>1. vma[p] \in Vmas /\ VmaOk(vma[p], trimmed[p], grown[p]) /\ grown[p] \in BOOLEAN
  BY DEF IInv, TypeOK, MemMapTypeOK, VmaInv, VmaOk
<1> DEFINE m == [vma[p].map EXCEPT ![vma[p].start] = NoPage]
           v == [on |-> TRUE, start |-> vma[p].start + 1, len |-> vma[p].len - 1, map |-> m]
<1>2. m \in [Addrs -> -1..(PageCnt - 1)]
  <2>1. vma[p].map \in [Addrs -> -1..(PageCnt - 1)] /\ NoPage \in -1..(PageCnt - 1)
    BY <1>1, PageCntAssumption DEF Vmas, NoPage
  <2> QED
    BY <2>1
<1>3. v \in Vmas
  BY <1>1, <1>2, PageCntAssumption, MaxGrowAssumption DEF Vmas, VmaOk
<1>flags. /\ trimmed' \in [Procs -> BOOLEAN] /\ grown' \in [Procs -> BOOLEAN]
      /\ \A q \in Procs \ {p} : trimmed'[q] = trimmed[q] /\ grown'[q] = grown[q]
      /\ trimmed'[p] /\ grown'[p] = grown[p]
  BY DEF IInv, TypeOK, MemMapTypeOK
<1>4. VmaOk(v, trimmed'[p], grown'[p])
  BY <1>1, <1>flags, PageCntAssumption, MaxGrowAssumption DEF Vmas, VmaOk
<1>5. vma' = [vma EXCEPT ![p] = v]
  <2>1. vma[p] = [on |-> TRUE, start |-> vma[p].start, len |-> vma[p].len, map |-> vma[p].map]
    BY <1>1 DEF Vmas
  <2>2. vma' = [vma EXCEPT ![p] = [vma[p] EXCEPT !.start = @ + 1, !.len = @ - 1, !.map = m]]
    BY DEF IInv, TypeOK, MemMapTypeOK
  <2> QED
    BY <2>1, <2>2
<1> HIDE DEF v, m
<1>7. VmaInv' /\ vma' \in [Procs -> Vmas]
  BY <1>3, <1>4, <1>5, <1>flags, OneVma
<1>8. StageInv' /\ FileInv' /\ RefsCover' /\ UNCHANGED <<state, refcnt, dpc, area, file, puts>>
  BY RefsKept
<1>9. TypeOK'
  BY <1>7, <1>8, <1>flags DEF IInv, TypeOK, MemMapTypeOK
<1>10. FaultHasCause'
  BY DEF FaultHasCause, Up
<1> QED
  BY <1>7, <1>8, <1>9, <1>10 DEF IInv

LEMMA GrowIInv ==
    ASSUME IInv, NEW p \in Procs, Grow(p), UNCHANGED puts
    PROVE  IInv'
<1> USE DEF Grow
<1>1. vma[p] \in Vmas /\ VmaOk(vma[p], trimmed[p], grown[p]) /\ trimmed[p] \in BOOLEAN
  BY DEF IInv, TypeOK, MemMapTypeOK, VmaInv, VmaOk
<1> DEFINE v == [on |-> TRUE, start |-> vma[p].start, len |-> vma[p].len + 1,
                 map |-> vma[p].map]
<1>2. v \in Vmas
  BY <1>1, PageCntAssumption, MaxGrowAssumption DEF Vmas
<1>flags. /\ trimmed' \in [Procs -> BOOLEAN] /\ grown' \in [Procs -> BOOLEAN]
      /\ \A q \in Procs \ {p} : trimmed'[q] = trimmed[q] /\ grown'[q] = grown[q]
      /\ trimmed'[p] = trimmed[p] /\ grown'[p]
  BY DEF IInv, TypeOK, MemMapTypeOK
<1>3. VmaOk(v, trimmed'[p], grown'[p])
  BY <1>1, <1>flags, PageCntAssumption, MaxGrowAssumption DEF Vmas, VmaOk
<1>4. vma' = [vma EXCEPT ![p] = v]
  <2>1. vma[p] = [on |-> TRUE, start |-> vma[p].start, len |-> vma[p].len, map |-> vma[p].map]
    BY <1>1 DEF Vmas
  <2>2. vma' = [vma EXCEPT ![p] = [vma[p] EXCEPT !.len = @ + 1]]
    BY DEF IInv, TypeOK, MemMapTypeOK
  <2> QED
    BY <2>1, <2>2
<1> HIDE DEF v
<1>6. VmaInv' /\ vma' \in [Procs -> Vmas]
  BY <1>2, <1>3, <1>4, <1>flags, OneVma
<1>7. StageInv' /\ FileInv' /\ RefsCover' /\ UNCHANGED <<state, refcnt, dpc, area, file, puts>>
  BY RefsKept
<1>8. TypeOK'
  BY <1>6, <1>7, <1>flags DEF IInv, TypeOK, MemMapTypeOK
<1>9. FaultHasCause'
  BY DEF FaultHasCause, Up
<1> QED
  BY <1>6, <1>7, <1>8, <1>9 DEF IInv

LEMMA UnmapIInv ==
    ASSUME IInv, NEW p \in Procs, Unmap(p), UNCHANGED puts
    PROVE  IInv'
<1> USE DEF Unmap
<1>flags. /\ trimmed' \in [Procs -> BOOLEAN] /\ grown' \in [Procs -> BOOLEAN]
      /\ \A q \in Procs \ {p} : trimmed'[q] = trimmed[q] /\ grown'[q] = grown[q]
      /\ ~trimmed'[p] /\ ~grown'[p]
  BY DEF IInv, TypeOK, MemMapTypeOK
<1>1. NoVma \in Vmas /\ VmaOk(NoVma, trimmed'[p], grown'[p])
  BY PageCntAssumption, MaxGrowAssumption DEF NoVma, Vmas, NoPage, VmaOk
<1>2. VmaInv' /\ vma' \in [Procs -> Vmas]
  BY <1>1, <1>flags, OneVma
<1>3. /\ state' = state /\ refcnt' \in Nat /\ file' \in [Procs -> {"none", "ok", "orphan"}]
      /\ StageInv' /\ FileInv' /\ RefsCover'
  BY KeepOrRelease
<1>4. TypeOK'
  BY <1>2, <1>3, <1>flags DEF IInv, TypeOK, MemMapTypeOK, driver
<1>5. FaultHasCause'
  BY DEF FaultHasCause, Up
<1> QED
  BY <1>2, <1>3, <1>4, <1>5 DEF IInv

LEMMA FaultIInv ==
    ASSUME IInv, NEW p \in Procs, NEW a \in Addrs, my_memmap_vma_ops_fault(p, a),
           UNCHANGED puts
    PROVE  IInv'
<1> USE DEF my_memmap_vma_ops_fault, Offset
<1>1. vma[p] \in Vmas /\ VmaOk(vma[p], trimmed[p], grown[p])
      /\ trimmed[p] \in BOOLEAN /\ grown[p] \in BOOLEAN
  BY DEF IInv, TypeOK, MemMapTypeOK, VmaInv, VmaOk
<1>2. /\ a \in Int /\ vma[p].start \in Int /\ vma[p].len \in Int
      /\ vma[p].start <= a /\ a < vma[p].start + vma[p].len
  BY <1>1, PageCntAssumption, MaxGrowAssumption DEF Covered, Addrs, Vmas
<1>3. StageInv' /\ FileInv' /\ RefsCover' /\ UNCHANGED <<state, refcnt, dpc, area, file, puts>>
  BY RefsKept
<1>4. CASE area = "freed" \/ a - vma[p].start = PageCnt
  <2>1. fault' = "null_page" /\ UNCHANGED <<vma, trimmed, grown, fd>>
    BY <1>4
  <2>2. TypeOK' /\ VmaInv'
    BY <1>3, <2>1 DEF IInv, TypeOK, MemMapTypeOK, VmaInv
  <2>3. CASE area = "freed"
    <3>1. dpc = "freed" /\ state = "going" /\ OkFiles # {}
      BY <2>3 DEF IInv, StageInv, FileInv, Registered, OkFiles
    <3>2. puts > 0
      BY <3>1, OpenNeedsPut
    <3>3. FaultHasCause'
      BY <1>3, <2>1, <3>2 DEF FaultHasCause
    <3> QED
      BY <1>3, <2>2, <3>3 DEF IInv
  <2>4. CASE a - vma[p].start = PageCnt
    <3>1. grown[p]
      BY <1>1, <1>2, <2>4, PageCntAssumption DEF VmaOk
    <3>2. FaultHasCause'
      BY <2>1, <3>1 DEF FaultHasCause
    <3> QED
      BY <1>3, <2>2, <3>2 DEF IInv
  <2> QED
    BY <1>4, <2>3, <2>4
<1>5. CASE ~(area = "freed" \/ a - vma[p].start = PageCnt)
  <2> DEFINE m == [vma[p].map EXCEPT ![a] = a - vma[p].start]
             v == [on |-> TRUE, start |-> vma[p].start, len |-> vma[p].len, map |-> m]
  <2>1. a - vma[p].start \in -1..(PageCnt - 1)
    BY <1>2, <1>5, PageCntAssumption
  <2>2. m \in [Addrs -> -1..(PageCnt - 1)]
    BY <1>1, <2>1 DEF Vmas
  <2>3. v \in Vmas
    BY <1>1, <2>2 DEF Vmas
  <2>4. VmaOk(v, trimmed[p], grown[p])
    <3>1. ASSUME ~trimmed[p] PROVE \A b \in Addrs : m[b] \in {NoPage, b}
      BY <1>1, <1>2, <3>1 DEF VmaOk, Vmas
    <3> HIDE DEF m
    <3> QED
      BY <1>1, <3>1 DEF VmaOk, Vmas
  <2>5. vma' = [vma EXCEPT ![p] = v] /\ UNCHANGED <<fault, trimmed, grown, fd>>
    <3>1. vma[p] = [on |-> TRUE, start |-> vma[p].start, len |-> vma[p].len, map |-> vma[p].map]
      BY <1>1 DEF Vmas
    <3>2. vma' = [vma EXCEPT ![p] = [vma[p] EXCEPT !.map = m]]
      BY <1>5 DEF IInv, TypeOK, MemMapTypeOK
    <3> QED
      BY <1>5, <3>1, <3>2
  <2> HIDE DEF v, m
  <2>6. trimmed' \in [Procs -> BOOLEAN] /\ grown' \in [Procs -> BOOLEAN]
        /\ VmaOk(v, trimmed'[p], grown'[p])
    BY <2>4, <2>5 DEF IInv, TypeOK, MemMapTypeOK
  <2>7. VmaInv' /\ vma' \in [Procs -> Vmas]
    BY <2>3, <2>5, <2>6, OneVma
  <2>8. TypeOK'
    BY <1>3, <2>5, <2>7 DEF IInv, TypeOK, MemMapTypeOK
  <2>9. FaultHasCause'
    BY <2>5 DEF FaultHasCause, Up
  <2> QED
    BY <1>3, <2>7, <2>8, <2>9 DEF IInv
<1> QED
  BY <1>4, <1>5

LEMMA UseOrphanIInv ==
    ASSUME IInv, NEW p \in Procs, UseOrphan(p), UNCHANGED puts
    PROVE  IInv'
<1> USE DEF UseOrphan
<1>1. VmaInv' /\ UNCHANGED <<file, fd, vma, trimmed, grown>>
  BY UsersKept
<1>2. StageInv' /\ FileInv' /\ RefsCover' /\ UNCHANGED <<state, refcnt, dpc, area, file, puts>>
  BY <1>1, RefsKept
<1>3. TypeOK'
  BY <1>1, <1>2 DEF IInv, TypeOK, MemMapTypeOK
<1>4. FaultHasCause'
  BY <1>2 DEF FaultHasCause, IInv, FileInv
<1> QED
  BY <1>1, <1>2, <1>3, <1>4 DEF IInv

LEMMA PrintModuleIInv == IInv /\ print_module_init => IInv'
<1> SUFFICES ASSUME IInv, print_module_init PROVE IInv'
  OBVIOUS
<1> USE DEF print_module_init, module_put, AfterPut, driver
<1>1. VmaInv' /\ OkFiles' = OkFiles /\ UNCHANGED <<file, fd, vma, trimmed, grown>>
  BY UsersKept
<1>2. TypeOK'
  BY <1>1 DEF IInv, TypeOK, MemMapTypeOK
<1>3. StageInv' /\ FileInv'
  BY <1>1 DEF IInv, TypeOK, MemMapTypeOK, StageInv, FileInv, Registered
<1>4. Owed' = Owed /\ Owed \in Nat
  BY <1>1, OkCount DEF IInv, Owed
<1>5. RefsCover'
  BY <1>4 DEF IInv, TypeOK, MemMapTypeOK, RefsCover
<1>6. FaultHasCause'
  BY <1>1 DEF FaultHasCause, Up
<1> QED
  BY <1>1, <1>2, <1>3, <1>5, <1>6 DEF IInv

---------------------------------------------------------------------------
LEMMA StepIInv == IInv /\ [Next]_vars => IInv'
<1> SUFFICES ASSUME IInv, [Next]_vars PROVE IInv'
  OBVIOUS
<1>1. CASE print_module_init
  BY <1>1, PrintModuleIInv
<1>2. CASE MemMapNext /\ UNCHANGED puts
  <2>1. CASE \/ Load \/ Register \/ AllocArea \/ FillPages \/ Unload \/ FreeArea
             \/ Unregister
    BY <1>2, <2>1, LoadIInv, RegisterIInv, AllocAreaIInv, FillPagesIInv, UnloadIInv,
       FreeAreaIInv, UnregisterIInv
  <2>2. ASSUME NEW p \in Procs,
               \/ my_memmap_open(p) \/ Close(p) \/ Trim(p) \/ Grow(p) \/ Unmap(p)
               \/ UseOrphan(p)
        PROVE  IInv'
    BY <1>2, <2>2, OpenIInv, CloseIInv, TrimIInv, GrowIInv, UnmapIInv, UseOrphanIInv
  <2>3. ASSUME NEW p \in Procs, NEW len \in 1..(PageCnt + 1), NEW write \in BOOLEAN,
               NEW shared \in BOOLEAN, NEW offset \in 0..1,
               my_memmap_map(p, len, write, shared, offset)
        PROVE  IInv'
    BY <1>2, <2>3, MapIInv
  <2>4. ASSUME NEW p \in Procs, NEW a \in Addrs, my_memmap_vma_ops_fault(p, a)
        PROVE  IInv'
    BY <1>2, <2>4, FaultIInv
  <2> QED
    BY <1>2, <2>1, <2>2, <2>3, <2>4 DEF MemMapNext
<1>3. CASE UNCHANGED vars
  BY <1>3 DEF vars, modvars, driver, users, IInv, TypeOK, MemMapTypeOK, StageInv, FileInv,
              VmaInv, Registered, OkFiles, RefsCover, FaultHasCause, Up, Owed
<1> QED
  BY <1>1, <1>2, <1>3 DEF Next

LEMMA Invariance == Spec => []IInv
BY InitIInv, StepIInv, PTL DEF Spec

(* However the processes open, map, split, extend and close, whichever of  *)
(* the driver's init steps fails and however often myrmmod is loaded, the  *)
(* count never exceeds what is owed for open files and for the loader, and *)
(* falls short of it by no more than the references myrmmod took           *)
(* (module_put in print_module_init, myrmmod.c).                           *)
THEOREM CountIsCovered == Spec => []RefsCover
BY Invariance, PTL DEF IInv

(* No use of freed code and no BUG_ON at unload without myrmmod, and no    *)
(* missing page in my_memmap_vma_ops_fault (memmap.c:100) without it or    *)
(* without an extended mapping, whatever the size of the area.             *)
THEOREM FaultsHaveCauses == Spec => []FaultHasCause
BY Invariance, PTL DEF IInv

(* A mapping whose front was never given back shows at each user page the  *)
(* page of the area with the same number, or none.                         *)
THEOREM MappingsAreRight == Spec => []RightPage
<1>1. IInv => RightPage
  BY DEF IInv, VmaInv, RightPage, Covered
<1> QED
  BY <1>1, Invariance, PTL

(* Steps before myrmmod takes anything are steps of a module that goes     *)
(* only when no file is open.                                              *)
LEMMA UseStep ==
    ASSUME IInv, IInv', [Next]_vars, puts' = 0
    PROVE  Life!UseNext \/ UNCHANGED Life!useVars
<1> USE DEF Life!useVars
<1>1. CASE print_module_init
  BY <1>1 DEF print_module_init, users, Open
<1>2. CASE UNCHANGED vars
  BY <1>2 DEF vars, modvars, users, Open
<1>3. CASE MemMapNext /\ UNCHANGED puts
  <2>1. Open = OkFiles /\ puts = 0
    BY <1>3 DEF IInv, FileInv, TypeOK, MemMapTypeOK, Open, OkFiles
  <2>2. Up /\ state \in {"going", "unloaded"} => Open = {}
    BY <2>1, OpenNeedsPut
  <2>3. CASE Load
    <3>1. Open = {} /\ UNCHANGED Open
      BY <2>2, <2>3 DEF Load, LoadModule, users, Open
    <3> QED
      BY <2>3, <3>1 DEF Load, LoadModule, Life!UseNext, Life!Arrive
  <2>4. CASE Register
    <3>1. Open = {} /\ UNCHANGED Open
      BY <2>1, <2>4 DEF Register, IInv, FileInv, Registered, users, Open
    <3> QED
      BY <2>4, <3>1 DEF Register, InitFailed, modvars, Life!UseNext, Life!Depart
  <2>5. CASE AllocArea \/ FillPages \/ FreeArea
    BY <2>5 DEF AllocArea, FillPages, FreeArea, InitReturned, modvars, users, Open
  <2>6. CASE Unload
    <3>1. UNCHANGED Open
      BY <2>6 DEF Unload, users, Open
    <3>2. CASE StopModule
      <4>1. Up /\ state = "live" /\ refcnt = 1
        BY <2>6, <3>2 DEF Unload, StopModule
      <4>2. Owed = Cardinality(OkFiles) + 1 /\ Cardinality(OkFiles) \in Nat
        BY <4>1, OkCount DEF IInv
      <4>3. Open = {}
        BY <2>1, <4>1, <4>2, OkCount DEF IInv, RefsCover
      <4> QED
        BY <3>1, <3>2, <4>3 DEF StopModule, Life!UseNext, Life!Depart
    <3>3. CASE UNCHANGED modvars
      BY <3>1, <3>3 DEF modvars
    <3> QED
      BY <2>6, <3>2, <3>3 DEF Unload
  <2>7. CASE Unregister
    BY <2>7 DEF Unregister, ExitReturned, IInv, TypeOK, MemMapTypeOK, Open
  <2>8. ASSUME NEW p \in Procs, my_memmap_open(p) PROVE Life!UseNext
    <3>1. state \in {"coming", "live"} /\ UNCHANGED state /\ p \notin Open
          /\ Open' = Open \cup {p}
      BY <2>8 DEF my_memmap_open, try_module_get, CanGet, IInv, TypeOK, MemMapTypeOK, Open
    <3>2. Life!Enter(p)
      BY <3>1 DEF Life!Enter
    <3> QED
      BY <3>2 DEF Life!UseNext
  <2>9. ASSUME NEW p \in Procs, Up, file[p] = "ok", Release(p) PROVE Life!UseNext
    <3>1. p \in Open /\ UNCHANGED state /\ Open' = Open \ {p}
      BY <2>9 DEF Release, IInv, TypeOK, MemMapTypeOK, Open
    <3>2. state \in {"coming", "live"}
      BY <2>2, <2>9, <3>1 DEF IInv, TypeOK, MemMapTypeOK, RefStates
    <3>3. Life!Leave(p)
      BY <3>1, <3>2 DEF Life!Leave
    <3> QED
      BY <3>3 DEF Life!UseNext
  <2>10. ASSUME NEW p \in Procs, Close(p) \/ Unmap(p) PROVE Life!UseNext \/ UNCHANGED Life!useVars
    <3>1. Up /\ file[p] = "ok" /\ (Keep \/ Release(p))
      BY <2>10 DEF Close, Unmap
    <3>2. CASE Keep
      BY <3>2 DEF Keep, modvars, Open
    <3> QED
      BY <2>9, <3>1, <3>2
  <2>11. ASSUME NEW p \in Procs, Trim(p) \/ Grow(p) \/ UseOrphan(p) PROVE UNCHANGED Life!useVars
    BY <2>11 DEF Trim, Grow, UseOrphan, modvars, users, Open
  <2>12. ASSUME NEW p \in Procs, NEW len \in 1..(PageCnt + 1), NEW write \in BOOLEAN,
                NEW shared \in BOOLEAN, NEW offset \in 0..1,
                my_memmap_map(p, len, write, shared, offset)
         PROVE  UNCHANGED Life!useVars
    BY <2>12 DEF my_memmap_map, modvars, Open
  <2>13. ASSUME NEW p \in Procs, NEW a \in Addrs, my_memmap_vma_ops_fault(p, a)
         PROVE  UNCHANGED Life!useVars
    BY <2>13 DEF my_memmap_vma_ops_fault, modvars, Open
  <2> HIDE DEF Life!useVars
  <2> QED
    BY <1>3, <2>3, <2>4, <2>5, <2>6, <2>7, <2>8, <2>10, <2>11, <2>12, <2>13 DEF MemMapNext
<1> QED
  BY <1>1, <1>2, <1>3 DEF Next

(* Without myrmmod the count does its work for any number of processes:    *)
(* every step of memmap and its users is one of a module that is entered   *)
(* while it can be used and goes only when no file is open, although a     *)
(* mapping keeps its file after close.                                     *)
THEOREM UsersAreKept == Spec => StepsKeepUsers
<1>1. IInv /\ IInv' /\ [Next]_vars => [puts' = 0 => Life!UseNext]_(Life!useVars)
  BY UseStep
<1> QED
  BY <1>1, Invariance, PTL DEF Spec, StepsKeepUsers

=============================================================================
