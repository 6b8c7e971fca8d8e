--------------------------- MODULE OneShotProofs ---------------------------
(***************************************************************************)
(* What holds of the programs that run once, for every size of a page,     *)
(* width of an int, page table, command line, device and processor. Each   *)
(* has an inductive invariant of its own over its own variables.           *)
(***************************************************************************)
EXTENDS MCOneShot, TLAPS

(* The container starter: the parent holds the write end until both maps   *)
(* were tried, and a child has a pipe to wait on unless it failed.         *)
NsInv ==
    ~plain =>
        /\ ppc \in {"pipe", "clone", "uid", "gid", "close", "wait", "done"}
        /\ ppc = "pipe" => cpc = "none"
        /\ ppc \notin {"pipe", "done"} \/ cpc # "none" => pipe # "none"
        /\ pipe \in {"none", "ok", "failed"}
        /\ pipe = "ok" /\ ppc \in {"clone", "uid", "gid", "close"} => "parent" \in writers
        /\ ppc \in {"gid", "close", "wait"} => uid_map # "none"
        /\ ppc \in {"close", "wait"} => gid_map # "none"
        /\ ppc = "done" => killed \/ (uid_map # "none" /\ gid_map # "none")
        /\ MapsBeforeContainer

(* The address walk: it has come down tables only, and when it ends it has *)
(* met an empty entry or read the last table.                              *)
WalkType ==
    /\ vpc \in {"off", "walk", "loaded", "unloaded"} /\ lost \in BOOLEAN
    /\ vpc = "off" => page = "none" /\ level = 1 /\ ~lost
    /\ vpc = "walk" => page = "held"
    /\ vpc \in {"off", "walk"} => paddr = -1
    /\ page # "none" => /\ vaddr \in Nat
                        /\ \A l \in 1..4 : upper[l] \in TablesAt(l)
                        /\ ptes \in [0..(Ptrs[5] - 1) -> Ptes]

WalkInv ==
    WalkType /\
    (page # "none" /\ ~lost =>
        /\ level \in 1..5 /\ \A l \in 1..(level - 1) : upper[l][Index(l)] = "table"
        /\ vpc \in {"loaded", "unloaded"} =>
              \/ level < 5 /\ upper[level][Index(level)] = "none" /\ paddr = -1
              \/ level = 5 /\ paddr = IF Leaf.used THEN Paddr(pte_val(Leaf)) ELSE -1)

(* pcimem: the window that was mapped is the one that was computed, and    *)
(* what was printed last tells the last value that was read.               *)
PrintLines == [line : {"value", "dots"}, at : Nat, val : Words \cup {0}]

LastValue == IF dupped THEN Len(out) - 1 ELSE Len(out)

PciType ==
    /\ xpc \in {"start", "map", "loop", "exit"}
    /\ target \in Nat /\ items_count \in Int /\ type_width \in Nat \ {0}
    /\ data \in BOOLEAN /\ dupped \in BOOLEAN /\ stray \in BOOLEAN
    /\ i \in Nat /\ out \in Seq(PrintLines) /\ seen \in Seq(Words)

WindowInv ==
    /\ xpc # "exit" => ~stray
    /\ xpc = "loop" => map_size = MapSize /\ MapSize > 0

DumpInv ==
    /\ Len(seen) = i
    /\ i > 0 => /\ LastValue \in 1..Len(out)
                /\ out[LastValue].line = "value" /\ out[LastValue].at < i
                /\ out[LastValue].val = prev
                /\ dupped => out[Len(out)].line = "dots"
    /\ i = 0 => ~dupped

PciInv == PciType /\ WindowInv /\ AccessInWindow /\ DumpInv /\ DumpTellsAll

(* anamem: the statistics bound each other, and with interrupts disabled   *)
(* the cycles are those of the write alone.                                *)
Mapping == qgpu_vmap_pfn(BarPa, MapLen)
IsTraced == Frame(BarPa + GpuOffset) \in traced

AnaType ==
    /\ apc \in {"vmap", "failed", "sample", "write", "read", "check", "check_write",
                "check_read", "done"}
    /\ cycles \in Nat /\ tries \in Nat /\ cycle_max \in Nat /\ cycle_min \in Nat
    /\ ave_cycle \in Nat /\ irqs \in BOOLEAN /\ verdict \in BOOLEAN

SampleInv ==
    /\ tries * cycle_min <= ave_cycle /\ ave_cycle <= tries * cycle_max
    /\ apc \in {"check", "check_write", "check_read", "done"} => tries = Tries

VerdictInv ==
    /\ apc \notin {"vmap", "failed", "done"} => pages = Mapping
    /\ apc \in {"check_write", "check_read"} => ~irqs
    /\ apc = "check_write" => cycles = 0
    /\ apc = "check_read" => (cycles > MaxCycles <=> IsTraced)
    /\ apc = "done" => irqs /\ (verdict <=> IsTraced)

AnaInv == AnaType /\ SampleInv /\ VerdictInv

---------------------------------------------------------------------------
(* Quotients and remainders with a variable modulus.                       *)
LEMMA DivMod ==
    ASSUME NEW m \in Nat \ {0}, NEW x \in Int
    PROVE  /\ x \div m \in Int /\ x % m \in 0..(m - 1)
           /\ x = m * (x \div m) + (x % m)
OBVIOUS

LEMMA Smaller ==
    ASSUME NEW m \in Nat \ {0}, NEW a \in Int, NEW b \in Int
    PROVE  /\ a <= b => m * a <= m * b
           /\ a < b => m * a + m <= m * b
           /\ m * a \in Int
<1>1. m * a \in Int /\ m * b \in Int /\ m * (a + 1) = m * a + m
  OBVIOUS
<1>2. a <= b => m * a <= m * b
  OBVIOUS
<1>3. a + 1 <= b => m * (a + 1) <= m * b
  OBVIOUS
<1> QED
  BY <1>1, <1>2, <1>3

LEMMA Remainder ==
    ASSUME NEW m \in Nat \ {0}, NEW x \in Int, NEW q \in Int, NEW r \in 0..(m - 1),
           x = m * q + r
    PROVE  x % m = r /\ x \div m = q
<1> DEFINE q2 == x \div m
           r2 == x % m
<1>1. q2 \in Int /\ r2 \in 0..(m - 1) /\ x = m * q2 + r2
  BY DivMod
<1> HIDE DEF q2, r2
<1>2. ~(q < q2)
  BY <1>1, Smaller
<1>3. ~(q2 < q)
  BY <1>1, Smaller
<1>4. q = q2
  BY <1>1, <1>2, <1>3
<1>5. r = r2
  BY <1>1, <1>4
<1> QED
  BY <1>4, <1>5 DEF q2, r2

---------------------------------------------------------------------------
(* The container starter.                                                  *)
LEMMA NsInitInv == Init => NsInv
BY DEF Init, NsInv, MapsBeforeContainer, Past

LEMMA NsStepInv == NsInv /\ [Next]_vars => NsInv'
<1> SUFFICES ASSUME NsInv, [Next]_vars PROVE NsInv'
  OBVIOUS
<1>1. CASE UNCHANGED vars
  BY <1>1 DEF vars, NsInv, MapsBeforeContainer
<1>2. CASE Next
  <2> SUFFICES ASSUME ~plain, ~plain' PROVE NsInv'
    BY <1>2 DEF Next, NsInv
  <2>1. CASE Pipe
    BY <2>1 DEF Pipe, NsInv, MapsBeforeContainer, Past
  <2>2. CASE Clone
    BY <2>2 DEF Clone, NsInv, MapsBeforeContainer, Past
  <2>3. CASE NsClone
    BY <2>3 DEF NsClone
  <2>4. CASE SetUidMap
    BY <2>4 DEF SetUidMap, MapResult, NsInv, MapsBeforeContainer, Past
  <2>5. CASE SetGidMap
    BY <2>5 DEF SetGidMap, MapResult, NsInv, MapsBeforeContainer, Past
  <2>6. CASE ClosePipe
    BY <2>6 DEF ClosePipe, NsInv, MapsBeforeContainer, Past
  <2>7. CASE WaitPid
    BY <2>7 DEF WaitPid, NsInv, MapsBeforeContainer, Past
  <2>8. CASE KillParent
    BY <2>8 DEF KillParent, NsInv, MapsBeforeContainer, Past
  <2>9. CASE ChildClose
    BY <2>9 DEF ChildClose, parent, NsInv, MapsBeforeContainer, Past
  <2>10. CASE ChildRead
    <3>1. pipe \in {"ok", "failed"} /\ (pipe = "ok" => writers = {})
      BY <2>10 DEF ChildRead, NsInv
    <3>2. pipe = "ok" => ppc \in {"wait", "done"}
      BY <2>10, <3>1 DEF ChildRead, NsInv
    <3> QED
      BY <2>10, <3>1, <3>2 DEF ChildRead, parent, NsInv, MapsBeforeContainer, Past
  <2>11. CASE SetHostname \/ Mount \/ Exec \/ ShellExits
    BY <2>11 DEF SetHostname, Mount, Exec, ShellExits, parent, NsInv, MapsBeforeContainer, Past
  <2> QED
    BY <1>2, <2>1, <2>2, <2>3, <2>4, <2>5, <2>6, <2>7, <2>8, <2>9, <2>10, <2>11
       DEF Next, ParentStep, ChildStep
<1> QED
  BY <1>1, <1>2

---------------------------------------------------------------------------
(* The address walk. What an entry of each level spans, and the index the  *)
(* walk takes of a table of that level.                                    *)
LEMMA SpanDef == Span = [l \in 1..5 |-> IF l = 5 THEN PageSize ELSE Span[l + 1] * Ptrs[l + 1]]
<1> DEFINE s4 == PageSize * Ptrs[5]
           s3 == s4 * Ptrs[4]
           s2 == s3 * Ptrs[3]
           s1 == s2 * Ptrs[2]
           g == [l \in 1..5 |-> IF l = 5 THEN PageSize ELSE IF l = 4 THEN s4
                                ELSE IF l = 3 THEN s3 ELSE IF l = 2 THEN s2 ELSE s1]
           Body(f) == [l \in 1..5 |-> IF l = 5 THEN PageSize ELSE f[l + 1] * Ptrs[l + 1]]
<1>1. \A l \in 1..5 : g[l] = Body(g)[l]
  <2> SUFFICES ASSUME NEW l \in 1..5 PROVE g[l] = Body(g)[l]
    OBVIOUS
  <2>1. l = 1 \/ l = 2 \/ l = 3 \/ l = 4 \/ l = 5
    OBVIOUS
  <2> QED
    BY <2>1
<1>2. g = Body(g)
  BY <1>1
<1>3. Span = CHOOSE f : f = Body(f)
  BY DEF Span
<1> HIDE DEF g, Body
<1>4. Span = Body(Span)
  BY <1>2, <1>3
<1> QED
  BY <1>4 DEF Body

LEMMA SpanType == \A l \in 1..5 : Span[l] \in Nat \ {0}
<1>1. Span[5] = PageSize /\ \A l \in 1..4 : Span[l] = Span[l + 1] * Ptrs[l + 1]
  BY SpanDef
<1>2. \A a, b \in Nat \ {0} : a * b \in Nat \ {0}
  OBVIOUS
<1>3. \A l \in 1..5 : Ptrs[l] \in Nat \ {0}
  BY PtrsAssumption
<1>4. Span[5] \in Nat \ {0}
  BY <1>1, PageAssumption
<1>5. Span[4] \in Nat \ {0}
  BY <1>1, <1>2, <1>3, <1>4
<1>6. Span[3] \in Nat \ {0}
  BY <1>1, <1>2, <1>3, <1>5
<1>7. Span[2] \in Nat \ {0}
  BY <1>1, <1>2, <1>3, <1>6
<1>8. Span[1] \in Nat \ {0}
  BY <1>1, <1>2, <1>3, <1>7
<1> QED
  BY <1>4, <1>5, <1>6, <1>7, <1>8

LEMMA IndexType ==
    ASSUME vaddr \in Nat, NEW l \in 1..5
    PROVE  Index(l) \in 0..(Ptrs[l] - 1)
<1>1. Span[l] \in Nat \ {0} /\ Ptrs[l] \in Nat \ {0}
  BY SpanType, PtrsAssumption
<1>2. \A m \in Nat \ {0} : vaddr \div m \in Int
  BY DivMod
<1> QED
  BY <1>1, <1>2, DivMod DEF Index

(* What is masked out of an entry that is present is its attributes.       *)
LEMMA PresentPaddr ==
    ASSUME NEW e \in Ptes, e.used, e.present, vaddr \in Nat
    PROVE  /\ Paddr(pte_val(e)) = e.pfn * PageSize + (vaddr % PageSize)
                                  + (IF e.nx THEN NxBit ELSE 0)
           /\ Paddr(pte_val(e)) \in Nat
<1> DEFINE nx == IF e.nx THEN NxBit ELSE 0
<1>1. e.pfn \in Nat /\ NxBit \in Nat /\ Flags \in 1..(PageSize - 1) /\ NxBit % PageSize = 0
  <2>1. e # NoPte
    BY DEF NoPte
  <2>2. e.pfn \in Pfns
    BY <2>1 DEF Ptes
  <2> QED
    BY <2>2, NxAssumption
<1>2. PICK n \in Int : NxBit = PageSize * n
  <2>1. NxBit \div PageSize \in Int /\ NxBit = PageSize * (NxBit \div PageSize) + (NxBit % PageSize)
    BY <1>1, PageAssumption, DivMod
  <2> DEFINE n == NxBit \div PageSize
  <2>2. n \in Int /\ NxBit = PageSize * n + 0
    BY <1>1, <2>1
  <2> HIDE DEF n
  <2>3. PageSize * n \in Int
    BY <2>2, PageAssumption
  <2>4. NxBit = PageSize * n
    BY <2>2, <2>3
  <2> QED
    BY <2>2, <2>4
<1>3. PICK k \in Int : nx = PageSize * k
  BY <1>2, PageAssumption
<1>4. nx \in Nat
  BY <1>1
<1> HIDE DEF nx
<1>5. pte_val(e) = nx + e.pfn * PageSize + Flags
  BY DEF pte_val, nx
<1>6. nx + e.pfn * PageSize + Flags = PageSize * (k + e.pfn) + Flags
  BY <1>1, <1>3, PageAssumption
<1>7. pte_val(e) % PageSize = Flags
  <2>1. k + e.pfn \in Int /\ Flags \in 0..(PageSize - 1) /\ pte_val(e) \in Int
    BY <1>1, <1>4, <1>5, PageAssumption
  <2> QED
    BY <1>5, <1>6, <2>1, PageAssumption, Remainder
<1>8. vaddr % PageSize \in 0..(PageSize - 1)
  BY PageAssumption, DivMod
<1>9. e.pfn * PageSize \in Nat
  BY <1>1, PageAssumption
<1>10. Paddr(pte_val(e)) = e.pfn * PageSize + (vaddr % PageSize) + nx
  BY <1>1, <1>4, <1>5, <1>7, <1>8, <1>9, PageAssumption DEF Paddr, PageStart
<1> QED
  BY <1>4, <1>8, <1>9, <1>10, PageAssumption DEF nx

LEMMA V2pInitInv == V2pInit => WalkInv
BY DEF V2pInit, WalkInv, WalkType

(* Addresses and tables that stay keep what the walk finds in them.        *)
LEMMA TablesKept ==
    ASSUME UNCHANGED <<vaddr, upper, ptes>>
    PROVE  /\ \A l \in 1..5 : Index(l)' = Index(l)
           /\ Leaf' = Leaf
           /\ \A val : Paddr(val)' = Paddr(val)
BY DEF Index, Leaf, Paddr

LEMMA V2pStepInv == WalkInv /\ [V2pNext]_v2pVars => WalkInv'
<1> SUFFICES ASSUME WalkInv, [V2pNext]_v2pVars PROVE WalkInv'
  OBVIOUS
<1>1. CASE UNCHANGED v2pVars
  BY <1>1 DEF v2pVars, WalkInv, WalkType, Index, Leaf, Paddr
<1>2. CASE NoFreePage
  BY <1>2 DEF NoFreePage, WalkInv, WalkType
<1>3. ASSUME NEW v \in 0..(Span[1] * Ptrs[1] - 1), NEW pgd \in TablesAt(1),
             NEW p4d \in TablesAt(2), NEW pud \in TablesAt(3), NEW pmd \in TablesAt(4),
             NEW last \in [0..(Ptrs[5] - 1) -> Ptes],
             GetFreePage(v, pgd, p4d, pud, pmd, last)
      PROVE  WalkInv'
  <2>1. v \in Nat
    OBVIOUS
  <2>2. \A l \in 1..4 : upper'[l] \in TablesAt(l)
    <3> SUFFICES ASSUME NEW l \in 1..4 PROVE upper'[l] \in TablesAt(l)
      OBVIOUS
    <3>1. upper' = <<pgd, p4d, pud, pmd>>
      BY <1>3 DEF GetFreePage
    <3>2. l = 1 \/ l = 2 \/ l = 3 \/ l = 4
      OBVIOUS
    <3> QED
      BY <3>1, <3>2
  <2>3. vpc' = "walk" /\ page' = "held" /\ vaddr' = v /\ ptes' = last /\ level' = 1 /\ ~lost'
        /\ lost' \in BOOLEAN /\ paddr' = paddr /\ vpc = "off"
    BY <1>3 DEF GetFreePage, WalkInv, WalkType
  <2>4. paddr = -1
    BY <2>3 DEF WalkInv, WalkType
  <2>5. WalkType'
    BY <2>1, <2>2, <2>3, <2>4 DEF WalkType, TablesAt
  <2> QED
    BY <2>3, <2>5 DEF WalkInv
<1>4. CASE Walk
  <2>1. /\ vpc = "walk" /\ page = "held" /\ level \in 1..4 /\ ~lost /\ vaddr \in Nat
        /\ UNCHANGED <<page, vaddr, upper, ptes, paddr>>
        /\ paddr = -1
    BY <1>4 DEF Walk, WalkInv, WalkType
  <2> DEFINE entry == upper[level][Index(level)]
  <2>2. entry \in Entries(level)
    BY <2>1, IndexType DEF WalkInv, WalkType, TablesAt
  <2>3. entry \in {"none", "table", "large"}
    BY <2>2 DEF Entries
  <2>4. \/ entry = "none" /\ vpc' = "loaded" /\ UNCHANGED <<level, lost>>
        \/ entry # "none" /\ level' = level + 1 /\ lost' = (entry = "large") /\ UNCHANGED vpc
    BY <1>4 DEF Walk
  <2>5. \A l \in 1..5 : Index(l)' = Index(l)
    BY <2>1, TablesKept
  <2>6. WalkType'
    <3>1. vpc' \in {"walk", "loaded"} /\ lost' \in BOOLEAN
      BY <2>1, <2>4 DEF WalkInv, WalkType
    <3> QED
      BY <2>1, <3>1 DEF WalkInv, WalkType, TablesAt
  <2>7. \A l \in 1..(level - 1) : upper[l][Index(l)] = "table"
    BY <2>1 DEF WalkInv
  <2>8. CASE entry = "none"
    <3>1. vpc' = "loaded" /\ UNCHANGED <<level, lost>>
      BY <2>4, <2>8
    <3>2. upper'[level'][Index(level)'] = "none"
      BY <2>1, <2>5, <2>8, <3>1
    <3>3. \A l \in 1..(level' - 1) : upper'[l][Index(l)'] = "table"
      BY <2>1, <2>5, <2>7, <3>1
    <3> QED
      BY <2>1, <2>6, <3>1, <3>2, <3>3 DEF WalkInv
  <2>9. CASE entry # "none"
    <3>1. level' = level + 1 /\ lost' = (entry = "large") /\ vpc' = "walk"
      BY <2>1, <2>4, <2>9
    <3>2. ASSUME ~lost'
          PROVE  level' \in 1..5 /\ \A l \in 1..(level' - 1) : upper'[l][Index(l)'] = "table"
      <4>1. entry = "table"
        BY <2>3, <2>9, <3>1, <3>2
      <4>2. \A l \in 1..level : upper[l][Index(l)] = "table"
        BY <2>1, <2>7, <4>1
      <4> QED
        BY <2>1, <2>5, <3>1, <4>2
    <3> QED
      BY <2>6, <3>1, <3>2 DEF WalkInv
  <2> QED
    BY <2>8, <2>9
<1>5. CASE WalkPte
  <2>1. /\ vpc = "walk" /\ level = 5 /\ ~lost /\ vpc' = "loaded"
        /\ UNCHANGED <<page, vaddr, upper, ptes, level, lost>>
        /\ paddr' = IF Leaf.used THEN Paddr(pte_val(Leaf)) ELSE -1
    BY <1>5 DEF WalkPte, Leaf
  <2>2. /\ \A l \in 1..5 : Index(l)' = Index(l)
        /\ Leaf' = Leaf /\ \A val : Paddr(val)' = Paddr(val)
    BY <2>1, TablesKept
  <2>3. WalkType'
    BY <2>1 DEF WalkInv, WalkType, TablesAt
  <2>4. page # "none" => \A l \in 1..(level' - 1) : upper'[l][Index(l)'] = "table"
    BY <2>1, <2>2 DEF WalkInv
  <2>5. level' = 5 /\ paddr' = (IF Leaf.used THEN Paddr(pte_val(Leaf)) ELSE -1)'
    BY <2>1, <2>2 DEF pte_val, Paddr
  <2> QED
    BY <2>1, <2>3, <2>4, <2>5 DEF WalkInv
<1>6. CASE WalkLost
  BY <1>6 DEF WalkLost, WalkInv, WalkType, TablesAt
<1>7. CASE V2pExit
  <2>1. /\ vpc = "loaded" /\ vpc' = "unloaded" /\ UNCHANGED <<vaddr, upper, ptes, level, paddr, lost>>
        /\ (page' # "none" <=> page # "none")
    BY <1>7 DEF V2pExit
  <2>2. WalkType'
    BY <2>1 DEF WalkInv, WalkType, TablesAt
  <2> QED
    BY <2>1, <2>2 DEF WalkInv, Index, Leaf, Paddr
<1> QED
  BY <1>1, <1>2, <1>3, <1>4, <1>5, <1>6, <1>7 DEF V2pNext

LEMMA WalkIsRight == WalkInv => WalkFindsPage
<1> SUFFICES ASSUME WalkInv, vpc \in {"loaded", "unloaded"}, page # "none", ~lost, ~Swapped
             PROVE  /\ paddr = -1 <=> ~Mapped
                    /\ Mapped => paddr = Translation + (IF Leaf.nx THEN NxBit ELSE 0)
  BY DEF WalkFindsPage
<1>1. vaddr \in Nat /\ level \in 1..5 /\ \A l \in 1..(level - 1) : upper[l][Index(l)] = "table"
  BY DEF WalkInv, WalkType
<1>2. CASE level < 5 /\ upper[level][Index(level)] = "none" /\ paddr = -1
  BY <1>1, <1>2 DEF Mapped, OnTables
<1>3. CASE level = 5 /\ paddr = IF Leaf.used THEN Paddr(pte_val(Leaf)) ELSE -1
  <2>1. OnTables
    BY <1>1, <1>3 DEF OnTables
  <2>2. Leaf \in Ptes
    BY <1>1, IndexType DEF Leaf, WalkInv, WalkType
  <2>3. CASE ~Leaf.used
    BY <1>3, <2>3 DEF Mapped
  <2>4. CASE Leaf.used
    <3>1. Leaf.present /\ Mapped
      BY <2>1, <2>4 DEF Swapped, Mapped
    <3>2. /\ Paddr(pte_val(Leaf)) = Translation + (IF Leaf.nx THEN NxBit ELSE 0)
          /\ Paddr(pte_val(Leaf)) \in Nat
      BY <1>1, <2>2, <2>4, <3>1, PresentPaddr DEF Translation
    <3> QED
      BY <1>3, <2>4, <3>1, <3>2
  <2> QED
    BY <2>3, <2>4
<1> QED
  BY <1>2, <1>3 DEF WalkInv

---------------------------------------------------------------------------
(* The register analyser: the page that is written is the register's.      *)
LEMMA WrittenPage ==
    ASSUME pages = Mapping
    PROVE  Written = Frame(BarPa + GpuOffset)
<1> DEFINE q == GpuOffset \div PageSize
           r == GpuOffset % PageSize
           b == BarPa \div PageSize
           n == MapLen + PageSize - 1
           pg == n \div PageSize
<1>1. q \in Int /\ r \in 0..(PageSize - 1) /\ GpuOffset = PageSize * q + r /\ GpuOffset \in Nat
  BY BarAssumption, PageAssumption, DivMod
<1>2. b \in Int /\ BarPa = PageSize * b + (BarPa % PageSize) /\ BarPa \in Nat /\ BarPa % PageSize = 0
  BY BarAssumption, PageAssumption, DivMod
<1>3. n \in Int /\ pg \in Int /\ n % PageSize \in 0..(PageSize - 1)
      /\ n = PageSize * pg + (n % PageSize)
  BY BarAssumption, PageAssumption, DivMod
<1>4. PageSize \in Nat \ {0} /\ GpuOffset < MapLen /\ MapLen \in Nat
  BY BarAssumption, PageAssumption
<1>5. n = MapLen + PageSize - 1 /\ PagesOf(MapLen) = pg
  BY DEF PagesOf
<1>6. Mapping = [k \in 1..pg |-> Frame(PageStart(BarPa) + (k - 1) * PageSize)]
  BY <1>5 DEF Mapping, qgpu_vmap_pfn
<1>7. Written = pages[q + 1]
  BY DEF Written
<1>8. Frame(BarPa + GpuOffset) = (BarPa + GpuOffset) \div PageSize
  BY DEF Frame
<1>9. PageStart(BarPa) = BarPa
  BY <1>2 DEF PageStart
<1> HIDE DEF q, r, b, n, pg
<1>10. PageSize * b \in Int /\ BarPa = PageSize * b
  BY <1>2, <1>4
<1>11. 0 <= q
  <2>1. ~(q + 1 <= 0)
    BY <1>1, <1>4, Smaller
  <2> QED
    BY <1>1, <2>1
<1>12. q + 1 <= pg
  <2>1. PageSize * q <= GpuOffset /\ PageSize * q \in Int
    BY <1>1, <1>4, Smaller
  <2>2. PageSize * pg >= MapLen /\ PageSize * pg \in Int
    BY <1>3, <1>4, <1>5, Smaller
  <2>3. ~(pg <= q)
    BY <1>1, <1>3, <1>4, <2>1, <2>2, Smaller
  <2> QED
    BY <1>1, <1>3, <2>3
<1>13. Written = Frame(BarPa + q * PageSize)
  BY <1>1, <1>3, <1>6, <1>7, <1>9, <1>11, <1>12
<1>14. BarPa + q * PageSize = PageSize * (b + q) + 0 /\ BarPa + GpuOffset = PageSize * (b + q) + r
  BY <1>1, <1>2, <1>4, <1>10
<1>15. b + q \in Int /\ BarPa + q * PageSize \in Int /\ BarPa + GpuOffset \in Int
       /\ 0 \in 0..(PageSize - 1)
  BY <1>1, <1>2, <1>4
<1>16. (BarPa + q * PageSize) \div PageSize = b + q
  BY <1>4, <1>14, <1>15, Remainder
<1>17. (BarPa + GpuOffset) \div PageSize = b + q
  BY <1>1, <1>4, <1>14, <1>15, Remainder
<1> QED
  BY <1>8, <1>13, <1>16, <1>17 DEF Frame

LEMMA AnaInitInv == AnaInit => AnaInv
<1> SUFFICES ASSUME AnaInit PROVE AnaInv
  OBVIOUS
<1>1. AnaType
  BY CyclesAssumption DEF AnaInit, AnaType
<1>2. SampleInv
  <2>1. /\ tries = 0 /\ cycle_min \in Nat /\ cycle_max \in Nat /\ ave_cycle = 0
        /\ apc = "vmap"
    BY CyclesAssumption DEF AnaInit
  <2>2. tries * cycle_min = 0 /\ tries * cycle_max = 0
    BY <2>1
  <2> QED
    BY <2>1, <2>2 DEF SampleInv
<1>3. VerdictInv
  BY DEF AnaInit, VerdictInv
<1> QED
  BY <1>1, <1>2, <1>3 DEF AnaInv

(* One more sample keeps the sum between the bounds.                       *)
LEMMA OneMoreSample ==
    ASSUME NEW t \in Nat, NEW lo \in Nat, NEW hi \in Nat, NEW sum \in Nat, NEW c \in Nat,
           NEW lo2 \in Nat, NEW hi2 \in Nat,
           t * lo <= sum, sum <= t * hi, lo2 <= lo, lo2 <= c, hi2 >= hi, hi2 >= c
    PROVE  (t + 1) * lo2 <= sum + c /\ sum + c <= (t + 1) * hi2
<1>1. t * lo2 <= t * lo /\ t * hi <= t * hi2 /\ t * lo2 \in Nat /\ t * hi2 \in Nat
      /\ t * lo \in Nat /\ t * hi \in Nat
  OBVIOUS
<1>2. (t + 1) * lo2 = t * lo2 + lo2 /\ (t + 1) * hi2 = t * hi2 + hi2
  OBVIOUS
<1> QED
  BY <1>1, <1>2

LEMMA AnaStepInv == AnaInv /\ [AnaNext]_anaVars => AnaInv'
<1> SUFFICES ASSUME AnaInv, [AnaNext]_anaVars PROVE AnaInv'
  OBVIOUS
<1> USE DEF stats
<1>1. CASE UNCHANGED anaVars
  BY <1>1 DEF anaVars, AnaInv, AnaType, SampleInv, VerdictInv, IsTraced
<1>2. CASE MapBar
  BY <1>2 DEF MapBar, AnaInv, AnaType, SampleInv, VerdictInv, IsTraced, Mapping
<1>3. CASE BeginSample
  <2>1. AnaType' /\ SampleInv'
    BY <1>3 DEF BeginSample, AnaInv, AnaType, SampleInv
  <2>2. CASE apc = "sample" /\ apc' = "write"
    BY <1>3, <2>1, <2>2 DEF BeginSample, AnaInv, VerdictInv
  <2>3. CASE apc = "check" /\ apc' = "check_write" /\ irqs' = FALSE
    BY <1>3, <2>1, <2>3 DEF BeginSample, AnaInv, VerdictInv, IsTraced
  <2> QED
    BY <1>3, <2>2, <2>3 DEF BeginSample
<1>4. CASE Interrupt
  <2>1. apc = "write" /\ UNCHANGED <<apc, traced, pages, irqs, stats, verdict>>
    BY <1>4 DEF Interrupt, AnaInv, VerdictInv
  <2>2. cycles' \in Nat
    BY <1>4, CyclesAssumption DEF Interrupt, AnaInv, AnaType
  <2> QED
    BY <2>1, <2>2 DEF AnaInv, AnaType, SampleInv, VerdictInv
<1>5. CASE EndSample
  <2> USE <1>5 DEF EndSample
  <2>1. AnaType'
    BY DEF AnaInv, AnaType
  <2>2. /\ cycle_min' <= cycle_min /\ cycle_min' <= cycles
        /\ cycle_max' >= cycle_max /\ cycle_max' >= cycles
        /\ tries' = tries + 1 /\ ave_cycle' = ave_cycle + cycles
    BY DEF AnaInv, AnaType
  <2>3. SampleInv'
    <3>1. tries' * cycle_min' <= ave_cycle' /\ ave_cycle' <= tries' * cycle_max'
      BY <2>1, <2>2, OneMoreSample DEF AnaInv, AnaType, SampleInv
    <3> QED
      BY <3>1 DEF SampleInv
  <2>4. VerdictInv'
    BY DEF AnaInv, VerdictInv
  <2> QED
    BY <2>1, <2>3, <2>4 DEF AnaInv
<1>6. CASE PrintStats
  BY <1>6 DEF PrintStats, AnaInv, AnaType, SampleInv, VerdictInv
<1>7. CASE Check
  <2>1. AnaType' /\ SampleInv'
    BY <1>7 DEF Check, AnaInv, AnaType, SampleInv
  <2>2. VerdictInv'
    BY <1>7 DEF Check, AnaInv, VerdictInv, IsTraced
  <2> QED
    BY <2>1, <2>2 DEF AnaInv
<1>8. ASSUME NEW c \in Direct \cup Trapped, Write(c) PROVE AnaInv'
  <2>1. c \in Nat /\ (c > MaxCycles <=> Written \in traced)
    BY <1>8, CyclesAssumption DEF Write
  <2>2. AnaType' /\ SampleInv'
    BY <1>8, <2>1 DEF Write, AnaInv, AnaType, SampleInv
  <2>3. CASE apc = "write" /\ apc' = "read"
    BY <1>8, <2>2, <2>3 DEF Write, AnaInv, VerdictInv
  <2>4. CASE apc = "check_write" /\ apc' = "check_read"
    <3>1. cycles' = c /\ pages = Mapping
      BY <1>8, <2>1, <2>4 DEF Write, AnaInv, VerdictInv
    <3>2. cycles' > MaxCycles <=> IsTraced
      BY <2>1, <3>1, WrittenPage DEF IsTraced
    <3> QED
      BY <1>8, <2>2, <2>4, <3>2 DEF Write, AnaInv, VerdictInv, IsTraced
  <2> QED
    BY <1>8, <2>3, <2>4 DEF Write
<1> QED
  BY <1>1, <1>2, <1>3, <1>4, <1>5, <1>6, <1>7, <1>8 DEF AnaNext

LEMMA ReportFollows == AnaInv => ReportIsRight
<1> SUFFICES ASSUME AnaInv, apc = "done"
             PROVE  /\ verdict <=> Frame(BarPa + GpuOffset) \in traced
                    /\ cycle_min <= ave_cycle \div Tries /\ ave_cycle \div Tries <= cycle_max
                    /\ irqs
  BY DEF ReportIsRight
<1>1. irqs /\ (verdict <=> Frame(BarPa + GpuOffset) \in traced)
  BY DEF AnaInv, VerdictInv, IsTraced
<1>2. /\ Tries * cycle_min <= ave_cycle /\ ave_cycle <= Tries * cycle_max
      /\ ave_cycle \in Nat /\ cycle_min \in Nat /\ cycle_max \in Nat /\ Tries \in Nat \ {0}
  BY CyclesAssumption DEF AnaInv, AnaType, SampleInv
<1> DEFINE q == ave_cycle \div Tries
           r == ave_cycle % Tries
<1>3. q \in Int /\ r \in 0..(Tries - 1) /\ ave_cycle = Tries * q + r
  BY <1>2, DivMod
<1> HIDE DEF q, r
<1>4. ~(q < cycle_min)
  BY <1>2, <1>3, Smaller
<1>5. ~(cycle_max < q)
  BY <1>2, <1>3, Smaller
<1> QED
  BY <1>1, <1>2, <1>3, <1>4, <1>5 DEF q

---------------------------------------------------------------------------
(* The PCI memory mapper. An int that is not negative is small, and keeps  *)
(* its value when it is an int.                                            *)
LEMMA IntKept ==
    ASSUME NEW x \in Int
    PROVE  /\ ToInt(x) \in Int /\ 2 * ToInt(x) < IntMod
           /\ x >= 0 /\ 2 * x < IntMod => ToInt(x) = x
           /\ x >= 0 /\ x < IntMod /\ 2 * x >= IntMod => ToInt(x) < 0
<1>1. x % IntMod \in 0..(IntMod - 1) /\ IntMod \in Nat \ {0}
  BY WidthAssumption, DivMod
<1>2. ToInt(x) \in Int /\ 2 * ToInt(x) < IntMod
  BY <1>1 DEF ToInt
<1>3. x >= 0 /\ x < IntMod => x % IntMod = x
  <2>1. x = IntMod * 0 + x
    BY <1>1
  <2> QED
    BY <1>1, <2>1, Remainder
<1> QED
  BY <1>1, <1>2, <1>3 DEF ToInt

(* The pages of a length hold it.                                          *)
LEMMA PagesHold ==
    ASSUME NEW len \in Nat
    PROVE  PagesOf(len) \in Int /\ PagesOf(len) * PageSize \in Int
           /\ len <= PagesOf(len) * PageSize
<1> DEFINE n == len + PageSize - 1
           q == n \div PageSize
           r == n % PageSize
<1>1. n \in Int /\ PageSize \in Nat \ {0}
  BY PageAssumption
<1>2. q \in Int /\ r \in 0..(PageSize - 1) /\ n = PageSize * q + r
  BY <1>1, DivMod
<1>3. PagesOf(len) = q /\ n = len + PageSize - 1
  BY DEF PagesOf
<1> HIDE DEF n, q, r
<1>4. q * PageSize = PageSize * q /\ PageSize * q \in Int
  BY <1>1, <1>2
<1> QED
  BY <1>1, <1>2, <1>3, <1>4

(* Without overflow, each item of the loop is in the pages mapped.         *)
LEMMA ItemInWindow ==
    ASSUME PciType, MapSize > 0, map_size = MapSize, i < items_count,
           ToInt(items_count * type_width) = items_count * type_width
    PROVE  InWindow(VirtAddr)
<1> DEFINE t == target % PageSize
           n == items_count * type_width
           a == i * type_width
<1>1. /\ PageSize \in Nat \ {0} /\ 2 * PageSize <= IntMod /\ IntMod \in Nat
      /\ target \in Nat /\ type_width \in Nat \ {0} /\ i \in Nat /\ items_count \in Nat
  BY PageAssumption, PageFitsInt, WidthAssumption DEF PciType
<1>2. t \in 0..(PageSize - 1)
  BY <1>1, DivMod
<1>3. a \in Nat /\ n \in Nat /\ a + type_width <= n
  <2>1. type_width * i + type_width <= type_width * items_count /\ type_width * i \in Nat
        /\ type_width * items_count \in Nat
    BY <1>1, Smaller
  <2>2. type_width * i = a /\ type_width * items_count = n
    BY <1>1
  <2> QED
    BY <2>1, <2>2
<1>4. Needed = target + ToInt(n) - (target - t)
  BY DEF Needed, PageStart
<1>5. VirtAddr = target + ToInt(a) - (target - t)
  BY DEF VirtAddr, PageStart
<1>6. ToInt(n) = n
  OBVIOUS
<1> HIDE DEF t, n, a
<1>7. 2 * n < IntMod
  BY <1>3, <1>6, IntKept
<1>8. ToInt(a) = a
  BY <1>1, <1>3, <1>7, IntKept
<1>9. VirtAddr = t + a /\ Needed = t + n
  BY <1>1, <1>2, <1>3, <1>4, <1>5, <1>6, <1>8
<1>10. Needed <= MapSize /\ MapSize \in Nat
  <2>1. CASE Needed > PageSize
    <3>1. MapSize = ToInt(t + n) /\ t + n \in Int /\ t + n >= 0 /\ t + n < IntMod
      BY <1>1, <1>2, <1>3, <1>7, <1>9, <2>1 DEF MapSize
    <3>2. 2 * (t + n) < IntMod
      BY <1>1, <3>1, IntKept
    <3>3. MapSize = t + n
      BY <3>1, <3>2, IntKept
    <3> QED
      BY <1>9, <3>1, <3>3
  <2>2. CASE ~(Needed > PageSize)
    BY <1>1, <1>2, <1>3, <1>9, <2>2 DEF MapSize
  <2> QED
    BY <2>1, <2>2
<1>11. MapSize <= PagesOf(MapSize) * PageSize /\ PagesOf(MapSize) * PageSize \in Int
  BY <1>10, PagesHold
<1>12. VirtAddr >= 0 /\ VirtAddr + type_width <= Needed
  BY <1>1, <1>2, <1>3, <1>9
<1>13. VirtAddr + type_width <= PagesOf(map_size) * PageSize
  BY <1>1, <1>2, <1>3, <1>9, <1>10, <1>11, <1>12
<1> QED
  BY <1>12, <1>13 DEF InWindow

(* A line more: what is told stays told, if the new line is later than all *)
(* the values or only dots.                                                *)
LEMMA LinePrinted ==
    ASSUME PciType, NEW x \in PrintLines, out' = Append(out, x)
    PROVE  /\ out' \in Seq(PrintLines) /\ Len(out) \in Nat /\ Len(out') = Len(out) + 1
           /\ \A f \in 1..Len(out) : out'[f] = out[f]
           /\ out'[Len(out) + 1] = x
BY DEF PciType

LEMMA ValueSeen ==
    ASSUME PciType, DumpInv, NEW v \in Words, seen' = Append(seen, v)
    PROVE  /\ seen' \in Seq(Words) /\ Len(seen') = i + 1
           /\ \A k \in 1..i : seen'[k] = seen[k]
           /\ seen'[i + 1] = v
BY DEF PciType, DumpInv

LEMMA PrintTells ==
    ASSUME PciType, DumpInv, DumpTellsAll, NEW v \in Words, PrintItem(v), prev' = v,
           i' = i + 1, seen' = Append(seen, v)
    PROVE  /\ DumpInv' /\ DumpTellsAll'
           /\ out' \in Seq(PrintLines) /\ seen' \in Seq(Words) /\ dupped' \in BOOLEAN
<1> DEFINE L == Len(out)
           Told(k, e) ==
               /\ out'[e].line = "value" /\ out'[e].at < k /\ out'[e].val = seen'[k]
               /\ \A f \in (e + 1)..Len(out') : out'[f].line = "dots" \/ out'[f].at >= k
               /\ out'[e].at < k - 1 => e < Len(out') /\ out'[e + 1].line = "dots"
           Before(f) == f > 1 /\ out'[f - 1].line = "value"
<1>1. i \in Nat /\ L \in Nat /\ out \in Seq(PrintLines)
      /\ \A f \in 1..L : out[f] \in PrintLines
  BY DEF PciType
<1>2. /\ seen' \in Seq(Words) /\ Len(seen') = i + 1 /\ Len(seen) = i
      /\ \A k \in 1..i : seen'[k] = seen[k]
      /\ seen'[i + 1] = v
  BY ValueSeen DEF DumpInv
<1>3. SUFFICES /\ \A k \in 1..i : \E e \in 1..Len(out') : Told(k, e)
               /\ \E e \in 1..Len(out') : Told(i + 1, e)
               /\ \A f \in 1..Len(out') : out'[f].line = "dots" => Before(f)
               /\ DumpInv' /\ out' \in Seq(PrintLines) /\ dupped' \in BOOLEAN
  <2>1. 1..Len(seen') = (1..i) \cup {i + 1}
    BY <1>1, <1>2
  <2> HIDE DEF Told, Before
  <2>2. \A k \in 1..Len(seen') : \E e \in 1..Len(out') : Told(k, e)
    BY <1>3, <2>1
  <2> QED
    BY <1>2, <1>3, <2>2 DEF DumpTellsAll, Told, Before
<1>4. CASE v # prev \/ i = 0
  <2> DEFINE x == Value(v)
  <2>1. out' = Append(out, x) /\ dupped' = FALSE
    BY <1>4 DEF PrintItem
  <2>2. x \in PrintLines /\ x.line = "value" /\ x.at = i /\ x.val = v
    BY <1>1 DEF Value, PrintLines
  <2> HIDE DEF x
  <2>3. /\ out' \in Seq(PrintLines) /\ Len(out') = L + 1
        /\ \A f \in 1..L : out'[f] = out[f]
        /\ out'[L + 1] = x
    BY <2>1, <2>2, LinePrinted
  <2> HIDE DEF L
  <2>4. \A k \in 1..i : \E e \in 1..Len(out') : Told(k, e)
    <3> SUFFICES ASSUME NEW k \in 1..i PROVE \E e \in 1..Len(out') : Told(k, e)
      OBVIOUS
    <3>1. PICK e \in 1..L :
             /\ out[e].line = "value" /\ out[e].at < k /\ out[e].val = seen[k]
             /\ \A f \in (e + 1)..L : out[f].line = "dots" \/ out[f].at >= k
             /\ out[e].at < k - 1 => e < L /\ out[e + 1].line = "dots"
      BY <1>2 DEF DumpTellsAll, L
    <3>2. e \in 1..Len(out') /\ out'[e] = out[e]
      BY <1>1, <2>3
    <3>3. \A f \in (e + 1)..Len(out') : out'[f].line = "dots" \/ out'[f].at >= k
      <4> SUFFICES ASSUME NEW f \in (e + 1)..Len(out')
                   PROVE  out'[f].line = "dots" \/ out'[f].at >= k
        OBVIOUS
      <4>1. CASE f = L + 1
        BY <1>1, <2>2, <2>3, <4>1
      <4>2. CASE f # L + 1
        BY <1>1, <2>3, <3>1, <4>2
      <4> QED
        BY <4>1, <4>2
    <3>4. out'[e].at < k - 1 => e < Len(out') /\ out'[e + 1].line = "dots"
      BY <1>1, <2>3, <3>1, <3>2
    <3> QED
      BY <1>2, <3>1, <3>2, <3>3, <3>4
  <2>5. Told(i + 1, L + 1)
    BY <1>1, <1>2, <2>2, <2>3
  <2>6. \A f \in 1..Len(out') : out'[f].line = "dots" => Before(f)
    <3> SUFFICES ASSUME NEW f \in 1..Len(out'), out'[f].line = "dots" PROVE Before(f)
      OBVIOUS
    <3>1. f \in 1..L /\ out[f].line = "dots"
      BY <1>1, <2>2, <2>3
    <3>2. f > 1 /\ out[f - 1].line = "value"
      BY <3>1 DEF DumpTellsAll, L
    <3>3. f - 1 \in 1..L
      BY <1>1, <3>1, <3>2
    <3> QED
      BY <2>3, <3>2, <3>3
  <2>7. DumpInv'
    <3>1. dupped' = FALSE /\ i' > 0 /\ i' # 0
      <4>1. dupped' = FALSE
        BY <2>1
      <4>2. i' > 0 /\ i' # 0
        BY <1>1
      <4> QED
        BY <4>1, <4>2
    <3>2. LastValue' = L + 1
      BY <2>3, <3>1 DEF LastValue
    <3> QED
      BY <1>1, <1>2, <2>2, <2>3, <3>1, <3>2 DEF DumpInv
  <2>8. L + 1 \in 1..Len(out')
    BY <1>1, <2>3
  <2>9. dupped' \in BOOLEAN
    BY <2>1
  <2> HIDE DEF Told, Before
  <2> QED
    BY <2>3, <2>4, <2>5, <2>6, <2>7, <2>8, <2>9
<1>5. CASE ~(v # prev \/ i = 0)
  <2>1. v = prev /\ i > 0 /\ dupped'
    BY <1>1, <1>5 DEF PrintItem
  <2>2. /\ LastValue \in 1..L /\ out[LastValue].line = "value" /\ out[LastValue].at < i
        /\ out[LastValue].val = v /\ (dupped => out[L].line = "dots")
        /\ dupped \in BOOLEAN
    BY <2>1 DEF DumpInv, PciType
  <2>3. CASE ~dupped
    <3> DEFINE x == Dots
    <3>1. out' = Append(out, x) /\ LastValue = L
      BY <1>5, <2>3 DEF PrintItem, LastValue
    <3>2. x \in PrintLines /\ x.line = "dots"
      BY <1>1 DEF Dots, PrintLines
    <3> HIDE DEF x
    <3>3. /\ out' \in Seq(PrintLines) /\ Len(out') = L + 1
          /\ \A f \in 1..L : out'[f] = out[f]
          /\ out'[L + 1] = x
      BY <3>1, <3>2, LinePrinted
    <3> HIDE DEF L
    <3>4. \A k \in 1..i : \E e \in 1..Len(out') : Told(k, e)
      <4> SUFFICES ASSUME NEW k \in 1..i PROVE \E e \in 1..Len(out') : Told(k, e)
        OBVIOUS
      <4>1. PICK e \in 1..L :
               /\ out[e].line = "value" /\ out[e].at < k /\ out[e].val = seen[k]
               /\ \A f \in (e + 1)..L : out[f].line = "dots" \/ out[f].at >= k
               /\ out[e].at < k - 1 => e < L /\ out[e + 1].line = "dots"
        BY <1>2 DEF DumpTellsAll, L
      <4>2. e \in 1..Len(out') /\ out'[e] = out[e]
        BY <1>1, <3>3
      <4>3. \A f \in (e + 1)..Len(out') : out'[f].line = "dots" \/ out'[f].at >= k
        <5> SUFFICES ASSUME NEW f \in (e + 1)..Len(out')
                     PROVE  out'[f].line = "dots" \/ out'[f].at >= k
          OBVIOUS
        <5>1. CASE f = L + 1
          BY <3>2, <3>3, <5>1
        <5>2. CASE f # L + 1
          BY <1>1, <3>3, <4>1, <5>2
        <5> QED
          BY <5>1, <5>2
      <4>4. out'[e].at < k - 1 => e < Len(out') /\ out'[e + 1].line = "dots"
        BY <1>1, <3>3, <4>1, <4>2
      <4> QED
        BY <1>2, <4>1, <4>2, <4>3, <4>4
    <3>5. Told(i + 1, L)
      <4>1. out'[L] = out[L] /\ L \in 1..L /\ out[L].at \in Nat
        BY <1>1, <2>2, <3>1, <3>3 DEF PrintLines
      <4>2. \A f \in (L + 1)..Len(out') : out'[f].line = "dots"
        BY <1>1, <3>2, <3>3
      <4> QED
        BY <1>1, <1>2, <2>2, <3>1, <3>2, <3>3, <4>1, <4>2
    <3>6. \A f \in 1..Len(out') : out'[f].line = "dots" => Before(f)
      <4> SUFFICES ASSUME NEW f \in 1..Len(out'), out'[f].line = "dots" PROVE Before(f)
        OBVIOUS
      <4>1. CASE f = L + 1
        BY <1>1, <2>2, <3>1, <3>3, <4>1
      <4>2. CASE f # L + 1
        <5>1. f \in 1..L /\ out[f].line = "dots"
          BY <1>1, <3>3, <4>2
        <5>2. f > 1 /\ out[f - 1].line = "value"
          BY <5>1 DEF DumpTellsAll, L
        <5>3. f - 1 \in 1..L
          BY <1>1, <5>1, <5>2
        <5> QED
          BY <3>3, <5>2, <5>3
      <4> QED
        BY <4>1, <4>2
    <3>7. DumpInv'
      <4>1. LastValue' = L
        BY <1>1, <2>1, <3>3 DEF LastValue
      <4>2. out'[L] = out[L] /\ L \in 1..L /\ out[L].at \in Nat
        BY <1>1, <2>2, <3>1, <3>3 DEF PrintLines
      <4> QED
        BY <1>1, <1>2, <2>1, <2>2, <3>1, <3>2, <3>3, <4>1, <4>2 DEF DumpInv
    <3>8. L \in 1..Len(out') /\ dupped' \in BOOLEAN
      BY <1>1, <1>5, <2>2, <3>1, <3>3 DEF PrintItem
    <3> HIDE DEF Told, Before
    <3> QED
      BY <3>3, <3>4, <3>5, <3>6, <3>7, <3>8
  <2>4. CASE dupped
    <3>1. out' = out /\ LastValue = L - 1
      BY <1>5, <2>4 DEF PrintItem, LastValue
    <3> HIDE DEF L
    <3>2. Len(out') = L
      BY <3>1 DEF L
    <3>3. \A k \in 1..i : \E e \in 1..Len(out') : Told(k, e)
      <4> SUFFICES ASSUME NEW k \in 1..i PROVE \E e \in 1..Len(out') : Told(k, e)
        OBVIOUS
      <4>1. PICK e \in 1..Len(out) :
               /\ out[e].line = "value" /\ out[e].at < k /\ out[e].val = seen[k]
               /\ \A f \in (e + 1)..Len(out) : out[f].line = "dots" \/ out[f].at >= k
               /\ out[e].at < k - 1 => e < Len(out) /\ out[e + 1].line = "dots"
        BY <1>2 DEF DumpTellsAll
      <4> QED
        BY <1>2, <3>1, <4>1
    <3>4. Told(i + 1, L - 1)
      <4>1. out[L - 1].at \in Nat /\ L - 1 \in 1..L /\ L - 1 + 1 = L
        BY <1>1, <2>2, <3>1 DEF PrintLines
      <4>2. \A f \in L..L : out'[f].line = "dots"
        BY <1>1, <2>2, <2>4, <3>1
      <4> QED
        BY <1>1, <1>2, <2>2, <2>4, <3>1, <3>2, <4>1, <4>2
    <3>5. \A f \in 1..Len(out') : out'[f].line = "dots" => Before(f)
      BY <3>1 DEF DumpTellsAll
    <3>6. DumpInv'
      <4>1. LastValue' = L - 1
        BY <2>1, <3>2 DEF LastValue
      <4>2. out[L - 1].at \in Nat /\ L - 1 \in 1..L
        BY <1>1, <2>2, <3>1 DEF PrintLines
      <4> QED
        BY <1>1, <1>2, <2>1, <2>2, <2>4, <3>1, <3>2, <4>1, <4>2 DEF DumpInv
    <3>7. L - 1 \in 1..Len(out') /\ dupped' \in BOOLEAN /\ out' \in Seq(PrintLines)
      BY <1>1, <1>5, <2>2, <3>1, <3>2 DEF PrintItem
    <3> HIDE DEF Told, Before
    <3> QED
      BY <3>3, <3>4, <3>5, <3>6, <3>7
  <2> QED
    BY <2>2, <2>3, <2>4
<1> QED
  BY <1>4, <1>5

LEMMA PciInitInv == PciInit => PciInv
<1> SUFFICES ASSUME PciInit PROVE PciInv
  OBVIOUS
<1>1. out = <<>> /\ seen = <<>> /\ Len(out) = 0 /\ Len(seen) = 0
      /\ out \in Seq(PrintLines) /\ seen \in Seq(Words)
  BY DEF PciInit
<1>2. i = 0 /\ dupped = FALSE /\ stray = FALSE /\ data = FALSE /\ xpc = "start"
  BY DEF PciInit
<1>3. PciType
  <2>1. data \in BOOLEAN /\ dupped \in BOOLEAN /\ stray \in BOOLEAN
    BY <1>2
  <2>2. target \in Nat /\ items_count \in Int /\ type_width \in Nat \ {0} /\ i \in Nat
    BY DEF PciInit
  <2> QED
    BY <1>1, <1>2, <2>1, <2>2 DEF PciType
<1>4. WindowInv /\ AccessInWindow
  BY <1>2 DEF WindowInv, AccessInWindow
<1>5. DumpInv /\ DumpTellsAll
  BY <1>1, <1>2 DEF DumpInv, DumpTellsAll
<1> QED
  BY <1>3, <1>4, <1>5 DEF PciInv

LEMMA PciStepInv == PciInv /\ [PciNext]_pciVars => PciInv'
<1> SUFFICES ASSUME PciInv, [PciNext]_pciVars PROVE PciInv'
  OBVIOUS
<1>0. PciType /\ WindowInv /\ AccessInWindow /\ DumpInv /\ DumpTellsAll
  BY DEF PciInv
<1>1. ASSUME UNCHANGED dump PROVE DumpInv' /\ DumpTellsAll'
  BY <1>0, <1>1 DEF dump, DumpInv, DumpTellsAll, LastValue
<1>2. CASE UNCHANGED pciVars
  <2>1. UNCHANGED <<xpc, args, map_size, dump, stray>>
    BY <1>2 DEF pciVars
  <2>2. PciType' /\ WindowInv' /\ AccessInWindow'
    BY <1>0, <2>1 DEF args, dump, PciType, WindowInv, AccessInWindow, MapSize, Needed
  <2> QED
    BY <1>1, <2>1, <2>2 DEF PciInv
<1>3. ASSUME NEW t \in Targets, NEW count \in Counts, NEW width \in Widths,
             NEW d \in BOOLEAN, ParseArgs(t, count, width, d)
      PROVE  PciInv'
  <2>1. /\ t \in Nat /\ ToInt(count) \in Int /\ width \in Nat \ {0}
    BY PciAssumption, IntKept
  <2>2. UNCHANGED dump /\ ~stray /\ stray' = stray
    BY <1>0, <1>3 DEF ParseArgs, WindowInv
  <2>3. PciType'
    BY <1>0, <1>3, <2>1, <2>2 DEF ParseArgs, PciType, dump
  <2>4. WindowInv' /\ AccessInWindow'
    BY <1>3, <2>2 DEF ParseArgs, WindowInv, AccessInWindow
  <2> QED
    BY <1>1, <2>2, <2>3, <2>4 DEF PciInv
<1>4. CASE MapWindow
  <2>1. UNCHANGED <<args, dump, stray>> /\ ~stray /\ xpc' \in {"loop", "exit"}
    BY <1>0, <1>4 DEF MapWindow, WindowInv
  <2>2. PciType' /\ AccessInWindow'
    BY <1>0, <2>1 DEF args, dump, PciType, AccessInWindow
  <2>3. MapSize' = MapSize
    BY <2>1 DEF args, MapSize, Needed
  <2>4. WindowInv'
    BY <1>4, <2>1, <2>3 DEF MapWindow, WindowInv
  <2> QED
    BY <1>1, <2>1, <2>2, <2>4 DEF PciInv
<1>5. ASSUME NEW v \in Words, ReadItem(v)
      PROVE  PciInv'
  <2>1. /\ xpc = "loop" /\ i < items_count /\ UNCHANGED <<args, map_size>> /\ ~stray
        /\ map_size = MapSize /\ MapSize > 0 /\ MapSize' = MapSize
    BY <1>0, <1>5 DEF ReadItem, WindowInv, args, MapSize, Needed
  <2>2. CASE InWindow(VirtAddr)
    <3>1. /\ PrintItem(v) /\ prev' = v /\ i' = i + 1 /\ seen' = Append(seen, v)
          /\ UNCHANGED <<xpc, stray>>
      BY <1>5, <2>2 DEF ReadItem
    <3>2. /\ DumpInv' /\ DumpTellsAll'
          /\ out' \in Seq(PrintLines) /\ seen' \in Seq(Words) /\ dupped' \in BOOLEAN
      BY <1>0, <3>1, PrintTells
    <3>3. PciType'
      BY <1>0, <2>1, <3>1, <3>2 DEF PciType, args
    <3>4. WindowInv' /\ AccessInWindow'
      BY <2>1, <3>1 DEF WindowInv, AccessInWindow
    <3> QED
      BY <3>2, <3>3, <3>4 DEF PciInv
  <2>3. CASE ~InWindow(VirtAddr)
    <3>1. stray' = TRUE /\ xpc' = "exit" /\ UNCHANGED dump
      BY <1>5, <2>3 DEF ReadItem
    <3>2. ToInt(items_count * type_width) # items_count * type_width
      BY <1>0, <2>1, <2>3, ItemInWindow
    <3>3. PciType' /\ WindowInv' /\ AccessInWindow'
      BY <1>0, <2>1, <3>1, <3>2 DEF PciType, WindowInv, AccessInWindow, args, dump
    <3> QED
      BY <1>1, <3>1, <3>3 DEF PciInv
  <2> QED
    BY <2>2, <2>3
<1>6. CASE WriteData
  <2>1. /\ i >= items_count /\ xpc' = "exit" /\ UNCHANGED <<args, map_size, dump>>
        /\ stray' = (data /\ i = 0)
    BY <1>6 DEF WriteData
  <2>2. stray' \in BOOLEAN
    BY <2>1
  <2>3. PciType' /\ WindowInv'
    BY <1>0, <2>1, <2>2 DEF PciType, WindowInv, args, dump
  <2>4. stray' => data' /\ i = 0
    BY <2>1 DEF args
  <2>5. AccessInWindow'
    BY <1>0, <2>1, <2>4 DEF AccessInWindow, PciType, args
  <2> QED
    BY <1>1, <2>1, <2>3, <2>5 DEF PciInv
<1> QED
  BY <1>2, <1>3, <1>4, <1>5, <1>6 DEF PciNext

---------------------------------------------------------------------------
(* The programs share no variable: a step of one is a stuttering step of   *)
(* the others.                                                             *)
LEMMA StepsAreApart ==
    [OneShotNext]_allVars =>
        /\ [Next]_vars /\ [V2pNext]_v2pVars /\ [PciNext]_pciVars /\ [AnaNext]_anaVars
<1> SUFFICES ASSUME [OneShotNext]_allVars
             PROVE  [Next]_vars /\ [V2pNext]_v2pVars /\ [PciNext]_pciVars /\ [AnaNext]_anaVars
  OBVIOUS
<1>1. CASE UNCHANGED allVars
  BY <1>1 DEF allVars
<1>2. CASE NsSteps
  BY <1>2 DEF NsSteps, Ns
<1>3. CASE V2pSteps
  BY <1>3 DEF V2pSteps
<1>4. CASE PciSteps
  BY <1>4 DEF PciSteps
<1>5. CASE AnaSteps
  BY <1>5 DEF AnaSteps
<1> QED
  BY <1>1, <1>2, <1>3, <1>4, <1>5 DEF OneShotNext

(* In every run of ns_utsnts.c the child sets its hostname, mounts and     *)
(* execs (lines 58-65) only after the parent tried to write both map       *)
(* files, unless it was killed or the unchecked pipe of line 77 failed:    *)
(* it keeps its write end of the pipe open until then (lines 94-100).      *)
THEOREM MapsComeFirst == OneShotSpec => []MapsBeforeContainer
<1>1. OneShotInit => NsInv
  BY NsInitInv DEF OneShotInit
<1>2. NsInv /\ [OneShotNext]_allVars => NsInv'
  BY NsStepInv, StepsAreApart
<1>3. NsInv => MapsBeforeContainer
  BY DEF NsInv, MapsBeforeContainer
<1> QED
  BY <1>1, <1>2, <1>3, PTL DEF OneShotSpec

(* Whatever page tables the process has, the walk of v2p_addr.c (lines     *)
(* 45-82) ends with -1 exactly for an unmapped address and otherwise with  *)
(* the frame and offset of the page and its no-execute attribute, as long  *)
(* as it met neither a large page nor an entry that is not present.        *)
THEOREM WalkIsCorrect == OneShotSpec => []WalkFindsPage
<1>1. OneShotInit => WalkInv
  BY V2pInitInv DEF OneShotInit
<1>2. WalkInv /\ [OneShotNext]_allVars => WalkInv'
  BY V2pStepInv, StepsAreApart
<1> QED
  BY <1>1, <1>2, WalkIsRight, PTL DEF OneShotSpec

(* For every offset, count and width, pcimem.c reads only what it mapped   *)
(* (lines 103-132), unless the int product of line 104 overflows; and its  *)
(* write (line 152) goes elsewhere only where the loop read nothing.       *)
THEOREM AccessesStayInWindow == OneShotSpec => []AccessInWindow
<1>1. OneShotInit => PciInv
  BY PciInitInv DEF OneShotInit
<1>2. PciInv /\ [OneShotNext]_allVars => PciInv'
  BY PciStepInv, StepsAreApart
<1>3. PciInv => AccessInWindow
  BY DEF PciInv
<1> QED
  BY <1>1, <1>2, <1>3, PTL DEF OneShotSpec

(* Whatever the device returns, the lines pcimem.c prints (lines 136-146)  *)
(* give back every value it read: the dots hide only repetitions of the    *)
(* value printed directly before them.                                     *)
THEOREM DumpIsComplete == OneShotSpec => []DumpTellsAll
<1>1. OneShotInit => PciInv
  BY PciInitInv DEF OneShotInit
<1>2. PciInv /\ [OneShotNext]_allVars => PciInv'
  BY PciStepInv, StepsAreApart
<1>3. PciInv => DumpTellsAll
  BY DEF PciInv
<1> QED
  BY <1>1, <1>2, <1>3, PTL DEF OneShotSpec

(* For every processor whose trapped writes take longer than MAX_CYCLE and *)
(* whose direct ones do not, anamem.c's check (lines 84-103) recognises a  *)
(* trapped register, and the average it prints lies between the minimum    *)
(* and the maximum (lines 220-247).                                        *)
THEOREM VerdictIsRight == OneShotSpec => []ReportIsRight
<1>1. OneShotInit => AnaInv
  BY AnaInitInv DEF OneShotInit
<1>2. AnaInv /\ [OneShotNext]_allVars => AnaInv'
  BY AnaStepInv, StepsAreApart
<1> QED
  BY <1>1, <1>2, ReportFollows, PTL DEF OneShotSpec
=============================================================================
