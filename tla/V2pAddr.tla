------------------------------ MODULE V2pAddr ------------------------------
(***************************************************************************)
(* The walk from a virtual to a physical address, code/v2p_addr/           *)
(* v2p_addr.c. When the module is loaded it gets a page, walks the page    *)
(* tables down from the pgd to the pte and prints the address it finds;    *)
(* when it is unloaded it frees the page.                                  *)
(*                                                                         *)
(* The tables are external. An entry of one of the upper four levels is    *)
(* empty, leads to the next table or maps a large page; an entry of the    *)
(* last is empty or has a page, its attributes and whether it is present.  *)
(***************************************************************************)
EXTENDS CInt, Sequences

CONSTANTS Ptrs,    \* PTRS_PER_PGD, ..P4D, ..PUD, ..PMD, ..PTE
          Pfns,    \* page frames
          NxBit,   \* 2^63, the attribute above the address
          Flags    \* the attributes below the address of a present page

ASSUME PtrsAssumption == Ptrs \in [1..5 -> Nat \ {0}]
ASSUME NxAssumption ==
    /\ NxBit \in Nat /\ NxBit % PageSize = 0 /\ Flags \in 1..(PageSize - 1)
    /\ \A f \in Pfns : f \in Nat /\ (f + 1) * PageSize <= NxBit

VARIABLES
    vpc,      \* "off", "walk", "loaded" or "unloaded"
    page,     \* the page of the module: "none", "held" or "freed"
    vaddr,    \* its address
    upper,    \* the tables pgd, p4d, pud, pmd
    ptes,     \* the last table
    level,    \* how far the walk is
    paddr,    \* what it found; -1: not mapped
    lost      \* history: it followed a large page as if it were a table

v2pVars == <<vpc, page, vaddr, upper, ptes, level, paddr, lost>>

NoPte == [pfn |-> 0, nx |-> FALSE, present |-> FALSE, used |-> FALSE]
Ptes == {NoPte} \cup [pfn : Pfns, nx : BOOLEAN, present : BOOLEAN, used : {TRUE}]

(* Large pages hang in the pud and the pmd.                                *)
Entries(l) == {"none", "table"} \cup (IF l \in {3, 4} THEN {"large"} ELSE {})

V2pInit ==
    /\ vpc = "off" /\ page = "none" /\ vaddr = 0
    /\ upper = [l \in 1..4 |-> [k \in 0..(Ptrs[l] - 1) |-> "none"]]
    /\ ptes = [k \in 0..(Ptrs[5] - 1) |-> NoPte]
    /\ level = 1 /\ paddr = -1 /\ lost = FALSE

(* pgd_index and its like: the address in units of what an entry spans.    *)
Span[l \in 1..5] == IF l = 5 THEN PageSize ELSE Span[l + 1] * Ptrs[l + 1]
Index(l) == (vaddr \div Span[l]) % Ptrs[l]

(* v2p_init: __get_free_page fails and the load succeeds, or the walk      *)
(* begins, with an address and tables as they are.                         *)
GetFreePage(v, pgd, p4d, pud, pmd, last) ==
    /\ vpc = "off" /\ vpc' = "walk" /\ page' = "held" /\ vaddr' = v
    /\ upper' = <<pgd, p4d, pud, pmd>> /\ ptes' = last
    /\ UNCHANGED <<level, paddr, lost>>

NoFreePage ==
    /\ vpc = "off" /\ vpc' = "loaded"
    /\ UNCHANGED <<page, vaddr, upper, ptes, level, paddr, lost>>

(* Bug: an entry that is empty is followed.                                *)
BugWalk ==
    /\ vpc = "walk" /\ level < 5 /\ ~lost /\ level' = level + 1
    /\ lost' = (upper[level][Index(level)] = "large")
    /\ UNCHANGED <<vpc, page, vaddr, upper, ptes, paddr>>

(* vaddr2paddr: pgd_none to pmd_none. A large page is not none, and is     *)
(* taken for the next table.                                               *)
Walk ==
    /\ vpc = "walk" /\ level < 5 /\ ~lost
    /\ LET entry == upper[level][Index(level)]
       IN  \/ entry = "none" /\ vpc' = "loaded" /\ UNCHANGED <<level, lost>>
           \/ entry # "none" /\ level' = level + 1 /\ lost' = (entry = "large")
              /\ UNCHANGED vpc
    /\ UNCHANGED <<page, vaddr, upper, ptes, paddr>>

(* What the processor keeps of an entry: pte_val.                          *)
pte_val(e) ==
    (IF e.nx THEN NxBit ELSE 0) + e.pfn * PageSize + (IF e.present THEN Flags ELSE 0)

(* (pte_val & PAGE_MASK) | (vaddr & ~PAGE_MASK)                            *)
Paddr(val) == PageStart(val) + (vaddr % PageSize)

(* pte_none and the address. An entry that is not present is not none.     *)
WalkPte ==
    /\ vpc = "walk" /\ level = 5 /\ ~lost /\ vpc' = "loaded"
    /\ LET entry == ptes[Index(5)]
       IN  paddr' = IF entry.used THEN Paddr(pte_val(entry)) ELSE -1
    /\ UNCHANGED <<page, vaddr, upper, ptes, level, lost>>

(* In what is no table the walk reads anything, and may end anywhere.      *)
WalkLost ==
    /\ vpc = "walk" /\ lost /\ vpc' = "loaded"
    /\ \E val \in {0} \cup {pte_val(e) : e \in Ptes} :
          paddr' = IF val = 0 THEN -1 ELSE Paddr(val)
    /\ UNCHANGED <<page, vaddr, upper, ptes, level, lost>>

(* v2p_exit; free_page(0) does nothing.                                    *)
V2pExit ==
    /\ vpc = "loaded" /\ vpc' = "unloaded"
    /\ page' = IF page = "held" THEN "freed" ELSE page
    /\ UNCHANGED <<vaddr, upper, ptes, level, paddr, lost>>

(* An entry for each index of a level.                                     *)
TablesAt(l) == [0..(Ptrs[l] - 1) -> Entries(l)]

V2pNext ==
    \/ NoFreePage \/ Walk \/ WalkPte \/ WalkLost \/ V2pExit
    \/ vpc = "off" /\ \E v \in 0..(Span[1] * Ptrs[1] - 1), pgd \in TablesAt(1),
            p4d \in TablesAt(2), pud \in TablesAt(3), pmd \in TablesAt(4),
            last \in [0..(Ptrs[5] - 1) -> Ptes] :
          GetFreePage(v, pgd, p4d, pud, pmd, last)

---------------------------------------------------------------------------
(* What the memory management unit makes of the address: the page frame at *)
(* the end of a path of tables, and the offset.                            *)
Leaf == ptes[Index(5)]
OnTables == \A l \in 1..4 : upper[l][Index(l)] = "table"
Mapped == OnTables /\ Leaf.used /\ Leaf.present
Swapped == OnTables /\ Leaf.used /\ ~Leaf.present
Translation == Leaf.pfn * PageSize + (vaddr % PageSize)

(* The walk says -1 (lines 45-76) exactly for an address that is not       *)
(* mapped, and otherwise finds the physical address, with the no-execute   *)
(* attribute above it (lines 78-80; readme.txt:50-52 takes 0x11f9ce000 for *)
(* what the code prints as 0x800000011f9ce000). It may be wrong only where *)
(* it followed a large page or the entry is not present.                   *)
WalkFindsPage ==
    vpc \in {"loaded", "unloaded"} /\ page # "none" /\ ~lost /\ ~Swapped =>
        /\ paddr = -1 <=> ~Mapped
        /\ Mapped => paddr = Translation + (IF Leaf.nx THEN NxBit ELSE 0)
=============================================================================
