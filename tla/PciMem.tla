------------------------------- MODULE PciMem -------------------------------
(***************************************************************************)
(* code/pcimap/pcimem.c: pcimem { sysfile } { offset } [ type*count [ data *)
(* ] ] maps a window of a PCI device's memory, prints count items of it,   *)
(* leaving out repeated ones, and writes data to the last of them.         *)
(*                                                                         *)
(* The window is a number of pages, addresses are offsets in the device's  *)
(* memory. items_count and its product with type_width are ints. What the  *)
(* device returns is up to the device.                                     *)
(***************************************************************************)
EXTENDS CInt, Sequences

CONSTANTS Targets,    \* offsets on the command line
          Counts,     \* counts on the command line
          Widths,     \* type_width: 1, 2, 4 or 8
          BarPages,   \* pages of the device's memory
          Words       \* what the device can return

ASSUME PciAssumption ==
    /\ Targets \subseteq Nat /\ Counts \subseteq Nat
    /\ Widths \subseteq Nat \ {0} /\ BarPages \in Nat
ASSUME PageFitsInt == 2 * PageSize <= IntMod

VARIABLES
    xpc,         \* next part of main
    target, items_count, type_width,
    data,        \* the data argument is there
    map_size,
    i,           \* the loop variable
    prev,        \* prev_read_result
    dupped,      \* read_result_dupped
    out,         \* the lines printed
    seen,        \* history: the values read
    stray        \* history: an access outside the mapping

args == <<target, items_count, type_width, data>>
dump == <<i, prev, dupped, out, seen>>
pciVars == <<xpc, args, map_size, dump, stray>>

PciInit ==
    /\ xpc = "start" /\ target = 0 /\ items_count = 1 /\ type_width = 4 /\ data = FALSE
    /\ map_size = PageSize /\ i = 0 /\ prev = 0 /\ dupped = FALSE
    /\ out = <<>> /\ seen = <<>> /\ stray = FALSE

(* The arguments are read and the file is opened, or the program ends.     *)
ParseArgs(t, count, width, d) ==
    /\ xpc = "start" /\ xpc' \in {"map", "exit"}
    /\ target' = t /\ items_count' = ToInt(count) /\ type_width' = width /\ data' = d
    /\ UNCHANGED <<map_size, dump, stray>>

(* target + items_count*type_width - target_base; the product is an int.   *)
Needed == target + ToInt(items_count * type_width) - PageStart(target)

(* Bug: the offset of the target in its page is forgotten.                 *)
BugMapSize == IF ToInt(items_count * type_width) > PageSize
              THEN ToInt(items_count * type_width) ELSE PageSize

MapSize == IF Needed > PageSize THEN ToInt(Needed) ELSE PageSize

(* mmap at target_base; it refuses what the device does not have.          *)
MapWindow ==
    /\ xpc = "map" /\ map_size' = MapSize
    /\ \/ /\ MapSize > 0
          /\ (PageStart(target) \div PageSize) + PagesOf(MapSize) <= BarPages
          /\ xpc' = "loop"
       \/ xpc' = "exit"
    /\ UNCHANGED <<args, dump, stray>>

(* virt_addr - map_base, and whether the item there is in the mapping.     *)
VirtAddr == target + ToInt(i * type_width) - PageStart(target)
InWindow(a) == a >= 0 /\ a + type_width <= PagesOf(map_size) * PageSize

Value(v) == [line |-> "value", at |-> i, val |-> v]
Dots == [line |-> "dots", at |-> i, val |-> 0]

(* Bug: the first item is compared with the initial prev_read_result.      *)
BugPrintItem(v) ==
    \/ v # prev /\ out' = Append(out, Value(v)) /\ dupped' = FALSE
    \/ v = prev /\ dupped' = TRUE /\ out' = IF dupped THEN out ELSE Append(out, Dots)

(* An item is printed if it differs from the one before; dots stand for    *)
(* any number of others.                                                   *)
PrintItem(v) ==
    IF v # prev \/ i = 0
    THEN out' = Append(out, Value(v)) /\ dupped' = FALSE
    ELSE dupped' = TRUE /\ out' = IF dupped THEN out ELSE Append(out, Dots)

(* One round of the loop. Outside the mapping anything may happen.         *)
ReadItem(v) ==
    /\ xpc = "loop" /\ i < items_count
    /\ \/ /\ InWindow(VirtAddr) /\ PrintItem(v) /\ prev' = v /\ i' = i + 1
          /\ seen' = Append(seen, v) /\ UNCHANGED <<xpc, stray>>
       \/ /\ ~InWindow(VirtAddr) /\ stray' = TRUE /\ xpc' = "exit" /\ UNCHANGED dump
    /\ UNCHANGED <<args, map_size>>

(* The data is written where the loop read last and read back; virt_addr   *)
(* was never set if the loop read nothing. Then munmap.                    *)
WriteData ==
    /\ xpc = "loop" /\ i >= items_count /\ xpc' = "exit"
    /\ stray' = (data /\ i = 0)
    /\ UNCHANGED <<args, map_size, dump>>

PciNext ==
    \/ MapWindow \/ WriteData
    \/ \E t \in Targets, count \in Counts, width \in Widths, d \in BOOLEAN :
          ParseArgs(t, count, width, d)
    \/ \E v \in Words : ReadItem(v)

---------------------------------------------------------------------------
(* Every item that is read or written lies in the pages that were mapped,  *)
(* wherever the offset is in its page (lines 103-105), unless the count is *)
(* such that nothing is read and data is written through a pointer that    *)
(* was never set (line 152), or that the int product of count and width    *)
(* wraps around (line 104) and the window is too small for the loop.       *)
AccessInWindow ==
    stray => \/ data /\ items_count <= 0
             \/ ToInt(items_count * type_width) # items_count * type_width

(* The lines printed tell every value read (lines 136-146): an item that   *)
(* is not printed has the value of the last one printed before it, and     *)
(* dots directly after that line say that there are such items.            *)
DumpTellsAll ==
    /\ \A k \in 1..Len(seen) : \E e \in 1..Len(out) :
          /\ out[e].line = "value" /\ out[e].at < k /\ out[e].val = seen[k]
          /\ \A f \in (e + 1)..Len(out) : out[f].line = "dots" \/ out[f].at >= k
          /\ out[e].at < k - 1 => e < Len(out) /\ out[e + 1].line = "dots"
    /\ \A f \in 1..Len(out) : out[f].line = "dots" => f > 1 /\ out[f - 1].line = "value"
=============================================================================
