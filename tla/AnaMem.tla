------------------------------- MODULE AnaMem -------------------------------
(***************************************************************************)
(* code/ana_mem/anamem.c: whether a hypervisor traps accesses to a page of *)
(* a GPU's registers, told from how long a write takes. The init routine   *)
(* maps the registers, times Tries writes with interrupts enabled and      *)
(* prints their minimum, average and maximum, then times one write with    *)
(* interrupts disabled and prints the verdict. (The two loops under        *)
(* while (0) never run.)                                                   *)
(***************************************************************************)
EXTENDS CInt, Sequences

CONSTANTS BarPa,      \* GPU_BAR0_PA
          MapLen,     \* GPU_MAP_LEN
          GpuOffset,  \* GPU_OFFSET, the register
          Tries,      \* TRY_TIMES
          MaxCycles,  \* MAX_MMIO_CYCLES
          MinStart,   \* what cycle_min starts from, 8000000
          Direct,     \* cycles of a write that reaches the device
          Trapped,    \* cycles of a write that the hypervisor takes
          IrqCycles   \* cycles of an interrupt

ASSUME BarAssumption ==
    /\ BarPa \in Nat /\ BarPa % PageSize = 0
    /\ MapLen \in Nat /\ GpuOffset \in Nat /\ GpuOffset < MapLen
ASSUME CyclesAssumption ==
    /\ Tries \in Nat \ {0} /\ MaxCycles \in Nat /\ MinStart \in Nat /\ IrqCycles \in Nat
    /\ \A c \in Direct : c \in 0..MaxCycles
    /\ \A c \in Trapped : c \in Nat /\ c > MaxCycles

VARIABLES
    apc,        \* next part of the init routine
    traced,     \* the page frames the hypervisor traps
    pages,      \* the page frames at bar0_va
    irqs,       \* interrupts are enabled
    cycles,     \* since tsc1 was read
    tries,      \* writes timed by the loop
    cycle_max, cycle_min, ave_cycle,
    verdict     \* what is_mmio_tracing_by_hypervisor returned

stats == <<tries, cycle_max, cycle_min, ave_cycle>>
anaVars == <<apc, traced, pages, irqs, cycles, stats, verdict>>

Frame(pa) == pa \div PageSize

AnaInit ==
    /\ apc = "vmap" /\ traced \in SUBSET {Frame(BarPa + o) : o \in 0..(MapLen - 1)}
    /\ pages = <<>> /\ irqs = TRUE /\ cycles = 0
    /\ tries = 0 /\ cycle_max = 0 /\ cycle_min = MinStart /\ ave_cycle = 0
    /\ verdict = FALSE

(* The frames of the pages from pa on, the one pa is in first.             *)
qgpu_vmap_pfn(pa, size) ==
    [k \in 1..PagesOf(size) |-> Frame(PageStart(pa) + (k - 1) * PageSize)]

(* The registers are mapped, or the load fails.                            *)
MapBar ==
    /\ apc = "vmap"
    /\ \/ pages' = qgpu_vmap_pfn(BarPa, MapLen) /\ apc' = "sample"
       \/ apc' = "failed" /\ UNCHANGED pages
    /\ UNCHANGED <<traced, irqs, cycles, stats, verdict>>

(* Bug: interrupts stay enabled.                                           *)
BugBeginSample ==
    /\ \/ apc = "sample" /\ tries < Tries /\ apc' = "write"
       \/ apc = "check" /\ apc' = "check_write"
    /\ cycles' = 0
    /\ UNCHANGED <<traced, pages, irqs, stats, verdict>>

(* tsc1 = get_cycles(), in the loop and, with interrupts disabled, in      *)
(* is_mmio_tracing_by_hypervisor(bar0_va, 1).                              *)
BeginSample ==
    /\ \/ apc = "sample" /\ tries < Tries /\ apc' = "write" /\ UNCHANGED irqs
       \/ apc = "check" /\ apc' = "check_write" /\ irqs' = FALSE
    /\ cycles' = 0
    /\ UNCHANGED <<traced, pages, stats, verdict>>

(* os_writel at GPU_OFFSET of the mapping.                                 *)
Written == pages[(GpuOffset \div PageSize) + 1]

Write(c) ==
    /\ \/ apc = "write" /\ apc' = "read"
       \/ apc = "check_write" /\ apc' = "check_read"
    /\ c \in (IF Written \in traced THEN Trapped ELSE Direct)
    /\ cycles' = cycles + c
    /\ UNCHANGED <<traced, pages, irqs, stats, verdict>>

(* An interrupt between the two readings, once a sample in the model.      *)
Interrupt ==
    /\ irqs /\ apc \in {"write", "check_write"} /\ cycles = 0
    /\ cycles' = cycles + IrqCycles
    /\ UNCHANGED <<apc, traced, pages, irqs, stats, verdict>>

(* tsc2 = get_cycles() and the statistics of the loop.                     *)
EndSample ==
    /\ apc = "read" /\ apc' = "sample" /\ tries' = tries + 1
    /\ cycle_max' = IF cycle_max > cycles THEN cycle_max ELSE cycles
    /\ cycle_min' = IF cycle_min < cycles THEN cycle_min ELSE cycles
    /\ ave_cycle' = ave_cycle + cycles
    /\ UNCHANGED <<traced, pages, irqs, cycles, verdict>>

(* The loop ends; the statistics are printed.                              *)
PrintStats ==
    /\ apc = "sample" /\ tries = Tries /\ apc' = "check"
    /\ UNCHANGED <<traced, pages, irqs, cycles, stats, verdict>>

(* The verdict, with interrupts as they were; then the mapping is undone.  *)
Check ==
    /\ apc = "check_read" /\ apc' = "done"
    /\ verdict' = (cycles > MaxCycles) /\ irqs' = TRUE /\ pages' = <<>>
    /\ UNCHANGED <<traced, cycles, stats>>

AnaNext ==
    \/ MapBar \/ BeginSample \/ Interrupt \/ EndSample \/ PrintStats \/ Check
    \/ \E c \in Direct \cup Trapped : Write(c)

---------------------------------------------------------------------------
(* What the module reports is right. The verdict (lines 84-103) is TRUE    *)
(* exactly when the page of the register is trapped, however long an       *)
(* interrupt takes and whatever pages beside it are trapped; the average   *)
(* of the loop (lines 220-247) lies between its minimum and maximum.       *)
ReportIsRight ==
    apc = "done" =>
        /\ verdict <=> Frame(BarPa + GpuOffset) \in traced
        /\ cycle_min <= ave_cycle \div Tries /\ ave_cycle \div Tries <= cycle_max
        /\ irqs
=============================================================================
