------------------------------- MODULE Dram -------------------------------
(***************************************************************************)
(* The character device for physical memory, code/dram/dram.c: a file of   *)
(* DramSize bytes read page by page. f_pos is the position of the one open *)
(* file; `loaded` says whether the major number is registered.             *)
(***************************************************************************)
EXTENDS Integers

CONSTANTS DramSize,   \* dram_size, 0x25f5ffff8 in the code (dram.c:47)
          PageSize    \* PAGE_SIZE of the architecture

ASSUME DramSizeAssumption == DramSize \in Nat \ {0}
ASSUME PageSizeAssumption == PageSize \in Nat \ {0}

VARIABLES loaded, f_pos

Page(pos) == pos \div PageSize
Indent(pos) == pos % PageSize

(* What my_read returns: nothing at or after the end, otherwise count cut  *)
(* off at the end of the page that is mapped. The copy does not fail: the  *)
(* caller's buffer is mapped.                                              *)
ReadCount(pos, count) ==
    IF pos >= DramSize THEN 0
    ELSE IF Indent(pos) + count > PageSize THEN PageSize - Indent(pos)
    ELSE count

(* What my_llseek returns, and where it leaves f_pos unless it is -1: the  *)
(* position asked for, or an error outside 0..DramSize.                    *)
my_llseek(offset, whence) ==
    LET newpos == CASE whence = "SET" -> offset
                    [] whence = "CUR" -> f_pos + offset
                    [] whence = "END" -> DramSize + offset
    IN IF newpos < 0 \/ newpos > DramSize THEN -1 ELSE newpos

dram_init == ~loaded /\ loaded' = TRUE

dram_exit == loaded /\ loaded' = FALSE
=============================================================================
