------------------------------- MODULE CInt -------------------------------
(* Machine integers and pages, as the C code computes with them.           *)
EXTENDS Integers

CONSTANTS IntMod,     \* 2^32: the number of values of an int
          PageSize    \* PAGE_SIZE, 4096

ASSUME WidthAssumption == IntMod \in Nat \ {0} /\ IntMod % 2 = 0
ASSUME PageAssumption == PageSize \in Nat \ {0}

(* The int an expression becomes; unsigned ones are taken modulo IntMod.   *)
ToInt(x) == IF 2 * (x % IntMod) < IntMod THEN x % IntMod ELSE (x % IntMod) - IntMod

(* An address without its offset in the page, and the pages of a length.   *)
PageStart(a) == a - (a % PageSize)
PagesOf(len) == (len + PageSize - 1) \div PageSize
=============================================================================
