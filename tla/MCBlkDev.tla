------------------------------ MODULE MCBlkDev ------------------------------
(* BlkDev for TLC: ints of 4 bits, sectors of 2 bytes and a megabyte of 3  *)
(* sectors. The parameter 1 gives a disk of 3 sectors, 2 a negative size,  *)
(* 3 wraps to a disk of 1 sector, 8 to an empty one.                       *)
EXTENDS BlkDev

MCSizes == {1, 2, 3, 8}
MCVals == {"a", "b"}
=============================================================================
