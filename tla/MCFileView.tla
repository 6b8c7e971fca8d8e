---------------------------- MODULE MCFileView ----------------------------
(* FileView for TLC. Memory is two pages of 512 bytes less eight bytes     *)
(* (the code's dram_size also ends eight bytes before a page end), the     *)
(* regular file is a little longer than a window, the page increments are  *)
(* the two smallest, and the dialog takes three characters.                *)
EXTENDS FileView

MCSteps == {256, 4096}
MCDigits == {0, 3, 15}
=============================================================================
