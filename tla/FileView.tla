----------------------------- MODULE FileView -----------------------------
(***************************************************************************)
(* The full-screen file viewer, tools/fileview/fileview.cpp, looking       *)
(* either at the dram device (module Dram) or at a regular file. One       *)
(* round of main's loop is: erase the buffer, bound pageincr, seek, fill   *)
(* the buffer with as many reads as it takes, draw it, act on one key,     *)
(* bound position.                                                         *)
(***************************************************************************)
EXTENDS Dram, Sequences

CONSTANTS FileSize,   \* size of the regular file
          IncMax,     \* largest page increment, 2^36 in the code (line 74)
          Steps,      \* the page increments 2^8, 2^12, ..., IncMax
          Digits,     \* hexadecimal digits the user types
          InbufMax,   \* characters the seek dialog takes, 15 (line 244)
          AddrMax     \* first address of more than 13 digits, 16^13 (line 143)

BUFSIZE == 256
BUFWIDE == 16
incmin == 256

ASSUME FileSizeAssumption == FileSize \in Nat
ASSUME PageAssumption == PageSize % BUFSIZE = 0   \* a page holds whole windows
ASSUME StepsAssumption ==
    /\ Steps \subseteq Nat /\ incmin \in Steps /\ IncMax \in Steps
    /\ \A s \in Steps :
          /\ s >= incmin /\ s <= IncMax /\ s % BUFWIDE = 0
          /\ s # incmin => s \div 16 \in Steps
          /\ s # IncMax => s * 16 \in Steps
ASSUME DigitsAssumption == Digits \subseteq 0..15
ASSUME InbufMaxAssumption == InbufMax \in Nat \ {0}
ASSUME AddrMaxAssumption == AddrMax \in Nat

VARIABLES
    dev,        \* what was opened: "dram" or "file"
    phase,      \* where main is
    posmax,     \* last position the user may reach
    position,   \* first byte of the window
    pageincr,   \* what PgUp and PgDn move by
    location,   \* what lseek returned, -1 for a failure
    format,     \* width of a hexadecimal item
    buffer,     \* the chunks read, in order: [at, from, n]
    inbuf       \* the seek dialog: [len, neg, val, tail]

view == <<dev, phase, posmax, position, pageincr, location, format, buffer, inbuf>>
vars == <<loaded, f_pos, view>>

Formats == {1, 2, 4, 8, 16}
InLoop == phase \in {"top", "fill", "key", "seek"}

(* The dialog's text, kept as strtoull will read it: a sign, the value of  *)
(* the leading digits and the number of characters after them.             *)
Empty == [len |-> 0, neg |-> FALSE, val |-> 0, tail |-> 0]
Inbufs == [len : 0..InbufMax, neg : BOOLEAN, val : Nat, tail : 0..InbufMax]

(* What a read may store: n bytes at offset `at`, inside buffer[BUFSIZE].  *)
Chunks == {c \in [at : 0..BUFSIZE, from : Nat, n : 1..BUFSIZE] : c.at + c.n <= BUFSIZE}

(* Shapes of the state; no read has stored past the end of the buffer.     *)
TypeOK ==
    /\ loaded \in BOOLEAN /\ f_pos \in Nat
    /\ dev \in {"dram", "file"}
    /\ phase \in {"off", "top", "fill", "key", "seek"}
    /\ posmax \in Nat /\ position \in Nat /\ pageincr \in Nat
    /\ location \in Nat \cup {-1}
    /\ format \in Formats
    /\ buffer \in Seq(Chunks)
    /\ inbuf \in Inbufs

Init ==
    /\ loaded = FALSE /\ f_pos = 0
    /\ dev = "file" /\ phase = "off"
    /\ posmax = 0 /\ position = 0 /\ pageincr = incmin /\ location = 0
    /\ format = 1 /\ buffer = <<>> /\ inbuf = Empty

---------------------------------------------------------------------------
(* The two kinds of file.                                                  *)
Size(d) == IF d = "dram" THEN DramSize ELSE FileSize

(* read(2): my_read for the device, up to the end for a regular file.      *)
NBytes(count) ==
    IF dev = "dram" THEN ReadCount(f_pos, count)
    ELSE IF f_pos >= FileSize THEN 0
    ELSE IF f_pos + count > FileSize THEN FileSize - f_pos
    ELSE count

(* lseek(2): my_llseek for the device; a regular file takes any position   *)
(* that is not negative.                                                   *)
LSeek(d, offset, whence) ==
    IF d = "dram" THEN my_llseek(offset, whence)
    ELSE LET newpos == IF whence = "END" THEN FileSize + offset ELSE offset
         IN IF newpos < 0 THEN -1 ELSE newpos

(* Bug: the address typed is not aligned to a line.                        *)
BugAlign(x) == x

Align(x) == x - (x % BUFWIDE)

(* Bug: the last window starts one line too early.                         *)
BugPosMax(filesize) == IF Align(filesize - 257) < 0 THEN 0 ELSE Align(filesize - 257)

(* Bug: the last window starts one line too late.                          *)
BugPosMaxLate(filesize) == IF Align(filesize - 225) < 0 THEN 0 ELSE Align(filesize - 225)

(* Lines 76-77.                                                            *)
PosMax(filesize) == IF Align(filesize - 241) < 0 THEN 0 ELSE Align(filesize - 241)

(* Bug: position is not kept from going below the file's start.            *)
BugBounded(pos) == IF pos > posmax THEN posmax ELSE pos

(* The end of the loop's body, lines 280-281.                              *)
Bounded(pos) == IF pos < 0 THEN 0 ELSE IF pos > posmax THEN posmax ELSE pos

(* The loop's top, lines 114-116.                                          *)
BoundIncr(inc) ==
    IF inc = 0 THEN IncMax
    ELSE IF inc < incmin THEN incmin
    ELSE IF inc > IncMax THEN IncMax
    ELSE inc

---------------------------------------------------------------------------
(* Start the program: open, find the size with lseek(END) or give up, and  *)
(* set up (lines 58-107).                                                  *)
Start(d) ==
    /\ phase = "off" /\ (d = "dram" => loaded)
    /\ LET filesize == LSeek(d, 0, "END")
       IN /\ filesize >= 0
          /\ f_pos' = filesize
          /\ posmax' = PosMax(filesize)
    /\ dev' = d /\ phase' = "top"
    /\ position' = 0 /\ pageincr' = incmin /\ format' = 1
    /\ UNCHANGED <<loaded, location, buffer, inbuf>>

(* Bug: the seek still goes to the location of the last round.             *)
BugLoopTop ==
    /\ phase = "top" /\ phase' = "fill"
    /\ buffer' = <<>>
    /\ pageincr' = BoundIncr(pageincr)
    /\ location' = position /\ f_pos' = location
    /\ UNCHANGED <<loaded, dev, posmax, position, format, inbuf>>

(* Lines 111-119. A failed lseek leaves the file pointer where it is.      *)
LoopTop ==
    /\ phase = "top" /\ phase' = "fill"
    /\ buffer' = <<>>
    /\ pageincr' = BoundIncr(pageincr)
    /\ location' = LSeek(dev, position, "SET")
    /\ f_pos' = IF location' = -1 THEN f_pos ELSE location'
    /\ UNCHANGED <<loaded, dev, posmax, position, format, inbuf>>

Filled == IF buffer = <<>> THEN 0
          ELSE buffer[Len(buffer)].at + buffer[Len(buffer)].n


(* One round of the inner loop, lines 124-130.                             *)
Fill ==
    /\ phase = "fill" /\ Filled < BUFSIZE
    /\ LET n == NBytes(BUFSIZE - Filled)
       IN IF n > 0
          THEN /\ buffer' = Append(buffer, [at |-> Filled, from |-> f_pos, n |-> n])
               /\ f_pos' = f_pos + n
               /\ UNCHANGED phase
          ELSE /\ phase' = "key"
               /\ UNCHANGED <<f_pos, buffer>>
    /\ UNCHANGED <<loaded, dev, posmax, position, pageincr, location, format, inbuf>>

(* The buffer is full; the lines are drawn.                                *)
FillDone ==
    /\ phase = "fill" /\ Filled = BUFSIZE
    /\ phase' = "key"
    /\ UNCHANGED <<loaded, f_pos, dev, posmax, position, pageincr, location, format,
                   buffer, inbuf>>

---------------------------------------------------------------------------
(* Keys. The ones that move (lines 212-223): Home, End, line and page.     *)
Moves == {0, posmax, position + BUFWIDE, position - BUFWIDE,
          position + pageincr, position - pageincr}

KeyMove ==
    /\ phase = "key" /\ phase' = "top"
    /\ \E to \in Moves : position' = Bounded(to)
    /\ UNCHANGED <<loaded, f_pos, dev, posmax, pageincr, location, format, buffer, inbuf>>

(* Left and right change the page increment; LoopTop bounds it.            *)
KeyIncr ==
    /\ phase = "key" /\ phase' = "top"
    /\ pageincr' \in {pageincr \div 16, pageincr * 16}
    /\ UNCHANGED <<loaded, f_pos, dev, posmax, position, location, format, buffer, inbuf>>

(* B, W, D, Q and O choose the format; any other key changes nothing.      *)
KeyFormat ==
    /\ phase = "key" /\ phase' = "top"
    /\ format' \in Formats
    /\ UNCHANGED <<loaded, f_pos, dev, posmax, position, pageincr, location, buffer, inbuf>>

(* Enter opens the seek dialog.                                            *)
KeySeek ==
    /\ phase = "key" /\ phase' = "seek"
    /\ inbuf' = Empty
    /\ UNCHANGED <<loaded, f_pos, dev, posmax, position, pageincr, location, format, buffer>>

(* Escape ends the program, which closes the file.                         *)
KeyQuit ==
    /\ phase = "key"
    /\ dev' = "file" /\ phase' = "off"
    /\ posmax' = 0 /\ position' = 0 /\ pageincr' = incmin /\ location' = 0
    /\ format' = 1 /\ buffer' = <<>> /\ inbuf' = Empty
    /\ f_pos' = 0 /\ UNCHANGED loaded

(* The characters that are not digits: a sign, and any other.              *)
Minus == 16
Other == 17

(* The dialog takes a printable character: a digit, a sign or another. The *)
(* blanks, `+' and `0x' that strtoull skips at the front count as others:  *)
(* the address typed after them can be typed without them.                 *)
IsSign(ch) == ch = Minus /\ inbuf.len = 0
IsDigit(ch) == ch \in Digits /\ inbuf.tail = 0

Typed(ch) ==
    [len  |-> inbuf.len + 1,
     neg  |-> inbuf.neg \/ IsSign(ch),
     val  |-> IF IsDigit(ch) THEN inbuf.val * 16 + ch ELSE inbuf.val,
     tail |-> IF IsDigit(ch) \/ IsSign(ch) THEN inbuf.tail ELSE inbuf.tail + 1]

(* Backspace, Delete or Left takes the last one back.                      *)
Untyped ==
    [len  |-> inbuf.len - 1,
     neg  |-> inbuf.neg /\ inbuf.len > 1,
     val  |-> IF inbuf.tail = 0 THEN inbuf.val \div 16 ELSE inbuf.val,
     tail |-> IF inbuf.tail = 0 THEN 0 ELSE inbuf.tail - 1]

DialogType(ch) ==
    /\ phase = "seek" /\ inbuf.len < InbufMax
    /\ inbuf' = Typed(ch)
    /\ UNCHANGED <<loaded, f_pos, dev, phase, posmax, position, pageincr, location, format, buffer>>

DialogBack ==
    /\ phase = "seek" /\ inbuf.len < InbufMax /\ inbuf.len > 0
    /\ inbuf' = Untyped
    /\ UNCHANGED <<loaded, f_pos, dev, phase, posmax, position, pageincr, location, format, buffer>>

(* strtoull in base 16, then paragraph alignment, then the loop's bounds.  *)
GoTo(text) ==
    /\ phase = "seek" /\ phase' = "top"
    /\ position' = Bounded(Align(IF text.neg THEN -text.val ELSE text.val))
    /\ inbuf' = Empty
    /\ UNCHANGED <<loaded, f_pos, dev, posmax, pageincr, location, format, buffer>>

(* Enter, or a full dialog, goes to the address typed; Escape empties the  *)
(* text first and so goes to address 0.                                    *)
DialogEnter == GoTo(inbuf)
DialogEscape == inbuf.len < InbufMax /\ GoTo(Empty)

(* The device module comes and goes; an open file holds it.                *)
LoadDram == dram_init /\ UNCHANGED <<f_pos, view>>
UnloadDram == dram_exit /\ (phase = "off" \/ dev # "dram") /\ UNCHANGED <<f_pos, view>>

Next ==
    \/ \E d \in {"dram", "file"} : Start(d)
    \/ LoopTop \/ Fill \/ FillDone
    \/ KeyMove \/ KeyIncr \/ KeyFormat \/ KeySeek \/ KeyQuit
    \/ \E ch \in Digits \cup {Minus, Other} : DialogType(ch)
    \/ DialogBack \/ DialogEnter \/ DialogEscape
    \/ LoadDram \/ UnloadDram

(* The program runs on between keys; keys and modules are up to the user.  *)
Fairness == WF_vars(LoopTop) /\ WF_vars(Fill) /\ WF_vars(FillDone)

Spec == Init /\ [][Next]_vars
FairSpec == Spec /\ Fairness

---------------------------------------------------------------------------
(* Lines 280-281 and 267: whenever the loop starts a round, position is a  *)
(* multiple of a line and lies between the two ends, whatever mixture of   *)
(* page increments, seeks and ends of file led there.                      *)
PositionInBounds ==
    InLoop => /\ position \in 0..posmax /\ position % BUFWIDE = 0
              /\ phase # "top" => pageincr \in Steps

(* The window is faithful: the byte drawn at offset b of the screen is the *)
(* byte position + b of the file, across the page boundaries at which      *)
(* my_read stops short.                                                    *)
FaithfulWindow ==
    phase = "key" =>
        /\ location = position
        /\ \A i \in DOMAIN buffer : buffer[i].from = position + buffer[i].at
        /\ \A i \in 2..Len(buffer) : buffer[i].at = buffer[i-1].at + buffer[i-1].n

(* Erased filler is drawn only for offsets after the end of the file; on   *)
(* the device the window is always full.                                   *)
WholeWindow ==
    phase = "key" /\ Filled < BUFSIZE => dev = "file" /\ position + Filled = FileSize

(* A screen line, lines 143-191: the address and a blank, sixteen bytes in *)
(* the chosen format, sixteen characters. The sixteen lines show addresses *)
(* from location on; a negative one takes 16 digits, and so may a large    *)
(* one.                                                                    *)
AddrWidth == IF location < 0 \/ location + BUFSIZE > AddrMax THEN 16 ELSE 13

HexWidth(f) ==
    CASE f = 1  -> 16 * 3
      [] f = 2  -> 8 * 6
      [] f = 4  -> 4 * 12
      [] f = 8  -> 2 * (4 + 16 + 4)
      [] f = 16 -> 5 + (3 + 16 + 16 + 3) + 5

LineLen == AddrWidth + 1 + HexWidth(format) + BUFWIDE

(* No drawn line and its terminating zero overruns outline[80] (lines 53   *)
(* and 143-191) when the file's addresses have 13 digits; one byte is to   *)
(* spare, so this needs every seek to succeed.                             *)
OutlineFits == phase = "key" /\ Size(dev) + BUFSIZE <= AddrMax => LineLen + 1 <= 80

(* "cannot reliably read beyond the end of this mapped page" (dram.c:80):  *)
(* each read of the device stays in one page, and that page holds at least *)
(* one byte of the file, so no page past the end of memory is mapped.      *)
OnePagePerRead ==
    dev = "dram" =>
        \A i \in DOMAIN buffer :
            /\ Page(buffer[i].from) = Page(buffer[i].from + buffer[i].n - 1)
            /\ buffer[i].from < DramSize

(* The end of the file can be seen: the last window ends at or after the   *)
(* last byte and starts before it.                                         *)
EndIsVisible ==
    InLoop => /\ posmax + BUFSIZE >= Size(dev)
              /\ posmax = 0 \/ posmax + BUFSIZE - BUFWIDE < Size(dev)


(* "we cannot read beyond the end-of-file" (dram.c:64), as the comment     *)
(* puts it: every byte handed out lies before dram_size.                   *)
NoReadPastEnd ==
    dev = "dram" => \A i \in DOMAIN buffer : buffer[i].from + buffer[i].n <= DramSize
=============================================================================
