-------------------------- MODULE FileViewProofs --------------------------
(***************************************************************************)
(* What FileView promises for every file size, page size and largest page  *)
(* increment, proved with TLAPS.                                           *)
(***************************************************************************)
EXTENDS FileView, TLAPS

(* Rounding down to a line: at most fifteen bytes are lost.                *)
LEMMA AlignFacts ==
    ASSUME NEW x \in Int
    PROVE  /\ Align(x) \in Int /\ Align(x) % BUFWIDE = 0
           /\ Align(x) <= x /\ x < Align(x) + BUFWIDE
BY DEF Align, BUFWIDE

(* The last window of a file of any size: it starts at a line inside the   *)
(* file and reaches exactly to the line that holds the last byte.          *)
LEMMA PosMaxFacts ==
    ASSUME NEW size \in Nat
    PROVE  /\ PosMax(size) \in Nat /\ PosMax(size) % BUFWIDE = 0
           /\ PosMax(size) <= size
           /\ PosMax(size) + BUFSIZE >= size
           /\ PosMax(size) = 0 \/ PosMax(size) + BUFSIZE - BUFWIDE < size
<1>1. size - 241 \in Int
  OBVIOUS
<1>2. /\ Align(size - 241) \in Int /\ Align(size - 241) % BUFWIDE = 0
      /\ Align(size - 241) <= size - 241 /\ size - 241 < Align(size - 241) + BUFWIDE
  BY <1>1, AlignFacts
<1> QED
  BY <1>2 DEF PosMax, BUFWIDE, BUFSIZE

(* Bounding an increment that left and right made from a step gives a      *)
(* step.                                                                   *)
LEMMA IncrFacts ==
    ASSUME NEW s \in Steps
    PROVE  /\ s \in Nat /\ BoundIncr(s) = s
           /\ s \div 16 \in Nat /\ BoundIncr(s \div 16) \in Steps
           /\ s * 16 \in Nat /\ BoundIncr(s * 16) \in Steps
<1>1. /\ s \in Nat /\ s >= 256 /\ s <= IncMax /\ IncMax \in Steps /\ IncMax \in Nat
      /\ 256 \in Steps
  BY StepsAssumption DEF incmin
<1>2. BoundIncr(s) = s
  BY <1>1 DEF BoundIncr, incmin
<1>3. s \div 16 \in Nat /\ BoundIncr(s \div 16) \in Steps
  <2>1. CASE s = 256
    BY <1>1, <2>1 DEF BoundIncr, incmin
  <2>2. CASE s # 256
    <3>1. s \div 16 \in Steps
      BY <2>2, StepsAssumption DEF incmin
    <3>2. s \div 16 \in Nat /\ s \div 16 >= 256 /\ s \div 16 <= IncMax
      BY <3>1, StepsAssumption DEF incmin
    <3> QED
      BY <1>1, <3>1, <3>2 DEF BoundIncr, incmin
  <2> QED
    BY <2>1, <2>2
<1>4. s * 16 \in Nat /\ BoundIncr(s * 16) \in Steps
  <2>1. CASE s = IncMax
    BY <1>1, <2>1 DEF BoundIncr, incmin
  <2>2. CASE s # IncMax
    <3>1. s * 16 \in Steps
      BY <2>2, StepsAssumption
    <3>2. s * 16 \in Nat /\ s * 16 >= 256 /\ s * 16 <= IncMax
      BY <3>1, StepsAssumption DEF incmin
    <3> QED
      BY <1>1, <3>1, <3>2 DEF BoundIncr, incmin
  <2> QED
    BY <2>1, <2>2
<1> QED
  BY <1>1, <1>2, <1>3, <1>4

(* Bounding any line address gives a line of the file.                     *)
LEMMA BoundedFacts ==
    ASSUME posmax \in Nat, posmax % BUFWIDE = 0, NEW x \in Int, x % BUFWIDE = 0
    PROVE  Bounded(x) \in Nat /\ Bounded(x) <= posmax /\ Bounded(x) % BUFWIDE = 0
BY DEF Bounded, BUFWIDE

(* read never returns more than it was asked for.                          *)
LEMMA NBytesFacts ==
    ASSUME f_pos \in Nat, NEW count \in Nat
    PROVE  NBytes(count) \in 0..count
<1>1. Indent(f_pos) \in 0..PageSize - 1
  BY PageSizeAssumption DEF Indent
<1>2. ReadCount(f_pos, count) \in 0..count
  BY <1>1, PageSizeAssumption, DramSizeAssumption DEF ReadCount
<1>3. f_pos < FileSize => FileSize - f_pos \in Nat
  BY FileSizeAssumption
<1> QED
  BY <1>2, <1>3, FileSizeAssumption DEF NBytes

LEMMA SizeFacts == \A d \in {"dram", "file"} : Size(d) \in Nat
BY DramSizeAssumption, FileSizeAssumption DEF Size

---------------------------------------------------------------------------
(* The inductive invariant. Position is bounded against a posmax that was  *)
(* computed once, from the size the device had when it was opened; that    *)
(* bound is what makes every lseek succeed, and so what makes location     *)
(* equal position and the buffer's chunks line up with the file.           *)
ShapeInv ==
    /\ loaded \in BOOLEAN /\ f_pos \in Nat
    /\ dev \in {"dram", "file"}
    /\ phase \in {"off", "top", "fill", "key", "seek"}
    /\ posmax \in Nat /\ position \in Nat /\ pageincr \in Nat
    /\ location \in Nat \cup {-1}
    /\ format \in Formats
    /\ inbuf \in Inbufs /\ inbuf.tail <= inbuf.len

PosInv ==
    InLoop => posmax = PosMax(Size(dev)) /\ position <= posmax /\ position % BUFWIDE = 0

IncInv ==
    /\ phase = "top" => BoundIncr(pageincr) \in Steps
    /\ phase \in {"fill", "key", "seek"} => pageincr \in Steps

BufferInv ==
    /\ buffer \in Seq(Chunks)
    /\ Filled \in 0..BUFSIZE
    /\ \A i \in 2..Len(buffer) : buffer[i].at = buffer[i-1].at + buffer[i-1].n

WindowInv ==
    /\ BufferInv
    /\ phase \in {"fill", "key", "seek"} =>
          /\ location = position
          /\ f_pos = position + Filled
          /\ \A i \in DOMAIN buffer : buffer[i].from = position + buffer[i].at

IInv == ShapeInv /\ PosInv /\ IncInv /\ WindowInv

LEMMA InitIInv == Init => IInv
<1> SUFFICES ASSUME Init PROVE IInv
  OBVIOUS
<1>1. Empty \in Inbufs /\ Empty.tail <= Empty.len
  BY InbufMaxAssumption DEF Empty, Inbufs
<1>2. ShapeInv
  BY <1>1 DEF Init, ShapeInv, Formats, incmin
<1>3. PosInv /\ IncInv
  BY DEF Init, PosInv, IncInv, InLoop
<1>4. WindowInv
  BY DEF Init, WindowInv, BufferInv, Filled, BUFSIZE
<1> QED
  BY <1>2, <1>3, <1>4 DEF IInv

LEMMA BufferStays == ASSUME BufferInv, UNCHANGED buffer PROVE BufferInv' /\ Filled' = Filled
BY DEF BufferInv, Filled

LEMMA BufferEmpty ==
    ASSUME buffer' = <<>> PROVE BufferInv' /\ Filled' = 0 /\ DOMAIN buffer' = {}
BY DEF BufferInv, Filled, BUFSIZE

(* Appending a chunk that starts where the buffer ends.                    *)
LEMMA BufferGrows ==
    ASSUME BufferInv, NEW from \in Nat, NEW n \in 1..(BUFSIZE - Filled),
           buffer' = Append(buffer, [at |-> Filled, from |-> from, n |-> n])
    PROVE  /\ BufferInv' /\ Filled' = Filled + n
           /\ Len(buffer') = Len(buffer) + 1
           /\ \A i \in 1..Len(buffer) : buffer'[i] = buffer[i]
           /\ buffer'[Len(buffer) + 1] = [at |-> Filled, from |-> from, n |-> n]
<1> DEFINE c == [at |-> Filled, from |-> from, n |-> n]
<1>1. c \in Chunks /\ c.at = Filled /\ c.n = n /\ buffer \in Seq(Chunks) /\ Len(buffer) \in Nat
  BY DEF BufferInv, Chunks, BUFSIZE
<1> HIDE DEF c
<1>2. /\ buffer' \in Seq(Chunks) /\ Len(buffer') = Len(buffer) + 1 /\ buffer' # <<>>
      /\ \A i \in 1..Len(buffer) : buffer'[i] = buffer[i]
      /\ buffer'[Len(buffer) + 1] = c
  BY <1>1 DEF c
<1>3. Filled' = Filled + n
  BY <1>1, <1>2 DEF Filled
<1>4. Filled' \in 0..BUFSIZE
  BY <1>3 DEF BufferInv, BUFSIZE
<1>5. ASSUME NEW i \in 2..Len(buffer')
      PROVE  buffer'[i].at = buffer'[i-1].at + buffer'[i-1].n
  <2>1. CASE i \in 2..Len(buffer)
    BY <1>1, <1>2, <2>1 DEF BufferInv
  <2>2. CASE i = Len(buffer) + 1
    <3>1. buffer'[i] = c /\ buffer'[i-1] = buffer[Len(buffer)] /\ buffer # <<>>
      BY <1>1, <1>2, <2>2
    <3> QED
      BY <1>1, <3>1 DEF Filled
  <2> QED
    BY <1>1, <1>2, <2>1, <2>2
<1> QED
  BY <1>2, <1>3, <1>4, <1>5 DEF BufferInv, c

(* What the user may type keeps the dialog's text in shape.                *)
LEMMA TypedFacts ==
    ASSUME inbuf \in Inbufs, inbuf.len < InbufMax, inbuf.tail <= inbuf.len,
           NEW ch \in Digits \cup {Minus, Other}
    PROVE  Typed(ch) \in Inbufs /\ Typed(ch).tail <= Typed(ch).len
BY InbufMaxAssumption, DigitsAssumption DEF Inbufs, Typed, IsDigit, IsSign, Minus, Other

LEMMA UntypedFacts ==
    ASSUME inbuf \in Inbufs, inbuf.len > 0, inbuf.tail <= inbuf.len
    PROVE  Untyped \in Inbufs /\ Untyped.tail <= Untyped.len
BY InbufMaxAssumption DEF Inbufs, Untyped

---------------------------------------------------------------------------
(* The steps, one lemma per group of actions with the same effect.         *)
LEMMA StartIInv ==
    ASSUME IInv, NEW d \in {"dram", "file"}, Start(d) PROVE IInv'
<1> DEFINE filesize == LSeek(d, 0, "END")
<1>1. filesize = Size(d) /\ Size(d) \in Nat
  BY SizeFacts, DramSizeAssumption, FileSizeAssumption DEF LSeek, my_llseek, Size
<1>2. /\ f_pos' = Size(d) /\ posmax' = PosMax(Size(d)) /\ dev' = d /\ phase' = "top"
      /\ position' = 0 /\ pageincr' = 256 /\ format' = 1
      /\ UNCHANGED <<loaded, location, buffer, inbuf>>
  BY <1>1 DEF Start, incmin
<1>3. PosMax(Size(d)) \in Nat
  BY <1>1, PosMaxFacts
<1>4. ShapeInv'
  BY <1>1, <1>2, <1>3 DEF IInv, ShapeInv, Formats
<1>5. PosInv'
  BY <1>2, <1>3 DEF PosInv, InLoop, BUFWIDE, PosMax, Size, Align
<1>6. IncInv'
  BY <1>2, IncrFacts, StepsAssumption DEF IncInv, incmin, BoundIncr
<1>7. WindowInv'
  BY <1>2, BufferStays DEF IInv, WindowInv
<1> QED
  BY <1>4, <1>5, <1>6, <1>7 DEF IInv

LEMMA LoopTopIInv == ASSUME IInv, LoopTop PROVE IInv'
<1>1. /\ phase = "top" /\ phase' = "fill" /\ buffer' = <<>>
      /\ pageincr' = BoundIncr(pageincr)
      /\ location' = LSeek(dev, position, "SET")
      /\ f_pos' = IF location' = -1 THEN f_pos ELSE location'
      /\ UNCHANGED <<loaded, dev, posmax, position, format, inbuf>>
  BY DEF LoopTop
<1>2. /\ position \in Nat /\ position <= posmax /\ posmax = PosMax(Size(dev))
      /\ Size(dev) \in Nat
  BY <1>1, SizeFacts DEF IInv, ShapeInv, PosInv, InLoop
<1>3. position <= Size(dev)
  BY <1>2, PosMaxFacts
<1>4. location' = position
  BY <1>1, <1>2, <1>3, DramSizeAssumption, FileSizeAssumption DEF LSeek, my_llseek, Size
<1>5. f_pos' = position
  BY <1>1, <1>2, <1>4
<1>6. pageincr' \in Steps /\ pageincr' \in Nat
  BY <1>1, IncrFacts DEF IInv, IncInv
<1>7. ShapeInv' /\ IncInv'
  BY <1>1, <1>2, <1>4, <1>5, <1>6 DEF IInv, ShapeInv, IncInv
<1>8. PosInv'
  BY <1>1 DEF IInv, PosInv, InLoop, Size
<1>9. WindowInv'
  BY <1>1, <1>2, <1>4, <1>5, BufferEmpty DEF WindowInv
<1> QED
  BY <1>7, <1>8, <1>9 DEF IInv

LEMMA FillIInv == ASSUME IInv, Fill PROVE IInv'
<1> DEFINE count == BUFSIZE - Filled
           n == NBytes(count)
<1>1. /\ phase = "fill" /\ Filled \in 0..BUFSIZE /\ Filled < BUFSIZE
      /\ UNCHANGED <<loaded, dev, posmax, position, pageincr, location, format, inbuf>>
  BY DEF Fill, IInv, WindowInv, BufferInv
<1>2. count \in Nat /\ f_pos \in Nat
  BY <1>1 DEF BUFSIZE, IInv, ShapeInv
<1>3. n \in 0..count
  BY <1>2, NBytesFacts
<1>4. PosInv' /\ IncInv'
  BY <1>1 DEF Fill, IInv, PosInv, IncInv, InLoop, Size
<1>5. CASE n > 0
  <2>1. /\ buffer' = Append(buffer, [at |-> Filled, from |-> f_pos, n |-> n])
        /\ f_pos' = f_pos + n /\ UNCHANGED phase
    BY <1>5 DEF Fill
  <2>2. n \in 1..(BUFSIZE - Filled) /\ BufferInv
    BY <1>2, <1>3, <1>5 DEF IInv, WindowInv
  <2> HIDE DEF n
  <2>3. /\ BufferInv' /\ Filled' = Filled + n
        /\ Len(buffer') = Len(buffer) + 1
        /\ \A i \in 1..Len(buffer) : buffer'[i] = buffer[i]
        /\ buffer'[Len(buffer) + 1] = [at |-> Filled, from |-> f_pos, n |-> n]
    BY <1>2, <2>1, <2>2, BufferGrows
  <2>4. /\ DOMAIN buffer = 1..Len(buffer) /\ DOMAIN buffer' = 1..Len(buffer')
        /\ Len(buffer) \in Nat
    BY <2>2, <2>3 DEF BufferInv
  <2>5. /\ location = position /\ f_pos = position + Filled
        /\ \A i \in 1..Len(buffer) : buffer[i].from = position + buffer[i].at
    BY <1>1, <2>4 DEF IInv, WindowInv
  <2>6. \A i \in 1..Len(buffer') : buffer'[i].from = position + buffer'[i].at
    BY <2>3, <2>4, <2>5
  <2>7. f_pos' = position' + Filled'
    <3>1. position \in Nat /\ position' = position /\ Filled \in Nat /\ n \in Nat
      BY <1>1, <2>2 DEF IInv, ShapeInv, BUFSIZE
    <3>2. f_pos' = (position + Filled) + n /\ Filled' = Filled + n
      BY <2>1, <2>3, <2>5
    <3> QED
      BY <3>1, <3>2
  <2>8. WindowInv'
    BY <1>1, <2>1, <2>3, <2>4, <2>5, <2>6, <2>7 DEF WindowInv
  <2>9. ShapeInv'
    BY <1>1, <1>2, <2>1, <2>2 DEF IInv, ShapeInv, BUFSIZE
  <2> QED
    BY <1>4, <2>8, <2>9 DEF IInv
<1>6. CASE ~(n > 0)
  <2>1. phase' = "key" /\ UNCHANGED <<f_pos, buffer>>
    BY <1>6 DEF Fill
  <2>2. ShapeInv'
    BY <1>1, <2>1 DEF IInv, ShapeInv
  <2>3. WindowInv'
    BY <1>1, <2>1, BufferStays DEF IInv, WindowInv
  <2> QED
    BY <1>4, <2>2, <2>3 DEF IInv
<1> QED
  BY <1>5, <1>6

(* A step that leaves the loop's body through its bounds: a key that moves *)
(* or the end of the seek dialog.                                          *)
LEMMA BackToTopIInv ==
    ASSUME IInv, phase \in {"key", "seek"}, phase' = "top",
           position' \in Nat, position' <= posmax, position' % BUFWIDE = 0,
           inbuf' \in Inbufs, inbuf'.tail <= inbuf'.len,
           UNCHANGED <<loaded, f_pos, dev, posmax, pageincr, location, format, buffer>>
    PROVE  IInv'
<1>1. ShapeInv'
  BY DEF IInv, ShapeInv
<1>2. PosInv'
  BY DEF IInv, PosInv, InLoop, Size
<1>3. pageincr' \in Steps
  BY DEF IInv, IncInv
<1>4. IncInv'
  BY <1>3, IncrFacts DEF IncInv, BoundIncr
<1>5. WindowInv'
  BY BufferStays DEF IInv, WindowInv
<1> QED
  BY <1>1, <1>2, <1>4, <1>5 DEF IInv

(* posmax is itself a line of the file.                                    *)
LEMMA PosMaxIsLine == ASSUME IInv, InLoop PROVE posmax \in Nat /\ posmax % BUFWIDE = 0
BY SizeFacts, PosMaxFacts DEF IInv, ShapeInv, PosInv

LEMMA KeyMoveIInv == ASSUME IInv, KeyMove PROVE IInv'
<1>1. /\ phase = "key" /\ phase' = "top"
      /\ UNCHANGED <<loaded, f_pos, dev, posmax, pageincr, location, format, buffer, inbuf>>
  BY DEF KeyMove
<1>2. PICK to \in Moves : position' = Bounded(to)
  BY DEF KeyMove
<1>3. posmax \in Nat /\ posmax % BUFWIDE = 0
  BY <1>1, PosMaxIsLine DEF InLoop
<1>4. /\ position \in Nat /\ position % 16 = 0
      /\ pageincr \in Nat /\ pageincr % 16 = 0
  BY <1>1, StepsAssumption DEF IInv, ShapeInv, PosInv, IncInv, InLoop, BUFWIDE
<1>5. to \in Int /\ to % BUFWIDE = 0
  BY <1>2, <1>3, <1>4 DEF Moves, BUFWIDE
<1>6. position' \in Nat /\ position' <= posmax /\ position' % BUFWIDE = 0
  BY <1>2, <1>3, <1>5, BoundedFacts
<1>7. inbuf' \in Inbufs /\ inbuf'.tail <= inbuf'.len
  BY <1>1 DEF IInv, ShapeInv
<1> QED
  BY <1>1, <1>6, <1>7, BackToTopIInv

LEMMA GoToIInv ==
    ASSUME IInv, NEW text \in Inbufs, GoTo(text) PROVE IInv'
<1>1. /\ phase = "seek" /\ phase' = "top" /\ inbuf' = Empty
      /\ UNCHANGED <<loaded, f_pos, dev, posmax, pageincr, location, format, buffer>>
      /\ position' = Bounded(Align(IF text.neg THEN -text.val ELSE text.val))
  BY DEF GoTo
<1>2. posmax \in Nat /\ posmax % BUFWIDE = 0
  BY <1>1, PosMaxIsLine DEF InLoop
<1>3. (IF text.neg THEN -text.val ELSE text.val) \in Int
  BY DEF Inbufs
<1>4. position' \in Nat /\ position' <= posmax /\ position' % BUFWIDE = 0
  BY <1>1, <1>2, <1>3, AlignFacts, BoundedFacts
<1>5. inbuf' \in Inbufs /\ inbuf'.tail <= inbuf'.len
  BY <1>1, InbufMaxAssumption DEF Empty, Inbufs
<1> QED
  BY <1>1, <1>4, <1>5, BackToTopIInv

LEMMA KeyIncrIInv == ASSUME IInv, KeyIncr PROVE IInv'
<1>1. /\ phase = "key" /\ phase' = "top" /\ pageincr' \in {pageincr \div 16, pageincr * 16}
      /\ UNCHANGED <<loaded, f_pos, dev, posmax, position, location, format, buffer, inbuf>>
  BY DEF KeyIncr
<1>2. pageincr \in Steps
  BY <1>1 DEF IInv, IncInv
<1>3. pageincr' \in Nat /\ BoundIncr(pageincr)' \in Steps
  <2>1. pageincr' \in Nat /\ BoundIncr(pageincr') \in Steps
    BY <1>1, <1>2, IncrFacts
  <2> QED
    BY <2>1 DEF BoundIncr
<1>4. ShapeInv'
  BY <1>1, <1>3 DEF IInv, ShapeInv
<1>5. PosInv' /\ IncInv'
  BY <1>1, <1>3 DEF IInv, PosInv, IncInv, InLoop, Size
<1>6. WindowInv'
  BY <1>1, BufferStays DEF IInv, WindowInv
<1> QED
  BY <1>4, <1>5, <1>6 DEF IInv

LEMMA KeyQuitIInv == ASSUME IInv, KeyQuit PROVE IInv'
<1>1. Empty \in Inbufs /\ Empty.tail <= Empty.len
  BY InbufMaxAssumption DEF Empty, Inbufs
<1>2. ShapeInv'
  BY <1>1 DEF KeyQuit, IInv, ShapeInv, Formats, incmin
<1>3. PosInv' /\ IncInv'
  BY DEF KeyQuit, PosInv, IncInv, InLoop
<1>4. WindowInv'
  BY BufferEmpty DEF KeyQuit, WindowInv
<1> QED
  BY <1>2, <1>3, <1>4 DEF IInv

(* Steps that leave the window, position and increment alone and stay      *)
(* inside the loop's body or outside the loop.                             *)
LEMMA QuietIInv ==
    ASSUME IInv, ShapeInv',
           \/ phase' = phase
           \/ phase \in {"fill", "key"} /\ phase' \in {"key", "seek"}
           \/ phase = "key" /\ phase' = "top",
           UNCHANGED <<f_pos, dev, posmax, position, pageincr, location, buffer>>
    PROVE  IInv'
<1>1. PosInv'
  BY DEF IInv, ShapeInv, PosInv, InLoop, Size
<1>2. IncInv'
  BY IncrFacts DEF IInv, IncInv, BoundIncr
<1>3. WindowInv'
  BY BufferStays DEF IInv, WindowInv
<1> QED
  BY <1>1, <1>2, <1>3 DEF IInv

LEMMA NextIInv == IInv /\ [Next]_vars => IInv'
<1> SUFFICES ASSUME IInv, [Next]_vars PROVE IInv'
  OBVIOUS
<1>1. CASE \E d \in {"dram", "file"} : Start(d)
  BY <1>1, StartIInv
<1>2. CASE LoopTop
  BY <1>2, LoopTopIInv
<1>3. CASE Fill
  BY <1>3, FillIInv
<1>4. CASE KeyMove
  BY <1>4, KeyMoveIInv
<1>5. CASE KeyIncr
  BY <1>5, KeyIncrIInv
<1>6. CASE KeyQuit
  BY <1>6, KeyQuitIInv
<1>7. CASE DialogEnter
  BY <1>7, GoToIInv DEF DialogEnter, IInv, ShapeInv
<1>8. CASE DialogEscape
  <2>1. Empty \in Inbufs
    BY InbufMaxAssumption DEF Empty, Inbufs
  <2> QED
    BY <1>8, <2>1, GoToIInv DEF DialogEscape
<1>9. CASE FillDone
  <2>1. ShapeInv'
    BY <1>9 DEF FillDone, IInv, ShapeInv
  <2> QED
    BY <1>9, <2>1, QuietIInv DEF FillDone
<1>10. CASE KeyFormat
  <2>1. ShapeInv'
    BY <1>10 DEF KeyFormat, IInv, ShapeInv
  <2> QED
    BY <1>10, <2>1, QuietIInv DEF KeyFormat
<1>11. CASE KeySeek
  <2>1. Empty \in Inbufs /\ Empty.tail <= Empty.len
    BY InbufMaxAssumption DEF Empty, Inbufs
  <2>2. ShapeInv'
    BY <1>11, <2>1 DEF KeySeek, IInv, ShapeInv
  <2> QED
    BY <1>11, <2>2, QuietIInv DEF KeySeek
<1>12. CASE \E ch \in Digits \cup {Minus, Other} : DialogType(ch)
  <2>1. PICK ch \in Digits \cup {Minus, Other} : DialogType(ch)
    BY <1>12
  <2>2. inbuf' \in Inbufs /\ inbuf'.tail <= inbuf'.len
    BY <2>1, TypedFacts DEF DialogType, IInv, ShapeInv
  <2>3. ShapeInv'
    BY <2>1, <2>2 DEF DialogType, IInv, ShapeInv
  <2> QED
    BY <2>1, <2>3, QuietIInv DEF DialogType
<1>13. CASE DialogBack
  <2>1. inbuf' \in Inbufs /\ inbuf'.tail <= inbuf'.len
    BY <1>13, UntypedFacts DEF DialogBack, IInv, ShapeInv
  <2>2. ShapeInv'
    BY <1>13, <2>1 DEF DialogBack, IInv, ShapeInv
  <2> QED
    BY <1>13, <2>2, QuietIInv DEF DialogBack
<1>14. CASE LoadDram \/ UnloadDram
  <2>1. loaded' \in BOOLEAN /\ UNCHANGED <<f_pos, view>>
    BY <1>14 DEF LoadDram, UnloadDram, dram_init, dram_exit
  <2>2. ShapeInv'
    BY <2>1 DEF IInv, ShapeInv, view
  <2> QED
    BY <2>1, <2>2, QuietIInv DEF view
<1>15. CASE UNCHANGED vars
  <2>1. ShapeInv'
    BY <1>15 DEF IInv, ShapeInv, vars, view
  <2> QED
    BY <1>15, <2>1, QuietIInv DEF vars, view
<1> QED
  BY <1>1, <1>2, <1>3, <1>4, <1>5, <1>6, <1>7, <1>8, <1>9, <1>10, <1>11, <1>12,
     <1>13, <1>14, <1>15 DEF Next

LEMMA SpecIInv == Spec => []IInv
BY InitIInv, NextIInv, PTL DEF Spec

---------------------------------------------------------------------------
(* Every reachable state has its declared shape; in particular every read  *)
(* of the fill loop (fileview.cpp:124-130) stores its bytes inside the     *)
(* BUFSIZE bytes of buffer, at + n <= BUFSIZE, however short the reads     *)
(* before it were.                                                         *)
THEOREM TypeCorrect == Spec => []TypeOK
<1>1. IInv => TypeOK
  BY DEF IInv, ShapeInv, WindowInv, BufferInv, TypeOK
<1> QED
  BY <1>1, SpecIInv, PTL

(* Position stays on a line between 0 and posmax, and the page increment   *)
(* on one of its steps, for every file size (fileview.cpp:114-116 and      *)
(* 280-281).                                                               *)
THEOREM PositionSafe == Spec => []PositionInBounds
<1>1. IInv => PositionInBounds
  BY DEF IInv, ShapeInv, PosInv, IncInv, InLoop, PositionInBounds
<1> QED
  BY <1>1, SpecIInv, PTL

(* What is drawn at offset b is byte position + b of the file, however the *)
(* reads were cut short by page boundaries (fileview.cpp:119-130).         *)
THEOREM WindowIsFaithful == Spec => []FaithfulWindow
<1>1. IInv => FaithfulWindow
  BY DEF IInv, WindowInv, BufferInv, FaithfulWindow
<1> QED
  BY <1>1, SpecIInv, PTL

(* No drawn line overruns outline[80] (fileview.cpp:143-191) while 13      *)
(* digits are enough for the file's addresses: the seek before it          *)
(* succeeded, so the location is neither negative nor past the end.        *)
THEOREM LineFits == Spec => []OutlineFits
<1>1. IInv => OutlineFits
  <2> SUFFICES ASSUME IInv, phase = "key", Size(dev) + BUFSIZE <= AddrMax
               PROVE  LineLen + 1 <= 80
    BY DEF OutlineFits
  <2>1. location \in Nat /\ location <= posmax /\ posmax = PosMax(Size(dev))
    BY DEF IInv, ShapeInv, WindowInv, PosInv, InLoop
  <2>2. Size(dev) \in Nat
    BY SizeFacts DEF IInv, ShapeInv
  <2>3. location <= Size(dev)
    BY <2>1, <2>2, PosMaxFacts
  <2>4. AddrWidth = 13
    BY <2>1, <2>2, <2>3, AddrMaxAssumption DEF AddrWidth, BUFSIZE
  <2>5. HexWidth(format) <= 48 /\ HexWidth(format) \in Nat
    BY DEF IInv, ShapeInv, Formats, HexWidth
  <2> QED
    BY <2>4, <2>5 DEF LineLen, BUFWIDE
<1> QED
  BY <1>1, SpecIInv, PTL

(* The last byte of a file of any size can be scrolled into view           *)
(* (fileview.cpp:76-77).                                                   *)
THEOREM EndCanBeSeen == Spec => []EndIsVisible
<1>1. IInv => EndIsVisible
  BY SizeFacts, PosMaxFacts DEF IInv, ShapeInv, PosInv, EndIsVisible
<1> QED
  BY <1>1, SpecIInv, PTL

---------------------------------------------------------------------------
(* Pages. Division with a variable divisor, one fact at a time.            *)
LEMMA DivMod ==
    ASSUME NEW P \in Nat \ {0}, NEW x \in Nat
    PROVE  /\ x \div P \in Nat /\ x % P \in 0..P-1
           /\ x = P * (x \div P) + (x % P)
OBVIOUS

LEMMA QuotientUnique ==
    ASSUME NEW P \in Nat \ {0}, NEW q \in Nat, NEW r \in 0..P-1,
           NEW q2 \in Nat, NEW r2 \in 0..P-1, P * q + r = P * q2 + r2
    PROVE  q = q2
<1>1. ASSUME q < q2 PROVE FALSE
  <2>1. P * q2 >= P * (q + 1)
    BY <1>1
  <2> QED
    BY <2>1
<1>2. ASSUME q2 < q PROVE FALSE
  <2>1. P * q >= P * (q2 + 1)
    BY <1>2
  <2> QED
    BY <2>1
<1> QED
  BY <1>1, <1>2

(* A run of bytes that ends inside the page it starts in.                  *)
LEMMA SamePage ==
    ASSUME NEW x \in Nat, NEW n \in Nat \ {0}, Indent(x) + n <= PageSize
    PROVE  Page(x) = Page(x + n - 1)
<1> DEFINE y == x + n - 1
           q == x \div PageSize
           r == x % PageSize
           q2 == y \div PageSize
           r2 == y % PageSize
<1>1. y \in Nat
  OBVIOUS
<1>2. /\ q \in Nat /\ r \in 0..PageSize-1 /\ x = PageSize * q + r
      /\ q2 \in Nat /\ r2 \in 0..PageSize-1 /\ y = PageSize * q2 + r2
  <2> HIDE DEF y
  <2> QED
    BY <1>1, DivMod, PageSizeAssumption
<1>3. r + n <= PageSize
  BY DEF Indent
<1>4. y = x + n - 1 /\ Page(x) = q /\ Page(x + n - 1) = q2
  BY DEF Page
<1> HIDE DEF y, q, r, q2, r2
<1>5. r + n - 1 \in 0..PageSize-1
  BY <1>2, <1>3, PageSizeAssumption
<1>6. PageSize * q \in Int /\ PageSize * q2 \in Int
  BY <1>2, PageSizeAssumption
<1>7. PageSize * q + (r + n - 1) = PageSize * q2 + r2
  BY <1>2, <1>4, <1>6
<1>8. q = q2
  BY <1>2, <1>5, <1>7, PageSizeAssumption, QuotientUnique
<1> QED
  BY <1>4, <1>8

(* The byte after a page starts a window.                                  *)
LEMMA PageEnd ==
    ASSUME NEW x \in Nat
    PROVE  (x + (PageSize - Indent(x))) % BUFSIZE = 0
<1> DEFINE k == PageSize \div 256
           q == x \div PageSize
           r == x % PageSize
<1>1. k \in Nat /\ PageSize = 256 * k
  BY PageSizeAssumption, PageAssumption DEF BUFSIZE
<1>2. q \in Nat /\ x = PageSize * q + r /\ r \in Int /\ Indent(x) = r
  BY DivMod, PageSizeAssumption DEF Indent
<1> HIDE DEF k, q, r
<1>3. x + (PageSize - Indent(x)) = PageSize * (q + 1)
  <2>1. PageSize * q \in Int /\ PageSize * (q + 1) = PageSize * q + PageSize
    BY <1>2, PageSizeAssumption
  <2> QED
    BY <1>2, <2>1, PageSizeAssumption
<1>4. PageSize * (q + 1) = 256 * (k * (q + 1)) /\ k * (q + 1) \in Int
  BY <1>1, <1>2
<1>5. \A m \in Int : (256 * m) % 256 = 0
  OBVIOUS
<1> QED
  BY <1>3, <1>4, <1>5 DEF BUFSIZE

(* A read of the device that starts before the end gets something, stays   *)
(* in its page, and falls short only at the end of the page.               *)
LEMMA ReadFacts ==
    ASSUME f_pos \in Nat, f_pos < DramSize, NEW count \in Nat \ {0}
    PROVE  /\ ReadCount(f_pos, count) \in 1..count
           /\ Page(f_pos) = Page(f_pos + ReadCount(f_pos, count) - 1)
           /\ \/ ReadCount(f_pos, count) = count
              \/ (f_pos + ReadCount(f_pos, count)) % BUFSIZE = 0
<1>1. Indent(f_pos) \in 0..PageSize - 1
  BY PageSizeAssumption DEF Indent
<1>2. ReadCount(f_pos, count) \in 1..count /\ Indent(f_pos) + ReadCount(f_pos, count) <= PageSize
  BY <1>1, PageSizeAssumption, DramSizeAssumption DEF ReadCount
<1>3. Page(f_pos) = Page(f_pos + ReadCount(f_pos, count) - 1)
  BY <1>2, SamePage
<1>4. ReadCount(f_pos, count) = count \/ ReadCount(f_pos, count) = PageSize - Indent(f_pos)
  BY DramSizeAssumption DEF ReadCount
<1> QED
  BY <1>2, <1>3, <1>4, PageEnd

(* The second invariant, inductive relative to IInv: until the buffer is   *)
(* full, a file that is not exhausted can still be read.                   *)
RestInv ==
    phase = "fill" =>
        IF dev = "dram" THEN f_pos < DramSize \/ Filled = BUFSIZE ELSE f_pos <= FileSize

ReadInv ==
    /\ phase = "off" => buffer = <<>>
    /\ OnePagePerRead /\ RestInv /\ WholeWindow

LEMMA FillReadInv == ASSUME IInv, ReadInv, Fill PROVE ReadInv'
<1> DEFINE count == BUFSIZE - Filled
           n == NBytes(count)
<1>1. /\ phase = "fill" /\ Filled \in 0..255 /\ dev \in {"dram", "file"}
      /\ f_pos \in Nat /\ position \in Nat /\ f_pos = position + Filled
      /\ UNCHANGED <<dev, position>>
  BY DEF Fill, IInv, ShapeInv, WindowInv, BufferInv, BUFSIZE
<1>2. count \in Nat \ {0} /\ count = 256 - Filled
  BY <1>1 DEF BUFSIZE
<1>3. BufferInv /\ DOMAIN buffer = 1..Len(buffer) /\ Len(buffer) \in Nat
  BY DEF IInv, WindowInv, BufferInv
<1>4. CASE dev = "dram"
  <2>1. f_pos < DramSize /\ n = ReadCount(f_pos, count)
    BY <1>1, <1>4 DEF ReadInv, RestInv, NBytes, BUFSIZE
  <2>2. /\ n \in 1..count /\ Page(f_pos) = Page(f_pos + n - 1)
        /\ n = count \/ (f_pos + n) % BUFSIZE = 0
    BY <1>1, <1>2, <2>1, ReadFacts
  <2>3. /\ buffer' = Append(buffer, [at |-> Filled, from |-> f_pos, n |-> n])
        /\ f_pos' = f_pos + n /\ phase' = "fill"
    BY <1>1, <1>2, <2>2 DEF Fill
  <2> HIDE DEF n
  <2>4. /\ Filled' = Filled + n
        /\ Len(buffer') = Len(buffer) + 1 /\ buffer' \in Seq(Chunks)
        /\ \A i \in 1..Len(buffer) : buffer'[i] = buffer[i]
        /\ buffer'[Len(buffer) + 1] = [at |-> Filled, from |-> f_pos, n |-> n]
    BY <1>1, <1>3, <2>2, <2>3, BufferGrows DEF BufferInv
  <2>5. DOMAIN buffer' = 1..Len(buffer) + 1
    BY <2>4
  <2>6. OnePagePerRead'
    <3>1. \A i \in 1..Len(buffer) : /\ Page(buffer[i].from) = Page(buffer[i].from + buffer[i].n - 1)
                                    /\ buffer[i].from < DramSize
      BY <1>3, <1>4 DEF ReadInv, OnePagePerRead
    <3> QED
      BY <1>3, <2>1, <2>2, <2>4, <2>5, <3>1 DEF OnePagePerRead, Page
  <2>7. f_pos' < DramSize \/ Filled' = BUFSIZE
    <3>1. CASE n = count
      <4>1. Filled \in Int /\ n = 256 - Filled /\ Filled' = Filled + n
        BY <1>1, <1>2, <2>4, <3>1
      <4> QED
        BY <4>1 DEF BUFSIZE
    <3>2. CASE n # count
      <4>1. /\ (f_pos + n) % 256 = 0 /\ n \in Nat \ {0} /\ n < 256 - Filled
        BY <1>1, <1>2, <2>2, <3>2 DEF BUFSIZE
      <4>2. /\ posmax \in Nat /\ posmax % 16 = 0 /\ position <= posmax
            /\ posmax = 0 \/ posmax + 240 < DramSize
        <5>1. posmax = PosMax(DramSize) /\ position <= posmax
          BY <1>1, <1>4 DEF IInv, PosInv, InLoop, Size
        <5> QED
          BY <5>1, PosMaxFacts, DramSizeAssumption DEF BUFSIZE, BUFWIDE
      <4>3. f_pos + n > position /\ f_pos + n < position + 256
        BY <1>1, <4>1
      <4>4. f_pos + n <= posmax + 240 /\ posmax # 0
        BY <1>1, <4>1, <4>2, <4>3
      <4>5. f_pos' = f_pos + n /\ f_pos \in Nat
        BY <1>1, <2>3
      <4> QED
        BY <4>1, <4>2, <4>4, <4>5, DramSizeAssumption
    <3> QED
      BY <3>1, <3>2
  <2> QED
    BY <1>1, <1>4, <2>3, <2>6, <2>7 DEF ReadInv, RestInv, WholeWindow
<1>5. CASE dev = "file"
  <2>1. f_pos <= FileSize /\ n \in Nat /\ f_pos + n <= FileSize /\ (n = 0 => f_pos = FileSize)
    BY <1>1, <1>2, <1>5, FileSizeAssumption DEF ReadInv, RestInv, NBytes
  <2>2. OnePagePerRead'
    BY <1>1, <1>5 DEF OnePagePerRead
  <2>3. CASE n > 0
    BY <1>1, <1>5, <2>1, <2>2, <2>3 DEF Fill, ReadInv, RestInv, WholeWindow
  <2>4. CASE n = 0
    <3>1. phase' = "key" /\ Filled' = Filled /\ position + Filled = FileSize
      BY <1>1, <2>1, <2>4 DEF Fill, Filled
    <3> QED
      BY <1>1, <1>5, <2>2, <3>1 DEF ReadInv, RestInv, WholeWindow
  <2> QED
    BY <2>1, <2>3, <2>4
<1> QED
  BY <1>1, <1>4, <1>5

LEMMA NextReadInv == IInv /\ ReadInv /\ [Next]_vars => ReadInv'
<1> SUFFICES ASSUME IInv, ReadInv, [Next]_vars PROVE ReadInv'
  OBVIOUS
<1>1. CASE \E d \in {"dram", "file"} : Start(d)
  <2>1. buffer' = <<>> /\ phase' = "top"
    BY <1>1 DEF Start, ReadInv
  <2> QED
    BY <2>1 DEF ReadInv, OnePagePerRead, RestInv, WholeWindow
<1>2. CASE LoopTop
  <2>1. buffer' = <<>> /\ phase' = "fill" /\ UNCHANGED <<dev, position, posmax>>
    BY <1>2 DEF LoopTop
  <2>2. /\ position \in Nat /\ position <= posmax /\ posmax = PosMax(Size(dev))
        /\ Size(dev) \in Nat /\ dev \in {"dram", "file"}
    BY <1>2, SizeFacts DEF LoopTop, IInv, ShapeInv, PosInv, InLoop
  <2>3. f_pos' = position
    <3>1. IInv' /\ Filled' = 0
      BY <1>2, <2>1, LoopTopIInv, BufferEmpty
    <3> QED
      BY <2>1, <2>2, <3>1 DEF IInv, WindowInv
  <2>4. position <= Size(dev) /\ (dev = "dram" => position < DramSize)
    <3>1. /\ posmax \in Nat /\ posmax <= Size(dev)
          /\ posmax = 0 \/ posmax + 256 - 16 < Size(dev)
      BY <2>2, PosMaxFacts DEF BUFSIZE, BUFWIDE
    <3>2. dev = "dram" => Size(dev) = DramSize
      BY DEF Size
    <3> QED
      BY <2>2, <3>1, <3>2, DramSizeAssumption
  <2>5. RestInv'
    BY <2>1, <2>2, <2>3, <2>4 DEF RestInv, Size
  <2> QED
    BY <2>1, <2>5 DEF ReadInv, OnePagePerRead, WholeWindow
<1>3. CASE Fill
  BY <1>3, FillReadInv
<1>4. CASE FillDone
  <2>1. Filled' = BUFSIZE /\ phase' = "key" /\ UNCHANGED <<dev, buffer>>
    BY <1>4 DEF FillDone, Filled
  <2> QED
    BY <2>1 DEF ReadInv, OnePagePerRead, RestInv, WholeWindow, BUFSIZE
<1>5. CASE KeyQuit
  BY <1>5 DEF KeyQuit, ReadInv, OnePagePerRead, RestInv, WholeWindow
<1>6. CASE KeyMove \/ KeyIncr \/ KeyFormat \/ KeySeek \/ DialogEnter \/ DialogEscape
  <2>1. phase' \in {"top", "seek"} /\ UNCHANGED <<dev, buffer>>
    BY <1>6 DEF KeyMove, KeyIncr, KeyFormat, KeySeek, DialogEnter, DialogEscape, GoTo
  <2> QED
    BY <2>1 DEF ReadInv, OnePagePerRead, RestInv, WholeWindow
<1>7. CASE \/ \E ch \in Digits \cup {Minus, Other} : DialogType(ch)
           \/ DialogBack \/ LoadDram \/ UnloadDram \/ UNCHANGED vars
  <2>1. UNCHANGED <<phase, dev, buffer, f_pos, position>>
    BY <1>7 DEF DialogType, DialogBack, LoadDram, UnloadDram, view, vars
  <2> QED
    BY <2>1 DEF ReadInv, OnePagePerRead, RestInv, WholeWindow, Filled
<1> QED
  BY <1>1, <1>2, <1>3, <1>4, <1>5, <1>6, <1>7 DEF Next

LEMMA SpecReadInv == Spec => []ReadInv
<1>1. Init => ReadInv
  BY DEF Init, ReadInv, OnePagePerRead, RestInv, WholeWindow
<1> QED
  BY <1>1, SpecIInv, NextReadInv, PTL DEF Spec

(* Each read of the device stays in one mapped page and never asks for a   *)
(* page past the last byte of memory (dram.c:65-81), for every memory and  *)
(* page size.                                                              *)
THEOREM OnePageAtATime == Spec => []OnePagePerRead
<1>1. ReadInv => OnePagePerRead
  BY DEF ReadInv
<1> QED
  BY <1>1, SpecReadInv, PTL

(* The window shows filler only after the end of a regular file: on the    *)
(* device the loop of short reads (fileview.cpp:124-130) always fills it,  *)
(* also when the size of memory is no multiple of a line or of a page.     *)
THEOREM WindowIsWhole == Spec => []WholeWindow
<1>1. ReadInv => WholeWindow
  BY DEF ReadInv
<1> QED
  BY <1>1, SpecReadInv, PTL
===========================================================================
