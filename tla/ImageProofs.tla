---------------------------- MODULE ImageProofs ----------------------------
(***************************************************************************)
(* Proofs about the parts of the JPEG decoder that have no recursive       *)
(* definition: the stream of bytes, the checks of sizes, and the decoder   *)
(* on a file, one section for each. A constant or a variable that two of   *)
(* them name alike is declared once here.                                  *)
(***************************************************************************)
EXTENDS Image, Sequences, SequencesExt, SequenceTheorems, WellFoundedInduction, TLAPS

\* A set of numbers that is not empty has a least one.
LEMMA Least ==
  ASSUME NEW S \in SUBSET Nat, S # {}
  PROVE  \E x \in S : \A y \in S : x <= y
<1> DEFINE R == { p \in Nat \X Nat : p[1] < p[2] }
<1>1. R = OpToRel(<, Nat)
  BY DEF OpToRel
<1>2. IsWellFoundedOn(R, Nat)
  BY <1>1, NatLessThanWellFounded
<1> HIDE DEF R
<1>3. PICK x \in S : \A y \in S : ~(<<y, x>> \in R)
  BY <1>2, WFMin
<1>4. \A y \in S : ~(y < x)
  BY <1>3 DEF R
<1> QED BY <1>4

-----------------------------------------------------------------------------
(* ImageStream: a buffer and images of any length, and any mix of calls.   *)

(* The inductive invariant *)

Buffers == IF source = "memory" THEN [0..size-1 -> Nat] ELSE [0..BufLen-1 -> Nat]
Contexts == [img_buffer: Nat, img_buffer_end: Nat, original_end: Nat, read_from_callbacks: BOOLEAN,
             buffer_start: Buffers, fpos: Nat, feof: BOOLEAN]

\* An image in memory is its own buffer; a skip may lead behind it.
MemoryAt(c, p) ==
  /\ ~c.read_from_callbacks /\ ~c.feof /\ c.img_buffer_end = size
  /\ \A ix \in 0..size-1 : c.buffer_start[ix] = ix + 1
  /\ IF c.img_buffer < size THEN p = c.img_buffer ELSE p >= size

\* The buffer of a file has the bytes from p to the file's position.
MoreAt(c, p) ==
  /\ c.read_from_callbacks /\ size > 0
  /\ c.img_buffer <= c.img_buffer_end /\ c.img_buffer_end <= BufLen
  /\ c.fpos = p + Stream!Buffered(c)
  /\ \A ix \in 0..BufLen-1 :
       c.img_buffer <= ix /\ ix < c.img_buffer_end => c.buffer_start[ix] = Stream!Byte(p + ix - c.img_buffer)
  /\ c.feof => c.fpos >= size
  /\ c.fpos > size => c.feof /\ Stream!Buffered(c) = 0

\* Behind the end of a file nothing is buffered, but the zero byte of an empty one.
EndAt(c, p) ==
  /\ ~c.read_from_callbacks /\ c.feof /\ c.fpos >= size /\ p >= c.fpos
  /\ \/ c.img_buffer = c.img_buffer_end
     \/ /\ size = 0 /\ p = 0 /\ c.fpos = 0
        /\ c.img_buffer = 0 /\ c.img_buffer_end = 1 /\ c.buffer_start[0] = 0

\* The context is where a reader without a buffer would be at p.
At(c, p) == IF source = "memory" THEN MemoryAt(c, p) ELSE MoreAt(c, p) \/ EndAt(c, p)

\* What a rewind finds, unless the file was read on.
FirstKept(c) ==
  IF source = "memory" THEN c.original_end = size
  ELSE /\ first = (IF size < BufLen THEN size ELSE BufLen)
       /\ c.original_end = (IF size = 0 THEN 1 ELSE first)
       /\ c.fpos >= first
       /\ c.fpos = first /\ (c.read_from_callbacks \/ size = 0) =>
            \A ix \in 0..BufLen-1 : ix < c.original_end => c.buffer_start[ix] = Stream!Byte(ix)

Sound(c, p) == c \in Contexts /\ p \in Nat /\ At(c, p) /\ FirstKept(c)

Fixed ==
  /\ source \in {"memory", "file"} /\ size \in Nat /\ pc \in {"test", "load", "closed"}
  /\ pc = "load" => size > 0

Inv ==
  /\ Fixed
  /\ ~spoiled =>
       /\ got = meant
       /\ pc # "closed" => Sound(s, pos)
       /\ pc = "closed" /\ pos <= size => s.fpos = pos

----------------------------------------------------------------------------
(* Bytes, and reads of the file *)

\* A byte is a number, and zero behind the end.
LEMMA ByteIs ==
  ASSUME size \in Nat, NEW p \in Nat
  PROVE  Stream!Byte(p) \in Nat /\ (p >= size => Stream!Byte(p) = 0) /\ (p < size => Stream!Byte(p) = p + 1)
BY DEF Stream!Byte

\* fread gives what is asked for, or the rest of the file.
LEMMA CountIs ==
  ASSUME size \in Nat, NEW c, c.fpos \in Nat, NEW n \in Nat
  PROVE  /\ Stream!Count(c, n) \in 0..n
         /\ c.fpos >= size => Stream!Count(c, n) = 0
         /\ c.fpos < size => c.fpos + Stream!Count(c, n) <= size
         /\ Stream!Count(c, n) = n /\ n > 0 => c.fpos + n <= size
         /\ c.fpos + n <= size => Stream!Count(c, n) = n
         /\ Stream!Count(c, n) < n => c.fpos + Stream!Count(c, n) >= size
BY DEF Stream!Count

\* The fields after an fread.
LEMMA FreadIs ==
  ASSUME Stream!StreamAssumption, Fixed, NEW c \in Contexts, NEW n \in Nat
  PROVE  /\ Stream!Fread(c, n) \in Contexts
         /\ Stream!Fread(c, n).fpos = c.fpos + Stream!Count(c, n)
         /\ Stream!Fread(c, n).feof <=> c.feof \/ Stream!Count(c, n) < n
         /\ Stream!Fread(c, n).img_buffer = c.img_buffer
              /\ Stream!Fread(c, n).img_buffer_end = c.img_buffer_end
         /\ Stream!Fread(c, n).original_end = c.original_end
              /\ Stream!Fread(c, n).buffer_start = c.buffer_start
         /\ Stream!Fread(c, n).read_from_callbacks = c.read_from_callbacks
<1>1. Stream!Count(c, n) \in 0..n /\ c.fpos \in Nat
  BY CountIs DEF Fixed, Contexts
<1>2. c.fpos + Stream!Count(c, n) \in Nat
  BY <1>1
<1> QED BY <1>2 DEF Stream!Fread, Contexts

\* The fields after a refill.
LEMMA RefillIs ==
  ASSUME Stream!StreamAssumption, Fixed, source = "file", NEW c \in Contexts
  PROVE  /\ Stream!RefillBuffer(c) \in Contexts
         /\ Stream!RefillBuffer(c).fpos = c.fpos + Stream!Count(c, BufLen)
         /\ Stream!RefillBuffer(c).feof <=> c.feof \/ Stream!Count(c, BufLen) < BufLen
         /\ Stream!RefillBuffer(c).original_end = c.original_end /\ Stream!RefillBuffer(c).img_buffer = 0
         /\ Stream!Count(c, BufLen) = 0 =>
              /\ Stream!RefillBuffer(c).read_from_callbacks = FALSE
                   /\ Stream!RefillBuffer(c).img_buffer_end = 1
              /\ Stream!RefillBuffer(c).buffer_start[0] = 0
         /\ Stream!Count(c, BufLen) # 0 =>
              /\ Stream!RefillBuffer(c).read_from_callbacks = c.read_from_callbacks
              /\ Stream!RefillBuffer(c).img_buffer_end = Stream!Count(c, BufLen)
              /\ \A ix \in 0..BufLen-1 : ix < Stream!Count(c,
                   BufLen) => Stream!RefillBuffer(c).buffer_start[ix] = Stream!Byte(c.fpos + ix)
<1> DEFINE n == Stream!Count(c, BufLen)
           f == Stream!Fread(c, BufLen)
<1>1. BufLen \in Nat \ {0} /\ size \in Nat /\ c.fpos \in Nat
  BY DEF Stream!StreamAssumption, Fixed, Contexts
<1>2. n \in 0..BufLen
  BY <1>1, CountIs
<1>3. /\ f \in Contexts /\ f.fpos = c.fpos + n /\ (f.feof <=> c.feof \/ n < BufLen)
      /\ f.original_end = c.original_end /\ f.buffer_start = c.buffer_start
      /\ f.read_from_callbacks = c.read_from_callbacks
  BY <1>1, FreadIs
<1>4. f.buffer_start \in [0..BufLen-1 -> Nat]
  BY <1>3 DEF Contexts, Buffers
<1>5. Stream!RefillBuffer(c) =
        IF n = 0 THEN [f EXCEPT !.read_from_callbacks = FALSE, !.img_buffer = 0, !.img_buffer_end = 1,
                                !.buffer_start[0] = 0]
        ELSE [f EXCEPT !.img_buffer = 0, !.img_buffer_end = n,
                       !.buffer_start = [ix \in 0..BufLen-1 |->
                                           IF ix < n THEN Stream!Byte(c.fpos + ix) ELSE @[ix]]]
  BY DEF Stream!RefillBuffer
<1> HIDE DEF n, f
<1>6. CASE n = 0
  <2> DEFINE bd == [f.buffer_start EXCEPT ![0] = 0]
  <2>1. bd \in [0..BufLen-1 -> Nat] /\ bd[0] = 0
    BY <1>1, <1>4
  <2>2. Stream!RefillBuffer(c) = [f EXCEPT !.read_from_callbacks = FALSE, !.img_buffer = 0,
          !.img_buffer_end = 1,
                                    !.buffer_start = bd]
    BY <1>5, <1>6
  <2> DEFINE rx == Stream!RefillBuffer(c)
  <2>3. bd \in Buffers
    BY <2>1 DEF Buffers
  <2> HIDE DEF bd
  <2>4. rx = [f EXCEPT !.read_from_callbacks = FALSE, !.img_buffer = 0, !.img_buffer_end = 1,
                      !.buffer_start = bd]
    BY <2>2
  <2> HIDE DEF rx
  <2>5. /\ rx \in Contexts /\ rx.fpos = f.fpos /\ rx.feof = f.feof /\ rx.original_end = f.original_end
        /\ rx.img_buffer = 0 /\ rx.img_buffer_end = 1 /\ rx.read_from_callbacks = FALSE
        /\ rx.buffer_start = bd
    BY <1>3, <2>3, <2>4 DEF Contexts
  <2> QED BY <1>3, <1>6, <2>1, <2>5 DEF n, rx
<1>7. CASE n # 0
  <2> DEFINE bd == [ix \in 0..BufLen-1 |-> IF ix < n THEN Stream!Byte(c.fpos + ix) ELSE f.buffer_start[ix]]
  <2>0. \A ix \in 0..BufLen-1 : c.fpos + ix \in Nat /\ Stream!Byte(c.fpos + ix) \in Nat
    BY <1>1, ByteIs
  <2>1. bd \in [0..BufLen-1 -> Nat] /\ \A ix \in 0..BufLen-1 : ix < n => bd[ix] = Stream!Byte(c.fpos + ix)
    BY <1>4, <2>0
  <2>2. Stream!RefillBuffer(c) = [f EXCEPT !.img_buffer = 0, !.img_buffer_end = n, !.buffer_start = bd]
    BY <1>5, <1>7
  <2> DEFINE rx == Stream!RefillBuffer(c)
  <2>3. n \in Nat /\ bd \in Buffers
    BY <1>2, <2>1 DEF Buffers
  <2> HIDE DEF bd
  <2>4. rx = [f EXCEPT !.img_buffer = 0, !.img_buffer_end = n, !.buffer_start = bd]
    BY <2>2
  <2> HIDE DEF rx
  <2>5. /\ rx \in Contexts /\ rx.fpos = f.fpos /\ rx.feof = f.feof /\ rx.original_end = f.original_end
        /\ rx.img_buffer = 0 /\ rx.img_buffer_end = n /\ rx.read_from_callbacks = f.read_from_callbacks
        /\ rx.buffer_start = bd
    BY <1>3, <2>3, <2>4 DEF Contexts
  <2> QED BY <1>3, <1>7, <2>1, <2>5 DEF n, rx
<1> QED BY <1>6, <1>7

----------------------------------------------------------------------------
(* The calls *)

\* stbi__get8 returns the byte at the position, and moves on to the next.
LEMMA Get8Sound ==
  ASSUME Stream!StreamAssumption, Fixed, NEW c, NEW p, Sound(c, p)
  PROVE  Stream!Get8(c).value = Stream!Byte(p) /\ Stream!Byte(p) \in Nat /\ Sound(Stream!Get8(c).s, p + 1)
<1>1. /\ BufLen \in Nat \ {0} /\ size \in Nat /\ p \in Nat /\ p + 1 \in Nat /\ c \in Contexts
      /\ c.img_buffer \in Nat /\ c.img_buffer_end \in Nat /\ c.fpos \in Nat /\ c.original_end \in Nat
  BY DEF Stream!StreamAssumption, Fixed, Contexts, Sound
<1> DEFINE d == [c EXCEPT !.img_buffer = @ + 1]
\* One byte of the buffer is taken.
<1>2. /\ d \in Contexts /\ d.img_buffer = c.img_buffer + 1 /\ d.img_buffer_end = c.img_buffer_end
      /\ d.buffer_start = c.buffer_start /\ d.fpos = c.fpos /\ d.feof = c.feof
      /\ d.original_end = c.original_end /\ d.read_from_callbacks = c.read_from_callbacks
  BY <1>1 DEF Contexts
<1>3. CASE source = "memory"
  <2>1. MemoryAt(c, p) /\ c.original_end = size
    BY <1>3 DEF Sound, At, FirstKept
  <2>2. CASE c.img_buffer < c.img_buffer_end
    <3>1. Stream!Get8(c).value = c.buffer_start[c.img_buffer] /\ Stream!Get8(c).s = d
      BY <2>2 DEF Stream!Get8
    <3>2. c.img_buffer = p /\ p < size
      BY <2>1, <2>2 DEF MemoryAt
    <3>3. c.buffer_start[p] = p + 1
      BY <1>1, <2>1, <3>2 DEF MemoryAt
    <3> HIDE DEF d
    <3>4. MemoryAt(d, p + 1)
      BY <1>1, <1>2, <2>1, <3>2 DEF MemoryAt
    <3> QED BY <1>1, <1>2, <1>3, <2>1, <3>1, <3>2, <3>3, <3>4, ByteIs DEF Sound, At, FirstKept
  <2>3. CASE ~(c.img_buffer < c.img_buffer_end)
    <3>1. Stream!Get8(c).value = 0 /\ Stream!Get8(c).s = c
      BY <2>1, <2>3 DEF Stream!Get8, MemoryAt
    <3>2. p >= size /\ MemoryAt(c, p + 1)
      BY <1>1, <2>1, <2>3 DEF MemoryAt
    <3> QED BY <1>1, <1>3, <2>1, <3>1, <3>2, ByteIs DEF Sound, At, FirstKept
  <2> QED BY <2>2, <2>3
<1>4. CASE source = "file"
  <2>0. FirstKept(c) /\ source # "memory"
    BY <1>4 DEF Sound
  <2>1. CASE MoreAt(c, p) /\ c.img_buffer < c.img_buffer_end
    <3>1. Stream!Get8(c).value = c.buffer_start[c.img_buffer] /\ Stream!Get8(c).s = d
      BY <2>1 DEF Stream!Get8
    <3>2. c.buffer_start[c.img_buffer] = Stream!Byte(p + c.img_buffer - c.img_buffer)
      BY <1>1, <2>1 DEF MoreAt
    <3>3. p + c.img_buffer - c.img_buffer = p
      BY <1>1
    <3> HIDE DEF d
    <3>4. \A ix \in 0..BufLen-1 : d.img_buffer <= ix /\ ix < d.img_buffer_end =>
            d.buffer_start[ix] = Stream!Byte((p + 1) + ix - d.img_buffer)
      <4>1. \A ix \in 0..BufLen-1 : (p + 1) + ix - (c.img_buffer + 1) = p + ix - c.img_buffer
        BY <1>1
      <4> QED BY <1>1, <1>2, <2>1, <4>1 DEF MoreAt
    <3>5. MoreAt(d, p + 1)
      BY <1>1, <1>2, <2>1, <3>4 DEF MoreAt, Stream!Buffered
    <3>6. FirstKept(d)
      BY <1>2, <2>0 DEF FirstKept
    <3> QED BY <1>1, <1>2, <2>0, <3>1, <3>2, <3>3, <3>5, <3>6, ByteIs DEF Sound, At
  <2>2. CASE MoreAt(c, p) /\ ~(c.img_buffer < c.img_buffer_end)
    <3> DEFINE rx == Stream!RefillBuffer(c)
               e == [rx EXCEPT !.img_buffer = @ + 1]
    <3>1. c.read_from_callbacks /\ c.img_buffer = c.img_buffer_end /\ c.fpos = p
      BY <1>1, <2>2 DEF MoreAt, Stream!Buffered
    <3>2. /\ rx \in Contexts /\ rx.fpos = p + Stream!Count(c, BufLen)
          /\ rx.feof <=> c.feof \/ Stream!Count(c, BufLen) < BufLen
          /\ rx.original_end = c.original_end /\ rx.img_buffer = 0
          /\ Stream!Count(c, BufLen) = 0 =>
               /\ rx.read_from_callbacks = FALSE /\ rx.img_buffer_end = 1 /\ rx.buffer_start[0] = 0
          /\ Stream!Count(c, BufLen) # 0 =>
               /\ rx.read_from_callbacks = c.read_from_callbacks
                    /\ rx.img_buffer_end = Stream!Count(c, BufLen)
               /\ \A ix \in 0..BufLen-1 : ix < Stream!Count(c, BufLen) => rx.buffer_start[ix]
                    = Stream!Byte(p + ix)
      BY <1>1, <1>4, <3>1, RefillIs
    <3>3. /\ Stream!Count(c, BufLen) \in 0..BufLen
          /\ p >= size => Stream!Count(c, BufLen) = 0
          /\ p < size => p + Stream!Count(c, BufLen) <= size
          /\ Stream!Count(c, BufLen) < BufLen => p + Stream!Count(c, BufLen) >= size
      BY <1>1, <3>1, CountIs
    <3>4. 0 < rx.img_buffer_end
      BY <3>2, <3>3
    <3>5. Stream!Get8(c).value = rx.buffer_start[0] /\ Stream!Get8(c).s = e
      BY <2>2, <3>1, <3>2, <3>4 DEF Stream!Get8
    <3> HIDE DEF rx
    <3>6. /\ e \in Contexts /\ e.img_buffer = 1 /\ e.img_buffer_end = rx.img_buffer_end
          /\ e.buffer_start = rx.buffer_start /\ e.fpos = rx.fpos /\ e.feof = rx.feof
          /\ e.original_end = rx.original_end /\ e.read_from_callbacks = rx.read_from_callbacks
      BY <3>2 DEF Contexts
    <3> HIDE DEF e
    <3>7. CASE Stream!Count(c, BufLen) = 0
      <4>1. p >= size /\ rx.fpos = p /\ rx.feof
        BY <1>1, <3>2, <3>3, <3>7
      <4>2. EndAt(e, p + 1)
        BY <1>1, <3>2, <3>6, <3>7, <4>1 DEF EndAt
      <4>3. FirstKept(e)
        <5>1. size # 0
          BY <2>2 DEF MoreAt
        <5> QED BY <1>1, <2>0, <3>1, <3>2, <3>6, <3>7, <4>1, <5>1 DEF FirstKept
      <4> QED BY <1>1, <2>0, <3>2, <3>5, <3>6, <3>7, <4>1, <4>2, <4>3, ByteIs DEF Sound, At
    <3>8. CASE Stream!Count(c, BufLen) # 0
      <4>1. p < size /\ Stream!Count(c, BufLen) > 0 /\ 0 \in 0..BufLen-1 /\ p + 0 = p
        BY <1>1, <3>3, <3>8
      <4>2. rx.buffer_start[0] = Stream!Byte(p)
        BY <3>2, <4>1
      <4>3. \A ix \in 0..BufLen-1 : (p + 1) + ix - 1 = p + ix
        BY <1>1
      <4>4. MoreAt(e, p + 1)
        <5>1. e.read_from_callbacks /\ e.img_buffer = 1 /\ e.img_buffer_end = Stream!Count(c, BufLen)
          BY <3>1, <3>2, <3>6, <3>8
        <5>2. \A ix \in 0..BufLen-1 : ix < e.img_buffer_end => e.buffer_start[ix]
                = Stream!Byte((p + 1) + ix - 1)
          BY <3>2, <3>6, <3>8, <4>3, <5>1
        <5>3. e.fpos = (p + 1) + (e.img_buffer_end - e.img_buffer) /\ e.fpos <= size
          BY <1>1, <3>2, <3>3, <3>6, <4>1, <5>1
        <5>4. e.feof => e.fpos >= size
          BY <1>1, <2>2, <3>1, <3>2, <3>3, <3>6, <4>1 DEF MoreAt
        <5> QED BY <1>1, <2>2, <3>3, <4>1, <5>1, <5>2, <5>3, <5>4 DEF MoreAt, Stream!Buffered
      <4>5. e.fpos # first
        BY <1>1, <2>0, <3>1, <3>2, <3>3, <3>6, <4>1 DEF FirstKept
      <4>6. FirstKept(e)
        BY <1>1, <2>0, <3>1, <3>2, <3>3, <3>6, <4>1, <4>5 DEF FirstKept
      <4> QED BY <1>1, <2>0, <3>5, <3>6, <4>2, <4>4, <4>6, ByteIs DEF Sound, At
    <3> QED BY <3>7, <3>8
  <2>3. CASE EndAt(c, p) /\ c.img_buffer = c.img_buffer_end
    <3>1. Stream!Get8(c).value = 0 /\ Stream!Get8(c).s = c
      BY <1>1, <2>3 DEF Stream!Get8, EndAt
    <3>2. p >= size /\ EndAt(c, p + 1)
      BY <1>1, <2>3 DEF EndAt
    <3> QED BY <1>1, <2>0, <3>1, <3>2, ByteIs DEF Sound, At
  <2>4. CASE EndAt(c, p) /\ c.img_buffer # c.img_buffer_end
    <3>1. Stream!Get8(c).value = 0 /\ Stream!Get8(c).s = d
      BY <1>1, <2>4 DEF Stream!Get8, EndAt
    <3> HIDE DEF d
    <3>2. p >= size /\ EndAt(d, p + 1)
      BY <1>1, <1>2, <2>4 DEF EndAt
    <3>3. FirstKept(d)
      BY <1>2, <2>0 DEF FirstKept
    <3> QED BY <1>1, <1>2, <2>0, <3>1, <3>2, <3>3, ByteIs DEF Sound, At
  <2> QED BY <1>4, <2>0, <2>1, <2>2, <2>3, <2>4 DEF Sound, At
<1> QED BY <1>3, <1>4 DEF Fixed

\* Two bytes are two times one byte.
LEMMA PairSound ==
  ASSUME Stream!StreamAssumption, Fixed, NEW d, NEW q, Sound(d, q)
  PROVE  /\ Stream!Get16be(d).value = 256 * Stream!Byte(q) + Stream!Byte(q + 1)
              /\ Sound(Stream!Get16be(d).s, q + 2)
         /\ Stream!Get16le(d).value = Stream!Byte(q) + 256 * Stream!Byte(q + 1)
              /\ Sound(Stream!Get16le(d).s, q + 2)
         /\ q + 2 \in Nat
<1> DEFINE a == Stream!Get8(d)
           z == Stream!Get8(a.s)
<1>1. a.value = Stream!Byte(q) /\ Sound(a.s, q + 1)
  BY Get8Sound
<1>2. z.value = Stream!Byte(q + 1) /\ Sound(z.s, (q + 1) + 1)
  BY <1>1, Get8Sound
<1>3. q \in Nat /\ (q + 1) + 1 = q + 2 /\ q + 2 \in Nat
  BY DEF Sound
<1>4. /\ Stream!Get16be(d) = [value |-> Stream!HighFirst(a.value, z.value), s |-> z.s]
      /\ Stream!Get16le(d) = [value |-> a.value + 256 * z.value, s |-> z.s]
  BY DEF Stream!Get16be, Stream!Get16le
<1> HIDE DEF a, z
<1> QED BY <1>1, <1>2, <1>3, <1>4 DEF Stream!HighFirst

\* The larger reads return the bytes at the position, in their order.
LEMMA WordsSound ==
  ASSUME Stream!StreamAssumption, Fixed, NEW c, NEW p, Sound(c, p)
  PROVE  LET bd == Stream!Bytes(p, 4)
         IN  /\ Stream!Get16be(c).value = 256 * bd[1] + bd[2] /\ Sound(Stream!Get16be(c).s, p + 2)
             /\ Stream!Get16le(c).value = 256 * bd[2] + bd[1] /\ Sound(Stream!Get16le(c).s, p + 2)
             /\ Stream!Get32be(c).value = ((bd[1] * 256 + bd[2]) * 256 + bd[3]) * 256 + bd[4]
             /\ Sound(Stream!Get32be(c).s, p + 4)
             /\ Stream!Get32le(c).value = ((bd[4] * 256 + bd[3]) * 256 + bd[2]) * 256 + bd[1]
             /\ Sound(Stream!Get32le(c).s, p + 4)
<1>0. p \in Nat
  BY DEF Sound
<1>2. Sound(Stream!Get16be(c).s, p + 2) /\ Sound(Stream!Get16le(c).s, p + 2) /\ p + 2 \in Nat
  BY PairSound
<1>3. (p + 2) + 1 = p + 3 /\ (p + 2) + 2 = p + 4
  BY <1>0
<1>4. /\ Stream!Get16be(Stream!Get16be(c).s).value = 256 * Stream!Byte(p + 2) + Stream!Byte(p + 3)
      /\ Sound(Stream!Get16be(Stream!Get16be(c).s).s, p + 4)
      /\ Stream!Get16le(Stream!Get16le(c).s).value = Stream!Byte(p + 2) + 256 * Stream!Byte(p + 3)
      /\ Sound(Stream!Get16le(Stream!Get16le(c).s).s, p + 4)
  <2>1. /\ Stream!Get16be(Stream!Get16be(c).s).value = 256 * Stream!Byte(p + 2) + Stream!Byte((p + 2) + 1)
        /\ Sound(Stream!Get16be(Stream!Get16be(c).s).s, (p + 2) + 2)
    BY <1>2, PairSound
  <2>2. /\ Stream!Get16le(Stream!Get16le(c).s).value = Stream!Byte(p + 2) + 256 * Stream!Byte((p + 2) + 1)
        /\ Sound(Stream!Get16le(Stream!Get16le(c).s).s, (p + 2) + 2)
    BY <1>2, PairSound
  <2> QED BY <1>3, <2>1, <2>2
<1>5. /\ Stream!Get32be(c).value = 65536 * Stream!Get16be(c).value + Stream!Get16be(Stream!Get16be(c).s).value
      /\ Stream!Get32be(c).s = Stream!Get16be(Stream!Get16be(c).s).s
      /\ Stream!Get32le(c).value = Stream!Get16le(c).value + 65536 * Stream!Get16le(Stream!Get16le(c).s).value
      /\ Stream!Get32le(c).s = Stream!Get16le(Stream!Get16le(c).s).s
  BY DEF Stream!Get32be, Stream!Get32le
<1>6. /\ Stream!Byte(p) \in Nat /\ Stream!Byte(p + 1) \in Nat /\ Stream!Byte(p + 2) \in Nat
           /\ Stream!Byte(p + 3) \in Nat
  BY <1>0, ByteIs DEF Fixed
<1>7. LET bd == Stream!Bytes(p, 4)
      IN  bd[1] = Stream!Byte(p) /\ bd[2] = Stream!Byte(p + 1) /\ bd[3] = Stream!Byte(p + 2)
        /\ bd[4] = Stream!Byte(p + 3)
  <2>1. /\ p + 1 - 1 = p /\ p + 2 - 1 = p + 1 /\ p + 3 - 1 = p + 2 /\ p + 4 - 1 = p + 3
        /\ 1 \in 1..4 /\ 2 \in 1..4 /\ 3 \in 1..4 /\ 4 \in 1..4
    BY <1>0
  <2> QED BY <2>1 DEF Stream!Bytes
<1>8. /\ Stream!Get16be(c).value = 256 * Stream!Byte(p) + Stream!Byte(p + 1)
      /\ Stream!Get16le(c).value = Stream!Byte(p) + 256 * Stream!Byte(p + 1)
  BY PairSound
<1> DEFINE bd == Stream!Bytes(p, 4)
<1>9. /\ 256 * bd[1] + bd[2] = 256 * Stream!Byte(p) + Stream!Byte(p + 1)
      /\ 256 * bd[2] + bd[1] = Stream!Byte(p) + 256 * Stream!Byte(p + 1)
      /\ ((bd[1] * 256 + bd[2]) * 256 + bd[3]) * 256 + bd[4] =
           65536 * (256 * Stream!Byte(p) + Stream!Byte(p + 1)) + (256 * Stream!Byte(p + 2) + Stream!Byte(p + 3))
      /\ ((bd[4] * 256 + bd[3]) * 256 + bd[2]) * 256 + bd[1] =
           (Stream!Byte(p) + 256 * Stream!Byte(p + 1)) + 65536 * (Stream!Byte(p + 2) + 256 * Stream!Byte(p + 3))
  <2> HIDE DEF bd
  <2>1. bd[1] = Stream!Byte(p) /\ bd[2] = Stream!Byte(p + 1) /\ bd[3] = Stream!Byte(p + 2)
          /\ bd[4] = Stream!Byte(p + 3)
    BY <1>7 DEF bd
  <2> QED BY <1>6, <2>1
<1> HIDE DEF bd
<1> QED BY <1>2, <1>4, <1>5, <1>8, <1>9 DEF bd

\* The fields after an fseek.
LEMMA StdioSkipIs ==
  ASSUME Stream!StreamAssumption, Fixed, NEW c \in Contexts, NEW n \in Nat
  PROVE  LET d == Stream!StdioSkip([c EXCEPT !.img_buffer = c.img_buffer_end], n)
         IN  /\ d \in Contexts /\ d.fpos = c.fpos + n /\ (d.feof <=> c.fpos + n >= size)
             /\ d.img_buffer = c.img_buffer_end /\ d.img_buffer_end = c.img_buffer_end
             /\ d.original_end = c.original_end /\ d.buffer_start = c.buffer_start
             /\ d.read_from_callbacks = c.read_from_callbacks
<1> DEFINE e == [c EXCEPT !.img_buffer = c.img_buffer_end]
           d == Stream!StdioSkip(e, n)
<1>1. c.fpos + n \in Nat /\ size \in Nat /\ (c.fpos + n >= size) \in BOOLEAN
  BY DEF Contexts, Fixed
<1>2. e \in Contexts /\ e.fpos = c.fpos
  BY DEF Contexts
<1>3. d = [e EXCEPT !.fpos = c.fpos + n, !.feof = c.fpos + n >= size]
  BY <1>2 DEF Stream!StdioSkip
<1>4. /\ e.img_buffer = c.img_buffer_end /\ e.img_buffer_end = c.img_buffer_end
      /\ e.original_end = c.original_end /\ e.buffer_start = c.buffer_start
      /\ e.read_from_callbacks = c.read_from_callbacks
  BY DEF Contexts
<1> HIDE DEF e, d
<1>5. /\ d \in Contexts /\ d.fpos = c.fpos + n /\ d.feof = (c.fpos + n >= size)
      /\ d.img_buffer = e.img_buffer /\ d.img_buffer_end = e.img_buffer_end
      /\ d.original_end = e.original_end /\ d.buffer_start = e.buffer_start
      /\ d.read_from_callbacks = e.read_from_callbacks
  BY <1>1, <1>2, <1>3 DEF Contexts
<1> QED BY <1>4, <1>5 DEF d, e

\* stbi__skip moves on by n bytes, or gives up what is buffered.
LEMMA SkipSound ==
  ASSUME Stream!StreamAssumption, Fixed, NEW c, NEW p, Sound(c, p), NEW n \in Int, n < 0 => pc = "load"
  PROVE  Sound(Stream!Skip(c, n), IF n >= 0 THEN p + n ELSE IF source = "file" THEN c.fpos ELSE size)
<1>1. /\ size \in Nat /\ p \in Nat /\ c \in Contexts /\ FirstKept(c) /\ BufLen \in Nat
      /\ c.img_buffer \in Nat /\ c.img_buffer_end \in Nat /\ c.fpos \in Nat /\ c.original_end \in Nat
  BY DEF Stream!StreamAssumption, Fixed, Contexts, Sound
<1>2. CASE n = 0
  <2>1. Stream!Skip(c, n) = c /\ p + n = p /\ n >= 0
    BY <1>1, <1>2 DEF Stream!Skip
  <2> QED BY <2>1
<1>3. CASE n < 0
  <2> DEFINE d == [c EXCEPT !.img_buffer = c.img_buffer_end]
  <2>1. Stream!Skip(c, n) = d
    BY <1>3 DEF Stream!Skip
  <2>2. /\ d \in Contexts /\ d.img_buffer = c.img_buffer_end /\ d.img_buffer_end = c.img_buffer_end
        /\ d.buffer_start = c.buffer_start /\ d.fpos = c.fpos /\ d.feof = c.feof
        /\ d.original_end = c.original_end /\ d.read_from_callbacks = c.read_from_callbacks
    BY <1>1 DEF Contexts
  <2> HIDE DEF d
  <2>3. FirstKept(d)
    BY <1>1, <2>2 DEF FirstKept
  <2>4. CASE source = "memory"
    <3>1. MemoryAt(d, size)
      BY <1>1, <2>2, <2>4 DEF Sound, At, MemoryAt
    <3> QED BY <1>1, <1>3, <2>1, <2>2, <2>3, <2>4, <3>1 DEF Sound, At
  <2>5. CASE source = "file" /\ MoreAt(c, p)
    <3>1. c.fpos = c.fpos + (d.img_buffer_end - d.img_buffer)
      BY <1>1, <2>2
    <3>2. MoreAt(d, c.fpos)
      BY <1>1, <2>2, <2>5, <3>1 DEF MoreAt, Stream!Buffered
    <3> QED BY <1>1, <1>3, <2>1, <2>2, <2>3, <2>5, <3>2 DEF Sound, At
  <2>6. CASE source = "file" /\ EndAt(c, p)
    <3>1. EndAt(d, c.fpos)
      BY <1>1, <2>2, <2>6 DEF EndAt
    <3> QED BY <1>1, <1>3, <2>1, <2>2, <2>3, <2>6, <3>1 DEF Sound, At
  <2> QED BY <2>4, <2>5, <2>6 DEF Sound, At, Fixed
<1>4. CASE n > 0
  <2>0. p + n \in Nat /\ n >= 0 /\ n \in Nat
    BY <1>1, <1>4
  <2>1. CASE source = "file" /\ Stream!Buffered(c) < n
    <3> DEFINE k == n - Stream!Buffered(c)
               d == Stream!Skip(c, n)
    <3>1. Stream!Skip(c, n) = Stream!StdioSkip([c EXCEPT !.img_buffer = c.img_buffer_end], k)
      <4>1. [c EXCEPT !.img_buffer = c.img_buffer_end].img_buffer = c.img_buffer_end
        BY <1>1 DEF Contexts
      <4> QED BY <1>4, <2>1 DEF Stream!Skip, Stream!SkipRest
    <3>2. k \in Nat \ {0}
      BY <1>1, <1>4, <2>1 DEF Stream!Buffered
    <3>3. /\ d \in Contexts /\ d.fpos = c.fpos + k /\ (d.feof <=> c.fpos + k >= size)
          /\ d.img_buffer = c.img_buffer_end /\ d.img_buffer_end = c.img_buffer_end
          /\ d.original_end = c.original_end /\ d.buffer_start = c.buffer_start
          /\ d.read_from_callbacks = c.read_from_callbacks
      <4> HIDE DEF k
      <4> QED BY <1>1, <3>1, <3>2, StdioSkipIs
    <3> HIDE DEF d
    <3>4. FirstKept(d)
      <4>0. first \in Nat /\ c.fpos >= first
        BY <1>1, <2>1 DEF FirstKept
      <4>1. d.fpos >= first /\ d.fpos # first
        <5> HIDE DEF k
        <5> QED BY <1>1, <3>2, <3>3, <4>0
      <4> QED BY <1>1, <2>1, <3>3, <4>1 DEF FirstKept
    <3>5. CASE MoreAt(c, p)
      <4>1. c.fpos = p + Stream!Buffered(c) /\ Stream!Buffered(c) \in Nat
        BY <1>1, <3>5 DEF MoreAt, Stream!Buffered
      <4>2. d.fpos = p + n /\ d.img_buffer_end - d.img_buffer = 0 /\ p + n = (p + n) + 0
        BY <1>1, <2>0, <3>3, <4>1
      <4>3. MoreAt(d, p + n)
        BY <1>1, <2>0, <3>3, <3>5, <4>2 DEF MoreAt, Stream!Buffered
      <4> QED BY <2>0, <2>1, <3>3, <3>4, <4>3 DEF Sound, At, d
    <3>6. CASE EndAt(c, p)
      <4>1. Stream!Buffered(c) \in {0, 1} /\ p + n >= c.fpos + k /\ c.fpos + k >= size
        BY <1>1, <2>0, <3>2, <3>6 DEF EndAt, Stream!Buffered
      <4>2. EndAt(d, p + n)
        BY <1>1, <2>0, <3>3, <3>6, <4>1 DEF EndAt
      <4> QED BY <2>0, <2>1, <3>3, <3>4, <4>2 DEF Sound, At, d
    <3> QED BY <2>1, <3>5, <3>6 DEF Sound, At
  <2>2. CASE ~(source = "file" /\ Stream!Buffered(c) < n)
    <3> DEFINE d == [c EXCEPT !.img_buffer = @ + n]
    <3>1. Stream!Skip(c, n) = d
      BY <1>4, <2>2 DEF Stream!Skip
    <3>2. /\ d \in Contexts /\ d.img_buffer = c.img_buffer + n /\ d.img_buffer_end = c.img_buffer_end
          /\ d.buffer_start = c.buffer_start /\ d.fpos = c.fpos /\ d.feof = c.feof
          /\ d.original_end = c.original_end /\ d.read_from_callbacks = c.read_from_callbacks
      BY <1>1, <2>0 DEF Contexts
    <3> HIDE DEF d
    <3>3. FirstKept(d)
      BY <1>1, <3>2 DEF FirstKept
    <3>4. CASE source = "memory"
      <4>1. MemoryAt(d, p + n)
        BY <1>1, <1>4, <3>2, <3>4 DEF Sound, At, MemoryAt
      <4> QED BY <2>0, <3>1, <3>2, <3>3, <3>4, <4>1 DEF Sound, At
    <3>5. CASE source = "file" /\ MoreAt(c, p)
      <4>1. \A ix \in 0..BufLen-1 : p + n + ix - (c.img_buffer + n) = p + ix - c.img_buffer
        BY <1>1
      <4>2. \A ix \in 0..BufLen-1 : d.img_buffer <= ix /\ ix < d.img_buffer_end =>
              d.buffer_start[ix] = Stream!Byte(p + n + ix - d.img_buffer)
        BY <1>1, <2>0, <3>2, <3>5, <4>1 DEF MoreAt
      <4>3. MoreAt(d, p + n)
        BY <1>1, <2>0, <2>2, <3>2, <3>5, <4>2 DEF MoreAt, Stream!Buffered
      <4> QED BY <2>0, <3>1, <3>2, <3>3, <3>5, <4>3 DEF Sound, At
    <3>6. CASE source = "file" /\ EndAt(c, p)
      <4>1. c.img_buffer = 0 /\ c.img_buffer_end = 1 /\ n = 1 /\ size = 0
        BY <1>1, <1>4, <2>2, <3>6 DEF EndAt, Stream!Buffered
      <4>2. EndAt(d, p + n)
        BY <1>1, <3>2, <3>6, <4>1 DEF EndAt
      <4> QED BY <2>0, <3>1, <3>2, <3>3, <3>6, <4>2 DEF Sound, At
    <3> QED BY <3>4, <3>5, <3>6 DEF Sound, At, Fixed
  <2> QED BY <2>1, <2>2
<1> QED BY <1>2, <1>3, <1>4

\* What is buffered, as a sequence.
LEMMA WindowIs ==
  ASSUME Stream!StreamAssumption, Fixed, NEW c, NEW p, Sound(c, p),
         NEW n \in Nat, n <= Stream!Buffered(c), size > 0,
         c.img_buffer + n <= c.img_buffer_end
  PROVE  Stream!Window(c, n) = Stream!Bytes(p, n) /\ (n > 0 => p + n <= size)
<1>1. /\ size \in Nat /\ p \in Nat /\ c \in Contexts /\ BufLen \in Nat
      /\ c.img_buffer \in Nat /\ c.img_buffer_end \in Nat /\ c.fpos \in Nat
  BY DEF Stream!StreamAssumption, Fixed, Contexts, Sound
<1>2. CASE n = 0
  BY <1>1, <1>2 DEF Stream!Window, Stream!Bytes
<1>3. CASE n > 0
  <2>1. ASSUME source = "memory"
        PROVE  p + n <= size /\ \A k \in 1..n : c.buffer_start[c.img_buffer + k - 1] = Stream!Byte(p + k - 1)
    <3>1. MemoryAt(c, p) /\ c.img_buffer < size
      BY <1>1, <1>3, <2>1 DEF Sound, At, MemoryAt
    <3>2. p = c.img_buffer /\ p + n <= size
      BY <1>1, <3>1 DEF MemoryAt
    <3>3. ASSUME NEW k \in 1..n PROVE c.buffer_start[c.img_buffer + k - 1] = Stream!Byte(p + k - 1)
      <4>1. p + k - 1 \in 0..size-1
        BY <1>1, <3>2
      <4>2. c.buffer_start[p + k - 1] = (p + k - 1) + 1
        BY <3>1, <4>1 DEF MemoryAt
      <4>3. Stream!Byte(p + k - 1) = (p + k - 1) + 1
        BY <1>1, <4>1, ByteIs
      <4> QED BY <3>2, <4>2, <4>3
    <3> QED BY <3>2, <3>3
  <2>2. ASSUME source = "file"
        PROVE  p + n <= size /\ \A k \in 1..n : c.buffer_start[c.img_buffer + k - 1] = Stream!Byte(p + k - 1)
    <3>1. MoreAt(c, p)
      BY <1>1, <1>3, <2>2 DEF Sound, At, EndAt
    <3>2. /\ c.fpos = p + (c.img_buffer_end - c.img_buffer) /\ c.img_buffer_end <= BufLen
          /\ c.fpos > size => c.img_buffer_end - c.img_buffer = 0
      BY <3>1 DEF MoreAt, Stream!Buffered
    <3>3. p + n <= size
      BY <1>1, <1>3, <3>2
    <3>4. ASSUME NEW k \in 1..n PROVE c.buffer_start[c.img_buffer + k - 1] = Stream!Byte(p + k - 1)
      <4> DEFINE ix == c.img_buffer + k - 1
      <4>1. ix \in 0..BufLen-1 /\ c.img_buffer <= ix /\ ix < c.img_buffer_end
              /\ p + ix - c.img_buffer = p + k - 1
        BY <1>1, <3>2
      <4> HIDE DEF ix
      <4>2. c.buffer_start[ix] = Stream!Byte(p + ix - c.img_buffer)
        BY <3>1, <4>1 DEF MoreAt
      <4> QED BY <4>1, <4>2 DEF ix
    <3> QED BY <3>3, <3>4
  <2> QED BY <2>1, <2>2 DEF Stream!Window, Stream!Bytes, Fixed
<1> QED BY <1>2, <1>3

\* A block is a sequence of numbers.
LEMMA BytesSeq ==
  ASSUME Fixed, NEW q \in Nat, NEW l \in Nat
  PROVE  /\ Stream!Bytes(q, l) \in Seq(Nat) /\ Len(Stream!Bytes(q, l)) = l
         /\ \A k \in 1..l : Stream!Bytes(q, l)[k] = Stream!Byte(q + k - 1)
<1>1. \A k \in 1..l : q + k - 1 \in Nat
  OBVIOUS
<1>2. \A k \in 1..l : Stream!Byte(q + k - 1) \in Nat
  BY <1>1, ByteIs DEF Fixed
<1>3. Stream!Bytes(q, l) \in [1..l -> Nat]
  BY <1>2, Zenon DEF Stream!Bytes
<1>4. \A k \in 1..l : Stream!Bytes(q, l)[k] = Stream!Byte(q + k - 1)
  BY Zenon DEF Stream!Bytes
<1> HIDE DEF Stream!Bytes
<1>5. Stream!Bytes(q, l) \in Seq(Nat) /\ Len(Stream!Bytes(q, l)) = l
  BY <1>3
<1> QED BY <1>4, <1>5

\* A block that is read in two parts.
LEMMA BytesJoin ==
  ASSUME Fixed, NEW p \in Nat, NEW m \in Nat, NEW n \in Nat
  PROVE  Stream!Bytes(p, m) \o Stream!Bytes(p + m, n) = Stream!Bytes(p, m + n)
<1>1. size \in Nat
  BY DEF Fixed
<1> DEFINE a == Stream!Bytes(p, m)
           bd == Stream!Bytes(p + m, n)
           z == Stream!Bytes(p, m + n)
<1>3. /\ a \in Seq(Nat) /\ Len(a) = m /\ \A k \in 1..m : a[k] = Stream!Byte(p + k - 1)
      /\ bd \in Seq(Nat) /\ Len(bd) = n /\ \A k \in 1..n : bd[k] = Stream!Byte((p + m) + k - 1)
      /\ z \in Seq(Nat) /\ Len(z) = m + n /\ \A k \in 1..(m + n) : z[k] = Stream!Byte(p + k - 1)
  <2>1. p + m \in Nat /\ m + n \in Nat
    OBVIOUS
  <2> QED BY <2>1, BytesSeq
<1> HIDE DEF a, bd, z
<1>4. /\ a \o bd \in Seq(Nat) /\ Len(a \o bd) = m + n
      /\ \A k \in 1..(m + n) : (a \o bd)[k] = IF k <= m THEN a[k] ELSE bd[k - m]
  BY <1>3, ConcatProperties
<1>5. ASSUME NEW k \in 1..(m + n) PROVE (a \o bd)[k] = z[k]
  <2>1. CASE k <= m
    BY <1>3, <1>4, <2>1
  <2>2. CASE ~(k <= m)
    <3>1. k - m \in 1..n /\ (p + m) + (k - m) - 1 = p + k - 1 /\ ~(k <= m)
      BY <2>2
    <3>2. (a \o bd)[k] = bd[k - m]
      BY <1>4, <3>1
    <3>3. bd[k - m] = Stream!Byte((p + m) + (k - m) - 1)
      BY <1>3, <3>1
    <3> QED BY <1>3, <3>1, <3>2, <3>3
  <2> QED BY <2>1, <2>2
<1>6. a \o bd = z
  BY <1>3, <1>4, <1>5, SeqEqual
<1> QED BY <1>6 DEF a, bd, z

\* stbi__getn returns the next n bytes, or fails where the image has no n bytes more.
LEMMA GetNSound ==
  ASSUME Stream!StreamAssumption, Fixed, size > 0, NEW c, NEW p, Sound(c, p), NEW n \in Nat
  PROVE  LET rx == Stream!GetN(c, n)
         IN  /\ rx.ok => rx.value = (IF p + n <= size THEN Stream!Bytes(p, n) ELSE <<>>)
             /\ ~rx.ok => (IF p + n <= size THEN Stream!Bytes(p, n) ELSE <<>>) = <<>>
             /\ Sound(rx.s, IF rx.ok THEN p + n ELSE IF source = "file" /\ p < size THEN size ELSE p)
<1> DEFINE rx == Stream!GetN(c, n)
           meant_ == IF p + n <= size THEN Stream!Bytes(p, n) ELSE <<>>
<1>1. /\ size \in Nat /\ p \in Nat /\ p + n \in Nat /\ c \in Contexts /\ FirstKept(c) /\ BufLen \in Nat
      /\ c.img_buffer \in Nat /\ c.img_buffer_end \in Nat /\ c.fpos \in Nat /\ c.original_end \in Nat
  BY DEF Stream!StreamAssumption, Fixed, Contexts, Sound
<1>2. Stream!Bytes(p, 0) = <<>>
  BY DEF Stream!Bytes
<1>3. CASE source = "file" /\ Stream!Buffered(c) < n
  <2> DEFINE bd == Stream!Buffered(c)
             rest == n - bd
             k == Stream!Count(c, rest)
             d == [Stream!Fread(c, rest) EXCEPT !.img_buffer = c.img_buffer_end]
  <2>1. /\ rx.ok <=> k = rest
        /\ rx.value = Stream!Window(c, bd) \o Stream!Bytes(c.fpos, k) /\ rx.s = d
    BY <1>3 DEF Stream!GetN
  <2>2. /\ bd \in Nat /\ rest \in Nat \ {0} /\ c.img_buffer + bd <= c.img_buffer_end /\ bd + rest = n
        /\ c.img_buffer_end - c.img_buffer = bd
    BY <1>1, <1>3 DEF Sound, At, MoreAt, EndAt, Stream!Buffered
  <2> HIDE DEF rest
  <2>3. /\ k \in 0..rest
        /\ c.fpos >= size => k = 0
        /\ c.fpos < size => c.fpos + k <= size
        /\ k = rest => c.fpos + rest <= size
        /\ c.fpos + rest <= size => k = rest
        /\ k < rest => c.fpos + k >= size
    BY <1>1, <2>2, CountIs
  <2>4. /\ Stream!Fread(c, rest) \in Contexts /\ Stream!Fread(c, rest).fpos = c.fpos + k
        /\ Stream!Fread(c, rest).feof <=> c.feof \/ k < rest
        /\ Stream!Fread(c, rest).img_buffer_end = c.img_buffer_end
        /\ Stream!Fread(c, rest).original_end = c.original_end
             /\ Stream!Fread(c, rest).buffer_start = c.buffer_start
        /\ Stream!Fread(c, rest).read_from_callbacks = c.read_from_callbacks
    BY <1>1, <2>2, FreadIs
  <2>5. /\ d \in Contexts /\ d.fpos = c.fpos + k /\ (d.feof <=> c.feof \/ k < rest)
        /\ d.img_buffer = c.img_buffer_end /\ d.img_buffer_end = c.img_buffer_end
        /\ d.original_end = c.original_end /\ d.buffer_start = c.buffer_start
        /\ d.read_from_callbacks = c.read_from_callbacks
    BY <1>1, <2>4 DEF Contexts
  <2> HIDE DEF d, bd, k
  <2>6. FirstKept(d)
    <3>1. CASE k = 0
      BY <1>1, <1>3, <2>5, <3>1 DEF FirstKept
    <3>2. CASE k # 0
      <4>0. first \in Nat /\ c.fpos >= first
        BY <1>1, <1>3 DEF FirstKept
      <4>1. d.fpos >= first /\ d.fpos # first
        BY <1>1, <2>2, <2>3, <2>5, <3>2, <4>0
      <4> QED BY <1>1, <1>3, <2>5, <4>1 DEF FirstKept
    <3> QED BY <3>1, <3>2
  <2>7. CASE MoreAt(c, p)
    <3>1. /\ c.fpos = p + bd /\ (c.fpos > size => bd = 0 /\ c.feof) /\ (c.feof => c.fpos >= size)
      BY <2>7 DEF MoreAt, bd
    <3>2. ASSUME NEW q \in Nat, d.fpos = q, d.feof => q >= size, q > size => d.feof
          PROVE  Sound(d, q)
      <4>1. d.fpos = q + (d.img_buffer_end - d.img_buffer) /\ d.img_buffer_end - d.img_buffer = 0
        BY <1>1, <2>5, <3>2
      <4>2. MoreAt(d, q)
        BY <1>1, <2>5, <2>7, <3>2, <4>1 DEF MoreAt, Stream!Buffered
      <4> QED BY <1>3, <2>5, <2>6, <3>2, <4>2 DEF Sound, At
    <3>3. CASE k = rest
      <4>1. c.fpos + rest <= size /\ c.fpos + rest = p + n
        BY <1>1, <2>2, <2>3, <3>1, <3>3
      <4>2. Stream!Window(c, bd) = Stream!Bytes(p, bd)
        BY <2>2, WindowIs DEF bd
      <4>3. rx.value = Stream!Bytes(p, n)
        <5>1. Stream!Bytes(p, bd) \o Stream!Bytes(p + bd, rest) = Stream!Bytes(p, bd + rest)
          <6>1. rest \in Nat /\ bd \in Nat
            BY <2>2
          <6> QED BY <1>1, <6>1, BytesJoin, Zenon
        <5> HIDE DEF rx
        <5> QED BY <2>1, <2>2, <3>1, <3>3, <4>2, <5>1
      <4>4. Sound(d, p + n)
        BY <1>1, <2>2, <2>3, <2>5, <3>1, <3>2, <3>3, <4>1
      <4> HIDE DEF rx
      <4> QED BY <2>1, <3>3, <4>1, <4>3, <4>4 DEF rx
    <3>4. CASE k # rest
      <4>1. /\ c.fpos + k >= size /\ ~(p + n <= size)
        BY <1>1, <2>2, <2>3, <3>1, <3>4
      <4>2. d.fpos = IF p < size THEN size ELSE p
        BY <1>1, <2>2, <2>3, <2>5, <3>1, <3>4, <4>1
      <4>3. d.feof
        BY <2>2, <2>3, <2>5, <3>4
      <4>4. Sound(d, IF p < size THEN size ELSE p)
        BY <1>1, <3>2, <4>2, <4>3
      <4> HIDE DEF rx
      <4> QED BY <1>3, <2>1, <3>4, <4>1, <4>4 DEF rx
    <3> QED BY <3>3, <3>4
  <2>8. CASE EndAt(c, p)
    <3>1. k = 0 /\ k # rest /\ c.fpos >= size /\ p >= size /\ p >= c.fpos /\ ~(p + n <= size)
      BY <1>1, <2>2, <2>3, <2>8 DEF EndAt
    <3>2. EndAt(d, p)
      BY <1>1, <2>5, <2>8, <3>1 DEF EndAt
    <3>3. Sound(d, p)
      BY <1>1, <1>3, <2>5, <2>6, <3>2 DEF Sound, At
    <3> HIDE DEF rx
    <3> QED BY <1>1, <2>1, <3>1, <3>3 DEF rx
  <2> QED BY <1>3, <2>7, <2>8 DEF Sound, At
<1>4. CASE ~(source = "file" /\ Stream!Buffered(c) < n) /\ Stream!Buffered(c) >= n
  <2> DEFINE d == [c EXCEPT !.img_buffer = @ + n]
  <2>1. rx.ok /\ rx.value = Stream!Window(c, n) /\ rx.s = d
    BY <1>4 DEF Stream!GetN
  <2>2. Stream!Buffered(c) \in Int /\ n <= Stream!Buffered(c) /\ c.img_buffer + n <= c.img_buffer_end
    BY <1>1, <1>4 DEF Stream!Buffered
  <2>3. Stream!Window(c, n) = Stream!Bytes(p, n) /\ (n > 0 => p + n <= size)
    BY <2>2, WindowIs
  <2>4. Stream!Window(c, n) = meant_
    BY <1>1, <1>2, <2>3
  <2>5. Stream!Skip(c, n) = d
    <3>1. CASE n = 0
      BY <1>1, <3>1 DEF Stream!Skip, Contexts
    <3>2. CASE n # 0
      BY <1>4, <3>2 DEF Stream!Skip
    <3> QED BY <3>1, <3>2
  <2>6. Sound(Stream!Skip(c, n), p + n)
    BY SkipSound
  <2> HIDE DEF rx, d
  <2> QED BY <2>1, <2>4, <2>5, <2>6 DEF rx
<1>5. CASE ~(source = "file" /\ Stream!Buffered(c) < n) /\ ~(Stream!Buffered(c) >= n)
  <2>1. ~rx.ok /\ rx.s = c
    BY <1>5 DEF Stream!GetN
  <2>2. source = "memory"
    BY <1>1, <1>5 DEF Fixed, Stream!Buffered
  <2>3. n = 0 \/ ~(p + n <= size)
    BY <1>1, <1>5, <2>2 DEF Sound, At, MemoryAt, Stream!Buffered
  <2>4. meant_ = <<>>
    BY <1>2, <2>3
  <2> HIDE DEF rx
  <2> QED BY <2>1, <2>2, <2>4 DEF rx
<1> QED BY <1>3, <1>4, <1>5

\* stbi__at_eof tells the end of the image.
LEMMA EofSound ==
  ASSUME Stream!StreamAssumption, Fixed, NEW c, NEW p, Sound(c, p)
  PROVE  (Stream!AtEof(c) => p >= size) /\ (p > size => Stream!AtEof(c))
<1>1. /\ size \in Nat /\ p \in Nat /\ c.img_buffer \in Nat /\ c.img_buffer_end \in Nat /\ c.fpos \in Nat
  BY DEF Fixed, Contexts, Sound
<1>2. CASE source = "memory"
  BY <1>1, <1>2 DEF Stream!AtEof, Sound, At, MemoryAt
<1>3. CASE source = "file" /\ MoreAt(c, p)
  <2>1. /\ c.read_from_callbacks /\ c.img_buffer <= c.img_buffer_end
        /\ c.fpos = p + (c.img_buffer_end - c.img_buffer)
        /\ c.feof => c.fpos >= size
        /\ c.fpos > size => c.feof /\ c.img_buffer_end - c.img_buffer = 0
    BY <1>3 DEF MoreAt, Stream!Buffered
  <2>2. Stream!AtEof(c) <=> c.feof /\ c.img_buffer >= c.img_buffer_end
    BY <1>3, <2>1 DEF Stream!AtEof
  <2> QED BY <1>1, <2>1, <2>2
<1>4. CASE source = "file" /\ EndAt(c, p)
  BY <1>1, <1>4 DEF Stream!AtEof, EndAt
<1> QED BY <1>2, <1>3, <1>4 DEF Fixed, Sound, At

\* A rewind leads back to the first byte, unless the file was read on.
LEMMA RewoundSound ==
  ASSUME Stream!StreamAssumption, Fixed, NEW c, NEW p, Sound(c, p),
         source = "file" => c.fpos = first /\ (c.read_from_callbacks \/ size = 0)
  PROVE  Sound(Stream!Rewound(c), 0)
<1> DEFINE d == Stream!Rewound(c)
<1>1. /\ size \in Nat /\ BufLen \in Nat \ {0} /\ c \in Contexts /\ FirstKept(c) /\ c.original_end \in Nat
      /\ c.fpos \in Nat
  BY DEF Stream!StreamAssumption, Fixed, Contexts, Sound
<1>2. /\ d \in Contexts /\ d.img_buffer = 0 /\ d.img_buffer_end = c.original_end
      /\ d.original_end = c.original_end /\ d.read_from_callbacks = c.read_from_callbacks
      /\ d.buffer_start = c.buffer_start /\ d.fpos = c.fpos /\ d.feof = c.feof
  BY <1>1 DEF Stream!Rewound, Contexts
<1> HIDE DEF d
<1>3. FirstKept(d)
  BY <1>1, <1>2 DEF FirstKept
<1>4. CASE source = "memory"
  <2>1. MemoryAt(c, p) /\ c.original_end = size
    BY <1>1, <1>4 DEF Sound, At, FirstKept
  <2>2. MemoryAt(d, 0)
    BY <1>1, <1>2, <2>1 DEF MemoryAt
  <2> QED BY <1>2, <1>3, <1>4, <2>2 DEF Sound, At, d
<1>5. CASE source = "file"
  <2>1. /\ first = (IF size < BufLen THEN size ELSE BufLen)
        /\ c.original_end = (IF size = 0 THEN 1 ELSE first)
        /\ \A ix \in 0..BufLen-1 : ix < c.original_end => c.buffer_start[ix] = Stream!Byte(ix)
    BY <1>1, <1>5 DEF FirstKept
  <2>2. CASE size = 0
    <3>1. EndAt(c, p) /\ c.original_end = 1 /\ 0 \in 0..BufLen-1 /\ Stream!Byte(0) = 0
      BY <1>1, <1>5, <2>1, <2>2, ByteIs DEF Sound, At, MoreAt
    <3>2. d.buffer_start[0] = 0
      BY <1>2, <2>1, <3>1
    <3>3. EndAt(d, 0)
      BY <1>1, <1>2, <1>5, <2>1, <2>2, <3>1, <3>2 DEF EndAt
    <3> QED BY <1>2, <1>3, <1>5, <3>3 DEF Sound, At, d
  <2>3. CASE size # 0
    <3>1. MoreAt(c, p) /\ c.original_end = first /\ first \in Nat /\ first <= size /\ first <= BufLen
      BY <1>1, <1>5, <2>1, <2>3 DEF Sound, At, EndAt
    <3>2. \A ix \in 0..BufLen-1 : 0 + ix - 0 = ix
      OBVIOUS
    <3>3. \A ix \in 0..BufLen-1 : d.img_buffer <= ix /\ ix < d.img_buffer_end =>
            d.buffer_start[ix] = Stream!Byte(0 + ix - d.img_buffer)
      BY <1>2, <2>1, <3>2
    <3>4. d.fpos = 0 + (d.img_buffer_end - d.img_buffer)
      BY <1>1, <1>2, <1>5, <3>1
    <3>5. MoreAt(d, 0)
      BY <1>1, <1>2, <1>5, <3>1, <3>3, <3>4 DEF MoreAt, Stream!Buffered
    <3> QED BY <1>2, <1>3, <1>5, <3>5 DEF Sound, At, d
  <2> QED BY <2>2, <2>3
<1> QED BY <1>4, <1>5 DEF Fixed

\* stbi__start_mem and stbi__start_file begin at the first byte.
LEMMA StartSound ==
  ASSUME Stream!StreamAssumption, Stream!Init
  PROVE  Fixed /\ Sound(s, 0)
<1>1. Fixed /\ size \in Nat /\ BufLen \in Nat \ {0} /\ first = s.fpos /\ 0 \in Nat
  BY DEF Stream!Init, Stream!StreamAssumption, Fixed
<1>2. CASE source = "memory"
  <2> DEFINE bd == [ix \in 0..size-1 |-> ix + 1]
  <2>1. bd \in [0..size-1 -> Nat] /\ \A ix \in 0..size-1 : bd[ix] = ix + 1
    BY <1>1
  <2>2. s = Stream!StartMem
    BY <1>2 DEF Stream!Init
  <2> HIDE DEF bd
  <2>3. s = [img_buffer |-> 0, img_buffer_end |-> size, original_end |-> size,
             read_from_callbacks |-> FALSE, buffer_start |-> bd, fpos |-> 0, feof |-> FALSE]
    BY <2>2 DEF Stream!StartMem, Stream!Blank, bd
  <2>4. s \in Contexts /\ FirstKept(s)
    BY <1>1, <1>2, <2>1, <2>3 DEF Contexts, Buffers, FirstKept
  <2>5. MemoryAt(s, 0)
    BY <1>1, <2>1, <2>3 DEF MemoryAt
  <2> QED BY <1>1, <1>2, <2>4, <2>5 DEF Sound, At
<1>3. CASE source = "file"
  <2> DEFINE bd == [Stream!Blank EXCEPT !.read_from_callbacks = TRUE]
             c == Stream!RefillBuffer(bd)
             n == Stream!Count(bd, BufLen)
             z == [ix \in 0..BufLen-1 |-> 0]
  <2>0. z \in [0..BufLen-1 -> Nat]
    OBVIOUS
  <2>1. bd \in Contexts /\ bd.fpos = 0 /\ bd.read_from_callbacks = TRUE /\ bd.feof = FALSE
    <3>1. Stream!Blank = [img_buffer |-> 0, img_buffer_end |-> 0, original_end |-> 0,
            read_from_callbacks |-> FALSE,
                   buffer_start |-> z, fpos |-> 0, feof |-> FALSE]
      BY DEF Stream!Blank
    <3> HIDE DEF z
    <3>2. Stream!Blank \in Contexts /\ Stream!Blank.fpos = 0 /\ Stream!Blank.feof = FALSE
      BY <1>1, <1>3, <2>0, <3>1 DEF Contexts, Buffers
    <3> QED BY <3>2 DEF Contexts, bd
  <2>2. s = [c EXCEPT !.original_end = c.img_buffer_end]
    BY <1>3 DEF Stream!Init, Stream!StartCallbacks
  <2> HIDE DEF bd
  <2>3. /\ c \in Contexts /\ c.fpos = 0 + n /\ (c.feof <=> n < BufLen) /\ c.img_buffer = 0
        /\ n = 0 => /\ c.read_from_callbacks = FALSE /\ c.img_buffer_end = 1
                    /\ c.buffer_start[0] = 0
        /\ n # 0 => /\ c.read_from_callbacks = TRUE /\ c.img_buffer_end = n
                    /\ \A ix \in 0..BufLen-1 : ix < n => c.buffer_start[ix] = Stream!Byte(0 + ix)
    BY <1>1, <1>3, <2>1, RefillIs
  <2>4. n \in 0..BufLen /\ n = (IF size < BufLen THEN size ELSE BufLen)
    <3>1. /\ n \in 0..BufLen
          /\ 0 >= size => n = 0
          /\ 0 < size => 0 + n <= size
          /\ n < BufLen => 0 + n >= size
      BY <1>1, <2>1, CountIs
    <3> HIDE DEF n
    <3> QED BY <1>1, <3>1
  <2> HIDE DEF c, n
  <2>5. /\ s \in Contexts /\ s.fpos = n /\ (s.feof <=> n < BufLen) /\ s.img_buffer = 0
        /\ s.img_buffer_end = c.img_buffer_end /\ s.original_end = c.img_buffer_end
        /\ s.read_from_callbacks = c.read_from_callbacks /\ s.buffer_start = c.buffer_start
    <3>1. c.img_buffer_end \in Nat /\ 0 + n = n
      BY <2>3, <2>4 DEF Contexts
    <3> QED BY <2>2, <2>3, <3>1 DEF Contexts
  <2>6. \A ix \in 0..BufLen-1 : 0 + ix = ix /\ 0 + ix - 0 = ix
    OBVIOUS
  <2>7. CASE n = 0
    <3>1. size = 0 /\ Stream!Byte(0) = 0 /\ \A ix \in Nat : ix < 1 => ix = 0
      BY <1>1, <2>4, <2>7, ByteIs
    <3>2. EndAt(s, 0)
      BY <1>1, <2>3, <2>5, <2>7, <3>1 DEF EndAt
    <3>3. FirstKept(s)
      BY <1>1, <1>3, <2>3, <2>5, <2>7, <3>1 DEF FirstKept
    <3> QED BY <1>1, <1>3, <2>5, <3>2, <3>3 DEF Sound, At
  <2>8. CASE n # 0
    <3>1. size # 0 /\ n <= size /\ n <= BufLen /\ n \in Nat /\ (n < BufLen => n = size)
      BY <1>1, <2>4, <2>8
    <3>2. \A ix \in 0..BufLen-1 : ix < n => s.buffer_start[ix] = Stream!Byte(ix)
      BY <2>3, <2>5, <2>6, <2>8
    <3>3. MoreAt(s, 0)
      BY <1>1, <2>3, <2>5, <2>6, <2>8, <3>1, <3>2 DEF MoreAt, Stream!Buffered
    <3>4. FirstKept(s)
      BY <1>1, <1>3, <2>3, <2>4, <2>5, <2>8, <3>1, <3>2 DEF FirstKept
    <3> QED BY <1>1, <1>3, <2>5, <3>3, <3>4 DEF Sound, At
  <2> QED BY <2>7, <2>8
<1> QED BY <1>1, <1>2, <1>3 DEF Fixed

----------------------------------------------------------------------------
(* The theorems *)

\* What is known of a context is known for as long as the image is the same.
LEMMA SoundFixed ==
  ASSUME UNCHANGED <<source, size, first>>, NEW c, NEW p
  PROVE  Sound(c, p)' <=> Sound(c, p)
<1>1. \A q : Stream!Byte(q)' = Stream!Byte(q)
  BY DEF Stream!Byte
<1>2. Contexts' = Contexts
  BY DEF Contexts, Buffers
<1>3. MemoryAt(c, p)' <=> MemoryAt(c, p)
  BY DEF MemoryAt
<1>4. MoreAt(c, p)' <=> MoreAt(c, p)
  BY <1>1 DEF MoreAt, Stream!Buffered
<1>5. EndAt(c, p)' <=> EndAt(c, p)
  BY DEF EndAt
<1>6. FirstKept(c)' <=> FirstKept(c)
  BY <1>1 DEF FirstKept
<1> QED BY <1>2, <1>3, <1>4, <1>5, <1>6 DEF Sound, At

\* Every step keeps the invariant.
LEMMA NextInv ==
  ASSUME Stream!StreamAssumption, Inv, [Stream!Next]_Stream!vars
  PROVE  Inv'
<1>0. Fixed
  BY DEF Inv
\* A call of a decoder.
<1>1. ASSUME UNCHANGED <<source, size, first, pc, spoiled>>, pc # "closed",
             ~spoiled => got' = meant' /\ Sound(s', pos')
      PROVE  Inv'
  <2>1. Fixed'
    BY <1>0, <1>1 DEF Fixed
  <2>2. ~spoiled => Sound(s, pos)'
    BY <1>1, SoundFixed
  <2> QED BY <1>1, <2>1, <2>2 DEF Inv
<1>2. ASSUME pc # "closed", ~spoiled PROVE Sound(s, pos)
  BY <1>2 DEF Inv
<1>3. CASE Stream!ReadByte
  <2>1. /\ UNCHANGED <<source, size, first, pc, spoiled>> /\ pc # "closed"
        /\ s' = Stream!Get8(s).s /\ got' = <<Stream!Get8(s).value>> /\ meant' = <<Stream!Byte(pos)>>
             /\ pos' = pos + 1
    BY <1>3 DEF Stream!ReadByte, Stream!Read, Stream!Call
  <2>2. ASSUME ~spoiled PROVE got' = meant' /\ Sound(s', pos')
    <3>1. Stream!Get8(s).value = Stream!Byte(pos) /\ Sound(Stream!Get8(s).s, pos + 1)
      BY <1>0, <1>2, <2>1, <2>2, Get8Sound
    <3> QED BY <2>1, <3>1
  <2> QED BY <1>1, <2>1, <2>2
<1>4. CASE Stream!ReadWord
  <2> DEFINE bd == Stream!Bytes(pos, 4)
             v == 256 * bd[1] + bd[2]
             w == 256 * bd[2] + bd[1]
             x == ((bd[1] * 256 + bd[2]) * 256 + bd[3]) * 256 + bd[4]
             y == ((bd[4] * 256 + bd[3]) * 256 + bd[2]) * 256 + bd[1]
  <2>1. UNCHANGED <<source, size, first, pc, spoiled>> /\ pc # "closed"
    BY <1>4 DEF Stream!ReadWord, Stream!Read, Stream!Call
  <2>2. \/ s' = Stream!Get16be(s).s /\ got' = <<Stream!Get16be(s).value>> /\ meant' = <<v>> /\ pos' = pos + 2
        \/ s' = Stream!Get16le(s).s /\ got' = <<Stream!Get16le(s).value>> /\ meant' = <<w>> /\ pos' = pos + 2
        \/ s' = Stream!Get32be(s).s /\ got' = <<Stream!Get32be(s).value>> /\ meant' = <<x>> /\ pos' = pos + 4
        \/ s' = Stream!Get32le(s).s /\ got' = <<Stream!Get32le(s).value>> /\ meant' = <<y>> /\ pos' = pos + 4
    BY <1>4 DEF Stream!ReadWord, Stream!Read
  <2>3. ASSUME ~spoiled PROVE got' = meant' /\ Sound(s', pos')
    <3>1. /\ Stream!Get16be(s).value = v /\ Sound(Stream!Get16be(s).s, pos + 2)
          /\ Stream!Get16le(s).value = w /\ Sound(Stream!Get16le(s).s, pos + 2)
          /\ Stream!Get32be(s).value = x /\ Sound(Stream!Get32be(s).s, pos + 4)
          /\ Stream!Get32le(s).value = y /\ Sound(Stream!Get32le(s).s, pos + 4)
      BY <1>0, <1>2, <2>1, <2>3, WordsSound
    <3> HIDE DEF v, w, x, y
    <3> QED BY <2>2, <3>1
  <2> QED BY <1>1, <2>1, <2>3
<1>5. ASSUME NEW n \in Counts, Stream!SkipBytes(n) PROVE Inv'
  <2>1. /\ UNCHANGED <<source, size, first, pc, spoiled, got, meant>> /\ pc # "closed"
        /\ (n < 0 => pc = "load") /\ s' = Stream!Skip(s, n) /\ n \in Int
        /\ pos' = IF n >= 0 THEN pos + n ELSE IF source = "file" THEN s.fpos ELSE size
    BY <1>5 DEF Stream!SkipBytes, Stream!Call, Stream!StreamAssumption
  <2>2. ASSUME ~spoiled PROVE got' = meant' /\ Sound(s', pos')
    <3>1. Sound(Stream!Skip(s, n), IF n >= 0 THEN pos + n ELSE IF source = "file" THEN s.fpos ELSE size)
      BY <1>0, <1>2, <2>1, <2>2, SkipSound
    <3> QED BY <2>1, <2>2, <3>1 DEF Inv
  <2> QED BY <1>1, <2>1, <2>2
<1>6. ASSUME NEW n \in Counts, Stream!ReadBlock(n) PROVE Inv'
  <2> DEFINE rx == Stream!GetN(s, n)
  <2>1. /\ UNCHANGED <<source, size, first, pc, spoiled>> /\ pc = "load" /\ n >= 0
        /\ s' = rx.s /\ got' = (IF rx.ok THEN rx.value ELSE <<>>)
        /\ meant' = (IF pos + n <= size THEN Stream!Bytes(pos, n) ELSE <<>>)
        /\ pos' = (IF rx.ok THEN pos + n ELSE IF source = "file" /\ pos < size THEN size ELSE pos)
    BY <1>6 DEF Stream!ReadBlock, Stream!Call
  <2>3. n \in Nat
    <3>1. n \in Int
      BY Stream!StreamAssumption DEF Stream!StreamAssumption
    <3> QED BY <2>1, <3>1
  <2>4. size > 0
    BY <1>0, <2>1 DEF Fixed
  <2>2. ASSUME ~spoiled PROVE got' = meant' /\ Sound(s', pos')
    <3>1. /\ rx.ok => rx.value = (IF pos + n <= size THEN Stream!Bytes(pos, n) ELSE <<>>)
          /\ ~rx.ok => (IF pos + n <= size THEN Stream!Bytes(pos, n) ELSE <<>>) = <<>>
          /\ Sound(rx.s, IF rx.ok THEN pos + n ELSE IF source = "file" /\ pos < size THEN size ELSE pos)
      BY <1>0, <1>2, <2>1, <2>2, <2>3, <2>4, GetNSound
    <3> HIDE DEF rx
    <3> QED BY <2>1, <3>1
  <2> QED BY <1>1, <2>1, <2>2
<1>7. CASE Stream!Rewind
  <2>1. /\ UNCHANGED <<source, size, first, got, meant>> /\ pc = "test" /\ s' = Stream!Rewound(s) /\ pos' = 0
        /\ pc' = "test" \/ (pc' = "load" /\ size > 0)
        /\ ~spoiled' =>
             ~spoiled /\ (source = "file" => s.fpos = first /\ (s.read_from_callbacks \/ ~(size > 0)))
    BY <1>7 DEF Stream!Rewind
  <2>2. Fixed'
    BY <1>0, <2>1 DEF Fixed
  <2>3. ASSUME ~spoiled' PROVE got' = meant' /\ Sound(s, pos)'
    <3>1. Sound(s, pos) /\ got = meant
      BY <2>1, <2>3 DEF Inv
    <3>2. source = "file" => s.fpos = first /\ (s.read_from_callbacks \/ size = 0)
      BY <1>0, <2>1, <2>3 DEF Fixed
    <3>3. Sound(Stream!Rewound(s), 0)
      BY <1>0, <3>1, <3>2, RewoundSound
    <3> QED BY <2>1, <3>1, <3>3, SoundFixed
  <2> QED BY <2>1, <2>2, <2>3 DEF Inv
<1>8. CASE Stream!Unget
  <2>1. /\ UNCHANGED <<source, size, pos, got, meant, spoiled, first>> /\ pc = "load" /\ pc' = "closed"
        /\ source = "file"
        /\ s' = [s EXCEPT !.fpos = IF @ < Stream!Buffered(s) THEN @ ELSE @ - Stream!Buffered(s),
                           !.feof = FALSE]
    BY <1>8 DEF Stream!Unget
  <2>2. Fixed'
    BY <1>0, <2>1 DEF Fixed
  <2>3. ASSUME ~spoiled, pos <= size PROVE s'.fpos = pos
    <3>1. /\ s \in Contexts /\ pos \in Nat /\ size \in Nat /\ size > 0
          /\ s.img_buffer \in Nat /\ s.img_buffer_end \in Nat /\ s.fpos \in Nat
          /\ MoreAt(s, pos) \/ EndAt(s, pos)
      BY <1>0, <2>1, <2>3 DEF Inv, Fixed, Sound, At, Contexts
    <3>2. s'.fpos = IF s.fpos < Stream!Buffered(s) THEN s.fpos ELSE s.fpos - Stream!Buffered(s)
      BY <2>1, <3>1 DEF Contexts
    <3>3. CASE MoreAt(s, pos)
      BY <3>1, <3>2, <3>3 DEF MoreAt, Stream!Buffered
    <3>4. CASE EndAt(s, pos)
      BY <2>3, <3>1, <3>2, <3>4 DEF EndAt, Stream!Buffered
    <3> QED BY <3>1, <3>3, <3>4
  <2> QED BY <2>1, <2>2, <2>3 DEF Inv
<1>9. CASE UNCHANGED Stream!vars
  <2>1. UNCHANGED <<source, size, first, s, pos, got, meant, pc, spoiled>>
    BY <1>9 DEF Stream!vars
  <2>2. Sound(s, pos) => Sound(s, pos)'
    BY <2>1, SoundFixed
  <2>3. Fixed'
    BY <1>0, <2>1 DEF Fixed
  <2> QED BY <2>1, <2>2, <2>3 DEF Inv
<1> QED BY <1>3, <1>4, <1>5, <1>6, <1>7, <1>8, <1>9 DEF Stream!Next

\* The invariant holds in every state of the stream.
THEOREM Invariance == ASSUME Stream!StreamAssumption PROVE Stream!Spec => []Inv
<1>1. Stream!Init => Inv
  BY StartSound DEF Stream!Init, Inv
<1>2. Inv /\ [Stream!Next]_Stream!vars => Inv'
  BY NextInv
<1> QED BY <1>1, <1>2, PTL DEF Stream!Spec

\* The decoders see the image byte for byte, for a buffer and an image of any length and
\* any mix of stbi__get8 and its larger forms, stbi__skip and stbi__getn; stbi__at_eof
\* tells the end; and stbi_load_from_file gives the file back behind the image.
THEOREM StreamReadsExact == ASSUME Stream!StreamAssumption PROVE Stream!Spec => []Stream!StreamExact
<1>1. Inv => Stream!StreamExact
  BY EofSound DEF Inv, Stream!StreamExact
<1> QED BY <1>1, Invariance, PTL

-----------------------------------------------------------------------------
(* ImageSizes: ints and shorts of every width.                             *)

\* The comparison with a quotient that the checks use instead of a product
\* (lines 1018-1019 and 1081-1083).
LEMMA QuotientBounds ==
    ASSUME NEW a \in Int, NEW bd \in Nat, bd > 0, NEW c \in Int
    PROVE  (a <= c \div bd) <=> (a * bd <= c)
<1> DEFINE q == c \div bd
           sum == c % bd
<1>1. q \in Int /\ sum \in 0..bd-1 /\ c = bd * q + sum
  BY SMT
<1>2. ASSUME a <= q PROVE a * bd <= c
  <2>1. a * bd <= q * bd
    BY <1>1, <1>2, SMT
  <2> QED
    BY <1>1, <2>1, SMT
<1>3. ASSUME ~(a <= q) PROVE ~(a * bd <= c)
  <2> HIDE DEF q, sum
  <2>1. a >= q + 1
    BY <1>1, <1>3
  <2>2. a * bd >= (q + 1) * bd
    BY <1>1, <2>1, SMT
  <2>3. (q + 1) * bd = bd * q + bd
    BY <1>1, SMT
  <2> QED
    BY <1>1, <2>2, <2>3, SMT
<1> QED
  BY <1>2, <1>3

\* stbi__mul2sizes_valid: no negative factor, and a product that is an int.
LEMMA Mul2Exact ==
    ASSUME Size!SizesAssumption, NEW a \in Int, NEW bd \in Int
    PROVE  Size!Mul2SizesValid(a, bd) <=> a >= 0 /\ bd >= 0 /\ a * bd <= SmallInt
<1>1. CASE bd < 0
  BY <1>1 DEF Size!Mul2SizesValid
<1>2. CASE bd = 0
  BY <1>2 DEF Size!Mul2SizesValid, Size!SizesAssumption
<1>3. CASE bd > 0
  BY <1>3, QuotientBounds DEF Size!Mul2SizesValid, Size!SizesAssumption
<1> QED
  BY <1>1, <1>2, <1>3

\* stbi__addsizes_valid, for a first term that is not negative.
LEMMA AddExact ==
    ASSUME Size!SizesAssumption, NEW a \in Int, NEW bd \in Int, a >= 0
    PROVE  Size!AddSizesValid(a, bd) <=> bd >= 0 /\ a + bd <= SmallInt
BY DEF Size!AddSizesValid, Size!SizesAssumption

\* The product of ints is one, and not negative if they are not.
LEMMA Products ==
    ASSUME NEW a \in Int, NEW bd \in Int
    PROVE  a * bd \in Int /\ (a >= 0 /\ bd >= 0 => a * bd >= 0)
BY SMT

\* stbi__malloc_mad2 asks for memory exactly when both factors and the term
\* are not negative and the size is an int.
LEMMA Mad2Exact ==
    ASSUME Size!SizesAssumption, NEW a \in Int, NEW bd \in Int, NEW add \in Int
    PROVE  Size!Mad2SizesValid(a, bd, add) <=>
             /\ a >= 0 /\ bd >= 0 /\ add >= 0
             /\ a * bd <= SmallInt /\ a * bd + add <= SmallInt
<1> DEFINE ab == a * bd
<1>1. ab \in Int /\ (a >= 0 /\ bd >= 0 => ab >= 0)
  BY Products
<1>2. Size!Mul2SizesValid(a, bd) <=> a >= 0 /\ bd >= 0 /\ ab <= SmallInt
  BY Mul2Exact
<1>3. Size!Mad2SizesValid(a, bd, add) <=> Size!Mul2SizesValid(a, bd) /\ Size!AddSizesValid(ab, add)
  BY DEF Size!Mad2SizesValid
<1> HIDE DEF ab
<1>4. ab >= 0 => (Size!AddSizesValid(ab, add) <=> add >= 0 /\ ab + add <= SmallInt)
  BY <1>1, AddExact
<1>5. Size!Mad2SizesValid(a, bd, add) <=>
        /\ a >= 0 /\ bd >= 0 /\ add >= 0
        /\ ab <= SmallInt /\ ab + add <= SmallInt
  BY <1>1, <1>2, <1>3, <1>4
<1> QED
  BY <1>5 DEF ab

\* stbi__malloc_mad3, the same with three factors.
LEMMA Mad3Exact ==
    ASSUME Size!SizesAssumption, NEW a \in Int, NEW bd \in Int, NEW c \in Int, NEW add \in Int
    PROVE  Size!Mad3SizesValid(a, bd, c, add) <=>
             /\ a >= 0 /\ bd >= 0 /\ c >= 0 /\ add >= 0
             /\ a * bd <= SmallInt /\ a * bd * c <= SmallInt
             /\ a * bd * c + add <= SmallInt
<1> DEFINE ab == a * bd
<1>1. ab \in Int /\ (a >= 0 /\ bd >= 0 => ab >= 0)
  BY Products
<1>2. Size!Mul2SizesValid(a, bd) <=> a >= 0 /\ bd >= 0 /\ ab <= SmallInt
  BY Mul2Exact
<1>3. Size!Mad3SizesValid(a, bd, c, add) <=> Size!Mul2SizesValid(a, bd) /\ Size!Mad2SizesValid(ab, c, add)
  BY DEF Size!Mad3SizesValid, Size!Mad2SizesValid
<1> HIDE DEF ab
<1>4. Size!Mad2SizesValid(ab, c, add) <=>
        /\ ab >= 0 /\ c >= 0 /\ add >= 0
        /\ ab * c <= SmallInt /\ ab * c + add <= SmallInt
  BY <1>1, Mad2Exact
<1>5. Size!Mad3SizesValid(a, bd, c, add) <=>
        /\ a >= 0 /\ bd >= 0 /\ c >= 0 /\ add >= 0
        /\ ab <= SmallInt /\ ab * c <= SmallInt /\ ab * c + add <= SmallInt
  BY <1>1, <1>2, <1>3, <1>4
<1> QED
  BY <1>5 DEF ab

\* stbi__malloc_mad4, the same with four.
LEMMA Mad4Exact ==
    ASSUME Size!SizesAssumption, NEW a \in Int, NEW bd \in Int, NEW c \in Int, NEW d \in Int, NEW add \in Int
    PROVE  Size!Mad4SizesValid(a, bd, c, d, add) <=>
              /\ a >= 0 /\ bd >= 0 /\ c >= 0 /\ d >= 0 /\ add >= 0
              /\ a * bd <= SmallInt /\ a * bd * c <= SmallInt
              /\ a * bd * c * d <= SmallInt /\ a * bd * c * d + add <= SmallInt
<1> DEFINE ab == a * bd
<1>1. ab \in Int /\ (a >= 0 /\ bd >= 0 => ab >= 0)
  BY Products
<1>2. Size!Mul2SizesValid(a, bd) <=> a >= 0 /\ bd >= 0 /\ ab <= SmallInt
  BY Mul2Exact
<1>3. Size!Mad4SizesValid(a, bd, c, d, add) <=> Size!Mul2SizesValid(a, bd)
        /\ Size!Mad3SizesValid(ab, c, d, add)
  BY DEF Size!Mad4SizesValid, Size!Mad3SizesValid
<1> HIDE DEF ab
<1>4. Size!Mad3SizesValid(ab, c, d, add) <=>
        /\ ab >= 0 /\ c >= 0 /\ d >= 0 /\ add >= 0
        /\ ab * c <= SmallInt /\ ab * c * d <= SmallInt
        /\ ab * c * d + add <= SmallInt
  BY <1>1, Mad3Exact
<1>5. Size!Mad4SizesValid(a, bd, c, d, add) <=>
         /\ a >= 0 /\ bd >= 0 /\ c >= 0 /\ d >= 0 /\ add >= 0
         /\ ab <= SmallInt /\ ab * c <= SmallInt /\ ab * c * d <= SmallInt /\ ab * c * d + add <= SmallInt
  BY <1>1, <1>2, <1>3, <1>4
<1> QED
  BY <1>5 DEF ab

\* stbi__addints_valid: the sum of two ints is one.
LEMMA AddIntsExact ==
    ASSUME Size!SizesAssumption, NEW a \in Size!IntMin..SmallInt, NEW bd \in Size!IntMin..SmallInt
    PROVE  Size!AddIntsValid(a, bd) <=> Size!InInt(a + bd)
BY DEF Size!AddIntsValid, Size!InInt, Size!IntMin, Size!SizesAssumption

\* stbi__mul2shorts_valid, for a second factor that is not negative, as the
\* quantizers and the powers of two are that it is called with.
LEMMA Mul2ShortsExact ==
    ASSUME Size!SizesAssumption, NEW a \in Int, NEW bd \in Int, bd >= 0
    PROVE  Size!Mul2ShortsValid(a, bd) <=> a * bd \in Size!ShortMin..SmallShort
<1>1. CASE bd = 0
  BY <1>1 DEF Size!Mul2ShortsValid, Size!ShortMin, Size!SizesAssumption
<1>2. CASE bd > 0
  <2> DEFINE p == a * bd
  <2>1. p \in Int /\ (a >= 0 => p >= 0) /\ (a < 0 => p < 0)
    BY <1>2, SMT
  <2>2. CASE a >= 0
    <3>1. Size!Mul2ShortsValid(a, bd) <=> a <= SmallShort \div bd
      BY <1>2, <2>2 DEF Size!Mul2ShortsValid, Size!Quotient, Size!SizesAssumption
    <3>2. Size!Mul2ShortsValid(a, bd) <=> p <= SmallShort
      BY <1>2, <3>1, QuotientBounds DEF Size!SizesAssumption
    <3> QED
      BY <2>1, <2>2, <3>2 DEF Size!ShortMin, Size!SizesAssumption
  <2>3. CASE a < 0
    <3> DEFINE m == -Size!ShortMin
    <3>1. m \in Nat /\ Size!ShortMin \in Int /\ Size!ShortMin < 0 /\ -Size!ShortMin = m
      BY DEF Size!ShortMin, Size!SizesAssumption
    <3>2. Size!Quotient(Size!ShortMin, bd) = -(m \div bd)
      BY <1>2, <3>1 DEF Size!Quotient
    <3> HIDE DEF m
    <3>3. m \div bd \in Int
      BY <1>2, <3>1
    <3>4. Size!Mul2ShortsValid(a, bd) <=> a >= -(m \div bd)
      BY <1>2, <2>3, <3>2 DEF Size!Mul2ShortsValid
    <3>5. Size!Mul2ShortsValid(a, bd) <=> -a <= m \div bd
      BY <3>3, <3>4
    <3>6. Size!Mul2ShortsValid(a, bd) <=> (-a) * bd <= m
      BY <1>2, <3>1, <3>5, QuotientBounds
    <3>7. (-a) * bd = -p
      BY SMT
    <3>8. Size!ShortMin \in Int /\ SmallShort \in Nat
      BY DEF Size!ShortMin, Size!SizesAssumption
    <3> HIDE DEF p
    <3> QED
      BY <2>1, <2>3, <3>1, <3>6, <3>7, <3>8
  <2> QED
    BY <2>2, <2>3
<1> QED
  BY <1>1, <1>2

-----------------------------------------------------------------------------
\* The calls of the program.
Calls == [f : {"addsizes", "mad2", "mad3", "mad4", "addints", "mul2shorts"},
          a : Args, b : Args, c : Args, add : Args]

\* Every function answers every call as it should.
LEMMA AnswerRight ==
    ASSUME Size!SizesAssumption, NEW x \in Calls
    PROVE  Size!RightAnswer(x, Size!Answer(x))
<1>1. /\ x.a \in Size!IntMin..SmallInt /\ x.b \in Size!IntMin..SmallInt
      /\ x.c \in Size!IntMin..SmallInt /\ x.add \in Size!IntMin..SmallInt
  BY DEF Calls, Size!SizesAssumption, Size!IntMin
<1>2. x.a \in Int /\ x.b \in Int /\ x.c \in Int /\ x.add \in Int /\ SmallInt \in Nat
  BY <1>1 DEF Size!IntMin, Size!SizesAssumption
<1>3. x.f \in {"addsizes", "mad2", "mad3", "mad4", "addints", "mul2shorts"}
  BY DEF Calls
<1>4. CASE x.f = "addsizes"
  <2>1. x.a >= 0 => (Size!AddSizesValid(x.a, x.b) <=> x.b >= 0 /\ Size!InInt(x.a + x.b))
    BY <1>2, AddExact DEF Size!InInt, Size!IntMin
  <2> QED
    BY <1>4, <2>1 DEF Size!RightAnswer, Size!Answer
<1>5. CASE x.f = "mad2"
  <2>1. Size!Answer(x) <=> Size!Mad2SizesValid(x.a, x.b, x.add)
    BY <1>5 DEF Size!Answer, Size!MallocMad2
  <2>2. x.a * x.b \in Int /\ (x.a >= 0 /\ x.b >= 0 => x.a * x.b >= 0)
    BY <1>2, Products
  <2>3. Size!Mad2SizesValid(x.a, x.b, x.add) <=>
           /\ x.a >= 0 /\ x.b >= 0 /\ x.add >= 0
           /\ Size!InInt(x.a * x.b) /\ Size!InInt(x.a * x.b + x.add)
    <3> DEFINE ab == x.a * x.b
    <3>1. Size!Mad2SizesValid(x.a, x.b, x.add) <=>
            /\ x.a >= 0 /\ x.b >= 0 /\ x.add >= 0
            /\ ab <= SmallInt /\ ab + x.add <= SmallInt
      BY <1>2, Mad2Exact
    <3>2. ab \in Int /\ (x.a >= 0 /\ x.b >= 0 => ab >= 0)
      BY <2>2
    <3> HIDE DEF ab
    <3>3. Size!Mad2SizesValid(x.a, x.b, x.add) <=>
            /\ x.a >= 0 /\ x.b >= 0 /\ x.add >= 0
            /\ Size!InInt(ab) /\ Size!InInt(ab + x.add)
      BY <1>2, <3>1, <3>2 DEF Size!InInt, Size!IntMin
    <3> QED
      BY <3>3 DEF ab
  <2> QED
    BY <1>5, <2>1, <2>3 DEF Size!RightAnswer
<1>6. CASE x.f = "mad3"
  <2>1. Size!Answer(x) <=> Size!Mad3SizesValid(x.a, x.b, x.c, x.add)
    BY <1>6 DEF Size!Answer, Size!MallocMad3
  <2>2. Size!Mad3SizesValid(x.a, x.b, x.c, x.add) <=>
           /\ x.a >= 0 /\ x.b >= 0 /\ x.c >= 0 /\ x.add >= 0
           /\ Size!InInt(x.a * x.b) /\ Size!InInt(x.a * x.b * x.c + x.add)
    <3> DEFINE ab == x.a * x.b
               abc == ab * x.c
    <3>1. Size!Mad3SizesValid(x.a, x.b, x.c, x.add) <=>
             /\ x.a >= 0 /\ x.b >= 0 /\ x.c >= 0 /\ x.add >= 0
             /\ ab <= SmallInt /\ abc <= SmallInt /\ abc + x.add <= SmallInt
      BY <1>2, Mad3Exact
    <3>2. ab \in Int /\ (x.a >= 0 /\ x.b >= 0 => ab >= 0)
      BY <1>2, Products
    <3>3. abc \in Int /\ (ab >= 0 /\ x.c >= 0 => abc >= 0)
      BY <1>2, <3>2, Products
    <3> HIDE DEF abc
    <3> HIDE DEF ab
    <3>4. Size!Mad3SizesValid(x.a, x.b, x.c, x.add) <=>
             /\ x.a >= 0 /\ x.b >= 0 /\ x.c >= 0 /\ x.add >= 0
             /\ Size!InInt(ab) /\ Size!InInt(abc + x.add)
      BY <1>2, <3>1, <3>2, <3>3 DEF Size!InInt, Size!IntMin
    <3> QED
      BY <3>4 DEF ab, abc
  <2> QED
    BY <1>6, <2>1, <2>2 DEF Size!RightAnswer
<1>7. CASE x.f = "mad4"
  <2>1. Size!Answer(x) <=> Size!Mad4SizesValid(x.a, x.b, x.c, x.c, x.add)
    BY <1>7 DEF Size!Answer, Size!MallocMad4
  <2>2. Size!Mad4SizesValid(x.a, x.b, x.c, x.c, x.add) <=>
           /\ x.a >= 0 /\ x.b >= 0 /\ x.c >= 0 /\ x.add >= 0
           /\ Size!InInt(x.a * x.b) /\ Size!InInt(x.a * x.b * x.c)
                /\ Size!InInt(x.a * x.b * x.c * x.c + x.add)
    <3> DEFINE ab == x.a * x.b
               abc == ab * x.c
               abcd == abc * x.c
    <3>1. Size!Mad4SizesValid(x.a, x.b, x.c, x.c, x.add) <=>
             /\ x.a >= 0 /\ x.b >= 0 /\ x.c >= 0 /\ x.add >= 0
             /\ ab <= SmallInt /\ abc <= SmallInt /\ abcd <= SmallInt /\ abcd + x.add <= SmallInt
      BY <1>2, Mad4Exact
    <3>2. ab \in Int /\ (x.a >= 0 /\ x.b >= 0 => ab >= 0)
      BY <1>2, Products
    <3>3. abc \in Int /\ (ab >= 0 /\ x.c >= 0 => abc >= 0)
      BY <1>2, <3>2, Products
    <3>4. abcd \in Int /\ (abc >= 0 /\ x.c >= 0 => abcd >= 0)
      BY <1>2, <3>3, Products
    <3> HIDE DEF abcd
    <3> HIDE DEF abc
    <3> HIDE DEF ab
    <3>5. Size!Mad4SizesValid(x.a, x.b, x.c, x.c, x.add) <=>
             /\ x.a >= 0 /\ x.b >= 0 /\ x.c >= 0 /\ x.add >= 0
             /\ Size!InInt(ab) /\ Size!InInt(abc) /\ Size!InInt(abcd + x.add)
      BY <1>2, <3>1, <3>2, <3>3, <3>4 DEF Size!InInt, Size!IntMin
    <3> QED
      BY <3>5 DEF ab, abc, abcd
  <2> QED
    BY <1>7, <2>1, <2>2 DEF Size!RightAnswer
<1>8. CASE x.f = "addints"
  <2>1. Size!AddIntsValid(x.a, x.b) <=> Size!InInt(x.a + x.b)
    BY <1>1, AddIntsExact
  <2> QED
    BY <1>8, <2>1 DEF Size!RightAnswer, Size!Answer
<1>9. CASE x.f = "mul2shorts"
  <2>1. x.b >= 0 => (Size!Mul2ShortsValid(x.a, x.b) <=> x.a * x.b \in Size!ShortMin..SmallShort)
    BY <1>2, Mul2ShortsExact
  <2> QED
    BY <1>9, <2>1 DEF Size!RightAnswer, Size!Answer
<1> QED
  BY <1>3, <1>4, <1>5, <1>6, <1>7, <1>8, <1>9

\* A size that is asked for, a running coefficient that is added to and a
\* product that is stored fit their types, and nothing that fits is refused,
\* whatever the widths of int and short: the checks at
\* src/16-cube/stb_image.h:985-1084.
THEOREM SizesExactEverywhere ==
    ASSUME Size!SizesAssumption PROVE Size!Spec => []Size!SizesExact
<1> DEFINE IInv == call \in Calls /\ pc \in {"call", "done"} /\ Size!SizesExact
<1>1. Size!Init => IInv
  BY DEF Size!Init, Calls, Size!SizesExact
<1>2. IInv /\ [Size!Next]_Size!vars => IInv'
  <2> SUFFICES ASSUME IInv, [Size!Next]_Size!vars PROVE IInv'
    OBVIOUS
  <2>1. CASE Size!Return
    BY <2>1, AnswerRight DEF Size!Return, Size!SizesExact
  <2>2. CASE UNCHANGED Size!vars
    BY <2>2 DEF Size!vars, Size!SizesExact
  <2> QED
    BY <2>1, <2>2 DEF Size!Next
<1>3. IInv => Size!SizesExact
  OBVIOUS
<1> QED
  BY <1>1, <1>2, <1>3, PTL DEF Size!Spec

-----------------------------------------------------------------------------
(* JpegFile: any files, damaged or not, and any malloc that fails.         *)

(* Reading a file *)

\* The file is a sequence, and a body behind a frame's or a scan's marker is
\* one of theirs, whatever was lost of it.
FileKind(f) ==
    /\ Len(f) \in Nat /\ DOMAIN f = 1..Len(f)
    /\ \A ix \in 1..Len(f)-1 : f[ix].t = "marker" /\ f[ix + 1].t = "body" => File!Fits(f[ix].m, f[ix + 1].v)

LEMMA FilesAreFiles ==
  ASSUME File!FileAssumption
  PROVE  /\ \A f \in Files \cup OddFiles : FileKind(f)
         /\ \A f \in Files : \A g \in File!Damaged(f) : FileKind(g)
<1>1. ASSUME NEW f \in Files \cup OddFiles PROVE f \in Seq(File!Tokens) /\ FileKind(f)
  <2>1. f \in Seq(File!Tokens)
    BY DEF File!FileAssumption
  <2>2. Len(f) \in Nat /\ DOMAIN f = 1..Len(f)
    BY <2>1
  <2>3. \A ix \in 1..Len(f)-1 : f[ix].t = "marker" /\ f[ix + 1].t = "body" => File!Fits(f[ix].m, f[ix + 1].v)
    BY DEF File!FileAssumption
  <2> QED BY <2>1, <2>2, <2>3 DEF FileKind
<1>2. ASSUME NEW f \in Files, NEW g \in File!Damaged(f) PROVE FileKind(g)
  <2>0. f \in Seq(File!Tokens) /\ FileKind(f)
    BY <1>1
  <2>1. CASE \E n \in 0..Len(f)-1 : g = SubSeq(f, 1, n)
    <3>1. PICK n \in 0..Len(f)-1 : g = SubSeq(f, 1, n)
      BY <2>1
    <3>2. n \in Nat /\ n <= Len(f) /\ Len(f) \in Nat
      BY <2>0
    <3>3. DOMAIN g = 1..n /\ Len(g) = n /\ \A ix \in 1..n : g[ix] = f[ix]
      <4>1. g = [ix \in 1..n |-> f[ix]]
        BY <2>0, <3>1, <3>2
      <4> QED BY <4>1, <3>2
    <3>4. \A ix \in 1..n-1 : ix \in 1..Len(f)-1 /\ ix \in 1..n /\ ix + 1 \in 1..n
      BY <3>2
    <3>5. \A ix \in 1..n-1 : g[ix] = f[ix] /\ g[ix + 1] = f[ix + 1] /\ ix \in 1..Len(f)-1
      BY <3>3, <3>4
    <3>6. \A ix \in 1..Len(g)-1 : g[ix].t = "marker"
            /\ g[ix + 1].t = "body" => File!Fits(g[ix].m, g[ix + 1].v)
      BY <3>3, <3>5, <2>0 DEF FileKind
    <3> QED BY <3>2, <3>3, <3>6 DEF FileKind
  <2>2. CASE \E ix \in DOMAIN f : g = [f EXCEPT ![ix] = [t |-> "junk"]]
    <3>1. PICK n \in DOMAIN f : g = [f EXCEPT ![n] = [t |-> "junk"]]
      BY <2>2
    <3>2. DOMAIN g = 1..Len(f) /\ Len(f) \in Nat
      BY <3>1, <2>0 DEF FileKind
    <3>3. Len(g) = Len(f)
      <4>1. f \in Seq(File!Tokens \cup {[t |-> "junk"]})
        BY <2>0
      <4>2. g \in Seq(File!Tokens \cup {[t |-> "junk"]}) /\ Len(g) = Len(f)
        BY <4>1, <3>1, ExceptSeq
      <4> QED BY <4>2
    <3>4. \A ix \in 1..Len(f) : ix # n => g[ix] = f[ix]
      BY <3>1, <2>0 DEF FileKind
    <3>5. g[n].t = "junk"
      BY <3>1
    <3>6. \A ix \in 1..Len(f)-1 : ix \in 1..Len(f) /\ ix + 1 \in 1..Len(f)
      BY <3>2
    <3>7. ASSUME NEW ix \in 1..Len(g)-1, g[ix].t = "marker", g[ix + 1].t = "body"
          PROVE File!Fits(g[ix].m, g[ix + 1].v)
      <4>1. ix # n /\ ix + 1 # n
        BY <3>5, <3>7
      <4>2. ix \in 1..Len(f)-1
        BY <3>3
      <4>3. g[ix] = f[ix] /\ g[ix + 1] = f[ix + 1]
        BY <4>1, <4>2, <3>4, <3>6
      <4> QED BY <4>2, <4>3, <3>7, <2>0 DEF FileKind
    <3> QED BY <3>2, <3>3, <3>7 DEF FileKind
  <2> QED BY <2>1, <2>2 DEF File!Damaged
<1> QED BY <1>1, <1>2

\* The first marker behind a place.
IsNext(p, from) == p \in from..Len(file) /\ File!IsMarker(p) /\ \A q \in from..p-1 : ~File!IsMarker(q)

LEMMA NextIs ==
  ASSUME Len(file) \in Nat, NEW from \in Nat, NEW p, IsNext(p, from)
  PROVE  File!NextMarker(from) = p
<1>1. \A q : IsNext(q, from) => q = p
  <2> SUFFICES ASSUME NEW q, IsNext(q, from) PROVE q = p
    OBVIOUS
  <2>1. p \in Int /\ q \in Int /\ from <= p /\ from <= q
    BY DEF IsNext
  <2>2. ~(q < p)
    <3> SUFFICES ASSUME q < p PROVE FALSE
      OBVIOUS
    <3>1. q \in from..p-1
      BY <2>1
    <3> QED BY <3>1 DEF IsNext
  <2>3. ~(p < q)
    <3> SUFFICES ASSUME p < q PROVE FALSE
      OBVIOUS
    <3>1. p \in from..q-1
      BY <2>1
    <3> QED BY <3>1 DEF IsNext
  <2> QED BY <2>1, <2>2, <2>3
<1> DEFINE n == File!NextMarker(from)
<1>2. n \in from..Len(file) /\ File!IsMarker(n) /\ \A q \in from..n-1 : ~File!IsMarker(q)
  BY DEF File!NextMarker, IsNext
<1>3. IsNext(n, from)
  BY <1>2 DEF IsNext
<1> QED BY <1>1, <1>3

LEMMA NextExists ==
  ASSUME Len(file) \in Nat, NEW from \in Nat, \E p \in from..Len(file) : File!IsMarker(p)
  PROVE  IsNext(File!NextMarker(from), from)
<1> DEFINE S == {p \in from..Len(file) : File!IsMarker(p)}
<1>1. S \in SUBSET Nat /\ S # {}
  OBVIOUS
<1>2. PICK p \in S : \A q \in S : p <= q
  BY <1>1, Least
<1>3. \A q \in from..p-1 : q \in from..Len(file) /\ ~(p <= q)
  BY <1>2
<1>4. IsNext(p, from)
  BY <1>2, <1>3 DEF IsNext
<1> HIDE DEF S
<1> QED BY <1>4, NextIs

-----------------------------------------------------------------------------
(* The decoder's steps through a file *)

Fields == {"pos", "m", "marker", "padding", "progressive", "restart_interval", "todo", "img_x", "img_y",
           "mcu_x", "mcu_y", "comps", "ptr", "scan", "spec_start", "mcus", "mcu", "k", "finished"}

\* The marker that was found is the next one in the file.
Known(z) ==
    /\ DOMAIN z = Fields /\ z.pos \in Nat \ {0}
    /\ z.marker # File!None => \E p : IsNext(p, z.pos) /\ File!Token(p).m = z.marker
\* The marker being processed is the one in front.
Behind(z) == z.m # File!None => z.pos - 1 \in 1..Len(file) /\ File!IsMarker(z.pos - 1)
  /\ File!Token(z.pos - 1).m = z.m

\* What only a frame or a scan changes.
Kept(z, a) ==
    /\ a.progressive = z.progressive /\ a.mcu_x = z.mcu_x /\ a.mcu_y = z.mcu_y /\ a.comps = z.comps
    /\ a.ptr = z.ptr /\ a.mcus = z.mcus /\ a.mcu = z.mcu /\ a.k = z.k

LEMMA Positions == ASSUME Len(file) \in Nat, NEW p \in Nat, File!IsMarker(p) PROVE p <= Len(file)
  BY DEF File!IsMarker, File!Token

LEMMA GetMarkerStep ==
  ASSUME Len(file) \in Nat, NEW z, Known(z)
  PROVE  Known(File!GetMarker(z)) /\ Behind(File!GetMarker(z)) /\ Kept(z, File!GetMarker(z))
<1> DEFINE a == File!GetMarker(z)
<1>0. DOMAIN z = Fields /\ z.pos \in Nat \ {0}
  BY DEF Known
<1>1. CASE z.marker # File!None
  <2> DEFINE n == File!NextMarker(z.pos)
  <2>1. PICK p : IsNext(p, z.pos) /\ File!Token(p).m = z.marker
    BY <1>1 DEF Known
  <2>2. n = p
    BY <2>1, <1>0, NextIs
  <2>3. p \in z.pos..Len(file) /\ File!IsMarker(p)
    BY <2>1 DEF IsNext
  <2>4. p \in Nat \ {0} /\ p \in 1..Len(file) /\ p + 1 \in Nat \ {0} /\ p + 1 - 1 = p
    BY <2>3, <1>0
  <2>5. a = [z EXCEPT !.m = z.marker, !.marker = File!None, !.pos = n + 1]
    BY <1>1 DEF File!GetMarker
  <2>6. DOMAIN a = Fields /\ a.pos = p + 1 /\ a.marker = File!None /\ a.m = z.marker
    BY <2>5, <2>2, <1>0 DEF Fields
  <2>7. Kept(z, a)
    BY <2>5, <1>0 DEF Fields, Kept
  <2>8. Known(a)
    BY <2>6, <2>4 DEF Known
  <2>9. Behind(a)
    BY <2>6, <2>4, <2>1, <2>3 DEF Behind
  <2> QED BY <2>7, <2>8, <2>9
<1>2. CASE z.marker = File!None
  <2>1. a = [z EXCEPT !.m = IF File!IsMarker(z.pos) THEN File!Token(z.pos).m ELSE File!None,
                      !.pos = IF File!AtEof(z) THEN @ ELSE @ + 1]
    BY <1>2 DEF File!GetMarker
  <2>2. DOMAIN a = Fields /\ a.pos = (IF File!AtEof(z) THEN z.pos ELSE z.pos + 1) /\ a.marker = File!None
    BY <2>1, <1>0, <1>2 DEF Fields
  <2>3. a.m = IF File!IsMarker(z.pos) THEN File!Token(z.pos).m ELSE File!None
    BY <2>1, <1>0 DEF Fields
  <2>4. Kept(z, a)
    BY <2>1, <1>0 DEF Fields, Kept
  <2>5. Known(a)
    BY <2>2, <1>0 DEF Known
  <2>6. Behind(a)
    <3>1. SUFFICES ASSUME a.m # File!None
          PROVE a.pos - 1 \in 1..Len(file) /\ File!IsMarker(a.pos - 1) /\ File!Token(a.pos - 1).m = a.m
      BY DEF Behind
    <3>2. File!IsMarker(z.pos) /\ a.m = File!Token(z.pos).m
      BY <2>3, <3>1
    <3>3. z.pos <= Len(file)
      BY <3>2, <1>0, Positions
    <3>4. a.pos = z.pos + 1
      BY <2>2, <3>3, <1>0 DEF File!AtEof
    <3>5. a.pos - 1 = z.pos /\ z.pos \in 1..Len(file)
      BY <3>3, <3>4, <1>0
    <3> QED BY <3>2, <3>5
  <2> QED BY <2>4, <2>5, <2>6
<1> QED BY <1>1, <1>2

\* A marker that is the next one at a place is found there.
LEMMA FoundNext ==
  ASSUME Len(file) \in Nat, NEW z, Known(z), NEW p, IsNext(p, z.pos)
  PROVE  Known(File!Found(z)) /\ Kept(z, File!Found(z)) /\ File!Found(z).marker = File!Token(p).m
<1>0. DOMAIN z = Fields /\ z.pos \in Nat \ {0}
  BY DEF Known
<1>1. File!NextMarker(z.pos) = p
  BY <1>0, NextIs
<1> DEFINE a == File!Found(z)
<1>2. a = [z EXCEPT !.marker = File!Token(p).m]
  BY <1>1 DEF File!Found
<1>3. DOMAIN a = Fields /\ a.pos = z.pos /\ a.marker = File!Token(p).m
  BY <1>2, <1>0 DEF Fields
<1>4. Kept(z, a)
  BY <1>2, <1>0 DEF Fields, Kept
<1> QED BY <1>0, <1>3, <1>4 DEF Known

LEMMA ReachesStep ==
  ASSUME Len(file) \in Nat, NEW z, Known(z), File!Reaches(z)
  PROVE  Known(File!Found(z)) /\ Kept(z, File!Found(z))
<1>0. z.pos \in Nat \ {0}
  BY DEF Known
<1>1. PICK p \in z.pos..z.pos + Ahead : File!IsMarker(p) /\ \A q \in z.pos..p-1 : File!Token(q).t = "block"
  BY DEF File!Reaches
<1>2. \A q \in z.pos..p-1 : ~File!IsMarker(q)
  BY <1>1 DEF File!IsMarker
<1>3. p \in Nat /\ z.pos <= p
  BY <1>0, <1>1
<1>4. p \in z.pos..Len(file)
  BY <1>0, <1>1, <1>3, Positions
<1>5. IsNext(p, z.pos)
  BY <1>1, <1>2, <1>4 DEF IsNext
<1> QED BY <1>5, FoundNext

LEMMA FilledStep ==
  ASSUME Len(file) \in Nat, NEW z, Known(z)
  PROVE  Known(File!Filled(z)) /\ Kept(z, File!Filled(z))
<1>0. z.pos \in Nat \ {0}
  BY DEF Known
<1>1. CASE z.marker = File!None /\ File!IsMarker(z.pos)
  <2>1. z.pos \in z.pos..Len(file)
    BY <1>0, <1>1, Positions
  <2>2. \A q \in z.pos..z.pos-1 : FALSE
    BY <1>0
  <2>3. IsNext(z.pos, z.pos)
    BY <2>1, <2>2, <1>1 DEF IsNext
  <2> QED BY <2>3, <1>1, FoundNext DEF File!Filled
<1>2. CASE ~(z.marker = File!None /\ File!IsMarker(z.pos))
  BY <1>2 DEF File!Filled, Kept
<1> QED BY <1>1, <1>2

LEMMA ResetStep ==
  ASSUME Len(file) \in Nat, NEW z, Known(z)
  PROVE  Known(File!Reset(z)) /\ Kept(z, File!Reset(z))
<1>0. DOMAIN z = Fields /\ z.pos \in Nat \ {0}
  BY DEF Known
<1> DEFINE a == File!Reset(z)
           n == File!NextMarker(z.pos)
<1>1. a.pos = (IF z.marker = File!None THEN z.pos ELSE n + 1) /\ a.marker = File!None /\ DOMAIN a = Fields
  BY <1>0 DEF File!Reset, Fields
<1>2. Kept(z, a)
  BY <1>0 DEF File!Reset, Fields, Kept
<1>3. a.pos \in Nat \ {0}
  <2>1. CASE z.marker = File!None
    BY <2>1, <1>0, <1>1
  <2>2. CASE z.marker # File!None
    <3>1. PICK p : IsNext(p, z.pos) /\ File!Token(p).m = z.marker
      BY <2>2 DEF Known
    <3>2. n = p
      BY <3>1, <1>0, NextIs
    <3>3. p \in z.pos..Len(file)
      BY <3>1 DEF IsNext
    <3>4. p + 1 \in Nat \ {0}
      BY <3>3, <1>0
    <3> QED BY <3>2, <3>4, <1>1, <2>2
  <2> QED BY <2>1, <2>2
<1> QED BY <1>1, <1>2, <1>3 DEF Known

LEMMA AfterScanStep ==
  ASSUME Len(file) \in Nat, NEW z, Known(z)
  PROVE  Known(File!AfterScan(z)) /\ Behind(File!AfterScan(z)) /\ Kept(z, File!AfterScan(z))
<1>0. DOMAIN z = Fields /\ z.pos \in Nat \ {0}
  BY DEF Known
<1>1. Known(File!SkipJunk(z)) /\ Kept(z, File!SkipJunk(z))
  <2>1. CASE \E p \in z.pos..Len(file) : File!IsMarker(p)
    <3>1. IsNext(File!NextMarker(z.pos), z.pos)
      BY <2>1, <1>0, NextExists
    <3>2. File!SkipJunk(z) = File!Found(z)
      BY <2>1 DEF File!SkipJunk, File!Found
    <3> QED BY <3>1, <3>2, FoundNext
  <2>2. CASE ~\E p \in z.pos..Len(file) : File!IsMarker(p)
    <3> DEFINE a == File!SkipJunk(z)
    <3>1. CASE z.marker # File!None
      <4>1. PICK p : IsNext(p, z.pos) /\ File!Token(p).m = z.marker
        BY <3>1 DEF Known
      <4> QED BY <4>1, <2>2 DEF IsNext
    <3>2. CASE z.marker = File!None
      <4>1. a = [z EXCEPT !.pos = Len(file) + 1]
        BY <2>2 DEF File!SkipJunk
      <4>2. DOMAIN a = Fields /\ a.pos = Len(file) + 1 /\ a.marker = File!None /\ Kept(z, a)
        BY <4>1, <1>0, <3>2 DEF Fields, Kept
      <4> QED BY <4>2 DEF Known
    <3> QED BY <3>1, <3>2
  <2> QED BY <2>1, <2>2
<1> DEFINE bd == IF z.marker = File!None THEN File!SkipJunk(z) ELSE z
           a == File!GetMarker(bd)
<1>2. Known(bd) /\ Kept(z, bd)
  BY <1>1 DEF Kept
<1> HIDE DEF bd
<1>3. Known(a) /\ Behind(a) /\ Kept(bd, a)
  BY <1>2, GetMarkerStep
<1>4. File!AfterScan(z) = IF a.m \in File!Restart THEN File!GetMarker(a) ELSE a
  BY DEF File!AfterScan, bd
<1> HIDE DEF a
<1>5. Known(File!GetMarker(a)) /\ Behind(File!GetMarker(a)) /\ Kept(a, File!GetMarker(a))
  BY <1>3, GetMarkerStep
<1>6. Kept(z, a) /\ Kept(z, File!GetMarker(a))
  BY <1>2, <1>3, <1>5 DEF Kept
<1> QED BY <1>3, <1>4, <1>5, <1>6

LEMMA ProcessedStep ==
  ASSUME NEW z, Known(z), File!BodyOf(z)
  PROVE  /\ Known(File!Processed(z)) /\ Kept(z, File!Processed(z))
         /\ Known([z EXCEPT !.pos = @ + 1]) /\ Kept(z, [z EXCEPT !.pos = @ + 1])
<1>0. DOMAIN z = Fields /\ z.pos \in Nat \ {0}
  BY DEF Known
<1>1. ASSUME NEW p, IsNext(p, z.pos) PROVE IsNext(p, z.pos + 1)
  <2>1. ~File!IsMarker(z.pos)
    BY DEF File!BodyOf, File!IsMarker
  <2>2. p \in z.pos..Len(file) /\ File!IsMarker(p) /\ \A q \in z.pos..p-1 : ~File!IsMarker(q)
    BY <1>1 DEF IsNext
  <2>3. p # z.pos
    BY <2>1, <2>2
  <2>4. p \in (z.pos + 1)..Len(file)
    BY <2>2, <2>3, <1>0
  <2>5. \A q \in (z.pos + 1)..p-1 : q \in z.pos..p-1
    BY <1>0
  <2> QED BY <2>2, <2>4, <2>5 DEF IsNext
<1>2. ASSUME NEW a, DOMAIN a = Fields, a.pos = z.pos + 1, a.marker = z.marker PROVE Known(a)
  <2>1. a.pos \in Nat \ {0}
    BY <1>0, <1>2
  <2>2. a.marker # File!None => \E p : IsNext(p, a.pos) /\ File!Token(p).m = a.marker
    BY <1>1, <1>2 DEF Known
  <2> QED BY <1>2, <2>1, <2>2 DEF Known
<1>3. DOMAIN File!Processed(z) = Fields /\ File!Processed(z).pos = z.pos + 1
        /\ File!Processed(z).marker = z.marker /\ Kept(z, File!Processed(z))
  BY <1>0 DEF File!Processed, Fields, Kept
<1> DEFINE bd == [z EXCEPT !.pos = @ + 1]
<1>4. DOMAIN bd = Fields /\ bd.pos = z.pos + 1 /\ bd.marker = z.marker /\ Kept(z, bd)
  BY <1>0 DEF Fields, Kept
<1> QED BY <1>2, <1>3, <1>4

-----------------------------------------------------------------------------
(* Memory *)

Jpeg == <<"jpeg", 0>>

\* What is held when all of some mallocs are done, or when one has failed.
LEMMA MallocsHold ==
  ASSUME NEW names, DOMAIN names \subseteq Nat
  PROVE  LET ht == File!Mallocs(names)
         IN /\ ht.heap = heap \cup ht.ptr /\ ht.ok \in BOOLEAN
            /\ ht.ok => ht.ptr = {names[ix] : ix \in DOMAIN names}
            /\ ~ht.ok => \E n \in DOMAIN names : ht.at = names[n][2] /\ ht.ptr = {names[ix] : ix \in 1..n-1}
<1> DEFINE fails == left \in DOMAIN names
           taken == {names[ix] : ix \in IF fails THEN 1..left-1 ELSE DOMAIN names}
           ht == File!Mallocs(names)
<1>1. ht = [ok |-> ~fails, at |-> IF fails THEN names[left][2]
        ELSE 0, heap |-> heap \cup taken, ptr |-> taken,
           left |-> IF fails THEN -1 ELSE IF left > 0 THEN left - Len(names) ELSE left]
  BY DEF File!Mallocs
<1>2. ht.ok = (~fails) /\ ht.at = (IF fails THEN names[left][2] ELSE 0) /\ ht.heap = heap \cup taken
        /\ ht.ptr = taken
  BY <1>1
<1>3. CASE fails
  <2>1. taken = {names[ix] : ix \in 1..left-1}
    BY <1>3
  <2> QED BY <1>2, <1>3, <2>1
<1>4. CASE ~fails
  <2>1. taken = {names[ix] : ix \in DOMAIN names}
    BY <1>4
  <2> QED BY <1>2, <1>4, <2>1
<1> QED BY <1>3, <1>4

\* Every buffer that is held belongs to a component, or is the decoder.
Memory(z, hp) ==
    /\ z.ptr \subseteq hp /\ hp \subseteq z.ptr \cup {Jpeg}
    /\ Len(z.comps) \in Nat
    /\ \A p \in z.ptr : p[2] \in 1..Len(z.comps)

LEMMA ReturnFrees ==
  ASSUME NEW z, NEW ptr, NEW hp, NEW kept, NEW rx, twice = FALSE, File!Return(z, File!Held(ptr, hp), rx),
         ptr \subseteq hp, Len(z.comps) \in Nat, \A p \in ptr : p[2] \in 1..Len(z.comps),
         hp \subseteq ptr \cup {Jpeg} \cup kept, kept \subseteq hp, \A p \in kept : p # Jpeg /\ p \notin ptr
  PROVE  pc' = "done" /\ result' = rx /\ heap' = kept /\ twice' = FALSE /\ file' = file
<1> DEFINE ht == File!Held(ptr, hp)
           n == Len(z.comps)
<1>1. ht.ptr = ptr /\ ht.heap = hp /\ ht.twice = FALSE
  BY DEF File!Held
<1>2. File!Owned(ptr, n) = ptr
  BY DEF File!Owned
<1>3. File!Freed(ht, n).heap = hp \ ptr
  BY <1>1, <1>2 DEF File!Freed
<1>4. File!Freed(ht, n).twice = FALSE
  BY <1>1, <1>2 DEF File!Freed
<1>5. heap' = File!Freed(ht, n).heap \ {Jpeg} /\ twice' = File!Freed(ht, n).twice /\ pc' = "done"
        /\ result' = rx /\ file' = file
  BY DEF File!Return, File!Same, Jpeg
<1>6. (hp \ ptr) \ {Jpeg} = kept
  OBVIOUS
<1> QED BY <1>3, <1>4, <1>5, <1>6

LEMMA ErrorFrees ==
  ASSUME NEW z, twice = FALSE, Memory(z, heap), File!Error(z)
  PROVE  pc' = "done" /\ result' = "error" /\ heap' = {} /\ twice' = FALSE /\ file' = file
<1>1. File!Return(z, File!Held(z.ptr, heap), "error")
  BY DEF File!Error
<1> DEFINE ptr == z.ptr
           kept == {}
<1>2. ptr \subseteq heap /\ Len(z.comps) \in Nat /\ \A p \in ptr : p[2] \in 1..Len(z.comps)
  BY DEF Memory
<1>3. heap \subseteq ptr \cup {Jpeg} \cup kept /\ kept \subseteq heap /\ \A p \in kept : p # Jpeg
        /\ p \notin ptr
  BY DEF Memory
<1>4. File!Return(z, File!Held(ptr, heap), "error")
  BY <1>1
<1>5. kept = {}
  OBVIOUS
<1> HIDE DEF ptr, kept
<1>6. pc' = "done" /\ result' = "error" /\ heap' = kept /\ twice' = FALSE /\ file' = file
  BY <1>2, <1>3, <1>4, ReturnFrees
<1> QED BY <1>5, <1>6

-----------------------------------------------------------------------------
(* Frames and scans *)

\* Ceil(n, d) is the first number of blocks of d that hold n.
LEMMA CeilBounds ==
  ASSUME NEW n \in Nat \ {0}, NEW d \in Nat \ {0}
  PROVE  /\ File!Ceil(n, d) \in Nat \ {0} /\ n <= File!Ceil(n, d) * d
         /\ \A q \in Nat : n <= q * d => File!Ceil(n, d) <= q
<1> DEFINE c == (n + d - 1) \div d
           rx == (n + d - 1) % d
<1>1. c \in Int /\ rx \in 0..d-1 /\ n + d - 1 = d * c + rx
  OBVIOUS
<1>2. c = File!Ceil(n, d)
  BY DEF File!Ceil
<1> HIDE DEF c, rx
<1>3. d * c = c * d /\ c * d \in Int
  BY <1>1
<1>4. n <= c * d
  BY <1>1, <1>3
<1>5. c > 0
  <2>1. ASSUME c <= 0 PROVE FALSE
    <3>1. c * d <= 0
      BY <2>1, <1>1
    <3> QED BY <3>1, <1>4, <1>3
  <2> QED BY <2>1, <1>1
<1>6. ASSUME NEW q \in Nat, n <= q * d PROVE c <= q
  <2>1. ASSUME c >= q + 1 PROVE FALSE
    <3>1. (q + 1) * d <= c * d
      BY <2>1, <1>1
    <3>2. (q + 1) * d = q * d + d /\ q * d \in Int
      OBVIOUS
    <3> QED BY <3>1, <3>2, <1>1, <1>3, <1>6
  <2> QED BY <2>1, <1>1
<1> QED BY <1>1, <1>2, <1>4, <1>5, <1>6

\* The components of a frame: planes of whole MCUs that hold their pixels.
Component(z, c) ==
    /\ {c.h, c.v} \subseteq 1..4 /\ {c.x, c.y} \subseteq Nat \ {0}
    /\ c.w2 = z.mcu_x * c.h * Edge /\ c.h2 = z.mcu_y * c.v * Edge
    /\ c.x <= c.w2 /\ c.y <= c.h2
Image(z) ==
    /\ Len(z.comps) \in Nat \ {0} /\ DOMAIN z.comps = 1..Len(z.comps)
    /\ {z.mcu_x, z.mcu_y} \subseteq Nat \ {0}
    /\ \A n \in 1..Len(z.comps) : Component(z, z.comps[n])

\* The largest of a few factors.
LEMMA Largest ==
  ASSUME NEW S \in SUBSET (1..4), S # {}
  PROVE  LET m == CHOOSE n \in S : \A k \in S : k <= n IN m \in S /\ \A k \in S : k <= m
<1>1. \E n \in S : \A k \in S : k <= n
  <2> DEFINE T == {5 - n : n \in S}
  <2>1. T \in SUBSET Nat /\ T # {}
    <3>1. \A n \in S : 5 - n \in Nat
      OBVIOUS
    <3> QED BY <3>1
  <2>2. PICK t \in T : \A u \in T : t <= u
    BY <2>1, Least
  <2>3. PICK n \in S : t = 5 - n
    OBVIOUS
  <2>4. \A k \in S : 5 - k \in T /\ k \in Int
    OBVIOUS
  <2>5. \A k \in S : 5 - n <= 5 - k
    BY <2>2, <2>3, <2>4
  <2> QED BY <2>4, <2>5
<1> QED BY <1>1

LEMMA FrameMax ==
  ASSUME NEW f, File!IsFrame(f), File!GoodFrame(f)
  PROVE  /\ File!HMax(f) \in 1..4 /\ File!VMax(f) \in 1..4 /\ Len(f.comps) \in Nat \ {0}
              /\ DOMAIN f.comps = 1..Len(f.comps)
         /\ \A ix \in 1..Len(f.comps) : f.comps[ix].h \in 1..4 /\ f.comps[ix].v \in 1..4
<1>1. f.comps \in Seq([h : 0..15, v : 0..15])
  BY DEF File!IsFrame
<1>2. Len(f.comps) \in Nat \ {0} /\ DOMAIN f.comps = 1..Len(f.comps)
  <2>1. Len(f.comps) \in {1, 3, 4}
    BY DEF File!GoodFrame
  <2>2. DOMAIN f.comps = 1..Len(f.comps)
    BY <1>1
  <2>3. Len(f.comps) \in Nat \ {0}
    <3> DEFINE n == Len(f.comps)
    <3> HIDE DEF n
    <3>1. n \in {1, 3, 4} => n \in Nat \ {0}
      OBVIOUS
    <3> QED BY <2>1, <3>1 DEF n
  <2> QED BY <2>2, <2>3
<1>3. \A ix \in 1..Len(f.comps) : f.comps[ix].h \in 1..4 /\ f.comps[ix].v \in 1..4
  BY <1>2 DEF File!GoodFrame
<1> DEFINE H == {f.comps[ix].h : ix \in DOMAIN f.comps}
           V == {f.comps[ix].v : ix \in DOMAIN f.comps}
<1>4. H \in SUBSET (1..4) /\ H # {} /\ V \in SUBSET (1..4) /\ V # {}
  <2>1. 1 \in DOMAIN f.comps /\ \A ix \in DOMAIN f.comps : f.comps[ix].h \in 1..4 /\ f.comps[ix].v \in 1..4
    BY <1>2, <1>3
  <2>2. H # {} /\ V # {}
    BY <2>1
  <2>3. H \subseteq 1..4 /\ V \subseteq 1..4
    BY <2>1
  <2> QED BY <2>2, <2>3
<1>5. File!HMax(f) = CHOOSE n \in H : \A k \in H : k <= n
  <2>1. \A n : (\A ix \in DOMAIN f.comps : f.comps[ix].h <= n) <=> (\A k \in H : k <= n)
    OBVIOUS
  <2> QED BY <2>1 DEF File!HMax
<1>6. File!VMax(f) = CHOOSE n \in V : \A k \in V : k <= n
  <2>1. \A n : (\A ix \in DOMAIN f.comps : f.comps[ix].v <= n) <=> (\A k \in V : k <= n)
    OBVIOUS
  <2> QED BY <2>1 DEF File!VMax
<1> HIDE DEF H, V
<1>7. File!HMax(f) \in H
  BY <1>4, <1>5, Largest
<1>8. File!VMax(f) \in V
  BY <1>4, <1>6, Largest
<1> QED BY <1>2, <1>3, <1>4, <1>7, <1>8

\* The products the sizes of a plane are made of.
LEMMA SizeProducts ==
  ASSUME NEW a \in Nat, NEW bd \in Nat, NEW c \in Nat, NEW d \in Nat
  PROVE  /\ a * bd \in Nat /\ a * bd = bd * a /\ (a * bd) * c = a * (bd * c)
         /\ (a + 1) * bd = a * bd + bd
         /\ a <= bd => a * c <= bd * c
         /\ a * bd * c \in Nat
<1>1. a * bd \in Nat /\ a * bd = bd * a
  OBVIOUS
<1>2. (a * bd) * c = a * (bd * c)
  OBVIOUS
<1>3. (a + 1) * bd = a * bd + bd
  OBVIOUS
<1>4. a <= bd => a * c <= bd * c
  OBVIOUS
<1>5. a * bd * c \in Nat
  OBVIOUS
<1> QED BY <1>1, <1>2, <1>3, <1>4, <1>5

\* A component's pixels fit the whole MCUs the image is made of.
LEMMA PlaneHolds ==
  ASSUME Edge \in Nat \ {0}, NEW n \in Nat \ {0}, NEW max \in 1..4, NEW ht \in 1..4
  PROVE  /\ File!Ceil(n, max * Edge) \in Nat \ {0} /\ File!Ceil(n * ht, max) \in Nat \ {0}
         /\ File!Ceil(n * ht, max) <= File!Ceil(n, max * Edge) * ht * Edge
<1>1. max * Edge \in Nat \ {0} /\ n * ht \in Nat \ {0} /\ max \in Nat \ {0} /\ ht \in Nat \ {0}
  OBVIOUS
<1> DEFINE c == File!Ceil(n, max * Edge)
<1>2. c \in Nat \ {0} /\ n <= c * (max * Edge)
  BY <1>1, CeilBounds
<1>3. File!Ceil(n * ht, max) \in Nat \ {0} /\ \A q \in Nat : n * ht <= q * max => File!Ceil(n * ht, max) <= q
  BY <1>1, CeilBounds
<1> HIDE DEF c
<1>4. c * (max * Edge) \in Nat /\ c * ht \in Nat /\ c * ht * Edge \in Nat
  BY <1>1, <1>2, SizeProducts
<1>5. n * ht <= (c * (max * Edge)) * ht
  BY <1>1, <1>2, <1>4, SizeProducts
<1>6. (c * (max * Edge)) * ht = (c * ht * Edge) * max
  <2>1. CASE max = 1
    BY <2>1, <1>1, <1>2
  <2>2. CASE max = 2
    BY <2>2, <1>1, <1>2
  <2>3. CASE max = 3
    BY <2>3, <1>1, <1>2
  <2>4. CASE max = 4
    BY <2>4, <1>1, <1>2
  <2> QED BY <2>1, <2>2, <2>3, <2>4
<1>7. n * ht <= (c * ht * Edge) * max
  BY <1>5, <1>6
<1>8. File!Ceil(n * ht, max) <= c * ht * Edge
  BY <1>3, <1>4, <1>7
<1> QED BY <1>2, <1>3, <1>8 DEF c

LEMMA FramedStep ==
  ASSUME Edge \in Nat \ {0}, NEW z, DOMAIN z = Fields, NEW f, File!IsFrame(f), File!GoodFrame(f)
  PROVE  LET a == File!Framed(z, f)
         IN /\ DOMAIN a = Fields /\ a.pos = z.pos + 1 /\ a.marker = z.marker /\ a.m = z.m
            /\ a.ptr = z.ptr /\ a.progressive = z.progressive /\ Len(a.comps) = Len(f.comps)
            /\ Image(a)
<1> DEFINE a == File!Framed(z, f)
           mx == File!Ceil(f.x, File!HMax(f) * Edge)
           my == File!Ceil(f.y, File!VMax(f) * Edge)
           n == Len(f.comps)
           c == f.comps
           comps == [ix \in DOMAIN f.comps |->
             [h |-> f.comps[ix].h, v |-> f.comps[ix].v,
              x |-> File!Ceil(f.x * f.comps[ix].h, File!HMax(f)),
                y |-> File!Ceil(f.y * f.comps[ix].v, File!VMax(f)),
              w2 |-> mx * f.comps[ix].h * Edge, h2 |-> my * f.comps[ix].v * Edge]]
<1>1. /\ File!HMax(f) \in 1..4 /\ File!VMax(f) \in 1..4 /\ n \in Nat \ {0} /\ DOMAIN c = 1..n
      /\ \A ix \in 1..n : c[ix].h \in 1..4 /\ c[ix].v \in 1..4
  BY FrameMax
<1>2. f.x \in Nat \ {0} /\ f.y \in Nat \ {0}
  BY DEF File!IsFrame, File!GoodFrame
<1>3. a = [z EXCEPT !.pos = @ + 1, !.img_x = f.x, !.img_y = f.y, !.mcu_x = mx, !.mcu_y = my, !.comps = comps]
  BY DEF File!Framed
<1>4. \A ix \in 1..n : comps[ix] =
             [h |-> f.comps[ix].h, v |-> f.comps[ix].v,
              x |-> File!Ceil(f.x * f.comps[ix].h, File!HMax(f)),
                y |-> File!Ceil(f.y * f.comps[ix].v, File!VMax(f)),
              w2 |-> mx * f.comps[ix].h * Edge, h2 |-> my * f.comps[ix].v * Edge]
  BY <1>1
<1>5. DOMAIN comps = 1..n /\ Len(comps) = n
  BY <1>1
<1> HIDE DEF comps, mx, my
<1>6. /\ DOMAIN a = Fields /\ a.pos = z.pos + 1 /\ a.marker = z.marker /\ a.m = z.m /\ a.ptr = z.ptr
      /\ a.progressive = z.progressive /\ a.comps = comps /\ a.mcu_x = mx /\ a.mcu_y = my
  BY <1>3 DEF Fields
<1>7. ASSUME NEW ix \in 1..n PROVE Component(a, comps[ix])
  <2>1. c[ix].h \in 1..4 /\ c[ix].v \in 1..4
    BY <1>1
  <2>2. /\ mx \in Nat \ {0} /\ File!Ceil(f.x * c[ix].h, File!HMax(f)) \in Nat \ {0}
        /\ File!Ceil(f.x * c[ix].h, File!HMax(f)) <= mx * c[ix].h * Edge
    BY <2>1, <1>1, <1>2, PlaneHolds DEF mx
  <2>3. /\ my \in Nat \ {0} /\ File!Ceil(f.y * c[ix].v, File!VMax(f)) \in Nat \ {0}
        /\ File!Ceil(f.y * c[ix].v, File!VMax(f)) <= my * c[ix].v * Edge
    BY <2>1, <1>1, <1>2, PlaneHolds DEF my
  <2> DEFINE x == File!Ceil(f.x * c[ix].h, File!HMax(f))
             y == File!Ceil(f.y * c[ix].v, File!VMax(f))
             w2 == mx * c[ix].h * Edge
             h2 == my * c[ix].v * Edge
  <2>5. comps[ix] = [h |-> c[ix].h, v |-> c[ix].v, x |-> x, y |-> y, w2 |-> w2, h2 |-> h2]
    BY <1>4
  <2> HIDE DEF x, y, w2, h2
  <2>6. comps[ix].h = c[ix].h /\ comps[ix].v = c[ix].v /\ comps[ix].x = x /\ comps[ix].y = y
          /\ comps[ix].w2 = w2
          /\ comps[ix].h2 = h2
    BY <2>5
  <2>4. /\ comps[ix].h = c[ix].h /\ comps[ix].v = c[ix].v
        /\ comps[ix].x = File!Ceil(f.x * c[ix].h, File!HMax(f))
             /\ comps[ix].y = File!Ceil(f.y * c[ix].v, File!VMax(f))
        /\ comps[ix].w2 = mx * c[ix].h * Edge /\ comps[ix].h2 = my * c[ix].v * Edge
    BY <2>6 DEF x, y, w2, h2
  <2> QED BY <2>1, <2>2, <2>3, <2>4, <1>6 DEF Component
<1>8. mx \in Nat \ {0} /\ my \in Nat \ {0}
  <2>1. 1 \in 1..4
    OBVIOUS
  <2> QED BY <2>1, <1>1, <1>2, PlaneHolds DEF mx, my
<1>9. Image(a)
  BY <1>1, <1>5, <1>6, <1>7, <1>8 DEF Image
<1> QED BY <1>5, <1>6, <1>9

\* u has the first 1..n sequences, one behind the other.
Joined(u, seqs, n) == u = [ix \in 1..n |-> IF ix = 1 THEN seqs[ix] ELSE u[ix - 1] \o seqs[ix]]

LEMMA JoinedAt ==
  ASSUME NEW seqs, NEW n, NEW u, Joined(u, seqs, n)
  PROVE  \A ix \in 1..n : u[ix] = IF ix = 1 THEN seqs[ix] ELSE u[ix - 1] \o seqs[ix]
<1> TAKE ix \in 1..n
<1> DEFINE g == [k \in 1..n |-> IF k = 1 THEN seqs[k] ELSE u[k - 1] \o seqs[k]]
<1>1. g[ix] = IF ix = 1 THEN seqs[ix] ELSE u[ix - 1] \o seqs[ix]
  OBVIOUS
<1>2. u = g
  BY DEF Joined
<1> HIDE DEF g
<1> QED BY <1>1, <1>2

\* There are such joins of any number of sequences.
LEMMA JoinsExist ==
  ASSUME NEW seqs, NEW n \in Nat \ {0}
  PROVE  \E u : Joined(u, seqs, n)
<1> DEFINE Bad == {k \in Nat \ {0} : ~\E u : Joined(u, seqs, k)}
<1>1. SUFFICES ASSUME Bad # {} PROVE FALSE
  OBVIOUS
<1>2. Bad \in SUBSET Nat
  OBVIOUS
<1>3. PICK m \in Bad : \A k \in Bad : m <= k
  BY <1>1, <1>2, Least
<1>4. m \in Nat \ {0} /\ ~\E u : Joined(u, seqs, m)
  BY <1>3
<1>5. m # 1
  <2> SUFFICES ASSUME m = 1 PROVE FALSE
    OBVIOUS
  <2> DEFINE z == [ix \in 1..1 |-> seqs[1]]
  <2>1. z = [ix \in 1..1 |-> IF ix = 1 THEN seqs[ix] ELSE z[ix - 1] \o seqs[ix]]
    <3>1. \A ix \in 1..1 : seqs[1] = IF ix = 1 THEN seqs[ix] ELSE z[ix - 1] \o seqs[ix]
      <4> HIDE DEF z
      <4>1. \A ix \in 1..1 : ix = 1
        OBVIOUS
      <4> QED BY <4>1
    <3> QED BY <3>1
  <2>2. Joined(z, seqs, 1)
    BY <2>1 DEF Joined
  <2> QED BY <1>4, <2>2
<1>6. PICK u : Joined(u, seqs, m - 1)
  <2>1. m - 1 \in Nat \ {0} /\ ~(m <= m - 1)
    BY <1>4, <1>5
  <2> QED BY <1>3, <2>1
<1> HIDE DEF Bad
<1> DEFINE w == [ix \in 1..m |-> IF ix = m THEN u[m - 1] \o seqs[m] ELSE u[ix]]
           e == [ix \in 1..m |-> IF ix = 1 THEN seqs[ix] ELSE w[ix - 1] \o seqs[ix]]
<1>8. \A ix \in 1..(m - 1) : u[ix] = IF ix = 1 THEN seqs[ix] ELSE u[ix - 1] \o seqs[ix]
  BY <1>6, JoinedAt
<1>9. w[m] = u[m - 1] \o seqs[m] /\ \A ix \in 1..(m - 1) : w[ix] = u[ix]
  <2>1. m \in 1..m /\ \A ix \in 1..(m - 1) : ix \in 1..m /\ ix # m
    BY <1>4
  <2>2. \A ix \in 1..m : w[ix] = IF ix = m THEN u[m - 1] \o seqs[m] ELSE u[ix]
    OBVIOUS
  <2> HIDE DEF w
  <2> QED BY <2>1, <2>2
<1>10. \A ix \in 1..m : w[ix] = IF ix = 1 THEN seqs[ix] ELSE w[ix - 1] \o seqs[ix]
  <2> HIDE DEF w
  <2> TAKE ix \in 1..m
  <2>1. CASE ix = m
    <3>1. m - 1 \in 1..(m - 1)
      BY <1>4, <1>5
    <3> QED BY <1>5, <1>9, <2>1, <3>1
  <2>2. CASE ix # m
    <3>1. ix \in 1..(m - 1) /\ w[ix] = u[ix]
      BY <1>4, <1>9, <2>2
    <3>2. ix # 1 => ix - 1 \in 1..(m - 1)
      BY <1>4, <3>1
    <3>3. ix # 1 => w[ix - 1] = u[ix - 1]
      BY <1>9, <3>2
    <3> QED BY <1>8, <3>1, <3>3
  <2> QED BY <2>1, <2>2
<1>11. w = e
  <2>1. DOMAIN w = 1..m /\ DOMAIN e = 1..m
          /\ \A ix \in 1..m : e[ix] = IF ix = 1 THEN seqs[ix] ELSE w[ix - 1] \o seqs[ix]
    OBVIOUS
  <2>2. \A ix \in 1..m : w[ix] = e[ix]
    BY <1>10, <2>1
  <2>3. w = [ix \in DOMAIN w |-> w[ix]] /\ e = [ix \in DOMAIN e |-> e[ix]]
    OBVIOUS
  <2> HIDE DEF w, e
  <2> QED BY <2>1, <2>2, <2>3
<1>12. Joined(w, seqs, m)
  BY <1>11 DEF Joined, e
<1> QED BY <1>4, <1>12

\* What is flattened is made of what is in the sequences, and is not empty
\* when none of them is.
LEMMA FlattenKeeps ==
  ASSUME NEW S, NEW seqs, Len(seqs) \in Nat \ {0},
         \A ix \in 1..Len(seqs) : seqs[ix] \in Seq(S) /\ seqs[ix] # <<>>
  PROVE  FlattenSeq(seqs) \in Seq(S) /\ FlattenSeq(seqs) # <<>>
<1> DEFINE n == Len(seqs)
           u == CHOOSE u : u = [ix \in 1..n |-> IF ix = 1 THEN seqs[ix] ELSE u[ix - 1] \o seqs[ix]]
<1>1. FlattenSeq(seqs) = u[n]
  BY DEF FlattenSeq, File!FlattenSeq
<1>2. n \in Nat \ {0}
  OBVIOUS
<1>3. PICK v : v = [ix \in 1..n |-> IF ix = 1 THEN seqs[ix] ELSE v[ix - 1] \o seqs[ix]]
  <2> HIDE DEF n
  <2> QED BY <1>2, JoinsExist DEF Joined
<1>4. u = [ix \in 1..n |-> IF ix = 1 THEN seqs[ix] ELSE u[ix - 1] \o seqs[ix]]
  <2> HIDE DEF n
  <2> QED BY <1>3
<1> HIDE DEF u
<1>5. \A ix \in 1..n : u[ix] = IF ix = 1 THEN seqs[ix] ELSE u[ix - 1] \o seqs[ix]
  <2>1. Joined(u, seqs, n)
    BY <1>4 DEF Joined
  <2> HIDE DEF n
  <2> QED BY <2>1, JoinedAt
<1>6. \A ix \in 1..n : seqs[ix] \in Seq(S) /\ seqs[ix] # <<>>
  OBVIOUS
<1> HIDE DEF n
<1> DEFINE Bad == {ix \in 1..n : ~(u[ix] \in Seq(S) /\ u[ix] # <<>>)}
<1>7. Bad = {}
  <2>1. SUFFICES ASSUME Bad # {} PROVE FALSE
    OBVIOUS
  <2>2. Bad \in SUBSET Nat
    BY <1>2
  <2>3. PICK m \in Bad : \A k \in Bad : m <= k
    <3> HIDE DEF Bad
    <3> QED BY <2>1, <2>2, Least
  <2>4. m \in 1..n /\ ~(u[m] \in Seq(S) /\ u[m] # <<>>)
    BY <2>3
  <2>5. m # 1
    BY <2>4, <1>5, <1>6
  <2>6. m - 1 \in 1..n /\ ~(m <= m - 1)
    BY <2>4, <2>5, <1>2
  <2>7. u[m - 1] \in Seq(S) /\ u[m - 1] # <<>>
    BY <2>3, <2>6
  <2>8. u[m] = u[m - 1] \o seqs[m]
    BY <1>5, <2>4, <2>5
  <2>9. seqs[m] \in Seq(S)
    BY <1>6, <2>4
  <2>10. \A a \in Seq(S), bd \in Seq(S) : a # <<>> => a \o bd \in Seq(S) /\ a \o bd # <<>>
    <3> TAKE a \in Seq(S), bd \in Seq(S)
    <3>1. a \o bd \in Seq(S) /\ Len(a \o bd) = Len(a) + Len(bd)
      OBVIOUS
    <3>2. a # <<>> => Len(a) > 0
      BY EmptySeq
    <3>3. Len(a) \in Nat /\ Len(bd) \in Nat /\ Len(<<>>) = 0
      OBVIOUS
    <3> QED BY <3>1, <3>2, <3>3
  <2> QED BY <2>4, <2>7, <2>8, <2>9, <2>10
<1>8. n \in 1..n
  BY <1>2
<1> QED BY <1>1, <1>7, <1>8

\* A block is stored inside the plane of its component, and so are all of some MCUs.
InPlace(z, d) == (d.x + 1) * Edge <= z.comps[d.n].w2 /\ (d.y + 1) * Edge <= z.comps[d.n].h2
InPlaces(z, mcus) ==
    /\ Len(mcus) \in Nat \ {0}
    /\ \A a \in 1..Len(mcus) : /\ Len(mcus[a]) \in Nat \ {0}
                               /\ \A ix \in 1..Len(mcus[a]) : InPlace(z, mcus[a][ix])

LEMMA Grid ==
  ASSUME NEW w \in Nat \ {0}, NEW ht \in Nat \ {0}, NEW a \in 0..w * ht - 1
  PROVE  a % w \in 0..w-1 /\ a \div w \in 0..ht-1
<1> DEFINE q == a \div w
           rx == a % w
<1>1. a \in Nat /\ w * ht \in Nat /\ a + 1 <= w * ht
  OBVIOUS
<1>2. q \in Int /\ rx \in 0..w-1 /\ a = w * q + rx
  BY <1>1
<1> HIDE DEF q, rx
<1>3. q < ht
  <2>1. ASSUME q >= ht PROVE FALSE
    <3>1. w * ht <= w * q
      BY <2>1, <1>2
    <3> QED BY <3>1, <1>1, <1>2
  <2> QED BY <2>1, <1>2
<1>4. q >= 0
  <2>1. ASSUME q <= 0 - 1 PROVE FALSE
    <3>1. w * q <= w * (0 - 1) /\ w * (0 - 1) = 0 - w
      BY <2>1, <1>2
    <3> QED BY <3>1, <1>1, <1>2
  <2> QED BY <2>1, <1>2
<1> QED BY <1>2, <1>3, <1>4 DEF q, rx

\* Of blocks b wide in whole columns of them, each ends inside.
LEMMA Inside ==
  ASSUME Edge \in Nat \ {0}, NEW m \in Nat, NEW bd \in Nat, NEW x \in Nat, x + 1 <= m * bd
  PROVE  (x + 1) * Edge <= m * bd * Edge
<1>1. x + 1 \in Nat /\ m * bd \in Nat /\ Edge \in Nat
  OBVIOUS
<1> QED BY <1>1, SizeProducts

LEMMA Column ==
  ASSUME NEW m \in Nat \ {0}, NEW bd \in Nat \ {0}, NEW a \in 0..m-1, NEW rx \in 0..bd-1
  PROVE  a * bd + rx \in Nat /\ a * bd + rx + 1 <= m * bd
<1>1. a \in Nat /\ a + 1 \in Nat /\ a + 1 <= m /\ bd \in Nat
  OBVIOUS
<1>2. a * bd \in Nat /\ (a + 1) * bd = a * bd + bd /\ (a + 1) * bd <= m * bd
  BY <1>1, SizeProducts
<1> QED BY <1>1, <1>2

LEMMA SingleInPlace ==
  ASSUME Edge \in Nat \ {0}, NEW z, Image(z), NEW n \in 1..Len(z.comps)
  PROVE  InPlaces(z, File!Single(z, n))
<1> DEFINE c == z.comps[n]
           w == File!Ceil(z.comps[n].x, Edge)
           ht == File!Ceil(z.comps[n].y, Edge)
           seq == File!Single(z, n)
<1>1. Component(z, c) /\ z.mcu_x \in Nat \ {0} /\ z.mcu_y \in Nat \ {0}
  BY DEF Image
<1>2. c.h \in 1..4 /\ c.v \in 1..4 /\ c.x \in Nat \ {0} /\ c.y \in Nat \ {0}
  BY <1>1 DEF Component
<1> DEFINE cols == z.mcu_x * c.h
           rows == z.mcu_y * c.v
<1>3. cols \in Nat /\ rows \in Nat
  <2>1. z.mcu_x \in Nat /\ c.h \in Nat /\ z.mcu_y \in Nat /\ c.v \in Nat
    BY <1>1, <1>2
  <2> QED BY <2>1, SizeProducts
<1>11. c.w2 = cols * Edge /\ c.h2 = rows * Edge /\ c.x <= cols * Edge /\ c.y <= rows * Edge
  BY <1>1 DEF Component
<1> HIDE DEF cols, rows
<1>4. w \in Nat \ {0} /\ w <= cols
  BY <1>2, <1>3, <1>11, CeilBounds
<1>5. ht \in Nat \ {0} /\ ht <= rows
  BY <1>2, <1>3, <1>11, CeilBounds
<1>6. seq = [ix \in 1..w * ht |-> <<[n |-> n, x |-> (ix - 1) % w, y |-> (ix - 1) \div w]>>]
  BY DEF File!Single
<1>7. w * ht \in Nat \ {0}
  BY <1>4, <1>5
<1> HIDE DEF seq, w, ht
<1>8. DOMAIN seq = 1..w * ht /\ Len(seq) = w * ht
  BY <1>6, <1>7
<1>9. ASSUME NEW a \in 1..w * ht PROVE Len(seq[a]) \in Nat \ {0}
        /\ \A ix \in 1..Len(seq[a]) : InPlace(z, seq[a][ix])
  <2> DEFINE x == (a - 1) % w
             y == (a - 1) \div w
             d == [n |-> n, x |-> x, y |-> y]
  <2>1. a - 1 \in 0..w * ht - 1
    BY <1>7
  <2>2. x \in 0..w-1 /\ y \in 0..ht-1
    BY <2>1, <1>4, <1>5, Grid
  <2>3. seq[a] = <<d>>
    BY <1>6
  <2> HIDE DEF x, y
  <2>4. Len(seq[a]) = 1 /\ seq[a][1] = d /\ d.n = n /\ d.x = x /\ d.y = y
    BY <2>3
  <2> HIDE DEF d
  <2>5. x \in Nat /\ x + 1 \in Nat /\ x + 1 <= cols
    BY <2>2, <1>3, <1>4
  <2>6. y \in Nat /\ y + 1 \in Nat /\ y + 1 <= rows
    BY <2>2, <1>3, <1>5
  <2>7. (x + 1) * Edge <= cols * Edge
    BY <2>5, <1>3, SizeProducts
  <2>8. (y + 1) * Edge <= rows * Edge
    BY <2>6, <1>3, SizeProducts
  <2>9. InPlace(z, d)
    BY <2>4, <2>7, <2>8, <1>11 DEF InPlace
  <2>10. \A ix \in 1..1 : ix = 1
    OBVIOUS
  <2> QED BY <2>4, <2>9, <2>10
<1> QED BY <1>7, <1>8, <1>9 DEF InPlaces, seq

LEMMA InterleavedInPlace ==
  ASSUME Edge \in Nat \ {0}, NEW z, Image(z), NEW order, Len(order) \in Nat \ {0},
         \A k \in 1..Len(order) : order[k] \in 1..Len(z.comps)
  PROVE  InPlaces(z, File!Interleaved(z, order))
<1> DEFINE blocks(n, a) ==
             [ix \in 1..z.comps[n].h * z.comps[n].v |->
                [n |-> n, x |-> ((a - 1) % z.mcu_x) * z.comps[n].h + File!InMcu(z.comps[n], ix - 1).x,
                 y |-> ((a - 1) \div z.mcu_x) * z.comps[n].v + File!InMcu(z.comps[n], ix - 1).y]]
           mcus == z.mcu_x * z.mcu_y
           S == {d \in [n : Nat, x : Nat, y : Nat] : InPlace(z, d)}
           parts(a) == [k \in 1..Len(order) |-> blocks(order[k], a)]
           seq == File!Interleaved(z, order)
<1>1. z.mcu_x \in Nat \ {0} /\ z.mcu_y \in Nat \ {0}
  BY DEF Image
<1>2. mcus \in Nat \ {0}
  BY <1>1
<1>3. seq = [a \in 1..mcus |-> FlattenSeq(parts(a))]
  BY DEF File!Interleaved, File!FlattenSeq, FlattenSeq
<1>4. ASSUME NEW a \in 1..mcus, NEW n \in 1..Len(z.comps) PROVE blocks(n, a) \in Seq(S) /\ blocks(n, a) # <<>>
  <2> DEFINE c == z.comps[n]
             X == (a - 1) % z.mcu_x
             Y == (a - 1) \div z.mcu_x
  <2>1. Component(z, c) /\ n \in Nat
    BY DEF Image
  <2>2. c.h \in Nat \ {0} /\ c.v \in Nat \ {0} /\ c.w2 = z.mcu_x * c.h * Edge /\ c.h2 = z.mcu_y * c.v * Edge
    BY <2>1 DEF Component
  <2>3. X \in 0..z.mcu_x-1 /\ Y \in 0..z.mcu_y-1
    <3>1. a - 1 \in 0..z.mcu_x * z.mcu_y - 1
      BY <1>2
    <3> QED BY <3>1, <1>1, Grid
  <2> HIDE DEF X, Y
  <2>4. ASSUME NEW ix \in 1..c.h * c.v
        PROVE  [n |-> n, x |-> X * c.h + File!InMcu(c, ix - 1).x, y |-> Y * c.v + File!InMcu(c, ix - 1).y]
                 \in S
    <3> DEFINE x == (ix - 1) % c.h
               y == (ix - 1) \div c.h
               d == [n |-> n, x |-> X * c.h + x, y |-> Y * c.v + y]
    <3>1. File!InMcu(c, ix - 1).x = x /\ File!InMcu(c, ix - 1).y = y
      BY DEF File!InMcu
    <3>2. ix - 1 \in 0..c.h * c.v - 1
      BY <2>2
    <3>3. x \in 0..c.h-1 /\ y \in 0..c.v-1
      BY <3>2, <2>2, Grid
    <3> HIDE DEF x, y
    <3>4. X * c.h + x \in Nat /\ X * c.h + x + 1 <= z.mcu_x * c.h
      BY <3>3, <2>2, <2>3, <1>1, Column
    <3>5. Y * c.v + y \in Nat /\ Y * c.v + y + 1 <= z.mcu_y * c.v
      BY <3>3, <2>2, <2>3, <1>1, Column
    <3>6. (X * c.h + x + 1) * Edge <= c.w2
      BY <3>4, <2>2, <1>1, Inside
    <3>7. (Y * c.v + y + 1) * Edge <= c.h2
      BY <3>5, <2>2, <1>1, Inside
    <3> DEFINE px == X * c.h + x
               py == Y * c.v + y
    <3>8. px \in Nat /\ py \in Nat /\ (px + 1) * Edge <= c.w2 /\ (py + 1) * Edge <= c.h2
      BY <3>4, <3>5, <3>6, <3>7
    <3>9. d = [n |-> n, x |-> px, y |-> py]
      OBVIOUS
    <3> HIDE DEF px, py, d
    <3>10. d \in [n : Nat, x : Nat, y : Nat] /\ d.n = n /\ d.x = px /\ d.y = py
      BY <3>8, <3>9, <2>1
    <3>11. d \in S
      BY <3>8, <3>10 DEF InPlace
    <3> QED BY <3>1, <3>11 DEF d
  <2>5. c.h * c.v \in Nat \ {0}
    BY <2>2
  <2>6. blocks(n, a) = [ix \in 1..c.h * c.v |->
                [n |-> n, x |-> X * c.h + File!InMcu(c, ix - 1).x, y |-> Y * c.v + File!InMcu(c, ix - 1).y]]
    BY DEF X, Y
  <2> HIDE DEF blocks, S
  <2>7. \A N \in Nat : \A f \in [1..N -> S] : f \in Seq(S) /\ Len(f) = N
    OBVIOUS
  <2>8. blocks(n, a) \in [1..c.h * c.v -> S]
    BY <2>4, <2>6
  <2>9. blocks(n, a) \in Seq(S) /\ Len(blocks(n, a)) # 0
    BY <2>5, <2>7, <2>8
  <2> QED BY <2>9, EmptySeq
<1> HIDE DEF blocks, S, mcus
<1>5. ASSUME NEW a \in 1..mcus PROVE FlattenSeq(parts(a)) \in Seq(S) /\ FlattenSeq(parts(a)) # <<>>
  <2> DEFINE p == parts(a)
  <2>1. Len(p) = Len(order) /\ \A k \in 1..Len(order) : p[k] = blocks(order[k], a)
    OBVIOUS
  <2>2. \A k \in 1..Len(p) : p[k] \in Seq(S) /\ p[k] # <<>>
    BY <2>1, <1>4
  <2> HIDE DEF p
  <2>3. FlattenSeq(p) \in Seq(S) /\ FlattenSeq(p) # <<>>
    BY <2>1, <2>2, FlattenKeeps
  <2> QED BY <2>3 DEF p
<1>6. DOMAIN seq = 1..mcus /\ Len(seq) = mcus /\ \A a \in 1..mcus : seq[a] = FlattenSeq(parts(a))
  <2> HIDE DEF parts, seq
  <2> QED BY <1>2, <1>3
<1>7. \A a \in 1..mcus : seq[a] \in Seq(S) /\ seq[a] # <<>>
  BY <1>5, <1>6
<1> HIDE DEF seq
<1>8. \A a \in 1..mcus : Len(seq[a]) \in Nat \ {0} /\ \A ix \in 1..Len(seq[a]) : seq[a][ix] \in S
  <2> TAKE a \in 1..mcus
  <2> DEFINE t == seq[a]
  <2>1. t \in Seq(S) /\ t # <<>>
    BY <1>7
  <2> HIDE DEF t
  <2>2. Len(t) \in Nat \ {0} /\ \A ix \in 1..Len(t) : t[ix] \in S
    BY <2>1, EmptySeq
  <2> QED BY <2>2 DEF t
<1>9. \A d \in S : InPlace(z, d)
  BY DEF S
<1>10. InPlaces(z, seq)
  BY <1>2, <1>6, <1>8, <1>9 DEF InPlaces
<1> QED BY <1>10 DEF seq

LEMMA PlanesOrdered ==
  ASSUME NEW z, Len(z.comps) \in Nat \ {0}
  PROVE  LET names == File!Planes(z)
         IN /\ DOMAIN names \subseteq Nat
            /\ \A ix \in DOMAIN names : names[ix][2] \in 1..Len(z.comps)
            /\ \A ix \in DOMAIN names : \A k \in 1..ix-1 : names[k][2] <= names[ix][2] /\ k \in DOMAIN names
<1> DEFINE n == Len(z.comps)
           names == File!Planes(z)
<1>1. CASE z.progressive
  <2>1. names = [k \in 1..2 * n |-> <<IF k % 2 = 1 THEN "data" ELSE "coeff", (k + 1) \div 2>>]
    BY <1>1 DEF File!Planes
  <2>2. DOMAIN names = 1..2 * n /\ \A ix \in 1..2 * n : names[ix][2] = (ix + 1) \div 2
    BY <2>1
  <2> HIDE DEF names
  <2>3. \A ix \in 1..2 * n : (ix + 1) \div 2 \in 1..n
    OBVIOUS
  <2>4. \A ix \in 1..2 * n : \A k \in 1..ix-1 : (k + 1) \div 2 <= (ix + 1) \div 2 /\ k \in 1..2 * n
    OBVIOUS
  <2> HIDE DEF n
  <2>5. \A ix \in 1..2 * n : \A k \in 1..ix-1 : names[k][2] <= names[ix][2]
    BY <2>2, <2>4
  <2>6. DOMAIN names \subseteq Nat
    BY <2>2
  <2> QED BY <2>2, <2>3, <2>4, <2>5, <2>6 DEF n, names
<1>2. CASE ~z.progressive
  <2>1. names = [k \in 1..n |-> <<"data", k>>]
    BY <1>2 DEF File!Planes
  <2>2. DOMAIN names = 1..n /\ \A ix \in 1..n : names[ix][2] = ix
    BY <2>1
  <2> HIDE DEF names
  <2>3. \A ix \in 1..n : \A k \in 1..ix-1 : k <= ix /\ k \in 1..n
    OBVIOUS
  <2>4. \A ix \in 1..n : \A k \in 1..ix-1 : names[k][2] <= names[ix][2]
    BY <2>2, <2>3
  <2>5. DOMAIN names \subseteq Nat
    BY <2>2
  <2> QED BY <2>2, <2>3, <2>4, <2>5 DEF names
<1> QED BY <1>1, <1>2

-----------------------------------------------------------------------------
(* The decoder's memory *)

Phase(z, hp, p, rx) ==
    /\ p \in {"test", "load"} => z = File!Blank /\ hp = {}
    /\ p = "soi" => z = File!Blank /\ hp = {Jpeg}
    /\ p \in {"header", "markers"} => Known(z) /\ Behind(z)
    /\ p \in {"header", "markers", "scan", "convert"} => Memory(z, hp)
    /\ p = "header" => z.ptr = {}
    /\ p = "convert" => DOMAIN z = Fields
    /\ p \in {"markers", "scan", "convert"} => Image(z)
    /\ p = "scan" => /\ Known(z) /\ InPlaces(z, z.mcus)
                     /\ z.mcu \in 1..Len(z.mcus) /\ z.k \in 1..Len(z.mcus[z.mcu])
    /\ p = "done" => hp = IF rx = "image" THEN {File!Output} ELSE {}
MemoryInv == FileKind(file) /\ twice = FALSE /\ Phase(j, heap, pc, result)

LEMMA Carried ==
  ASSUME FileKind(file), file' = file, twice' = FALSE, NEW z, j' = z, NEW hp, heap' = hp,
         NEW p, pc' = p, NEW rx, result' = rx, Phase(z, hp, p, rx)
  PROVE  MemoryInv'
  BY DEF MemoryInv, Phase, FileKind, Known, Behind, IsNext, File!IsMarker, File!Token, Memory, Image,
    Component, InPlaces, InPlace

LEMMA Ended ==
  ASSUME FileKind(file), file' = file, twice' = FALSE, pc' = "done",
    heap' = IF result' = "image" THEN {File!Output} ELSE {}
  PROVE  MemoryInv'
  BY DEF MemoryInv, Phase, FileKind

\* A step that only moves the decoder on.
LEMMA Gone ==
  ASSUME MemoryInv, NEW z, NEW p, File!Go(z, p), Phase(z, heap, p, result)
  PROVE  MemoryInv'
<1>1. file' = file /\ j' = z /\ pc' = p /\ heap' = heap /\ twice' = twice /\ result' = result
  BY DEF File!Go, File!Same
<1>2. FileKind(file) /\ twice' = FALSE
  BY <1>1 DEF MemoryInv
<1> HIDE DEF MemoryInv
<1> QED BY <1>1, <1>2, Carried

LEMMA Failed ==
  ASSUME MemoryInv, NEW z, Memory(z, heap), File!Error(z)
  PROVE  MemoryInv'
<1>1. FileKind(file) /\ twice = FALSE
  BY DEF MemoryInv
<1>2. pc' = "done" /\ result' = "error" /\ heap' = {} /\ twice' = FALSE /\ file' = file
  BY <1>1, ErrorFrees
<1>3. heap' = IF result' = "image" THEN {File!Output} ELSE {}
  BY <1>2
<1> QED BY <1>1, <1>2, <1>3, Ended

LEMMA BlankKnown ==
  Known(File!Blank) /\ Memory(File!Blank, {Jpeg}) /\ Memory(File!Blank, {}) /\ File!Blank.ptr = {}
    /\ File!Blank.comps = <<>>
<1>1. DOMAIN File!Blank = Fields /\ File!Blank.pos = 1 /\ File!Blank.marker = File!None
        /\ File!Blank.ptr = {} /\ File!Blank.comps = <<>>
  BY DEF File!Blank, Fields
<1>2. Len(<<>>) = 0 /\ 0 \in Nat /\ 1 \in Nat \ {0}
  OBVIOUS
<1>3. Known(File!Blank)
  BY <1>1, <1>2 DEF Known
<1>4. Memory(File!Blank, {Jpeg}) /\ Memory(File!Blank, {})
  BY <1>1, <1>2 DEF Memory
<1> QED BY <1>1, <1>3, <1>4

\* What the steps that only read a file keep, where there are no components yet
\* and where there are.
LEMMA KeptPhase ==
  ASSUME NEW z, NEW a, Kept(z, a), NEW hp
  PROVE  /\ Memory(z, hp) => Memory(a, hp)
         /\ z.ptr = {} => a.ptr = {}
         /\ Image(z) => Image(a)
         /\ \A mcus : InPlaces(z, mcus) => InPlaces(a, mcus)
  BY DEF Kept, Memory, Image, Component, InPlaces, InPlace

LEMMA TestStep == ASSUME MemoryInv, File!Test PROVE MemoryInv'
<1>1. FileKind(file) /\ twice = FALSE /\ j = File!Blank /\ heap = {}
  BY DEF MemoryInv, Phase, File!Test
<1>2. file' = file /\ j' = j /\ heap' = heap /\ twice' = twice
  BY DEF File!Test, File!Same
<1>3. pc' = "load" \/ (pc' = "done" /\ result' = "not a JPEG")
  BY DEF File!Test
<1>4. CASE pc' = "load"
  <2>1. Phase(File!Blank, {}, "load", result')
    BY DEF Phase
  <2> HIDE DEF MemoryInv
  <2> QED BY <1>1, <1>2, <1>4, <2>1, Carried
<1>5. CASE pc' = "done" /\ result' = "not a JPEG"
  BY <1>1, <1>2, <1>5, Ended
<1> QED BY <1>3, <1>4, <1>5

LEMMA LoadStep == ASSUME MemoryInv, File!Load PROVE MemoryInv'
<1>1. FileKind(file) /\ twice = FALSE /\ j = File!Blank /\ heap = {}
  BY DEF MemoryInv, Phase, File!Load
<1> DEFINE names == <<Jpeg>>
           ht == File!Mallocs(names)
<1>2. /\ file' = file /\ j' = j /\ heap' = ht.heap /\ twice' = twice
      /\ IF ht.ok THEN pc' = "soi" /\ result' = result ELSE pc' = "done" /\ result' = "error"
  BY DEF File!Load, File!Same, Jpeg
<1>3. DOMAIN names = 1..1 /\ names[1] = Jpeg /\ DOMAIN names \subseteq Nat
  OBVIOUS
<1> HIDE DEF names
<1>4. /\ ht.heap = heap \cup ht.ptr /\ ht.ok \in BOOLEAN
      /\ ht.ok => ht.ptr = {names[ix] : ix \in DOMAIN names}
      /\ ~ht.ok => \E n \in DOMAIN names : ht.at = names[n][2] /\ ht.ptr = {names[ix] : ix \in 1..n-1}
  BY <1>3, MallocsHold
<1> HIDE DEF ht
<1>5. CASE ht.ok
  <2>1. heap' = {Jpeg}
    BY <1>1, <1>2, <1>3, <1>4, <1>5
  <2>2. Phase(File!Blank, {Jpeg}, "soi", result')
    BY DEF Phase
  <2> HIDE DEF MemoryInv
  <2> QED BY <1>1, <1>2, <1>5, <2>1, <2>2, Carried
<1>6. CASE ~ht.ok
  <2>1. PICK n \in 1..1 : ht.ptr = {names[ix] : ix \in 1..n-1}
    BY <1>3, <1>4, <1>6
  <2>2. n = 1 /\ 1..n-1 = {}
    OBVIOUS
  <2>3. heap' = {}
    BY <1>1, <1>2, <1>4, <2>1, <2>2
  <2>4. pc' = "done" /\ result' = "error"
    BY <1>2, <1>6
  <2>5. heap' = IF result' = "image" THEN {File!Output} ELSE {}
    BY <2>3, <2>4
  <2> QED BY <1>1, <1>2, <2>4, <2>5, Ended
<1> QED BY <1>4, <1>5, <1>6

LEMMA SoiStep == ASSUME MemoryInv, File!Soi PROVE MemoryInv'
<1>1. FileKind(file) /\ j = File!Blank /\ heap = {Jpeg} /\ Len(file) \in Nat
  BY DEF MemoryInv, Phase, File!Soi, FileKind
<1>2. Known(j) /\ Memory(j, heap) /\ j.ptr = {}
  BY <1>1, BlankKnown
<1> DEFINE a == File!GetMarker(j)
           bd == File!GetMarker(a)
<1>3. Known(a) /\ Kept(j, a)
  BY <1>1, <1>2, GetMarkerStep
<1> HIDE DEF a
<1>4. Known(bd) /\ Behind(bd) /\ Kept(a, bd)
  BY <1>1, <1>3, GetMarkerStep
<1>5. File!Go(bd, "header") \/ File!Error(j)
  BY DEF File!Soi, a
<1> HIDE DEF bd
<1>6. Memory(bd, heap) /\ bd.ptr = {}
  BY <1>2, <1>3, <1>4, KeptPhase
<1>7. CASE File!Go(bd, "header")
  <2>1. Phase(bd, heap, "header", result)
    BY <1>4, <1>6 DEF Phase
  <2> QED BY <1>7, <2>1, Gone
<1>8. CASE File!Error(j)
  BY <1>2, <1>8, Failed
<1> QED BY <1>5, <1>7, <1>8

LEMMA HeaderStep == ASSUME MemoryInv, File!Header PROVE MemoryInv'
<1>1. FileKind(file) /\ Len(file) \in Nat /\ Known(j) /\ Memory(j, heap) /\ j.ptr = {}
  BY DEF MemoryInv, Phase, File!Header, FileKind
<1> DEFINE a == File!GetMarker(j)
           bd == File!GetMarker(File!Processed(j))
           c == [bd EXCEPT !.padding = TRUE]
<1>2. File!Error(j) \/ File!Go(a, "header") \/ (File!CanProcess(j) /\ File!Go(c, "header"))
  BY DEF File!Header
<1>3. CASE File!Error(j)
  BY <1>1, <1>3, Failed
<1>4. CASE File!Go(a, "header")
  <2>1. Known(a) /\ Behind(a) /\ Kept(j, a)
    BY <1>1, GetMarkerStep
  <2> HIDE DEF a
  <2>2. Memory(a, heap) /\ a.ptr = {}
    BY <1>1, <2>1, KeptPhase
  <2>3. Phase(a, heap, "header", result)
    BY <2>1, <2>2 DEF Phase
  <2> QED BY <1>4, <2>3, Gone
<1>5. CASE File!CanProcess(j) /\ File!Go(c, "header")
  <2> DEFINE q == File!Processed(j)
  <2>1. Known(q) /\ Kept(j, q)
    BY <1>1, <1>5, ProcessedStep DEF File!CanProcess
  <2> HIDE DEF q
  <2>2. Known(File!GetMarker(q)) /\ Behind(File!GetMarker(q)) /\ Kept(q, File!GetMarker(q))
    BY <1>1, <2>1, GetMarkerStep
  <2>3. Known(bd) /\ Behind(bd) /\ Kept(q, bd)
    BY <2>2 DEF q
  <2> HIDE DEF bd
  <2>4. DOMAIN c = Fields /\ c.pos = bd.pos /\ c.marker = bd.marker /\ c.m = bd.m /\ Kept(bd, c)
    BY <2>3 DEF Known, Fields, Kept
  <2> HIDE DEF c
  <2>5. Known(c) /\ Behind(c)
    BY <2>3, <2>4 DEF Known, Behind
  <2>6. Memory(c, heap) /\ c.ptr = {}
    BY <1>1, <2>1, <2>3, <2>4, KeptPhase
  <2>7. Phase(c, heap, "header", result)
    BY <2>5, <2>6 DEF Phase
  <2> QED BY <1>5, <2>7, Gone
<1> QED BY <1>2, <1>3, <1>4, <1>5

\* The body behind a marker is of that marker's kind.
LEMMA BodyFits ==
  ASSUME FileKind(file), NEW z, Known(z), Behind(z), z.m # File!None, File!BodyOf(z)
  PROVE  File!Fits(z.m, File!Body(z))
<1>1. z.pos \in Nat \ {0} /\ Len(file) \in Nat
  BY DEF Known, FileKind
<1>2. z.pos - 1 \in 1..Len(file) /\ File!IsMarker(z.pos - 1) /\ File!Token(z.pos - 1).m = z.m
  BY DEF Behind
<1>3. z.pos <= Len(file)
  BY <1>1 DEF File!BodyOf, File!Token
<1>4. z.pos - 1 \in 1..Len(file)-1 /\ (z.pos - 1) + 1 = z.pos /\ z.pos - 1 <= Len(file)
  BY <1>1, <1>2, <1>3
<1>5. file[z.pos - 1].t = "marker" /\ file[z.pos - 1].m = z.m
  BY <1>2, <1>4 DEF File!IsMarker, File!Token
<1>6. file[z.pos].t = "body" /\ File!Body(z) = file[z.pos].v
  BY <1>3 DEF File!BodyOf, File!Body, File!Token
<1> DEFINE ix == z.pos - 1
<1>7. file[ix].t = "marker" /\ file[ix + 1].t = "body" /\ ix \in 1..Len(file)-1
  BY <1>4, <1>5, <1>6
<1>8. File!Fits(file[ix].m, file[ix + 1].v)
  <2> HIDE DEF ix
  <2> QED BY <1>7 DEF FileKind
<1> QED BY <1>4, <1>5, <1>6, <1>8

LEMMA FrameStep == ASSUME File!FileAssumption, MemoryInv, File!Frame PROVE MemoryInv'
<1>1. /\ FileKind(file) /\ Len(file) \in Nat /\ twice = FALSE
      /\ Known(j) /\ Behind(j) /\ Memory(j, heap) /\ j.ptr = {} /\ j.m \in File!SOF
  BY DEF MemoryInv, Phase, File!Frame, FileKind
<1>2. CASE File!Error(j)
  BY <1>1, <1>2, Failed
<1>3. CASE ~File!Error(j)
  <2> DEFINE y == [j EXCEPT !.progressive = j.m = "SOF2"]
             f == File!Body(j)
             z == File!Framed(y, f)
             names == File!Planes(z)
             ht == File!Mallocs(names)
             freed == File!Freed(File!Held(ht.ptr, ht.heap), ht.at)
             a == File!GetMarker([z EXCEPT !.ptr = ht.ptr])
  <2>1. /\ File!BodyOf(j) /\ File!GoodFrame(f)
        /\ IF ~ht.ok THEN File!Return(z, freed, "error") /\ left' = ht.left
           ELSE /\ j' = a /\ heap' = ht.heap /\ left' = ht.left
                /\ pc' = "markers" /\ File!Same /\ UNCHANGED <<twice, result, decoded>>
    BY <1>3 DEF File!Frame
  <2>2. File!IsFrame(f)
    <3>1. j.m # File!None
      BY <1>1 DEF File!SOF, File!None
    <3>2. File!Fits(j.m, f)
      BY <1>1, <2>1, <3>1, BodyFits
    <3> QED BY <1>1, <3>2 DEF File!Fits
  <2>3. DOMAIN y = Fields /\ y.pos = j.pos /\ y.marker = j.marker /\ y.ptr = {}
    BY <1>1 DEF Known, Fields
  <2> HIDE DEF y
  <2>4. /\ DOMAIN z = Fields /\ z.pos = y.pos + 1 /\ z.marker = y.marker /\ z.ptr = {} /\ Image(z)
    BY <2>1, <2>2, <2>3, FramedStep DEF File!FileAssumption
  <2> HIDE DEF z, f
  <2>5. Len(z.comps) \in Nat \ {0}
    BY <2>4 DEF Image
  <2>6. /\ DOMAIN names \subseteq Nat
        /\ \A ix \in DOMAIN names : names[ix][2] \in 1..Len(z.comps)
        /\ \A ix \in DOMAIN names : \A k \in 1..ix-1 : names[k][2] <= names[ix][2] /\ k \in DOMAIN names
    BY <2>5, PlanesOrdered
  <2> HIDE DEF names
  <2>7. /\ ht.heap = heap \cup ht.ptr /\ ht.ok \in BOOLEAN
        /\ ht.ok => ht.ptr = {names[ix] : ix \in DOMAIN names}
        /\ ~ht.ok => \E n \in DOMAIN names : ht.at = names[n][2] /\ ht.ptr = {names[ix] : ix \in 1..n-1}
    BY <2>6, MallocsHold
  <2> HIDE DEF ht
  <2>8. heap \subseteq {Jpeg}
    BY <1>1 DEF Memory
  <2>9. CASE ~ht.ok
    <3>1. PICK n \in DOMAIN names : ht.at = names[n][2] /\ ht.ptr = {names[ix] : ix \in 1..n-1}
      BY <2>7, <2>9
    <3>2. \A p \in ht.ptr : p[2] <= ht.at
      BY <2>6, <3>1
    <3>3. File!Held(ht.ptr, ht.heap).ptr = ht.ptr /\ File!Held(ht.ptr, ht.heap).heap = ht.heap
            /\ File!Held(ht.ptr, ht.heap).twice = FALSE
      BY <1>1 DEF File!Held
    <3>4. File!Owned(ht.ptr, ht.at) = ht.ptr
      BY <3>2 DEF File!Owned
    <3>5. freed = [ptr |-> {}, heap |-> ht.heap \ ht.ptr, twice |-> FALSE]
      <4>1. File!Pointers(ht.ptr, ht.at) = {}
        BY <3>4 DEF File!Pointers
      <4>2. ht.ptr \subseteq ht.heap
        BY <2>7
      <4>3. ~(ht.ptr \subseteq ht.heap) = FALSE
        BY <4>2
      <4> QED BY <3>3, <3>4, <4>1, <4>3 DEF File!Freed
    <3> DEFINE rest == ht.heap \ ht.ptr
               ptr == {}
               kept == {}
    <3>6. freed = File!Held(ptr, rest)
      BY <1>1, <3>5 DEF File!Held
    <3>7. ptr \subseteq rest /\ (\A p \in ptr : p[2] \in 1..Len(z.comps)) /\ kept \subseteq rest /\ ptr = {}
            /\ kept = {}
      OBVIOUS
    <3>8. rest \subseteq ptr \cup {Jpeg} \cup kept
      BY <2>7, <2>8
    <3>9. File!Return(z, File!Held(ptr, rest), "error")
      BY <2>1, <2>9, <3>6
    <3>10. \A p \in kept : p # Jpeg /\ p \notin ptr
      OBVIOUS
    <3> HIDE DEF ptr, rest, kept
    <3>11. Len(z.comps) \in Nat
      BY <2>5
    <3>12. pc' = "done" /\ result' = "error" /\ heap' = kept /\ twice' = FALSE /\ file' = file
      BY <1>1, <3>7, <3>8, <3>9, <3>10, <3>11, ReturnFrees
    <3>13. heap' = IF result' = "image" THEN {File!Output} ELSE {}
      BY <3>7, <3>12
    <3> QED BY <1>1, <3>12, <3>13, Ended
  <2>10. CASE ht.ok
    <3> DEFINE bd == [z EXCEPT !.ptr = ht.ptr]
    <3>1. DOMAIN bd = Fields /\ bd.pos = z.pos /\ bd.marker = z.marker /\ bd.ptr = ht.ptr
            /\ bd.comps = z.comps
          /\ bd.mcu_x = z.mcu_x /\ bd.mcu_y = z.mcu_y
      BY <2>4 DEF Fields
    <3>2. Known([j EXCEPT !.pos = @ + 1]) /\ Known(j)
      BY <1>1, <2>1, ProcessedStep
    <3>3. [j EXCEPT !.pos = @ + 1].pos = j.pos + 1 /\ [j EXCEPT !.pos = @ + 1].marker = j.marker
      BY <3>2 DEF Known, Fields
    <3> HIDE DEF bd
    <3>4. Known(bd)
      BY <2>3, <2>4, <3>1, <3>2, <3>3 DEF Known
    <3>5. Image(bd)
      BY <2>4, <3>1 DEF Image, Component
    <3>6. Memory(bd, ht.heap)
      <4>1. ht.heap = heap \cup ht.ptr /\ ht.ptr = {names[ix] : ix \in DOMAIN names}
        BY <2>7, <2>10
      <4>2. \A p \in ht.ptr : p[2] \in 1..Len(z.comps)
        BY <2>6, <4>1
      <4> QED BY <4>1, <4>2, <2>5, <2>8, <3>1 DEF Memory
    <3>7. Known(a) /\ Behind(a) /\ Kept(bd, a)
      BY <1>1, <3>4, GetMarkerStep DEF bd
    <3> HIDE DEF a
    <3>8. Memory(a, ht.heap) /\ Image(a)
      BY <3>5, <3>6, <3>7, KeptPhase
    <3>9. Phase(a, ht.heap, "markers", result)
      BY <3>7, <3>8 DEF Phase
    <3>10. j' = a /\ heap' = ht.heap /\ pc' = "markers" /\ file' = file /\ twice' = FALSE /\ result' = result
      BY <1>1, <2>1, <2>10 DEF File!Same
    <3> HIDE DEF MemoryInv
    <3> QED BY <1>1, <3>9, <3>10, Carried
  <2> QED BY <2>7, <2>9, <2>10
<1> QED BY <1>2, <1>3

LEMMA ScanHeaderStep == ASSUME File!FileAssumption, MemoryInv, File!ScanHeader PROVE MemoryInv'
<1>1. /\ FileKind(file) /\ Len(file) \in Nat
      /\ Known(j) /\ Behind(j) /\ Memory(j, heap) /\ Image(j) /\ j.m = "SOS"
  BY DEF MemoryInv, Phase, File!ScanHeader, FileKind
<1> DEFINE order == File!Body(j).order
           mcus == File!Mcus(j, order)
           z == [j EXCEPT !.pos = @ + 1, !.scan = @ + 1, !.spec_start = File!Body(j).start, !.mcus = mcus,
             !.mcu = 1, !.k = 1]
           a == File!Reset(z)
<1>2. CASE File!Error(j)
  BY <1>1, <1>2, Failed
<1>3. CASE ~File!Error(j)
  <2>1. File!BodyOf(j) /\ File!GoodScan(j, File!Body(j)) /\ File!Go(a, "scan")
    BY <1>3 DEF File!ScanHeader
  <2>2. order \in Seq(Nat)
    <3>1. File!Fits(j.m, File!Body(j))
      BY <1>1, <2>1, BodyFits DEF File!None
    <3> QED BY <1>1, <3>1 DEF File!Fits, File!IsScan
  <2>3. DOMAIN j.comps = 1..Len(j.comps)
    BY <1>1 DEF Image
  <2>4. Len(order) \in Nat \ {0} /\ \A k \in 1..Len(order) : order[k] \in 1..Len(j.comps)
    <3>1. DOMAIN order = 1..Len(order) /\ Len(order) \in Nat
      BY <2>2
    <3>2. Len(order) \in 1..Len(j.comps) /\ \A k \in DOMAIN order : order[k] \in DOMAIN j.comps
      BY <2>1 DEF File!GoodScan
    <3>3. Len(order) # 0
      BY <3>2, <1>1 DEF Image
    <3> QED BY <2>3, <3>1, <3>2, <3>3
  <2>5. InPlaces(j, mcus)
    <3>1. Edge \in Nat \ {0}
      BY DEF File!FileAssumption
    <3>2. CASE Len(order) = 1
      <4>1. order[1] \in 1..Len(j.comps)
        BY <2>4, <3>2
      <4> QED BY <3>1, <3>2, <4>1, <1>1, SingleInPlace DEF File!Mcus
    <3>3. CASE Len(order) # 1
      <4> HIDE DEF order
      <4> QED BY <3>1, <3>3, <2>4, <1>1, InterleavedInPlace DEF File!Mcus
    <3> QED BY <3>2, <3>3
  <2> HIDE DEF order, mcus
  <2> DEFINE bd == [j EXCEPT !.pos = @ + 1]
  <2>6. Known(bd) /\ bd.pos = j.pos + 1 /\ bd.marker = j.marker
    <3>1. Known(bd)
      BY <1>1, <2>1, ProcessedStep
    <3> QED BY <3>1, <1>1 DEF Known, Fields
  <2>7. /\ DOMAIN z = Fields /\ z.pos = j.pos + 1 /\ z.marker = j.marker /\ z.comps = j.comps /\ z.ptr = j.ptr
        /\ z.mcu_x = j.mcu_x /\ z.mcu_y = j.mcu_y /\ z.mcus = mcus /\ z.mcu = 1 /\ z.k = 1
    BY <1>1 DEF Known, Fields
  <2> HIDE DEF bd, z
  <2>8. Known(z)
    BY <2>6, <2>7 DEF Known
  <2>9. Known(a) /\ Kept(z, a)
    BY <1>1, <2>8, ResetStep
  <2> HIDE DEF a
  <2>10. Memory(z, heap) /\ Image(z) /\ InPlaces(z, mcus)
    BY <1>1, <2>5, <2>7 DEF Memory, Image, Component, InPlaces, InPlace
  <2>11. Memory(a, heap) /\ Image(a) /\ InPlaces(a, mcus)
    BY <2>9, <2>10, KeptPhase
  <2>12. a.mcus = mcus /\ a.mcu = 1 /\ a.k = 1
    BY <2>7, <2>9 DEF Kept
  <2>13. a.mcu \in 1..Len(a.mcus) /\ a.k \in 1..Len(a.mcus[a.mcu])
    <3>1. 1 \in 1..Len(mcus)
      BY <2>11 DEF InPlaces
    <3>2. 1 \in 1..Len(mcus[1])
      BY <3>1, <2>11 DEF InPlaces
    <3> QED BY <3>1, <3>2, <2>12
  <2>14. Phase(a, heap, "scan", result)
    BY <2>9, <2>11, <2>12, <2>13 DEF Phase
  <2> QED BY <2>1, <2>14, Gone
<1> QED BY <1>2, <1>3

\* Where the markers behind the frame are read.
LEMMA MarkersMove ==
  ASSUME MemoryInv, NEW z, Known(z), Kept(j, z), Memory(j, heap), Image(j),
    File!Go(File!GetMarker(z), "markers")
  PROVE  MemoryInv'
<1> DEFINE a == File!GetMarker(z)
<1>1. Len(file) \in Nat
  BY DEF MemoryInv, FileKind
<1>2. Known(a) /\ Behind(a) /\ Kept(z, a)
  BY <1>1, GetMarkerStep
<1>3. Memory(z, heap) /\ Image(z)
  BY KeptPhase
<1>4. File!Go(a, "markers")
  OBVIOUS
<1> HIDE DEF a
<1>5. Memory(a, heap) /\ Image(a)
  BY <1>2, <1>3, KeptPhase
<1>6. Phase(a, heap, "markers", result)
  BY <1>2, <1>5 DEF Phase
<1> QED BY <1>4, <1>6, Gone

LEMMA MarkersStep == ASSUME MemoryInv, File!Lines \/ File!Segment \/ File!Finish PROVE MemoryInv'
<1>1. Known(j) /\ Memory(j, heap) /\ Image(j)
  BY DEF MemoryInv, Phase, File!Lines, File!Segment, File!Finish
<1> DEFINE y == [j EXCEPT !.pos = @ + 1]
           z == File!Processed(j)
           e == [j EXCEPT !.finished = TRUE]
<1>2. \/ File!Error(j) \/ (File!BodyOf(j) /\ File!Go(File!GetMarker(y), "markers"))
      \/ (File!CanProcess(j) /\ File!Go(File!GetMarker(z), "markers")) \/ File!Go(j, "convert")
        \/ File!Go(e, "convert")
  BY DEF File!Lines, File!Segment, File!Finish
<1>3. CASE File!Error(j)
  BY <1>1, <1>3, Failed
<1>4. CASE File!BodyOf(j) /\ File!Go(File!GetMarker(y), "markers")
  <2>1. Known(y) /\ Kept(j, y)
    BY <1>1, <1>4, ProcessedStep
  <2> HIDE DEF y
  <2> QED BY <1>1, <1>4, <2>1, MarkersMove
<1>5. CASE File!CanProcess(j) /\ File!Go(File!GetMarker(z), "markers")
  <2>1. Known(z) /\ Kept(j, z)
    BY <1>1, <1>5, ProcessedStep DEF File!CanProcess
  <2> HIDE DEF z
  <2> QED BY <1>1, <1>5, <2>1, MarkersMove
<1>6. CASE File!Go(j, "convert")
  <2>1. Phase(j, heap, "convert", result)
    BY <1>1 DEF Phase, Known
  <2> QED BY <1>6, <2>1, Gone
<1>7. CASE File!Go(e, "convert")
  <2>1. Kept(j, e) /\ DOMAIN e = Fields
    BY <1>1 DEF Known, Fields, Kept
  <2> HIDE DEF e
  <2>2. Memory(e, heap) /\ Image(e)
    BY <1>1, <2>1, KeptPhase
  <2>3. Phase(e, heap, "convert", result)
    BY <2>1, <2>2 DEF Phase
  <2> QED BY <1>7, <2>3, Gone
<1> QED BY <1>2, <1>3, <1>4, <1>5, <1>6, <1>7

\* The decoder in a scan.
InScan(z) ==
    /\ Known(z) /\ Memory(z, heap) /\ Image(z) /\ InPlaces(z, z.mcus)
    /\ z.mcu \in 1..Len(z.mcus) /\ z.k \in 1..Len(z.mcus[z.mcu])

LEMMA ScanGoesOn ==
  ASSUME MemoryInv, File!Same, UNCHANGED <<heap, left, twice, result>>,
         NEW z, InScan(z), j' = z, pc' = "scan"
  PROVE  MemoryInv'
<1>1. Phase(z, heap, "scan", result)
  BY DEF InScan, Phase
<1>2. FileKind(file) /\ file' = file /\ twice' = FALSE /\ heap' = heap /\ result' = result
  BY DEF MemoryInv, File!Same
<1> HIDE DEF MemoryInv
<1> QED BY <1>1, <1>2, Carried

LEMMA ScanEnds ==
  ASSUME MemoryInv, File!Same, UNCHANGED <<heap, left, twice, result>>,
         NEW z, Known(z), Memory(z, heap), Image(z), j' = File!AfterScan(z), pc' = "markers"
  PROVE  MemoryInv'
<1> DEFINE a == File!AfterScan(z)
<1>1. FileKind(file) /\ file' = file /\ twice' = FALSE /\ heap' = heap /\ result' = result
        /\ Len(file) \in Nat
  BY DEF MemoryInv, File!Same, FileKind
<1>2. Known(a) /\ Behind(a) /\ Kept(z, a)
  BY <1>1, AfterScanStep
<1>3. j' = a
  OBVIOUS
<1> HIDE DEF a, MemoryInv
<1>4. Memory(a, heap) /\ Image(a)
  BY <1>2, KeptPhase
<1>5. Phase(a, heap, "markers", result)
  BY <1>2, <1>4 DEF Phase
<1> QED BY <1>1, <1>3, <1>5, Carried

LEMMA KeptScan ==
  ASSUME NEW z, NEW a, InScan(z), Known(a), Kept(z, a)
  PROVE  InScan(a)
<1>1. Memory(a, heap) /\ Image(a) /\ InPlaces(a, z.mcus)
  BY KeptPhase DEF InScan
<1>2. a.mcus = z.mcus /\ a.mcu = z.mcu /\ a.k = z.k
  BY DEF Kept
<1> QED BY <1>1, <1>2 DEF InScan

\* What was read of a block, a marker, or neither.
LEMMA ReadStep ==
  ASSUME Len(file) \in Nat, NEW z, Known(z)
  PROVE  LET tok == File!Token(z.pos)
             read == [z EXCEPT !.pos = IF tok.t \in {"block", "junk", "body"} THEN @ + 1 ELSE @,
                               !.marker = IF tok.t = "marker" /\ @ = File!None THEN tok.m ELSE @]
         IN Known(read) /\ Kept(z, read)
<1> DEFINE tok == File!Token(z.pos)
           read == [z EXCEPT !.pos = IF tok.t \in {"block", "junk", "body"} THEN @ + 1 ELSE @,
                             !.marker = IF tok.t = "marker" /\ @ = File!None THEN tok.m ELSE @]
<1>0. DOMAIN z = Fields /\ z.pos \in Nat \ {0}
  BY DEF Known
<1>1. /\ DOMAIN read = Fields /\ read.pos = (IF tok.t \in {"block", "junk", "body"} THEN z.pos + 1 ELSE z.pos)
      /\ read.marker = (IF tok.t = "marker" /\ z.marker = File!None THEN tok.m ELSE z.marker)
  BY <1>0 DEF Fields
<1>2. Kept(z, read)
  BY <1>0 DEF Fields, Kept
<1> HIDE DEF read
<1>3. ASSUME tok.t = "marker" PROVE Known(read)
  <2>1. File!IsMarker(z.pos) /\ read.pos = z.pos
    BY <1>1, <1>3 DEF File!IsMarker
  <2>2. z.pos \in z.pos..Len(file) /\ z.pos..z.pos-1 = {}
    BY <1>0, <2>1, Positions
  <2>3. IsNext(z.pos, z.pos)
    BY <2>1, <2>2 DEF IsNext
  <2>4. read.marker # File!None => \E p : IsNext(p, read.pos) /\ File!Token(p).m = read.marker
    BY <2>1, <2>3, <1>1, <1>3 DEF Known
  <2> QED BY <1>0, <1>1, <2>1, <2>4 DEF Known
<1>4. ASSUME tok.t # "marker" PROVE Known(read)
  <2>1. read.marker = z.marker /\ ~File!IsMarker(z.pos)
    BY <1>1, <1>4 DEF File!IsMarker
  <2>2. read.pos \in Nat \ {0} /\ (read.pos = z.pos \/ read.pos = z.pos + 1)
    BY <1>0, <1>1
  <2>3. ASSUME NEW p, IsNext(p, z.pos) PROVE IsNext(p, z.pos + 1)
    <3>1. p \in z.pos..Len(file) /\ File!IsMarker(p) /\ \A q \in z.pos..p-1 : ~File!IsMarker(q)
      BY <2>3 DEF IsNext
    <3>2. p # z.pos
      BY <2>1, <3>1
    <3>3. p \in (z.pos + 1)..Len(file) /\ \A q \in (z.pos + 1)..p-1 : q \in z.pos..p-1
      BY <3>1, <3>2, <1>0
    <3> QED BY <3>1, <3>3 DEF IsNext
  <2>4. read.marker # File!None => \E p : IsNext(p, read.pos) /\ File!Token(p).m = read.marker
    BY <2>1, <2>2, <2>3 DEF Known
  <2> QED BY <1>1, <2>2, <2>4 DEF Known
<1>5. Known(read)
  BY <1>3, <1>4
<1> QED BY <1>2, <1>5 DEF read

LEMMA BlockStep == ASSUME MemoryInv, File!Block PROVE MemoryInv'
<1> DEFINE tok == File!Token(j.pos)
           isBlock == tok.t = "block"
           read == [j EXCEPT !.pos = IF tok.t \in {"block", "junk", "body"} THEN @ + 1 ELSE @,
                             !.marker = IF tok.t = "marker" /\ @ = File!None THEN tok.m ELSE @]
           ready == {read} \cup (IF File!Reaches(read) THEN {File!Found(read)} ELSE {})
           counted(z) == [z EXCEPT !.todo = @ - 1, !.mcu = @ + 1, !.k = 1]
           last(z) == z.mcu = Len(z.mcus)
<1>1. FileKind(file) /\ Len(file) \in Nat /\ InScan(j)
  BY DEF MemoryInv, Phase, File!Block, FileKind, InScan
<1>2. Known(read) /\ Kept(j, read)
  BY <1>1, ReadStep DEF InScan
<1>3. PICK z \in ready :
            LET c == counted(z)
                f == File!Filled(c)
            IN \/ /\ ~isBlock /\ File!Error(z)
               \/ /\ decoded' = Append(decoded, j.mcus[j.mcu][j.k]
                                               @@ [id |-> IF isBlock THEN tok.id ELSE 0, scan |-> j.scan])
                  /\ IF z.k < Len(z.mcus[z.mcu]) THEN j' = [z EXCEPT !.k = @ + 1] /\ pc' = "scan"
                     ELSE IF c.todo > 0
                     THEN IF last(z) THEN j' = File!AfterScan(c) /\ pc' = "markers"
                                     ELSE j' = c /\ pc' = "scan"
                     ELSE IF f.marker \notin File!Restart THEN j' = File!AfterScan(f) /\ pc' = "markers"
                     ELSE IF last(z) THEN j' = File!AfterScan(File!AfterRestart(f)) /\ pc' = "markers"
                     ELSE j' = File!AfterRestart(f) /\ pc' = "scan"
                  /\ File!Same /\ UNCHANGED <<heap, left, twice, result>>
  BY DEF File!Block
<1> HIDE DEF read
<1>4. Known(z) /\ Kept(j, z)
  <2>1. CASE z = read
    BY <1>2, <2>1
  <2>2. CASE File!Reaches(read) /\ z = File!Found(read)
    <3>1. Known(z) /\ Kept(read, z)
      BY <1>1, <1>2, <2>2, ReachesStep
    <3> QED BY <1>2, <3>1 DEF Kept
  <2> QED BY <1>3, <2>1, <2>2
<1>5. InScan(z)
  BY <1>1, <1>4, KeptScan
<1> DEFINE n == [z EXCEPT !.k = @ + 1]
           c == counted(z)
           f == File!Filled(c)
           rx == File!AfterRestart(f)
<1>6. \/ File!Error(z)
      \/ /\ File!Same /\ UNCHANGED <<heap, left, twice, result>>
         /\ \/ z.k < Len(z.mcus[z.mcu]) /\ j' = n /\ pc' = "scan"
            \/ /\ j' = File!AfterScan(c) \/ j' = File!AfterScan(f) \/ j' = File!AfterScan(rx)
               /\ pc' = "markers"
            \/ /\ ~last(z) /\ pc' = "scan" /\ (j' = c \/ j' = rx)
  BY <1>3
<1>7. z.k \in Nat /\ z.mcu \in Nat /\ Len(z.mcus) \in Nat /\ Len(z.mcus[z.mcu]) \in Nat
  BY <1>5 DEF InScan, InPlaces
<1>8. DOMAIN z = Fields /\ z.pos \in Nat \ {0}
  BY <1>4 DEF Known
<1>9. /\ DOMAIN c = Fields /\ c.pos = z.pos /\ c.marker = z.marker /\ c.mcu_x = z.mcu_x /\ c.mcu_y = z.mcu_y
      /\ c.comps = z.comps /\ c.ptr = z.ptr /\ c.mcus = z.mcus /\ c.mcu = z.mcu + 1 /\ c.k = 1
  BY <1>8 DEF Fields
<1>10. /\ DOMAIN n = Fields /\ n.pos = z.pos /\ n.marker = z.marker /\ n.mcu_x = z.mcu_x /\ n.mcu_y = z.mcu_y
       /\ n.comps = z.comps /\ n.ptr = z.ptr /\ n.mcus = z.mcus /\ n.mcu = z.mcu /\ n.k = z.k + 1
  BY <1>8 DEF Fields
<1> HIDE DEF c, n
<1>11. Known(c) /\ Memory(c, heap) /\ Image(c) /\ InPlaces(c, c.mcus)
  BY <1>5, <1>9 DEF InScan, Known, Memory, Image, Component, InPlaces, InPlace
<1>12. Known(n) /\ Memory(n, heap) /\ Image(n) /\ InPlaces(n, n.mcus)
  BY <1>5, <1>10 DEF InScan, Known, Memory, Image, Component, InPlaces, InPlace
<1>13. Known(f) /\ Kept(c, f)
  BY <1>1, <1>11, FilledStep
<1> HIDE DEF f
<1>14. Known(rx) /\ Kept(f, rx)
  BY <1>1, <1>13, ResetStep DEF File!AfterRestart
<1> HIDE DEF rx
<1>15. Memory(f, heap) /\ Image(f) /\ Memory(rx, heap) /\ Image(rx)
  <2>1. Memory(f, heap) /\ Image(f)
    BY <1>11, <1>13, KeptPhase
  <2> QED BY <2>1, <1>14, KeptPhase
<1>16. z.k < Len(z.mcus[z.mcu]) => InScan(n)
  <2>1. z.k < Len(z.mcus[z.mcu]) => n.k \in 1..Len(n.mcus[n.mcu])
    BY <1>7, <1>10
  <2>2. n.mcu \in 1..Len(n.mcus)
    BY <1>5, <1>10 DEF InScan
  <2> QED BY <1>12, <2>1, <2>2 DEF InScan
<1>17. ~last(z) => InScan(c) /\ InScan(rx)
  <2> SUFFICES ASSUME z.mcu # Len(z.mcus) PROVE InScan(c) /\ InScan(rx)
    OBVIOUS
  <2>1. z.mcu \in 1..Len(z.mcus)
    BY <1>5 DEF InScan
  <2>2. c.mcu \in 1..Len(c.mcus)
    BY <2>1, <1>7, <1>9
  <2>3. c.k \in 1..Len(c.mcus[c.mcu])
    BY <2>2, <1>9, <1>11 DEF InPlaces
  <2>4. InScan(c)
    BY <2>2, <2>3, <1>11 DEF InScan
  <2>5. InScan(f)
    BY <2>4, <1>13, KeptScan
  <2> QED BY <2>4, <2>5, <1>14, KeptScan
<1>18. CASE File!Error(z)
  <2>1. Memory(z, heap)
    BY <1>5 DEF InScan
  <2> QED BY <1>18, <2>1, Failed
<1>19. CASE File!Same /\ (UNCHANGED <<heap, left, twice, result>>) /\ pc' = "scan" /\ \E seq : j' = seq
         /\ InScan(seq)
  BY <1>19, ScanGoesOn
<1>20. CASE /\ File!Same /\ (UNCHANGED <<heap, left, twice, result>>) /\ pc' = "markers"
            /\ \E seq : Known(seq) /\ Memory(seq, heap) /\ Image(seq) /\ j' = File!AfterScan(seq)
  BY <1>20, ScanEnds
<1> HIDE DEF last, MemoryInv
<1> QED BY <1>6, <1>11, <1>13, <1>14, <1>15, <1>16, <1>17, <1>18, <1>19, <1>20

LEMMA ConvertStep == ASSUME MemoryInv, File!Convert PROVE MemoryInv'
<1>1. FileKind(file) /\ twice = FALSE /\ Memory(j, heap) /\ Image(j) /\ DOMAIN j = Fields
  BY DEF MemoryInv, Phase, File!Convert
<1> DEFINE n == IF req_comp # 0 THEN req_comp ELSE IF Len(j.comps) >= 3 THEN 3 ELSE 1
           decode_n == IF Len(j.comps) = 3 /\ n < 3 THEN 1 ELSE Len(j.comps)
           names == [k \in 1..decode_n + 1 |-> IF k > decode_n THEN File!Output ELSE <<"linebuf", k>>]
           ht == File!Mallocs(names)
           z == [j EXCEPT !.ptr = @ \cup (ht.ptr \ {File!Output})]
           lines == ht.ptr \ {File!Output}
           ptr == j.ptr \cup lines
           kept == IF ht.ok THEN {File!Output} ELSE {}
           rx == IF ht.ok THEN "image" ELSE "error"
<1>2. File!Return(z, File!Held(z.ptr, ht.heap), rx)
  BY DEF File!Convert
<1>3. Len(j.comps) \in Nat \ {0} /\ decode_n \in 1..Len(j.comps)
  BY <1>1 DEF Image
<1> HIDE DEF decode_n
<1>4. decode_n \in Nat \ {0} /\ DOMAIN names = 1..decode_n + 1 /\ DOMAIN names \subseteq Nat
  BY <1>3
<1>5. \A k \in 1..decode_n : names[k] = <<"linebuf", k>>
  <2>1. \A k \in 1..decode_n : k \in 1..decode_n + 1 /\ ~(k > decode_n)
    BY <1>4
  <2> QED BY <2>1
<1>6. names[decode_n + 1] = File!Output
  <2>1. decode_n + 1 \in 1..decode_n + 1 /\ decode_n + 1 > decode_n
    BY <1>4
  <2> QED BY <2>1
<1> HIDE DEF names
<1>7. /\ ht.heap = heap \cup ht.ptr /\ ht.ok \in BOOLEAN
      /\ ht.ok => ht.ptr = {names[ix] : ix \in DOMAIN names}
      /\ ~ht.ok => \E m \in DOMAIN names : ht.at = names[m][2] /\ ht.ptr = {names[ix] : ix \in 1..m-1}
  BY <1>4, MallocsHold
<1> HIDE DEF ht
<1>8. z.ptr = ptr /\ z.comps = j.comps
  BY <1>1 DEF Fields
<1> HIDE DEF z
<1>9. \A ix \in 1..decode_n + 1 : names[ix] = File!Output \/ names[ix][2] \in 1..decode_n
  <2> TAKE ix \in 1..decode_n + 1
  <2>1. ix = decode_n + 1 \/ ix \in 1..decode_n
    BY <1>4
  <2> QED BY <2>1, <1>5, <1>6
<1>10. ht.ptr \subseteq {names[ix] : ix \in 1..decode_n + 1}
  <2>1. CASE ht.ok
    BY <2>1, <1>4, <1>7
  <2>2. CASE ~ht.ok
    <3>1. PICK m \in 1..decode_n + 1 : ht.ptr = {names[ix] : ix \in 1..m-1}
      BY <2>2, <1>4, <1>7
    <3>2. \A ix \in 1..m-1 : ix \in 1..decode_n + 1
      BY <1>4
    <3> QED BY <3>1, <3>2
  <2> QED BY <2>1, <2>2, <1>7
<1>11. \A p \in lines : p[2] \in 1..Len(z.comps)
  <2>1. \A p \in lines : p[2] \in 1..decode_n
    BY <1>9, <1>10
  <2>2. \A p \in 1..decode_n : p \in 1..Len(z.comps)
    BY <1>3, <1>8
  <2> QED BY <2>1, <2>2
<1>12. \A p \in ptr : p[2] \in 1..Len(z.comps)
  BY <1>1, <1>8, <1>11 DEF Memory
<1>13. File!Output \notin ptr /\ File!Output # Jpeg
  <2>1. File!Output[2] = 0 /\ 0 \notin 1..Len(z.comps)
    BY <1>3, <1>8 DEF File!Output
  <2>2. File!Output # Jpeg
    BY DEF File!Output, Jpeg
  <2> QED BY <1>12, <2>1, <2>2
<1>14. ht.ok => File!Output \in ht.ptr
  <2>1. decode_n + 1 \in DOMAIN names
    BY <1>4
  <2> QED BY <2>1, <1>6, <1>7
<1>15. ~ht.ok => File!Output \notin ht.ptr
  <2> SUFFICES ASSUME ~ht.ok PROVE File!Output \notin ht.ptr
    OBVIOUS
  <2>1. PICK m \in 1..decode_n + 1 : ht.ptr = {names[ix] : ix \in 1..m-1}
    BY <1>4, <1>7
  <2>2. \A ix \in 1..m-1 : ix \in 1..decode_n
    BY <1>4
  <2>3. \A ix \in 1..m-1 : names[ix] # File!Output
    BY <2>2, <1>5 DEF File!Output
  <2> QED BY <2>1, <2>3
<1> DEFINE hp == ht.heap
<1>16. hp \subseteq ptr \cup {Jpeg} \cup kept /\ ptr \subseteq hp /\ kept \subseteq hp
  BY <1>1, <1>7, <1>14, <1>15 DEF Memory
<1>17. \A p \in kept : p # Jpeg /\ p \notin ptr
  BY <1>13
<1>18. File!Return(z, File!Held(ptr, hp), rx) /\ Len(z.comps) \in Nat
  BY <1>2, <1>3, <1>8
<1>19. kept = IF rx = "image" THEN {File!Output} ELSE {}
  OBVIOUS
<1> HIDE DEF ptr, hp, kept, rx
<1>20. pc' = "done" /\ result' = rx /\ heap' = kept /\ twice' = FALSE /\ file' = file
  BY <1>1, <1>12, <1>16, <1>17, <1>18, ReturnFrees
<1>21. heap' = IF result' = "image" THEN {File!Output} ELSE {}
  BY <1>19, <1>20
<1> QED BY <1>1, <1>20, <1>21, Ended

LEMMA InitMemory == ASSUME File!FileAssumption, File!Init PROVE MemoryInv
<1>1. FileKind(file)
  <2>1. CASE file \in Files
    BY <2>1, FilesAreFiles
  <2>2. CASE file \in OddFiles \cup UNION {File!Damaged(f) : f \in Files}
    BY <2>2, FilesAreFiles
  <2> QED BY <2>1, <2>2 DEF File!Init
<1>2. Phase(j, heap, pc, result)
  BY DEF File!Init, Phase
<1> QED BY <1>1, <1>2 DEF File!Init, MemoryInv

LEMMA NextMemory == ASSUME File!FileAssumption, MemoryInv, [File!Next]_File!vars PROVE MemoryInv'
<1>1. CASE File!Test
  BY <1>1, TestStep
<1>2. CASE File!Load
  BY <1>2, LoadStep
<1>3. CASE File!Soi
  BY <1>3, SoiStep
<1>4. CASE File!Header
  BY <1>4, HeaderStep
<1>5. CASE File!Frame
  BY <1>5, FrameStep
<1>6. CASE File!ScanHeader
  BY <1>6, ScanHeaderStep
<1>7. CASE File!Lines \/ File!Segment \/ File!Finish
  BY <1>7, MarkersStep
<1>8. CASE File!Block
  BY <1>8, BlockStep
<1>9. CASE File!Convert
  BY <1>9, ConvertStep
<1>10. CASE UNCHANGED File!vars
  <2>1. file' = file /\ twice' = FALSE /\ j' = j /\ heap' = heap /\ pc' = pc /\ result' = result
    BY <1>10 DEF File!vars, MemoryInv
  <2>2. FileKind(file) /\ Phase(j, heap, pc, result)
    BY DEF MemoryInv
  <2> QED BY <2>1, <2>2, Carried
<1> QED BY <1>1, <1>2, <1>3, <1>4, <1>5, <1>6, <1>7, <1>8, <1>9, <1>10 DEF File!Next

\* For every file, whatever is lost of it and whichever malloc fails: a block is
\* stored in the memory of its component, every buffer is freed, none twice, and
\* only an image that is returned has its output left.
THEOREM FileMemoryKept == ASSUME File!FileAssumption PROVE File!Spec => []File!MemoryKept
<1>1. MemoryInv => File!MemoryKept
  <2> SUFFICES ASSUME MemoryInv PROVE File!MemoryKept
    OBVIOUS
  <2>1. twice = FALSE /\ (pc = "done" => heap = IF result = "image" THEN {File!Output} ELSE {})
    BY DEF MemoryInv, Phase
  <2>2. ASSUME pc = "scan" PROVE InPlace(j, j.mcus[j.mcu][j.k])
    <3>1. InPlaces(j, j.mcus) /\ j.mcu \in 1..Len(j.mcus) /\ j.k \in 1..Len(j.mcus[j.mcu])
      BY <2>2 DEF MemoryInv, Phase
    <3> QED BY <3>1 DEF InPlaces
  <2> QED BY <2>1, <2>2 DEF File!MemoryKept, InPlace
<1>2. File!Spec => []MemoryInv
  BY InitMemory, NextMemory, PTL DEF File!Spec
<1> QED BY <1>1, <1>2, PTL

-----------------------------------------------------------------------------
(* Image: the parts together.                                              *)

\* No step changes the part.
LEMMA PartFixed == [Next]_vars => part' = part
  BY DEF Next, vars, notStream, notHuffman, notSize, notBlock, notFile, notRows, notColour

\* A behaviour is one of the stream of bytes, or never is.
LEMMA RunsStream == Spec => (([](part = "stream") /\ Stream!Spec) \/ []~(part = "stream"))
<1>1. Init /\ part = "stream" => Stream!Init
  BY DEF Init
<1>2. part = "stream" /\ [Next]_vars => [Stream!Next]_Stream!vars /\ (part = "stream")'
  <2> SUFFICES ASSUME part = "stream", [Next]_vars PROVE [Stream!Next]_Stream!vars
    BY PartFixed
  <2>1. UNCHANGED vars => UNCHANGED Stream!vars
    BY DEF vars, streamOnly, Stream!vars
  <2> QED BY <2>1 DEF Next
<1>3. ~(part = "stream") /\ [Next]_vars => (~(part = "stream"))'
  BY PartFixed
<1> QED BY <1>1, <1>2, <1>3, PTL DEF Spec, Stream!Spec

\* A behaviour is one of the checks of sizes, or never is.
LEMMA RunsSize == Spec => (([](part = "sizes") /\ Size!Spec) \/ []~(part = "sizes"))
<1>1. Init /\ part = "sizes" => Size!Init
  BY DEF Init
<1>2. part = "sizes" /\ [Next]_vars => [Size!Next]_Size!vars /\ (part = "sizes")'
  <2> SUFFICES ASSUME part = "sizes", [Next]_vars PROVE [Size!Next]_Size!vars
    BY PartFixed
  <2>1. UNCHANGED vars => UNCHANGED Size!vars
    BY DEF vars, sizeOnly, Size!vars
  <2> QED BY <2>1 DEF Next
<1>3. ~(part = "sizes") /\ [Next]_vars => (~(part = "sizes"))'
  BY PartFixed
<1> QED BY <1>1, <1>2, <1>3, PTL DEF Spec, Size!Spec

\* A behaviour is one of the decoder on a file, or never is.
LEMMA RunsFile == Spec => (([](part = "file") /\ File!Spec) \/ []~(part = "file"))
<1>1. Init /\ part = "file" => File!Init
  BY DEF Init
<1>2. part = "file" /\ [Next]_vars => [File!Next]_File!vars /\ (part = "file")'
  <2> SUFFICES ASSUME part = "file", [Next]_vars PROVE [File!Next]_File!vars
    BY PartFixed
  <2>1. UNCHANGED vars => UNCHANGED File!vars
    BY DEF vars, fileOnly, File!vars
  <2> QED BY <2>1 DEF Next
<1>3. ~(part = "file") /\ [Next]_vars => (~(part = "file"))'
  BY PartFixed
<1> QED BY <1>1, <1>2, <1>3, PTL DEF Spec, File!Spec

\* The decoders read the bytes of the image, whatever buffer is between them.
THEOREM StreamExactCorrect == Spec => []StreamExact
<1>1. Stream!Spec => []Stream!StreamExact
  BY StreamReadsExact, ImageAssumption DEF ImageAssumption
<1> QED BY <1>1, RunsStream, PTL DEF StreamExact

\* Sizes are computed without overflow, and a texture's memory is neither left
\* nor left allocated.
THEOREM MemoryKeptCorrect == Spec => []MemoryKept
<1>1. Size!Spec => []Size!SizesExact
  BY SizesExactEverywhere, ImageAssumption DEF ImageAssumption
<1>2. File!Spec => []File!MemoryKept
  BY FileMemoryKept, ImageAssumption DEF ImageAssumption
<1> QED BY <1>1, <1>2, RunsSize, RunsFile, PTL DEF MemoryKept
=============================================================================
