----------------------------- MODULE JpegHuffman -----------------------------
(***************************************************************************)
(* src/16-cube/stb_image.h:2003-2190: Huffman tables and the bit buffer.   *)
(* Codes have up to MaxLen bits (16 in the code), the buffer Word (32), a  *)
(* byte ByteBits (8), the accelerated prefix FastBits (9); the highest     *)
(* byte is the one that introduces markers, and the number Flag (255)      *)
(* marks a prefix that is not accelerated.                                 *)
(***************************************************************************)
EXTENDS Integers, Sequences, SequencesExt

CONSTANTS
    MaxLen, ByteBits, FastBits, Flag,
    FastMax,      \* the largest value in the table of small values, 127
    MaxCount,     \* bound: codes of one length
    MaxBytes,     \* bound: bytes of the stream
    LongCounts, MaxLong     \* bound: counts for which the stream is longer

HuffmanAssumption == MaxLen \in Nat \ {0} /\ FastBits \in 1..MaxLen /\ ByteBits \in 1..MaxLen

Word == 2 * MaxLen
Ones == 2^ByteBits - 1
NoMarker == Ones       \* STBI__MARKER_none

VARIABLES
    count,      \* how many codes there are of each length
    h,          \* stbi__huffman, or the error
    stream,     \* the bytes of the scan and what follows it
    j,          \* the bit buffer in stbi__jpeg, and the position in the stream
    pc,
    at,         \* history: data bits consumed
    got, meant  \* history: the last result, and the reference decoder's

vars == <<count, h, stream, j, pc, at, got, meant>>

-----------------------------------------------------------------------------
\* One length: its codes follow those of the shorter ones, doubled.
Level(t, len) ==
    LET n == count[len] IN
    [ok |-> t.ok /\ (n > 0 => t.code + n - 1 < 2^len),
     code |-> 2 * (t.code + n), k |-> t.k + n,
     codes |-> t.codes \o [i \in 1..n |-> [size |-> len, code |-> t.code + i - 1]],
     delta |-> Append(t.delta, t.k - t.code),
     maxcode |-> Append(t.maxcode, (t.code + n) * 2^(MaxLen - len))]
\* A prefix of FastBits bits is that of one code at most.
Fast(codes, c) ==
    LET ids == {i \in DOMAIN codes : codes[i].size <= FastBits
                                     /\ codes[i].code = c \div 2^(FastBits - codes[i].size)}
    IN IF ids = {} THEN Flag ELSE (CHOOSE i \in ids : TRUE) - 1
BuildHuffman ==
    LET t == FoldLeft(Level, [ok |-> TRUE, code |-> 0, k |-> 0, codes |-> <<>>, delta |-> <<>>, maxcode |-> <<>>],
                      [len \in 1..MaxLen |-> len])
    IN IF ~t.ok \/ t.k > Flag + 1 THEN [ok |-> FALSE]
       ELSE [ok |-> TRUE, codes |-> t.codes, delta |-> t.delta, maxcode |-> t.maxcode,
             fast |-> [c \in 0..2^FastBits-1 |-> Fast(t.codes, c)]]

\* The bits of a value that follow a symbol: its low digit, here by its number.
Magbits(id) == id % 3

\* Mutant: a value is positive.
NoSign(k, n) == k
\* n bits, the highest 0 for a negative value.
Extend(k, n) == IF n > 0 /\ k < 2^(n-1) THEN k - 2^n + 1 ELSE k

\* The values that follow short codes within the prefix, when small.
FastAc(c) ==
    LET id == h.fast[c] IN
    IF id = Flag \/ Magbits(id) = 0 \/ h.codes[id + 1].size + Magbits(id) > FastBits THEN <<>>
    ELSE LET len == h.codes[id + 1].size
             mag == Magbits(id)
             k == Extend(((c * 2^len) % 2^FastBits) \div 2^(FastBits - mag), mag)
         IN IF k \in -(FastMax + 1)..FastMax THEN <<id, k, len + mag>> ELSE <<>>

-----------------------------------------------------------------------------
ByteAt(p) == IF p <= Len(stream) THEN stream[p] ELSE 0
PastFill[p \in Nat] == IF ByteAt(p) = Ones THEN PastFill[p + 1] ELSE p

\* Mutant: a stuffed zero is not skipped.
AfterStuffed(p) == p - 1
AfterFill(p) == p
\* Mutant: the byte that introduces a marker is kept as the marker.
Introducing(p) == ByteAt(p - 1)
MarkerByte(p) == ByteAt(p)
\* stbi__grow_buffer_unsafe: bytes until the buffer is full or a marker comes.
OneByte(b) ==
    LET byte == IF b.nomore THEN 0 ELSE ByteAt(b.p)
        end == PastFill[b.p + 1]
        next == IF b.nomore THEN b.p ELSE IF byte = Ones THEN AfterFill(end) + 1 ELSE b.p + 1
    IN IF byte = Ones /\ ByteAt(end) # 0
       THEN [b EXCEPT !.marker = MarkerByte(end), !.nomore = TRUE, !.p = end + 1]
       ELSE [b EXCEPT !.code_buffer = @ + byte * 2^(Word - ByteBits - b.code_bits),
                      !.code_bits = @ + ByteBits, !.p = next]
Grow(b0) ==
    LET more(b) == b.code_bits <= Word - ByteBits /\ b.nomore = b0.nomore
    IN FoldLeft(LAMBDA b, n : IF more(b) THEN OneByte(b) ELSE b, b0, [n \in 1..(Word \div ByteBits) |-> n])
Grown(b, n) == IF b.code_bits < n THEN Grow(b) ELSE b

Top(b, n) == b.code_buffer \div 2^(Word - n)
Consume(b, n) == [b EXCEPT !.code_buffer = (@ * 2^n) % 2^Word, !.code_bits = @ - n]

\* stbi__jpeg_huff_decode: the symbol's number, or -1.
Decode(b0) ==
    LET b == Grown(b0, MaxLen)
        id == h.fast[Top(b, FastBits)]
        ks == {k \in FastBits+1..MaxLen : Top(b, MaxLen) < h.maxcode[k]}
        k == CHOOSE n \in ks : \A m \in ks : n <= m
        c == Top(b, k) + h.delta[k]
    IN IF id # Flag
       THEN IF h.codes[id + 1].size > b.code_bits THEN [value |-> -1, j |-> b]
            ELSE [value |-> id, j |-> Consume(b, h.codes[id + 1].size)]
       ELSE IF ks = {} THEN [value |-> -1, j |-> [b EXCEPT !.code_bits = @ - MaxLen]]
       ELSE IF k > b.code_bits \/ c \notin 0..Len(h.codes)-1 THEN [value |-> -1, j |-> b]
       ELSE [value |-> c, j |-> Consume(b, k)]

\* get_bits, get_bit; extend_receive gives the bits a sign.
GetBits(b0, n) ==
    LET b == Grown(b0, n) IN
    IF b.code_bits < n THEN [value |-> 0, j |-> b] ELSE [value |-> Top(b, n), j |-> Consume(b, n)]
ExtendReceive(b0, n) ==
    LET b == Grown(b0, n) IN
    IF b.code_bits < n THEN [value |-> 0, j |-> b] ELSE [value |-> Extend(Top(b, n), n), j |-> Consume(b, n)]

\* A symbol and its value, as decode_block reads them: by the table of small
\* values, or one after the other.
DecodeAc(b0) ==
    LET b == Grown(b0, MaxLen)
        r == FastAc(Top(b, FastBits))
        symbol == Decode(b)
        bits == ExtendReceive(symbol.j, Magbits(symbol.value))
    IN IF r # <<>>
       THEN [value |-> IF r[3] > b.code_bits THEN <<-1>> ELSE <<r[1], r[2]>>, j |-> Consume(b, r[3])]
       ELSE IF symbol.value = -1 THEN [value |-> <<-1>>, j |-> symbol.j]
       ELSE [value |-> <<symbol.value, bits.value>>, j |-> bits.j]

-----------------------------------------------------------------------------
\* The reference: the data bits, up to a marker, which is added to Ones here, or
\* zeros for ever, and the code that they start with.
Data ==
    LET data[p \in Nat] ==
          IF p > Len(stream) THEN <<>>
          ELSE IF stream[p] # Ones THEN <<stream[p]>> \o data[p + 1]
          ELSE IF ByteAt(PastFill[p]) = 0 THEN <<Ones>> \o data[PastFill[p] + 1]
               ELSE <<Ones + ByteAt(PastFill[p])>>
    IN data[1]
Ends == Data # <<>> /\ Data[Len(Data)] > Ones
MarkerBehind == Data[Len(Data)] - Ones
BitCount == (IF Ends THEN Len(Data) - 1 ELSE Len(Data)) * ByteBits
BitAt(n) ==     \* from 0
    IF n >= BitCount THEN 0
    ELSE (Data[n \div ByteBits + 1] \div 2^(ByteBits - 1 - (n % ByteBits))) % 2
ValueAt(n, len) ==
    LET v[i \in 0..len] == IF i = 0 THEN 0 ELSE 2 * v[i - 1] + BitAt(n + i - 1) IN v[len]
SignedAt(n, len) == IF len > 0 /\ BitAt(n) = 0 THEN ValueAt(n, len) - (2^len - 1) ELSE ValueAt(n, len)
Enough(n) == ~Ends \/ n <= BitCount
Starting == {i \in DOMAIN h.codes : ValueAt(at, h.codes[i].size) = h.codes[i].code}

Init ==
    /\ count \in [1..MaxLen -> 0..MaxCount] /\ (\E len \in 1..MaxLen : count[len] > 0)
    /\ h = BuildHuffman
    /\ stream \in UNION {[1..n -> 0..Ones] : n \in 0..(IF count \in LongCounts THEN MaxLong ELSE IF h.ok THEN MaxBytes ELSE 0)}
    /\ j = [code_buffer |-> 0, code_bits |-> 0, nomore |-> FALSE, marker |-> NoMarker, p |-> 1]
    /\ pc = "decode" /\ at = 0 /\ got = <<>> /\ meant = <<>>

\* One call. There is no reference for a call that runs out of data: the
\* decoder gets zeros or fails, and goes no further here.
Call(result, bits, value) ==
    /\ j' = result.j /\ at' = at + bits
    /\ IF Enough(at + bits) THEN got' = <<result.value>> /\ meant' = <<value>> /\ UNCHANGED pc
       ELSE pc' = "short" /\ UNCHANGED <<got, meant>>
    /\ UNCHANGED <<count, h, stream>>
Bounded == pc = "decode" /\ h.ok /\ at < Len(stream) * ByteBits
HuffDecode ==
    /\ Bounded /\ Starting # {}
    /\ \E i \in Starting : Call(Decode(j), h.codes[i].size, i - 1)
AcDecode ==
    /\ Bounded /\ Starting # {}
    /\ \E i \in Starting :
         LET mag == Magbits(i - 1)
             len == h.codes[i].size
         IN Call(DecodeAc(j), len + mag, <<i - 1, SignedAt(at + len, mag)>>)
\* No code starts here: the decoder fails.
HuffFails ==
    /\ Bounded /\ Starting = {} /\ pc' = "failed"
    /\ got' = <<Decode(j).value>> /\ meant' = <<-1>> /\ j' = Decode(j).j
    /\ UNCHANGED <<count, h, stream, at>>
Receive(n) == Bounded /\ Call(ExtendReceive(j, n), n, SignedAt(at, n))
Bits(n) == Bounded /\ Call(GetBits(j, n), n, ValueAt(at, n))

Next == HuffDecode \/ AcDecode \/ HuffFails \/ \E n \in 1..MaxLen-1 : Receive(n) \/ Bits(n)
Spec == Init /\ [][Next]_vars

-----------------------------------------------------------------------------
\* A list of lengths is accepted if there is room for its codes and for their
\* numbers, and only then (lines 2011 and 2029).
Roomy == /\ FoldLeft(+, 0, count) <= Flag + 1
         /\ \A len \in 1..MaxLen : count[len] > 0 =>
              LET used[l \in 0..len] == IF l = 0 THEN 0 ELSE used[l - 1] + count[l] * 2^(MaxLen - l)
              IN used[len] <= 2^MaxLen
\* As long as there is data, what the buffer gives is what the data says, by
\* whichever table: no bit lost or repeated at the ends of bytes, at stuffed
\* zeros and fill bytes. The marker behind the data, and no other, is kept as
\* soon as bits behind the data are in the buffer, however far it runs ahead. A
\* code whose number is Flag is not decoded when it is short (lines 2034-2044).
CodesDecoded ==
    /\ h.ok = Roomy
    /\ h.ok /\ (Len(h.codes) <= Flag \/ h.codes[Flag + 1].size > FastBits) => got = meant
    /\ j.marker # NoMarker => Ends /\ j.marker = MarkerBehind
    /\ pc = "decode" => /\ j.code_bits >= 0
                        /\ Ends /\ at + j.code_bits > BitCount => j.marker = MarkerBehind
=============================================================================
