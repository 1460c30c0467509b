----------------------------- MODULE ImageStream -----------------------------
(***************************************************************************)
(* src/16-cube/stb_image.h:799-895 and 1597-1735: the stream of bytes that *)
(* the decoders read, from memory or from a file through a small buffer.   *)
(* The byte at an offset is the offset plus one, so 0 is no byte.          *)
(***************************************************************************)
EXTENDS Integers, Sequences

CONSTANTS
    BufLen,     \* sizeof(buffer_start), 128 in the code
    Lengths,      \* lengths of the image
    Counts,     \* arguments of skip and getn
    MaxCalls    \* bound: calls of the decoders

StreamAssumption == BufLen \in Nat \ {0} /\ Lengths \subseteq Nat /\ Counts \subseteq Int

VARIABLES
    source,     \* "memory" or "file"
    size,
    s,          \* stbi__context, with the FILE's position and end-of-file flag
    pc,
    pos,        \* history: where a reader without a buffer would be
    got, meant, \* history: what the last call returned, and such a reader would have
    spoiled,    \* history: a test read on past what was in the buffer first
    first, calls

vars == <<source, size, s, pc, pos, got, meant, spoiled, first, calls>>

Byte(at) == IF at < size THEN at + 1 ELSE 0
Bytes(at, n) == [k \in 1..n |-> Byte(at + k - 1)]

-----------------------------------------------------------------------------
\* fread: what it returns and what it leaves.
Count(c, n) == IF c.fpos >= size THEN 0 ELSE IF size - c.fpos < n THEN size - c.fpos ELSE n
Fread(c, n) == [c EXCEPT !.fpos = @ + Count(c, n), !.feof = @ \/ Count(c, n) < n]

\* At the end of the file one zero byte takes the place of the buffer.
RefillBuffer(c) ==
    LET n == Count(c, BufLen)
        f == Fread(c, BufLen)
    IN IF n = 0 THEN [f EXCEPT !.read_from_callbacks = FALSE, !.img_buffer = 0, !.img_buffer_end = 1,
                               !.buffer_start[0] = 0]
       ELSE [f EXCEPT !.img_buffer = 0, !.img_buffer_end = n,
                      !.buffer_start = [i \in 0..BufLen-1 |-> IF i < n THEN Byte(c.fpos + i) ELSE @[i]]]

Blank == [img_buffer |-> 0, img_buffer_end |-> 0, original_end |-> 0, read_from_callbacks |-> FALSE,
          buffer_start |-> [i \in 0..BufLen-1 |-> 0], fpos |-> 0, feof |-> FALSE]
StartMem == [Blank EXCEPT !.img_buffer_end = size, !.original_end = size, !.buffer_start = [i \in 0..size-1 |-> i + 1]]
StartCallbacks == LET c == RefillBuffer([Blank EXCEPT !.read_from_callbacks = TRUE])
                  IN [c EXCEPT !.original_end = c.img_buffer_end]

Get8(c) ==
    LET r == IF c.img_buffer < c.img_buffer_end \/ ~c.read_from_callbacks THEN c ELSE RefillBuffer(c)
    IN IF r.img_buffer < r.img_buffer_end
       THEN [value |-> r.buffer_start[r.img_buffer], s |-> [r EXCEPT !.img_buffer = @ + 1]]
       ELSE [value |-> 0, s |-> r]
\* Mutant: the two bytes are read the other way round.
LowFirst(a, b) == a + 256 * b
HighFirst(a, b) == 256 * a + b
Get16be(c) == LET a == Get8(c)
                  b == Get8(a.s)
              IN [value |-> HighFirst(a.value, b.value), s |-> b.s]
Get32be(c) == LET a == Get16be(c)
                  b == Get16be(a.s)
              IN [value |-> 65536 * a.value + b.value, s |-> b.s]
Get16le(c) == LET a == Get8(c)
                  b == Get8(a.s)
              IN [value |-> a.value + 256 * b.value, s |-> b.s]
Get32le(c) == LET a == Get16le(c)
                  b == Get16le(a.s)
              IN [value |-> a.value + 65536 * b.value, s |-> b.s]

AtEof(c) ==
    IF source = "file" /\ ~c.feof THEN FALSE
    ELSE (source = "file" /\ ~c.read_from_callbacks) \/ c.img_buffer >= c.img_buffer_end

Buffered(c) == c.img_buffer_end - c.img_buffer
\* fseek, then a byte is read and put back, for the sake of feof.
StdioSkip(c, n) == [c EXCEPT !.fpos = @ + n, !.feof = c.fpos + n >= size]
\* Mutant: the buffered bytes are skipped once more.
SkipAll(c, n) == n
SkipRest(c, n) == n - Buffered(c)
Skip(c, n) ==
    IF n = 0 THEN c
    ELSE IF n < 0 THEN [c EXCEPT !.img_buffer = c.img_buffer_end]
    ELSE IF source = "file" /\ Buffered(c) < n
         THEN StdioSkip([c EXCEPT !.img_buffer = c.img_buffer_end], SkipRest(c, n))
    ELSE [c EXCEPT !.img_buffer = @ + n]

Window(c, n) == [k \in 1..n |-> c.buffer_start[c.img_buffer + k - 1]]
GetN(c, n) ==
    IF source = "file" /\ Buffered(c) < n
    THEN LET rest == n - Buffered(c) IN
         [ok |-> Count(c, rest) = rest, value |-> Window(c, Buffered(c)) \o Bytes(c.fpos, Count(c, rest)),
          s |-> [Fread(c, rest) EXCEPT !.img_buffer = c.img_buffer_end]]
    ELSE IF Buffered(c) >= n THEN [ok |-> TRUE, value |-> Window(c, n), s |-> [c EXCEPT !.img_buffer = @ + n]]
    ELSE [ok |-> FALSE, value |-> <<>>, s |-> c]

Rewound(c) == [c EXCEPT !.img_buffer = 0, !.img_buffer_end = c.original_end]

-----------------------------------------------------------------------------
Init ==
    /\ source \in {"memory", "file"} /\ size \in Lengths
    /\ s = IF source = "memory" THEN StartMem ELSE StartCallbacks
    /\ pc = "test" /\ pos = 0 /\ got = <<>> /\ meant = <<>>
    /\ spoiled = FALSE /\ first = s.fpos /\ calls = 0

Call == calls < MaxCalls /\ calls' = calls + 1 /\ pc # "closed" /\ UNCHANGED <<source, size, pc, spoiled, first>>

Read(result, n, value) ==
    /\ Call /\ s' = result.s /\ got' = <<result.value>> /\ meant' = <<value>> /\ pos' = pos + n
ReadByte == Read(Get8(s), 1, Byte(pos))
ReadWord ==
    LET b == Bytes(pos, 4) IN
    \/ Read(Get16be(s), 2, 256 * b[1] + b[2])
    \/ Read(Get16le(s), 2, 256 * b[2] + b[1])
    \/ Read(Get32be(s), 4, ((b[1] * 256 + b[2]) * 256 + b[3]) * 256 + b[4])
    \/ Read(Get32le(s), 4, ((b[4] * 256 + b[3]) * 256 + b[2]) * 256 + b[1])
SkipBytes(n) ==
    /\ Call /\ (n < 0 => pc = "load") /\ s' = Skip(s, n)
    /\ pos' = IF n >= 0 THEN pos + n ELSE IF source = "file" THEN s.fpos ELSE size
    /\ UNCHANGED <<got, meant>>
\* A read that fails leaves a file at its end, and memory where it was.
ReadBlock(n) ==
    LET r == GetN(s, n) IN
    /\ Call /\ pc = "load" /\ n >= 0 /\ s' = r.s
    /\ pos' = IF r.ok THEN pos + n ELSE IF source = "file" /\ pos < size THEN size ELSE pos
    /\ got' = (IF r.ok THEN r.value ELSE <<>>)
    /\ meant' = (IF pos + n <= size THEN Bytes(pos, n) ELSE <<>>)

\* The end of a test: the next test, or the decoder, starts again. No test
\* accepts an image without a byte.
Rewind ==
    /\ pc = "test" /\ pc' \in {"test"} \cup {l \in {"load"} : size > 0}
    /\ s' = Rewound(s) /\ pos' = 0
    /\ spoiled' = (spoiled \/ (source = "file" /\ (s.fpos # first \/ (~s.read_from_callbacks /\ size > 0))))
    /\ UNCHANGED <<source, size, got, meant, first, calls>>

\* stbi_load_from_file gives the file back behind the image, if there is one;
\* fseek refuses to go before the start.
Unget == pc = "load" /\ pc' = "closed" /\ source = "file"
         /\ s' = [s EXCEPT !.fpos = IF @ < Buffered(s) THEN @ ELSE @ - Buffered(s), !.feof = FALSE]
         /\ UNCHANGED <<source, size, pos, got, meant, spoiled, first, calls>>

Next == ReadByte \/ ReadWord \/ (\E n \in Counts : SkipBytes(n) \/ ReadBlock(n)) \/ Rewind \/ Unget
Spec == Init /\ [][Next]_vars

-----------------------------------------------------------------------------
\* The decoders see the image byte for byte, whatever mix of calls they make
\* and wherever the buffer ends: at_eof holds at the end only, and behind it;
\* and the file is given back at the byte after the last one read. All this if
\* no test reads past the first buffer or the end before it rewinds, as the
\* comment of stbi__rewind asks (lines 886-893).
StreamExact ==
    ~spoiled =>
        /\ got = meant
        /\ pc # "closed" /\ AtEof(s) => pos >= size
        /\ pc # "closed" /\ pos > size => AtEof(s)
        /\ pc = "closed" /\ pos <= size => s.fpos = pos
=============================================================================
