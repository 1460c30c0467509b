------------------------------ MODULE JpegFile ------------------------------
(***************************************************************************)
(* src/16-cube/stb_image.h:2915-3447, 3842-3923 and 4028-4053: the JPEG    *)
(* decoder on a file. A file is a sequence of markers, the bodies of their *)
(* segments, encoded blocks, and bytes that are none of these. The bits of *)
(* up to Ahead blocks may be in the bit buffer (JpegHuffman) when a marker *)
(* is found behind them; a block whose bits are not there decodes to       *)
(* anything, or fails.                                                     *)
(***************************************************************************)
EXTENDS Integers, Sequences, SequencesExt, FiniteSets

CONSTANTS
    Edge,        \* pixels along a block, 8 in the code
    Ahead,
    IntMax, ShortMax,
    Files,       \* well-formed files
    OddFiles,    \* files with a frame that the decoder does not take
    MaxMallocs   \* bound: which malloc may fail

VARIABLES
    file, whole,    \* the file, and whether nothing of it was lost
    req_comp,
    j,              \* stbi__jpeg
    heap, left,     \* buffers not freed; which of the next mallocs fails, 0 for none and -1 when it has failed
    twice,          \* history: a buffer freed again
    pc, result,
    decoded         \* history: the blocks decoded

vars == <<file, whole, req_comp, j, heap, left, twice, pc, result, decoded>>

Sizes == INSTANCE ImageSizes WITH Args <- {}, call <- <<>>, pc <- "", valid <- FALSE

None == "none"
Restart == {"RST"}
SOF == {"SOF0", "SOF2"}

\* Files are sequences; the body behind a frame's marker or a scan's is one,
\* its factors half a byte each.
Tokens == UNION {{f[i] : i \in DOMAIN f} : f \in Files \cup OddFiles}
IsFrame(v) == {v.x, v.y} \subseteq Nat /\ v.comps \in Seq([h : 0..15, v : 0..15])
IsScan(v) == v.order \in Seq(Nat)
Fits(m, v) == (m \in SOF => IsFrame(v)) /\ (m = "SOS" => IsScan(v))
FileAssumption ==
    /\ Edge \in Nat \ {0} /\ {Ahead, MaxMallocs, IntMax, ShortMax} \subseteq Nat
    /\ Files \cup OddFiles \subseteq Seq(Tokens)
    /\ \A f \in Files \cup OddFiles : \A i \in 1..Len(f)-1 :
         f[i].t = "marker" /\ f[i + 1].t = "body" => Fits(f[i].m, f[i + 1].v)

Token(pos) == IF pos <= Len(file) THEN file[pos] ELSE [t |-> "end"]
AtEof(z) == z.pos > Len(file)
IsMarker(pos) == Token(pos).t = "marker"
NextMarker(pos) == CHOOSE p \in pos..Len(file) : IsMarker(p) /\ \A q \in pos..p-1 : ~IsMarker(q)

-----------------------------------------------------------------------------
\* stbi__get_marker: the marker found behind the bits, or the one here.
GetMarker(z) ==
    IF z.marker # None
    THEN [z EXCEPT !.m = z.marker, !.marker = None, !.pos = NextMarker(z.pos) + 1]
    ELSE [z EXCEPT !.m = IF IsMarker(z.pos) THEN Token(z.pos).m ELSE None,
                   !.pos = IF AtEof(z) THEN @ ELSE @ + 1]
Reset(z) ==
    [z EXCEPT !.pos = IF z.marker = None THEN @ ELSE NextMarker(@) + 1, !.marker = None,
              !.todo = IF z.restart_interval = 0 THEN IntMax ELSE z.restart_interval]
\* The bit buffer reaches the marker.
Found(z) == [z EXCEPT !.marker = Token(NextMarker(z.pos)).m]
Reaches(z) == z.marker = None /\ \E p \in z.pos..z.pos + Ahead : IsMarker(p) /\ \A q \in z.pos..p-1 : Token(q).t = "block"
\* At the end of a restart interval it is filled: no block is left in front.
Filled(z) == IF z.marker = None /\ IsMarker(z.pos) THEN Found(z) ELSE z

\* Everything up to a marker is skipped.
SkipJunk(z) ==
    IF \E p \in z.pos..Len(file) : IsMarker(p) THEN [z EXCEPT !.marker = Token(NextMarker(z.pos)).m]
    ELSE [z EXCEPT !.pos = Len(file) + 1]

BodyOf(z) == Token(z.pos).t = "body"
Body(z) == Token(z.pos).v
Tables == {"DQT", "DHT", "APP", "COM"}
\* Segments that are neither a frame nor a scan.
CanProcess(z) == z.m \in Tables \cup {"DRI"} /\ BodyOf(z)
Processed(z) == [z EXCEPT !.pos = @ + 1, !.restart_interval = IF z.m = "DRI" THEN Body(z).n ELSE @]

-----------------------------------------------------------------------------
Ceil(n, d) == (n + d - 1) \div d
HMax(f) == CHOOSE n \in {f.comps[i].h : i \in DOMAIN f.comps} : \A i \in DOMAIN f.comps : f.comps[i].h <= n
VMax(f) == CHOOSE n \in {f.comps[i].v : i \in DOMAIN f.comps} : \A i \in DOMAIN f.comps : f.comps[i].v <= n
GoodFrame(f) ==
    /\ f.x > 0 /\ f.y > 0 /\ Len(f.comps) \in {1, 3, 4}
    /\ \A i \in DOMAIN f.comps : {f.comps[i].h, f.comps[i].v} \subseteq 1..4
    /\ Sizes!Mad3SizesValid(f.x, f.y, Len(f.comps), 0)
    /\ \A i \in DOMAIN f.comps : HMax(f) % f.comps[i].h = 0 /\ VMax(f) % f.comps[i].v = 0
\* What the decoder knows of an image and its components.
Framed(z, f) ==
    LET mcu_x == Ceil(f.x, HMax(f) * Edge)
        mcu_y == Ceil(f.y, VMax(f) * Edge)
    IN [z EXCEPT !.pos = @ + 1, !.img_x = f.x, !.img_y = f.y, !.mcu_x = mcu_x, !.mcu_y = mcu_y,
          !.comps = [i \in DOMAIN f.comps |->
             [h |-> f.comps[i].h, v |-> f.comps[i].v,
              x |-> Ceil(f.x * f.comps[i].h, HMax(f)), y |-> Ceil(f.y * f.comps[i].v, VMax(f)),
              w2 |-> mcu_x * f.comps[i].h * Edge, h2 |-> mcu_y * f.comps[i].v * Edge]]]

\* stbi__malloc of each name, in order, up to the one that fails.
Mallocs(names) ==
    LET fails == left \in DOMAIN names
        got == {names[i] : i \in IF fails THEN 1..left-1 ELSE DOMAIN names}
    IN [ok |-> ~fails, at |-> IF fails THEN names[left][2] ELSE 0, heap |-> heap \cup got, ptr |-> got,
        left |-> IF fails THEN -1 ELSE IF left > 0 THEN left - Len(names) ELSE left]
Output == <<"output", 0>>
Planes(z) ==
    IF z.progressive
    THEN [k \in 1..2 * Len(z.comps) |-> <<IF k % 2 = 1 THEN "data" ELSE "coeff", (k + 1) \div 2>>]
    ELSE [k \in 1..Len(z.comps) |-> <<"data", k>>]
\* stbi__free_jpeg_components: pointers that are not null, and then are.
Owned(ptr, ncomp) == {p \in ptr : p[2] <= ncomp}
\* Mutant: a pointer that was freed is kept.
KeptPointers(ptr, ncomp) == ptr
Pointers(ptr, ncomp) == ptr \ Owned(ptr, ncomp)
Freed(h, ncomp) == [ptr |-> Pointers(h.ptr, ncomp), heap |-> h.heap \ Owned(h.ptr, ncomp),
                    twice |-> h.twice \/ ~(Owned(h.ptr, ncomp) \subseteq h.heap)]

\* The blocks of an MCU, in the order of the scan: one for a scan of a single
\* component, which needs no more than its pixels.
Single(z, n) ==
    LET w == Ceil(z.comps[n].x, Edge)
        h == Ceil(z.comps[n].y, Edge)
    IN [i \in 1..w * h |-> <<[n |-> n, x |-> (i - 1) % w, y |-> (i - 1) \div w]>>]
\* Mutant: the blocks of a component in columns.
AcrossFirst(c, i) == [x |-> i \div c.v, y |-> i % c.v]
InMcu(c, i) == [x |-> i % c.h, y |-> i \div c.h]
Interleaved(z, order) ==
    LET blocks(n, a) ==
          [i \in 1..z.comps[n].h * z.comps[n].v |->
             [n |-> n, x |-> ((a - 1) % z.mcu_x) * z.comps[n].h + InMcu(z.comps[n], i - 1).x,
              y |-> ((a - 1) \div z.mcu_x) * z.comps[n].v + InMcu(z.comps[n], i - 1).y]]
    IN [a \in 1..z.mcu_x * z.mcu_y |-> FlattenSeq([k \in 1..Len(order) |-> blocks(order[k], a)])]
Mcus(z, order) == IF Len(order) = 1 THEN Single(z, order[1]) ELSE Interleaved(z, order)

GoodScan(z, s) ==
    /\ Len(s.order) \in 1..Len(z.comps) /\ \A k \in DOMAIN s.order : s.order[k] \in DOMAIN z.comps
    /\ ~z.progressive => s.start = 0

-----------------------------------------------------------------------------
Blank == [pos |-> 1, m |-> None, marker |-> None, padding |-> FALSE, progressive |-> FALSE, restart_interval |-> 0,
          todo |-> 0, img_x |-> 0, img_y |-> 0, mcu_x |-> 0, mcu_y |-> 0, comps |-> <<>>, ptr |-> {},
          scan |-> 0, spec_start |-> 0, mcus |-> <<>>, mcu |-> 1, k |-> 1, finished |-> FALSE]

Damaged(f) == {SubSeq(f, 1, n) : n \in 0..Len(f)-1} \cup {[f EXCEPT ![i] = [t |-> "junk"]] : i \in DOMAIN f}

Init ==
    /\ \/ file \in Files /\ whole = TRUE
       \/ file \in OddFiles \cup UNION {Damaged(f) : f \in Files} /\ whole = FALSE
    /\ left \in (IF whole THEN 0..MaxMallocs ELSE {0}) /\ req_comp \in (IF whole THEN {0, 1} ELSE {0})
    /\ j = Blank /\ heap = {} /\ twice = FALSE /\ pc = "test" /\ result = "" /\ decoded = <<>>

Same == UNCHANGED <<file, whole, req_comp>>
Go(z, next) == Same /\ j' = z /\ pc' = next /\ UNCHANGED <<heap, left, twice, result, decoded>>
\* stbi__cleanup_jpeg, the decoder itself freed, and the result.
Return(z, h, r) ==
    LET f == Freed(h, Len(z.comps)) IN
    /\ j' = [z EXCEPT !.ptr = f.ptr] /\ heap' = f.heap \ {<<"jpeg", 0>>} /\ twice' = f.twice
    /\ pc' = "done" /\ result' = r /\ Same /\ UNCHANGED decoded
Held(ptr, memory) == [ptr |-> ptr, heap |-> memory, twice |-> twice]
Error(z) == Return(z, Held(z.ptr, heap), "error") /\ UNCHANGED left

\* stbi__jpeg_test and the start of stbi__jpeg_load.
Test ==
    /\ pc = "test"
    /\ LET h == Mallocs(<<<<"jpeg", 0>>>>) IN
       /\ left' = h.left
       /\ IF h.ok /\ GetMarker(j).m = "SOI" THEN pc' = "load" /\ UNCHANGED result ELSE pc' = "done" /\ result' = "not a JPEG"
    /\ Same /\ UNCHANGED <<j, heap, twice, decoded>>
Load ==
    /\ pc = "load"
    /\ LET h == Mallocs(<<<<"jpeg", 0>>>>) IN
       /\ left' = h.left /\ heap' = h.heap
       /\ IF h.ok THEN pc' = "soi" /\ UNCHANGED result ELSE pc' = "done" /\ result' = "error"
    /\ Same /\ UNCHANGED <<j, twice, decoded>>

\* stbi__decode_jpeg_header.
Soi == pc = "soi" /\ IF GetMarker(j).m = "SOI" THEN Go(GetMarker(GetMarker(j)), "header") ELSE Error(j)
Header ==
    /\ pc = "header" /\ j.m \notin SOF
    /\ IF j.m = None /\ j.padding
       THEN IF AtEof(j) THEN Error(j) ELSE Go(GetMarker(j), "header")
       ELSE IF CanProcess(j) THEN Go([GetMarker(Processed(j)) EXCEPT !.padding = TRUE], "header")
       ELSE Error(j)
Frame ==
    /\ pc = "header" /\ j.m \in SOF
    /\ IF ~BodyOf(j) THEN Error(j)
       ELSE LET z == Framed([j EXCEPT !.progressive = j.m = "SOF2"], Body(j))
                h == Mallocs(Planes(z))
            IN IF ~GoodFrame(Body(j)) THEN Error(j)
               ELSE IF ~h.ok THEN Return(z, Freed(Held(h.ptr, h.heap), h.at), "error") /\ left' = h.left
               ELSE /\ j' = GetMarker([z EXCEPT !.ptr = h.ptr]) /\ heap' = h.heap /\ left' = h.left
                    /\ pc' = "markers" /\ Same /\ UNCHANGED <<twice, result, decoded>>

\* stbi__decode_jpeg_image: the markers after the frame.
ScanHeader ==
    /\ pc = "markers" /\ j.m = "SOS"
    /\ IF BodyOf(j) /\ GoodScan(j, Body(j))
       THEN Go(Reset([j EXCEPT !.pos = @ + 1, !.scan = @ + 1, !.spec_start = Body(j).start, !.mcus = Mcus(j, Body(j).order),
                               !.mcu = 1, !.k = 1]), "scan")
       ELSE Error(j)
Lines ==
    /\ pc = "markers" /\ j.m = "DNL"
    /\ IF BodyOf(j) /\ Body(j).n = j.img_y THEN Go(GetMarker([j EXCEPT !.pos = @ + 1]), "markers") ELSE Error(j)
\* Anything else; a segment that is refused ends the image where it is.
Segment ==
    /\ pc = "markers" /\ j.m \notin {"SOS", "DNL", "EOI"}
    /\ IF CanProcess(j) THEN Go(GetMarker(Processed(j)), "markers") ELSE Go(j, "convert")
Finish == pc = "markers" /\ j.m = "EOI" /\ Go([j EXCEPT !.finished = TRUE], "convert")

\* The end of a scan: its marker, or the next one behind what is skipped.
AfterScan(z) ==
    LET a == GetMarker(IF z.marker = None THEN SkipJunk(z) ELSE z)
    IN IF a.m \in Restart THEN GetMarker(a) ELSE a

\* Mutant: an interval begins with what is left of the last one.
NoReset(z) == [z EXCEPT !.todo = z.restart_interval]
AfterRestart(z) == Reset(z)
\* One block, and the counting of its MCU behind the last one.
Block ==
    LET tok == Token(j.pos)
        data == tok.t = "block"
        read == [j EXCEPT !.pos = IF tok.t \in {"block", "junk", "body"} THEN @ + 1 ELSE @,
                          !.marker = IF tok.t = "marker" /\ @ = None THEN tok.m ELSE @]
        ready == {read} \cup (IF Reaches(read) THEN {Found(read)} ELSE {})
        counted(z) == [z EXCEPT !.todo = @ - 1, !.mcu = @ + 1, !.k = 1]
        last(z) == z.mcu = Len(z.mcus)
    IN /\ pc = "scan"
       /\ \E z \in ready :
            LET c == counted(z)
                f == Filled(c)
            IN \/ /\ ~data /\ Error(z)
               \/ /\ decoded' = Append(decoded, j.mcus[j.mcu][j.k] @@ [id |-> IF data THEN tok.id ELSE 0, scan |-> j.scan])
                  /\ IF z.k < Len(z.mcus[z.mcu]) THEN j' = [z EXCEPT !.k = @ + 1] /\ pc' = "scan"
                     ELSE IF c.todo > 0
                     THEN IF last(z) THEN j' = AfterScan(c) /\ pc' = "markers" ELSE j' = c /\ pc' = "scan"
                     ELSE IF f.marker \notin Restart THEN j' = AfterScan(f) /\ pc' = "markers"
                     ELSE IF last(z) THEN j' = AfterScan(AfterRestart(f)) /\ pc' = "markers"
                     ELSE j' = AfterRestart(f) /\ pc' = "scan"
                  /\ Same /\ UNCHANGED <<heap, left, twice, result>>

\* load_jpeg_image, once decoded: the line buffers, the output, and the end.
Convert ==
    LET n == IF req_comp # 0 THEN req_comp ELSE IF Len(j.comps) >= 3 THEN 3 ELSE 1
        decode_n == IF Len(j.comps) = 3 /\ n < 3 THEN 1 ELSE Len(j.comps)
        h == Mallocs([k \in 1..decode_n + 1 |-> IF k > decode_n THEN Output ELSE <<"linebuf", k>>])
        z == [j EXCEPT !.ptr = @ \cup (h.ptr \ {Output})]
    IN pc = "convert" /\ Return(z, Held(z.ptr, h.heap), IF h.ok THEN "image" ELSE "error") /\ left' = h.left

Next == Test \/ Load \/ Soi \/ Header \/ Frame \/ ScanHeader \/ Lines \/ Segment \/ Finish \/ Block \/ Convert
Spec == Init /\ [][Next]_vars

-----------------------------------------------------------------------------
\* Whatever is lost of a file, and whichever malloc fails: a block is stored in
\* the memory of its component, and at the end every buffer has been freed once
\* but the output's, which the caller gets with the image and only then.
MemoryKept ==
    /\ ~twice
    /\ pc = "done" => heap = (IF result = "image" THEN {Output} ELSE {})
    /\ pc = "scan" => LET d == j.mcus[j.mcu][j.k] IN
         (d.x + 1) * Edge <= j.comps[d.n].w2 /\ (d.y + 1) * Edge <= j.comps[d.n].h2

\* A file of which nothing is lost gives an image: its blocks in their order,
\* each once and in its place, whenever the markers between them are found; every pixel of a
\* scan's components is in a block of that scan; a progressive image is
\* finished. A file cut in a scan of a progressive image is not finished
\* (line 3440): what is converted was never written.
FileDecoded ==
    whole /\ left # -1 /\ pc = "done" =>
        LET blocks == SelectSeq(file, LAMBDA x : x.t = "block")
            scans == SelectSeq(file, LAMBDA x : x.t = "body" /\ x.s)
        IN /\ [i \in DOMAIN decoded |-> <<decoded[i].id, decoded[i].n, decoded[i].x, decoded[i].y>>]
                = [i \in DOMAIN blocks |-> <<i>> \o blocks[i].place]
           /\ result = "image" /\ j.finished
           /\ \A s \in DOMAIN scans : \A k \in DOMAIN scans[s].v.order : LET n == scans[s].v.order[k] IN
                \A x \in 0..j.comps[n].x-1, y \in 0..j.comps[n].y-1 :
                   \E i \in DOMAIN decoded : /\ decoded[i].scan = s /\ decoded[i].n = n
                                             /\ decoded[i].x = x \div Edge /\ decoded[i].y = y \div Edge
=============================================================================
