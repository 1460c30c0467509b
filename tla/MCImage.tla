------------------------------- MODULE MCImage -------------------------------
(* Small instances, for TLC, of the parts of the JPEG decoder: buffers of   *)
(* three bytes, blocks of five coefficients, data units of two by two       *)
(* samples, codes of at most four bits.                                     *)
EXTENDS Image, Sequences, SequencesExt

ImageLengths == 0..7
Requests == {-1, 1, 2, 4}
ManyCodes == {<<0, 2, 2, 1>>}
Extremes == (-13..-10) \cup (-3..4) \cup {6, 12}

Low(a, z, high, low) == [start |-> a, end |-> z, high |-> high, low |-> low]
AcBlocks(dc, values, n) == {[k \in 0..n |-> IF k = 0 THEN dc ELSE f[k]] : f \in [1..n -> values]}
Quantizers == [k \in 0..4 |-> k + 1]
Pictures ==
    {<<x, y>> : x \in AcBlocks(-3, {0, 1, -3}, 4), y \in AcBlocks(2, {0, 1, -3}, 4)}
    \cup {<<x, y, z>> : x \in AcBlocks(1, {0, 2}, 4), y \in AcBlocks(1, {0, -1}, 4), z \in AcBlocks(-2, {0, 3}, 4)}
Progressions ==
    {<<Low(0, 0, 0, 1), Low(1, 4, 0, 1), Low(0, 0, 1, 0), Low(1, 4, 1, 0)>>,
     <<Low(0, 0, 0, 0), Low(1, 1, 0, 0), Low(2, 4, 0, 1), Low(2, 4, 1, 0)>>}

\* Files: a scan has its blocks in MCUs, with a restart marker every so many.
Mark(m) == <<[t |-> "marker", m |-> m]>>
Seg(m, v) == Mark(m) \o <<[t |-> "body", v |-> v, s |-> m = "SOS"]>>
Up(n, d) == (n + d - 1) \div d
Most(f, way) == IF \E k \in DOMAIN f.comps : f.comps[k][way] = 2 THEN 2 ELSE 1
ScanCounts(f, order) ==
    LET c == f.comps[order[1]] IN
    IF Len(order) = 1
    THEN <<Up(Up(f.x * c.h, Most(f, "h")), 2) * Up(Up(f.y * c.v, Most(f, "v")), 2), 1>>
    ELSE <<Up(f.x, 2 * Most(f, "h")) * Up(f.y, 2 * Most(f, "v")),
           FoldLeft(+, 0, [k \in DOMAIN order |-> f.comps[order[k]].h * f.comps[order[k]].v])>>
\* The places of the blocks of an MCU: component after component, row after row.
PlacesOf(f, order, a) ==
    LET c(n) == f.comps[n]
        across(n) == IF Len(order) = 1 THEN Up(Up(f.x * c(n).h, Most(f, "h")), 2) ELSE Up(f.x, 2 * Most(f, "h"))
        wide(n) == IF Len(order) = 1 THEN 1 ELSE c(n).h
        high(n) == IF Len(order) = 1 THEN 1 ELSE c(n).v
        row(n, y) == [x \in 1..wide(n) |-> <<n, ((a - 1) % across(n)) * wide(n) + x - 1, ((a - 1) \div across(n)) * high(n) + y - 1>>]
    IN FlattenSeq([k \in DOMAIN order |-> FlattenSeq([y \in 1..high(order[k]) |-> row(order[k], y)])])
ScanOf(f, order, start, every, from) ==
    LET n == ScanCounts(f, order)
        mcu(a) == (IF every > 0 /\ a > 1 /\ (a - 1) % every = 0 THEN Mark("RST") ELSE <<>>)
                  \o [k \in 1..n[2] |-> [t |-> "block", id |-> from + (a - 1) * n[2] + k, place |-> PlacesOf(f, order, a)[k]]]
    IN Seg("SOS", [order |-> order, start |-> start]) \o FlattenSeq([a \in 1..n[1] |-> mcu(a)])
ScansOf(f, scans, every, extra) ==
    LET add(a, sc) == [n |-> a.n + ScanCounts(f, sc[1])[1] * ScanCounts(f, sc[1])[2],
                      tokens |-> a.tokens \o ScanOf(f, sc[1], sc[2], every, a.n)
                                 \o (IF extra = "DNL" /\ a.n = 0 THEN Seg("DNL", [n |-> f.y]) ELSE <<>>)]
    IN FoldLeft(add, [n |-> 0, tokens |-> <<>>], scans).tokens
FileOf(sof, f, scans, every, extra) ==
    Mark("SOI") \o Seg("APP", [n |-> 0]) \o (IF extra = "junk" THEN <<[t |-> "junk"]>> ELSE <<>>)
    \o (IF every > 0 THEN Seg("DRI", [n |-> every]) ELSE <<>>) \o Seg(sof, f) \o Seg("DHT", [n |-> 0])
    \o ScansOf(f, scans, every, extra) \o (IF extra = "junk" THEN <<[t |-> "junk"]>> ELSE <<>>) \o Mark("EOI")
Sampling(across, down) == [h |-> across, v |-> down]
Plain == Sampling(1, 1)
Frames(n, comps) == {[x |-> x, y |-> y, comps |-> comps] : x \in n, y \in n}
Colours == UNION {Frames({1, 3}, <<c, Plain, Plain>>) : c \in {Plain, Sampling(2, 1), Sampling(2, 2)}}
Greys == UNION {Frames({2, 5}, <<c>>) : c \in {Plain, Sampling(2, 2)}}
Each == <<<<<<1>>, 0>>, <<<<2>>, 0>>, <<<<3>>, 0>>>>
GoodFiles ==
    {FileOf("SOF0", f, <<<<<<1>>, 0>>>>, n, extra) : f \in Greys, n \in 0..3, extra \in {"", "junk", "DNL"}}
    \cup {FileOf("SOF0", f, scans, n, "") : f \in Colours, scans \in {Each, <<<<<<1, 2, 3>>, 0>>>>}, n \in 0..2}
    \cup {FileOf("SOF2", f, <<<<<<1, 2, 3>>, 0>>, <<<<2>>, 1>>, <<<<1>>, 1>>, <<<<3>>, 1>>>>, n, "") : f \in Colours, n \in 0..1}
BadFrames ==
    {FileOf("SOF0", [x |-> x, y |-> 7, comps |-> comps], Each, 0, "") :
        x \in {0, 1, 15}, comps \in {<<Plain, Plain, Plain>>, <<Sampling(2, 1), Sampling(3, 1), Plain>>}}

Stretches == (1..2) \X (1..2) \cup {<<1, 3>>, <<4, 1>>, <<4, 4>>, <<1, 4>>}
=============================================================================
