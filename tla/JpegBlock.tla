------------------------------ MODULE JpegBlock ------------------------------
(***************************************************************************)
(* src/16-cube/stb_image.h:2210-2413 and 3073-3097: the coefficients of one *)
(* component, block after block, baseline or in the scans of a progressive  *)
(* image. A coefficient is known by its place in the zigzag order, 0..K     *)
(* with K = 63 in the code; a run is at most RunMax, 15. JpegHuffman reads  *)
(* the symbols and bits, which are tokens here.                             *)
(***************************************************************************)
EXTENDS Integers, Sequences, SequencesExt

CONSTANTS
    K, RunMax, IntMax, ShortMax,
    Quant,      \* the quantizers
    Targets,    \* images, as sequences of blocks
    Scripts     \* progressive images: their scans, with the records of the header

BlockAssumption == K \in Nat \ {0} /\ RunMax \in 1..K /\ Quant \in [0..K -> Nat \ {0}]

VARIABLES
    target,     \* the image that was encoded
    progressive, script,
    data,       \* the blocks
    j,          \* dc_pred, eob_run, the tokens that follow, and whether they fit the calls
    scan, b,    \* the scan and the block in it
    pc

vars == <<target, progressive, script, data, j, scan, b, pc>>

Sizes == INSTANCE ImageSizes WITH Args <- {}, call <- <<>>, pc <- "", valid <- FALSE

-----------------------------------------------------------------------------
\* The encoder of the standard, which chooses where to end a run of blocks
\* that have no more coefficients: the environment.
Abs(n) == IF n < 0 THEN -n ELSE n
Shifted(v, low) == IF v < 0 THEN -((-v) \div 2^low) ELSE v \div 2^low
Band(sc) == [i \in 1..(sc.end - sc.start + 1) |-> sc.start + i - 1]
BitOf(n) == <<"bit", n % 2>>

\* A coefficient of a band: a correction bit if it has been sent, otherwise
\* counted as a zero or sent with the zeros before it.
Encoded(e, v, sc, more) ==
    LET sent == sc.high > 0 /\ Shifted(v, sc.high) # 0
        now == Shifted(v, sc.low)
    IN IF sent THEN [e EXCEPT !.bits = Append(@, BitOf(Abs(now)))]
       ELSE IF now # 0
       THEN [zeros |-> 0, bits |-> <<>>,
             tokens |-> e.tokens \o <<<<"code", e.zeros, 1>>>> \o
                        <<IF sc.high = 0 THEN <<"value", now>> ELSE <<"bit", IF v > 0 THEN 1 ELSE 0>>>> \o e.bits]
       ELSE IF more /\ e.zeros = RunMax
       THEN [zeros |-> 0, bits |-> <<>>, tokens |-> e.tokens \o <<<<"code", RunMax, 0>>>> \o e.bits]
       ELSE [e EXCEPT !.zeros = @ + 1]
Fresh(v, sc) == Shifted(v, sc.low) # 0 /\ (sc.high = 0 \/ Shifted(v, sc.high) = 0)
AcTokens(block, sc) ==
    FoldLeft(LAMBDA e, k : Encoded(e, block[k], sc, \E m \in k+1..sc.end : Fresh(block[m], sc)),
             [zeros |-> 0, bits |-> <<>>, tokens |-> <<>>], Band(sc))
EndRun(a) ==
    IF a.run = 0 THEN a
    ELSE LET r == CHOOSE n \in 0..RunMax-1 : a.run \in 2^n..2^(n+1)-1
         IN [run |-> 0, bits |-> <<>>, tokens |-> a.tokens \o <<<<"code", r, 0>>>>
                 \o (IF r > 0 THEN <<<<"bits", a.run - 2^r>>>> ELSE <<>>) \o a.bits]
AcBlock(a, block, sc, flush) ==
    LET e == AcTokens(block, sc)
        before == IF e.tokens = <<>> THEN a ELSE EndRun(a)
        after == [run |-> before.run + (IF e.zeros > 0 \/ e.bits # <<>> THEN 1 ELSE 0),
                  bits |-> before.bits \o e.bits, tokens |-> before.tokens \o e.tokens]
    IN IF flush \/ after.run = 2^RunMax - 1 THEN EndRun(after) ELSE after
DcTokens(n, sc) ==
    LET dc(i) == IF i = 0 THEN 0 ELSE target[i][0] \div 2^sc.low
        diff == dc(n) - dc(n - 1)
    IN IF sc.high > 0 THEN <<BitOf(dc(n))>>
       ELSE IF diff = 0 THEN <<<<"code", 0, 0>>>> ELSE <<<<"code", 0, 1>>, <<"value", diff>>>>
Nothing == [run |-> 0, bits |-> <<>>, tokens |-> <<>>]
ScanTokens(sc, flushed) ==
    LET block(t, n) ==
          IF ~progressive THEN t \o DcTokens(n, sc) \o AcBlock(Nothing, target[n], [sc EXCEPT !.start = 1], TRUE).tokens
          ELSE t \o DcTokens(n, sc)
    IN IF progressive /\ sc.start > 0
       THEN EndRun(FoldLeft(LAMBDA a, n : AcBlock(a, target[n], sc, n \in flushed), Nothing,
                            [n \in DOMAIN target |-> n])).tokens
       ELSE FoldLeft(block, <<>>, [n \in DOMAIN target |-> n])

-----------------------------------------------------------------------------
\* The next token, and the decoder behind it.
Given(d, i) == IF d.in = <<>> \/ Len(Head(d.in)) < i THEN 0 ELSE Head(d.in)[i]
Taken(d, kind) == [d EXCEPT !.ok = @ /\ d.in # <<>> /\ Head(d.in)[1] = kind, !.in = IF @ = <<>> THEN @ ELSE Tail(@)]
Fail(d) == [d EXCEPT !.ok = FALSE]
Zig(k) == IF k <= K THEN k ELSE K

DecodeDc(d, scale) ==
    LET code == Taken(d, "code")
        diff == IF Given(d, 3) = 0 THEN 0 ELSE Given(code, 2)
        dc == d.dc_pred + diff
    IN IF ~Sizes!AddIntsValid(d.dc_pred, diff) \/ ~Sizes!Mul2ShortsValid(dc, scale) THEN Fail(d)
       ELSE [IF Given(d, 3) = 0 THEN code ELSE Taken(code, "value")
             EXCEPT !.dc_pred = dc, !.data = [k \in 0..K |-> IF k = 0 THEN dc * scale ELSE 0]]

\* Mutant: the block that starts a run is not counted off.
WholeRun(r, n) == 2^r + n
RunLeft(r, n) == 2^r + n - 1
EndOfBand(d, r) ==
    IF r = 0 THEN [d EXCEPT !.eob_run = RunLeft(r, 0)] ELSE [Taken(d, "bits") EXCEPT !.eob_run = RunLeft(r, Given(d, 2))]

\* A loop over a band is a fold: its turns are K + 1 at most, and those behind
\* its end, k > sc.end, change nothing.
Turns == [n \in 1..(K + 1) |-> n]
At(d, k) == [d |-> d, k |-> k]

\* The coefficients from k on, as often as there are symbols.
AcSymbol(t, sc) ==
    LET r == Given(t.d, 2)
        code == Taken(t.d, "code")
        at == Zig(t.k + r)
        scale == IF progressive THEN 2^sc.low ELSE Quant[at]
    IN IF t.k > sc.end \/ ~t.d.ok THEN t
       ELSE IF Given(t.d, 3) # 0
       THEN At([Taken(code, "value") EXCEPT !.data[at] = Given(code, 2) * scale], t.k + r + 1)
       ELSE IF r = RunMax THEN At(code, t.k + RunMax + 1)
       ELSE At(IF progressive THEN EndOfBand(code, r) ELSE code, sc.end + 1)
AcFrom(d, k, sc) == FoldLeft(LAMBDA t, n : AcSymbol(t, sc), At(d, k), Turns).d

DecodeBlock(d, sc) ==
    LET dc == DecodeDc(d, Quant[0]) IN IF dc.ok THEN AcFrom(dc, 1, sc) ELSE dc

DecodeProgDc(d, sc) ==
    IF sc.end # 0 THEN Fail(d)
    ELSE IF sc.high = 0 THEN DecodeDc(d, 2^sc.low)
    ELSE [Taken(d, "bit") EXCEPT !.data[0] = @ + Given(d, 2) * 2^sc.low]

\* Mutant: a correction always adds.
Upwards(p, bit) == p + bit
Away(p, bit) == IF p > 0 THEN p + bit ELSE p - bit
\* One more bit of a coefficient that is not zero.
Corrected(p, got, bit) == IF got = 1 /\ (p \div bit) % 2 = 0 THEN Away(p, bit) ELSE p

\* r zeros are passed from k on, and every other coefficient corrected; the
\* coefficient behind them becomes s.
Pass(t, s, sc) ==
    LET d == t.d
        k == t.k
    IN IF k > sc.end \/ t.r < 0 THEN t
       ELSE IF d.data[k] # 0
       THEN [t EXCEPT !.d = [Taken(d, "bit") EXCEPT !.data[k] = Corrected(d.data[k], Given(d, 2), 2^sc.low)], !.k = k + 1]
       ELSE [t EXCEPT !.d = IF t.r = 0 THEN [d EXCEPT !.data[k] = s] ELSE d, !.k = k + 1, !.r = @ - 1]
Advance(d, k, r, s, sc) == FoldLeft(LAMBDA t, n : Pass(t, s, sc), [d |-> d, k |-> k, r |-> r], Turns)

RefineSymbol(t, sc) ==
    LET r == Given(t.d, 2)
        code == Taken(t.d, "code")
        sign == IF Given(code, 2) = 1 THEN 2^sc.low ELSE -(2^sc.low)
        step == IF Given(t.d, 3) # 0 THEN Advance(Taken(code, "bit"), t.k, r, sign, sc)
                ELSE IF r < RunMax THEN Advance(EndOfBand(code, r), t.k, K + 1, 0, sc)
                ELSE Advance(code, t.k, r, 0, sc)
    IN IF t.k > sc.end \/ ~t.d.ok THEN t ELSE At(step.d, step.k)
Refine(d, k, sc) == FoldLeft(LAMBDA t, n : RefineSymbol(t, sc), At(d, k), Turns).d

DecodeProgAc(d, sc) ==
    IF sc.start = 0 THEN Fail(d)
    ELSE IF sc.high = 0
    THEN IF d.eob_run > 0 THEN [d EXCEPT !.eob_run = @ - 1] ELSE AcFrom(d, sc.start, sc)
    ELSE IF d.eob_run > 0 THEN Advance([d EXCEPT !.eob_run = @ - 1], sc.start, K + 1, 0, sc).d
    ELSE Refine(d, sc.start, sc)

-----------------------------------------------------------------------------
Baseline == <<[start |-> 0, end |-> K, high |-> 0, low |-> 0]>>
Init ==
    /\ target \in Targets /\ progressive \in BOOLEAN
    /\ script \in (IF progressive THEN Scripts ELSE {Baseline})
    /\ data = [n \in DOMAIN target |-> [k \in 0..K |-> 0]]
    /\ j = [dc_pred |-> 0, eob_run |-> 0, in |-> <<>>, ok |-> TRUE]
    /\ scan = 0 /\ b = 0 /\ pc = "header"

\* The next scan, after stbi__jpeg_reset.
StartScan ==
    /\ pc = "header" /\ scan < Len(script)
    /\ scan' = scan + 1 /\ b' = 1 /\ pc' = "blocks"
    /\ \E flushed \in SUBSET (DOMAIN target \ {Len(target)}) :
         /\ script[scan'].start = 0 => flushed = {}
         /\ j' = [j EXCEPT !.dc_pred = 0, !.eob_run = 0, !.in = ScanTokens(script[scan'], flushed)]
    /\ UNCHANGED <<target, progressive, script, data>>

OneBlock ==
    LET sc == script[scan]
        d == [data |-> data[b]] @@ j
        r == IF ~progressive THEN DecodeBlock(d, sc)
             ELSE IF sc.start = 0 THEN DecodeProgDc(d, sc) ELSE DecodeProgAc(d, sc)
    IN /\ pc = "blocks"
       /\ data' = [data EXCEPT ![b] = r.data]
       /\ j' = [dc_pred |-> r.dc_pred, eob_run |-> r.eob_run, in |-> r.in, ok |-> r.ok]
       /\ b' = b + 1
       /\ pc' = IF ~r.ok THEN "failed" ELSE IF b = Len(target) THEN "header" ELSE "blocks"
       /\ UNCHANGED <<target, progressive, script, scan>>

\* stbi__jpeg_finish.
Finish ==
    /\ pc = "header" /\ scan = Len(script) /\ pc' = "done"
    /\ data' = IF progressive THEN [n \in DOMAIN data |-> [k \in 0..K |-> data[n][k] * Quant[k]]] ELSE data
    /\ UNCHANGED <<target, progressive, script, j, scan, b>>

Next == StartScan \/ OneBlock \/ Finish
Spec == Init /\ [][Next]_vars

-----------------------------------------------------------------------------
\* However the image was divided into scans, and however the encoder ended its
\* runs, decoding takes the tokens of a scan to the last one and ends with the
\* coefficients that were encoded, exactly.
BlocksRestored ==
    /\ pc # "failed" /\ (pc = "header" => j.in = <<>> /\ j.eob_run = 0)
    /\ pc = "done" => data = [n \in DOMAIN target |-> [k \in 0..K |-> target[n][k] * Quant[k]]]
=============================================================================
