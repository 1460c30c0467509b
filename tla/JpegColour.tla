----------------------------- MODULE JpegColour -----------------------------
(* src/16-cube/stb_image.h:1746-1749, 3656-3684, 3859-3884 and 3942-4017:    *)
(* the bytes of a JPEG image's pixels from the samples of its components.    *)
(* The SIMD form of the same loop is taken to give the same (line 3655).     *)
EXTENDS Integers, Sequences

CONSTANTS
    First, Second    \* samples of the components of a first and a second pixel

ColourAssumption == First \cup Second \subseteq 0..255

VARIABLES
    img_n, rgb, transform,  \* components, their names, Adobe's transform if there is one
    jfif, req_comp,
    coutput,        \* the pixels: a sample of every component
    i,              \* the next pixel
    out             \* bytes, and None where nothing was written

vars == <<img_n, rgb, transform, jfif, req_comp, coutput, i, out>>

None == -1
N == IF req_comp # 0 THEN req_comp ELSE IF img_n >= 3 THEN 3 ELSE 1
IsRgb == img_n = 3 /\ (rgb = 3 \/ (transform = 0 /\ ~jfif))

-----------------------------------------------------------------------------
\* stbi__YCbCr_to_RGB_row: 20 bits behind the point, the lower ones of a
\* product cleared for green.
Fixed(x) == ((x * 4096 + 50000) \div 100000) * 256     \* x in 1/100000
\* Mutant: a value is not brought into a byte.
Low8(v) == v % 256
Clamp(v) == IF v < 0 THEN 0 ELSE IF v > 255 THEN 255 ELSE v
YCbCrToRgb(y, pcb, pcr) ==
    LET y_fixed == y * 2^20 + 2^19
        cr == pcr - 128
        cb == pcb - 128
        upper(v) == (v \div 65536) * 65536
    IN <<Clamp((y_fixed + cr * Fixed(140200)) \div 2^20),
         Clamp((y_fixed - cr * Fixed(71414) + upper(-cb * Fixed(34414))) \div 2^20),
         Clamp((y_fixed + cb * Fixed(177200)) \div 2^20)>>

\* Mutant: rounded down.
Truncated(x, y) == (x * y) \div 256
\* stbi__blinn_8x8: the product of two fractions of 255.
Blinn(x, y) == LET t == x * y + 128 IN (t + t \div 256) \div 256
ComputeY(r, g, b) == (r * 77 + g * 150 + 29 * b) \div 256

\* What is written at a pixel, a fourth byte where three are enough too.
Written(c) ==
    LET rgb3 == YCbCrToRgb(c[1], c[2], c[3])
        ink == [k \in 1..3 |-> Blinn(c[k], c[4])]
        alpha == IF N = 2 THEN <<255>> ELSE <<>>
    IN IF N >= 3
       THEN CASE img_n = 1 -> <<c[1], c[1], c[1], 255>>
              [] img_n = 3 /\ IsRgb -> <<c[1], c[2], c[3], 255>>
              [] img_n = 4 /\ transform = 0 -> ink \o <<255>>
              [] img_n = 4 /\ transform = 2 -> [k \in 1..3 |-> Blinn(255 - rgb3[k], c[4])] \o <<255>>
              [] OTHER -> rgb3 \o <<255>>
       ELSE CASE IsRgb -> <<ComputeY(c[1], c[2], c[3])>> \o alpha
              [] img_n = 4 /\ transform = 0 -> <<ComputeY(ink[1], ink[2], ink[3]), 255>>
              [] img_n = 4 /\ transform = 2 -> <<Blinn(255 - c[1], c[4]), 255>>
              [] OTHER -> <<c[1]>> \o alpha

Init ==
    /\ img_n \in {1, 3, 4} /\ req_comp \in 0..4
    /\ rgb \in {0, 3} /\ transform \in {-1, 0, 1, 2} /\ jfif \in BOOLEAN
    /\ coutput \in [1..img_n -> First] \X [1..img_n -> Second]
    /\ i = 1 /\ out = [b \in 0..2*N |-> None]
Convert ==
    LET w == Written(coutput[i]) IN
    /\ i <= 2 /\ i' = i + 1
    /\ out' = [b \in 0..2*N |-> IF b - (i - 1) * N \in 0..Len(w)-1 THEN w[b - (i - 1) * N + 1] ELSE out[b]]
    /\ UNCHANGED <<img_n, rgb, transform, jfif, req_comp, coutput>>
Next == Convert
Spec == Init /\ [][Next]_vars

-----------------------------------------------------------------------------
\* The colour of a pixel, in thousandths, by the definitions of the colour
\* spaces, and how far the integer arithmetic may be from it.
Bounded(v) == IF v < 0 THEN 0 ELSE IF v > 255000 THEN 255000 ELSE v
Space == IF img_n = 1 THEN "grey" ELSE IF IsRgb THEN "rgb" ELSE IF img_n = 3 \/ transform \notin {0, 2} THEN "ycc"
         ELSE IF transform = 0 THEN "cmyk" ELSE "ycck"
Exact(c) ==
    LET ycc == <<Bounded(1000 * c[1] + 1402 * (c[3] - 128)),
                 Bounded(1000 * c[1] - (71414 * (c[3] - 128) + 34414 * (c[2] - 128)) \div 100),
                 Bounded(1000 * c[1] + 1772 * (c[2] - 128))>>
    IN CASE Space = "grey" -> [k \in 1..3 |-> 1000 * c[1]]
         [] Space = "rgb" -> [k \in 1..3 |-> 1000 * c[k]]
         [] Space = "ycc" -> ycc
         [] Space = "cmyk" -> [k \in 1..3 |-> (1000 * c[k] * c[4]) \div 255]
         [] Space = "ycck" -> [k \in 1..3 |-> 10 * ((((255000 - ycc[k]) \div 10) * c[4]) \div 255)]
Luma(c) == CASE Space = "cmyk" \/ Space = "rgb" -> LET e == Exact(c) IN (299 * (e[1] \div 10) + 587 * (e[2] \div 10) + 114 * (e[3] \div 10)) \div 100
             [] Space = "ycck" -> (1000 * (255 - c[1]) * c[4]) \div 255
             [] OTHER -> 1000 * c[1]
Close(v, exact, by) == 1000 * v - exact \in -by..by
\* Every byte of every pixel is written, by its own pixel and not by the next,
\* and the one behind the last pixel is the last that is (line 3922 asks for
\* it); the colours are right to the rounding; a fourth byte is opaque.
ColoursRight ==
    i = 3 => \A p \in 1..2 :
        LET byte(k) == out[(p - 1) * N + k]
            c == coutput[p]
        IN /\ IF N >= 3
              THEN \A k \in 1..3 : Close(byte(k - 1), Exact(c)[k], IF Space = "ycck" THEN 1200 ELSE 650)
              ELSE Close(byte(0), Luma(c), IF Space \in {"rgb", "cmyk"} THEN 2000 ELSE 510)
           /\ Len(Written(c)) \in N..N+1
           /\ N = 2 => byte(1) = 255
           /\ N = 4 => byte(3) = 255
=============================================================================
