------------------------------ MODULE JpegRows ------------------------------
(***************************************************************************)
(* src/16-cube/stb_image.h:3454-3526, 3646-3655, 3896-3940 and 1222-1244:  *)
(* a component of a JPEG image, which has fewer samples than the image,    *)
(* stretched to its size, and the image turned upside down.                *)
(***************************************************************************)
EXTENDS Integers, Sequences, SequencesExt

CONSTANTS
    Dims,       \* widths and heights of the image
    Factors,    \* how much it is stretched: <<across, down>>
    Values,     \* samples
    Temp        \* bytes that are swapped at a time, 2048 in the code

RowsAssumption == Dims \subseteq Nat \ {0} /\ Temp \in Nat \ {0}

VARIABLES
    plane,      \* the samples, row by row from 0
    img_x, img_y, hs, vs,
    r,          \* stbi__resample
    j,          \* the next row
    out,        \* the rows
    pc

vars == <<plane, img_x, img_y, hs, vs, r, j, out, pc>>

W == (img_x + hs - 1) \div hs      \* w_lores
Rows == (img_y + vs - 1) \div vs   \* the component's y
Linebuf == img_x + 3

-----------------------------------------------------------------------------
\* The five ways to stretch a row; a row is a function of 0..n-1.
RowV2(near, far) == [i \in 0..W-1 |-> (3 * near[i] + far[i] + 2) \div 4]
RowH2(in) ==
    IF W = 1 THEN [i \in 0..1 |-> in[0]]
    ELSE [i \in 0..2*W-1 |->
            IF i = 0 THEN in[0] ELSE IF i = 2 * W - 1 THEN in[W - 1]
            ELSE IF i = 2 * W - 2 THEN (3 * in[W - 2] + in[W - 1] + 2) \div 4
            ELSE (3 * in[i \div 2] + 2 + in[IF i % 2 = 0 THEN i \div 2 - 1 ELSE i \div 2 + 1]) \div 4]
\* Mutant: rounded twice.
RoundedFirst(n, f) == 4 * ((3 * n + f + 2) \div 4)
Blend(n, f) == 3 * n + f
RowHV2(near, far) ==
    LET t(i) == Blend(near[i], far[i])
    IN IF W = 1 THEN [i \in 0..1 |-> (t(0) + 2) \div 4]
       ELSE [i \in 0..2*W-1 |->
               IF i = 0 THEN (t(0) + 2) \div 4 ELSE IF i = 2 * W - 1 THEN (t(W - 1) + 2) \div 4
               ELSE IF i % 2 = 1 THEN (3 * t(i \div 2) + t(i \div 2 + 1) + 8) \div 16
               ELSE (3 * t(i \div 2) + t(i \div 2 - 1) + 8) \div 16]
RowGeneric(in) == [i \in 0..W*hs-1 |-> in[i \div hs]]
Resample(near, far) ==
    CASE hs = 1 /\ vs = 1 -> near
      [] hs = 1 /\ vs = 2 -> RowV2(near, far)
      [] hs = 2 /\ vs = 1 -> RowH2(near)
      [] hs = 2 /\ vs = 2 -> RowHV2(near, far)
      [] OTHER -> RowGeneric(near)

Init ==
    /\ img_x \in Dims /\ img_y \in Dims /\ \E f \in Factors : hs = f[1] /\ vs = f[2]
    /\ plane \in [0..Rows-1 -> [0..W-1 -> Values]]
    /\ r = [ystep |-> vs \div 2, ypos |-> 0, line0 |-> 0, line1 |-> 0]
    /\ j = 0 /\ out = <<>> /\ pc = "rows"

\* Mutant: the lower line moves on below the component.
Onwards(ypos, line1) == line1 + 1
NextLine(ypos, line1) == IF ypos < Rows THEN line1 + 1 ELSE line1
Row ==
    LET y_bot == r.ystep >= vs \div 2
        near == IF y_bot THEN r.line1 ELSE r.line0
        far == IF y_bot THEN r.line0 ELSE r.line1
    IN /\ pc = "rows" /\ j < img_y
       /\ out' = Append(out, Resample(plane[near], plane[far]))
       /\ r' = IF r.ystep + 1 >= vs
               THEN [ystep |-> 0, ypos |-> r.ypos + 1, line0 |-> r.line1, line1 |-> NextLine(r.ypos + 1, r.line1)]
               ELSE [r EXCEPT !.ystep = @ + 1]
       /\ j' = j + 1 /\ UNCHANGED <<plane, img_x, img_y, hs, vs, pc>>
Cut ==
    /\ pc = "rows" /\ j = img_y /\ pc' = "flip" /\ j' = 0
    /\ out' = [y \in DOMAIN out |-> [i \in 0..img_x-1 |-> out[y][i]]]
    /\ UNCHANGED <<plane, img_x, img_y, hs, vs, r>>

\* stbi__vertical_flip: two rows change places, Temp bytes at a time.
Swapped(a, b, from) ==
    LET n == IF img_x - from < Temp THEN img_x - from ELSE Temp
        part(x, y) == [i \in 0..img_x-1 |-> IF i \in from..from+n-1 THEN y[i] ELSE x[i]]
    IN <<part(a, b), part(b, a)>>
SwapRows(a, b) ==
    FoldLeft(LAMBDA s, n : Swapped(s[1], s[2], n * Temp), <<a, b>>,
             [n \in 1..((img_x + Temp - 1) \div Temp) |-> n - 1])
Flip ==
    LET s == SwapRows(out[j + 1], out[img_y - j])
    IN /\ pc = "flip" /\ j < img_y \div 2
       /\ out' = [out EXCEPT ![j + 1] = s[1], ![img_y - j] = s[2]]
       /\ j' = j + 1 /\ UNCHANGED <<plane, img_x, img_y, hs, vs, r, pc>>
Flipped == pc = "flip" /\ j = img_y \div 2 /\ pc' = "done" /\ UNCHANGED <<plane, img_x, img_y, hs, vs, r, j, out>>

Next == Row \/ Cut \/ Flip \/ Flipped
Spec == Init /\ [][Next]_vars

-----------------------------------------------------------------------------
\* The sample beside n on the side where the pixel at i is, if there is one.
Beside(n, i, last) == IF i % 2 = 0 THEN (IF n = 0 THEN 0 ELSE n - 1) ELSE IF n = last THEN n ELSE n + 1
\* A pixel is three quarters the sample it lies in and one quarter the one
\* beside it, each way in which the image is stretched by two; otherwise the
\* sample it lies in. Rounded once.
Pixel(x, y) ==
    LET i == x \div hs
        k == y \div vs
        two == hs \in {1, 2} /\ vs \in {1, 2}
        s(row) == IF hs = 2 THEN 3 * plane[row][i] + plane[row][Beside(i, x, W - 1)] ELSE 4 * plane[row][i]
    IN IF ~two THEN plane[k][i]
       ELSE IF vs = 2 THEN (3 * s(k) + s(Beside(k, y, Rows - 1)) + 8) \div 16 ELSE (s(k) + 2) \div 4
\* The one pixel of a row in which RowH2 weighs the two samples the wrong way
\* round (line 3494).
Misweighed(x) == hs = 2 /\ vs = 1 /\ W > 1 /\ x = 2 * W - 2

\* No row of the component outside it is read, the line buffer is long enough,
\* and the image is the component stretched, upside down, but for that pixel.
RowsRight ==
    /\ r.line0 \in 0..Rows-1 /\ r.line1 \in 0..Rows-1
    /\ W * hs <= Linebuf
    /\ pc = "done" => \A y \in 1..img_y, x \in 0..img_x-1 :
                        out[y][x] = Pixel(x, img_y - y) \/ Misweighed(x)

\* Every pixel between two samples is weighed by its distance to them, as line
\* 1926 says: "upsampled channels are bilinearly interpolated, even across blocks".
RowsCentred ==
    pc = "done" => \A y \in 1..img_y, x \in 0..img_x-1 : out[y][x] = Pixel(x, img_y - y)
=============================================================================
