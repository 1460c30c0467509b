----------------------------- MODULE ImageSizes -----------------------------
(* src/16-cube/stb_image.h:985-1084: the checks before a size is computed or *)
(* a coefficient stored. An int is in -IntMax-1..IntMax, a short in          *)
(* -ShortMax-1..ShortMax; `/' on ints rounds towards zero.                   *)
EXTENDS Integers

CONSTANTS IntMax, ShortMax, Args   \* Args: the ints that the calls get

SizesAssumption == IntMax \in Nat /\ ShortMax \in 0..IntMax /\ Args \subseteq -IntMax-1..IntMax

VARIABLES
    call,   \* the function and its arguments
    pc,
    valid   \* what it returns

vars == <<call, pc, valid>>

IntMin == -IntMax - 1
ShortMin == -ShortMax - 1
Quotient(a, b) == IF b > 0 THEN (IF a >= 0 THEN a \div b ELSE -((-a) \div b))
                  ELSE IF a >= 0 THEN -(a \div (-b)) ELSE (-a) \div (-b)

AddSizesValid(a, b) == b >= 0 /\ a <= IntMax - b
Mul2SizesValid(a, b) == a >= 0 /\ b >= 0 /\ (b = 0 \/ a <= IntMax \div b)
Mad2SizesValid(a, b, add) == Mul2SizesValid(a, b) /\ AddSizesValid(a * b, add)
\* Mutant: the first product is not checked.
OnlyLast(a, b, c, add) == Mul2SizesValid(a * b, c) /\ AddSizesValid(a * b * c, add)
Mad3SizesValid(a, b, c, add) ==
    Mul2SizesValid(a, b) /\ Mul2SizesValid(a * b, c) /\ AddSizesValid(a * b * c, add)
Mad4SizesValid(a, b, c, d, add) ==
    Mul2SizesValid(a, b) /\ Mul2SizesValid(a * b, c) /\ Mul2SizesValid(a * b * c, d) /\ AddSizesValid(a * b * c * d, add)

AddIntsValid(a, b) ==
    \/ (a >= 0) # (b >= 0)
    \/ a < 0 /\ b < 0 /\ a >= IntMin - b
    \/ a >= 0 /\ b >= 0 /\ a <= IntMax - b
Mul2ShortsValid(a, b) ==
    IF b = 0 \/ b = -1 THEN TRUE
    ELSE IF (a >= 0) = (b >= 0) THEN a <= Quotient(ShortMax, b)
    ELSE IF b < 0 THEN a <= Quotient(ShortMin, b)
    ELSE a >= Quotient(ShortMin, b)

\* The bytes asked for, or none: malloc is not called.
MallocMad2(a, b, add) == IF Mad2SizesValid(a, b, add) THEN {a * b + add} ELSE {}
MallocMad3(a, b, c, add) == IF Mad3SizesValid(a, b, c, add) THEN {a * b * c + add} ELSE {}
MallocMad4(a, b, c, d, add) == IF Mad4SizesValid(a, b, c, d, add) THEN {a * b * c * d + add} ELSE {}

-----------------------------------------------------------------------------
Init ==
    /\ call \in [f : {"addsizes", "mad2", "mad3", "mad4", "addints", "mul2shorts"}, a : Args, b : Args, c : Args, add : Args]
    /\ (call.f \in {"addsizes", "addints", "mul2shorts"} => call.c = 0 /\ call.add = 0)
    /\ (call.f = "mad2" => call.c = 0)
    /\ pc = "call" /\ valid = FALSE
\* What the function of a call returns; the fourth factor is the third again.
Answer(x) ==
    CASE x.f = "addsizes" -> AddSizesValid(x.a, x.b)
      [] x.f = "mad2" -> MallocMad2(x.a, x.b, x.add) # {}
      [] x.f = "mad3" -> MallocMad3(x.a, x.b, x.c, x.add) # {}
      [] x.f = "mad4" -> MallocMad4(x.a, x.b, x.c, x.c, x.add) # {}
      [] x.f = "addints" -> AddIntsValid(x.a, x.b)
      [] x.f = "mul2shorts" -> Mul2ShortsValid(x.a, x.b)
Return == pc = "call" /\ pc' = "done" /\ valid' = Answer(call) /\ UNCHANGED call
Next == Return
Spec == Init /\ [][Next]_vars

-----------------------------------------------------------------------------
\* An int that the program computed.
InInt(n) == n \in IntMin..IntMax
\* A size is allowed if no step on the way to it overflows, and refused
\* otherwise, or if a part of it is negative; so for sums of ints and, as long
\* as the factor is a quantizer or a power of two, for products in a short.
\* For a negative factor the answer of stbi__mul2shorts_valid is wrong (lines
\* 1080-1081), and stbi__addsizes_valid allows a negative first term against
\* its comment (line 1001); no caller passes one.
RightAnswer(x, v) ==
    CASE x.f = "addsizes" -> x.a >= 0 => (v <=> x.b >= 0 /\ InInt(x.a + x.b))
      [] x.f = "mad2" -> v <=> x.a >= 0 /\ x.b >= 0 /\ x.add >= 0 /\ InInt(x.a * x.b) /\ InInt(x.a * x.b + x.add)
      [] x.f = "mad3" -> v <=> /\ x.a >= 0 /\ x.b >= 0 /\ x.c >= 0 /\ x.add >= 0
                                   /\ InInt(x.a * x.b) /\ InInt(x.a * x.b * x.c + x.add)
      [] x.f = "mad4" -> v <=> /\ x.a >= 0 /\ x.b >= 0 /\ x.c >= 0 /\ x.add >= 0
                                   /\ InInt(x.a * x.b) /\ InInt(x.a * x.b * x.c) /\ InInt(x.a * x.b * x.c * x.c + x.add)
      [] x.f = "addints" -> v <=> InInt(x.a + x.b)
      [] x.f = "mul2shorts" -> x.b >= 0 => (v <=> x.a * x.b \in ShortMin..ShortMax)
SizesExact == pc = "done" => RightAnswer(call, valid)
=============================================================================
