------------------------------- MODULE MCTools -------------------------------
(* Small instances of Tools for TLC: a field of three by three cells, a      *)
(* checksum of four bits, short archives, answers, trees and columns.        *)
EXTENDS Tools, Sequences, Bitwise

ThreePlaces == <<2, 1, 1>>

\* The numbers of the program, at src/3-asm/main.c:81.
Lost == <<4, 8, 15, 16, 23, 42>>

ExclusiveOr(x, y) == x ^^ y
Figures == {-2, 0, 3}
=============================================================================
