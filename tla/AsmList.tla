------------------------------- MODULE AsmList -------------------------------
(***************************************************************************)
(* src/3-asm: a list of numbers is built, printed, filtered into a new     *)
(* list, printed and freed, in C (main.c) and in assembly                  *)
(* (memory-leak-fixed/main.asm).  The heap is what malloc has given and    *)
(* free has not taken back; cells are numbered and not used twice.         *)
(***************************************************************************)
EXTENDS Integers, Sequences

CONSTANTS
    data   \* the numbers of the list

ListAssumption == data \in Seq(Int) /\ data # <<>>

NULL == 0
Garbage == -1    \* what an uninitialised pointer may hold

VARIABLES
    program,   \* "c" or "asm"
    tail,      \* what head holds before the first element
    heap,      \* allocated cells: value and next
    brk,       \* the next cell malloc returns
    pc, i,
    at,        \* the element a loop has come to
    head,      \* of the list, then of the filtered one
    calls,     \* elements of the calls of f that have not returned (C)
    printed,   \* rows of numbers
    lost       \* history: malloc failed in f

vars == <<program, tail, heap, brk, pc, i, at, head, calls, printed, lost>>

\* main.c leaves head uninitialised; main.asm clears rax.
Init ==
    /\ \/ program = "c" /\ tail \in {NULL, Garbage}
       \/ program = "asm" /\ tail = NULL
    /\ heap = <<>> /\ brk = 1 /\ pc = "add" /\ i = Len(data)
    /\ at = NULL /\ head = tail
    /\ calls = <<>> /\ printed = <<<<>>>> /\ lost = FALSE

-----------------------------------------------------------------------------
\* add_element: on the heap, unless malloc fails.
Allocate(value, link) ==
    /\ heap' = [a \in DOMAIN heap \cup {brk} |-> IF a = brk THEN [value |-> value, next |-> link] ELSE heap[a]]
    /\ brk' = brk + 1

\* Mutant: nothing is freed.
Kept(p) == heap
Freed(p) == [a \in DOMAIN heap \ {p} |-> heap[a]]

Stop(reason) == pc' = reason /\ UNCHANGED <<program, tail, heap, brk, i, at, head, calls, printed, lost>>
\* A pointer to no cell is followed.
Wild(phase, p) == pc = phase /\ p # NULL /\ p \notin DOMAIN heap /\ Stop("undefined")

\* The loop over data, from its end.
Add ==
    /\ pc = "add" /\ i > 0 /\ i' = i - 1
    /\ Allocate(data[i], head) /\ head' = brk
    /\ UNCHANGED <<program, tail, pc, at, calls, printed, lost>>

\* main.c returns 1, main.asm calls abort.
AddFails == pc = "add" /\ i > 0 /\ Stop("failed")

Added ==
    /\ pc = "add" /\ i = 0
    /\ pc' = "m" /\ at' = head
    /\ UNCHANGED <<program, tail, heap, brk, i, head, calls, printed, lost>>

\* m with print_int, over the list and then over the filtered one.
M ==
    /\ pc \in {"m", "m again"} /\ at \in DOMAIN heap
    /\ printed' = [printed EXCEPT ![Len(printed)] = Append(@, heap[at].value)]
    /\ at' = heap[at].next
    /\ UNCHANGED <<program, tail, heap, brk, pc, i, head, calls, lost>>

\* The end of a row, and what main does next: f with a new head, or the loop
\* that frees.
Row ==
    /\ pc \in {"m", "m again"} /\ at = NULL
    /\ printed' = Append(printed, <<>>)
    /\ pc' = IF pc = "m" THEN "f" ELSE "free"
    /\ at' = head
    /\ head' = IF pc = "m" THEN NULL ELSE head
    /\ UNCHANGED <<program, tail, heap, brk, i, calls, lost>>

-----------------------------------------------------------------------------
\* f.  An element that p takes is copied in front of the new list; main.c
\* goes on without the new list when malloc fails.

\* Mutant: the bit is tested the other way round.
Even(v) == v % 2 = 0
Odd(v) == v % 2 # 0     \* p
Pick ==
    \/ Odd(heap[at].value) /\ Allocate(heap[at].value, head) /\ head' = brk /\ UNCHANGED lost
    \/ ~Odd(heap[at].value) /\ UNCHANGED <<heap, brk, head, lost>>
    \/ /\ Odd(heap[at].value) /\ program = "c"
       /\ head' = NULL /\ lost' = TRUE /\ UNCHANGED <<heap, brk>>

\* main.c: the call of f for the rest comes before the element is freed.
FCalls ==
    /\ program = "c" /\ pc = "f" /\ at \in DOMAIN heap
    /\ Pick
    /\ calls' = Append(calls, at) /\ at' = heap[at].next
    /\ UNCHANGED <<program, tail, pc, i, printed>>

\* Mutant: the first call that returns frees its element twice.
Again == IF Len(calls) = 1 THEN calls ELSE SubSeq(calls, 1, Len(calls) - 1)
Rest == SubSeq(calls, 1, Len(calls) - 1)
FReturns ==
    /\ program = "c" /\ pc = "f" /\ at = NULL /\ calls # <<>>
    /\ IF calls[Len(calls)] \in DOMAIN heap THEN pc' = pc ELSE pc' = "undefined"
    /\ heap' = Freed(calls[Len(calls)]) /\ calls' = Rest
    /\ UNCHANGED <<program, tail, brk, i, at, head, printed, lost>>

\* main.asm: a loop; next is read before the element is freed.
FLoop ==
    /\ program = "asm" /\ pc = "f" /\ at \in DOMAIN heap
    /\ Pick /\ at' = heap[at].next /\ pc' = "f free" /\ calls' = <<at>>
    /\ UNCHANGED <<program, tail, i, printed>>

FFree ==
    /\ pc = "f free" /\ pc' = "f" /\ heap' = Freed(Head(calls)) /\ calls' = <<>>
    /\ UNCHANGED <<program, tail, brk, i, at, head, printed, lost>>

FAborts == program = "asm" /\ pc = "f" /\ at \in DOMAIN heap /\ Odd(heap[at].value) /\ Stop("failed")

FEnds ==
    /\ pc = "f" /\ at = NULL /\ calls = <<>>
    /\ pc' = "m again" /\ at' = head
    /\ UNCHANGED <<program, tail, heap, brk, i, head, calls, printed, lost>>

-----------------------------------------------------------------------------
\* The loop that frees the new list: main.asm tests the pointer first, main.c
\* reads next of the first element in any case.
Free ==
    /\ pc = "free" /\ at \in DOMAIN heap
    /\ heap' = Freed(at) /\ at' = heap[at].next
    /\ pc' = IF program = "c" /\ heap[at].next = NULL THEN "done" ELSE pc
    /\ UNCHANGED <<program, tail, brk, i, head, calls, printed, lost>>

FreeEnds == pc = "free" /\ at = NULL /\ Stop(IF program = "c" THEN "undefined" ELSE "done")

Undefined == \E phase \in {"m", "m again", "f", "free"} : Wild(phase, at)

Next ==
    \/ Add \/ AddFails \/ Added \/ M \/ Row
    \/ FCalls \/ FReturns \/ FLoop \/ FFree \/ FAborts \/ FEnds
    \/ Free \/ FreeEnds \/ Undefined
Spec == Init /\ [][Next]_vars

-----------------------------------------------------------------------------
\* The odd ones of the first k numbers, the last first.
OddsUpTo[k \in 0..Len(data)] ==
    IF k = 0 THEN <<>>
    ELSE IF data[k] % 2 = 1 THEN <<data[k]>> \o OddsUpTo[k - 1]
    ELSE OddsUpTo[k - 1]
Odds == OddsUpTo[Len(data)]

\* Both programs show the list and then its odd numbers, the last first, when
\* malloc never fails in f.
SameRows == pc = "done" /\ ~lost => printed = <<data, Odds, <<>>>>

\* A program that ends has freed every element exactly once, the copies and
\* the copied ones; one whose filter loses its list does not end.
NothingLeaks == pc = "done" /\ ~lost => heap = <<>>

\* No freed or foreign cell is ever followed, unless head started with
\* garbage, a copy could not be made, or no number was odd (main.c only).
NoWildPointer ==
    pc = "undefined" => program = "c" /\ (tail = Garbage \/ lost \/ Odds = <<>>)
=============================================================================
