----------------------------- MODULE ColumnStats -----------------------------
(***************************************************************************)
(* src/15-db/main.c: statistics of a column, from PostgreSQL or SQLite.    *)
(* The type is checked by one query and the numbers computed by a second   *)
(* one, with no transaction around them, while other clients (external)    *)
(* change the table; a statement may also fail by itself, as the database  *)
(* is busy, cannot be read or overflows.  PostgreSQL types a column,       *)
(* SQLite each value.                                                      *)
(***************************************************************************)
EXTENDS Integers, Sequences, Functions

CONSTANTS
    Numbers,    \* numbers in the column
    MaxRows,    \* bound: rows of the table
    MaxChanges, \* bound: changes by other clients
    Rounding    \* bound: floating-point error of the dispersion, times the rows' square

NULL == 100     \* two values that no number in the column has
TEXT == 101     \* a text, which SQLite's AVG and SUM count as 0
StatsAssumption == Numbers \subseteq Int \ {NULL, TEXT} /\ {MaxRows, MaxChanges, Rounding} \subseteq Nat

Columns == UNION {[1..n -> Numbers \cup {NULL, TEXT}] : n \in 0..MaxRows}
Typed(kind) == {c \in Columns : Range(c) \subseteq
                  (IF kind = "numeric" THEN Numbers ELSE {TEXT}) \cup {NULL}}

VARIABLES
    dbms, type,   \* the type: "any" in SQLite; "missing" when there is no such column
    column, changes,
    trouble,      \* history: a statement failed by itself, unnoticed
    shown,        \* history: the column the answer was computed from
    pc, answer    \* rows counted, SUM and the dispersion times the rows' square

vars == <<dbms, type, column, changes, trouble, shown, pc, answer>>

None == [n |-> 0, sum |-> 0, dispersion |-> 0]

Init ==
    /\ \/ dbms = "sqlite" /\ type \in {"any", "missing"} /\ column \in Columns
       \/ dbms = "postgres" /\ type \in {"numeric", "text", "missing"} /\ column \in Typed(type)
    /\ changes = 0 /\ trouble = 0 /\ shown = <<>> /\ pc = "connect" /\ answer = None

-----------------------------------------------------------------------------
Fail == pc' = "failed" /\ UNCHANGED <<dbms, type, column, changes, trouble, shown, answer>>

ConnectFails == pc = "connect" /\ Fail
Connect ==
    /\ pc = "connect" /\ pc' = "check"
    /\ UNCHANGED <<dbms, type, column, changes, trouble, shown, answer>>

\* Mutant: the type is looked at in PostgreSQL only.
AnyColumn == type \in {"numeric", "any", "text"}
\* PostgreSQL's type of the column; the type of SQLite's first row, which may
\* be NULL, or no row at all.
Numeric == type = "numeric" \/ (type = "any" /\ \A r \in DOMAIN column : r = 1 => column[r] # TEXT)

\* The first statement may fail for any reason, and says so.
Check ==
    /\ pc = "check"
    /\ \/ Fail
       \/ /\ Numeric /\ pc' = "query"
          /\ UNCHANGED <<dbms, type, column, changes, trouble, shown, answer>>

\* SQLite's statement was prepared, and its step gives no row as it fails: the
\* type goes unchecked, as when there is no row.
CheckStumbles ==
    /\ pc = "check" /\ dbms = "sqlite" /\ type # "missing"
    /\ pc' = "query" /\ trouble' = trouble + 1
    /\ UNCHANGED <<dbms, type, column, changes, shown, answer>>

\* Mutant: AVG is not squared.
Spread(n, sum, squares) == n * squares - n * sum
\* AVG(x * x) - AVG(x) * AVG(x), before rounding; PostgreSQL's var_pop is the same.
Dispersion(n, sum, squares) == n * squares - sum * sum

\* The aggregates leave NULLs out, and SQLite's count a text as 0.
Counted(v) == IF v = NULL THEN 0 ELSE 1
Number(v) == IF v \in {NULL, TEXT} THEN 0 ELSE v
Total(terms) ==
    LET upto[k \in 0..Len(terms)] == IF k = 0 THEN 0 ELSE upto[k - 1] + terms[k]
    IN upto[Len(terms)]
Statistics(c) ==
    LET n == Total([k \in DOMAIN c |-> Counted(c[k])])
        sum == Total([k \in DOMAIN c |-> Number(c[k])])
        squares == Total([k \in DOMAIN c |-> Number(c[k]) * Number(c[k])])
    IN [n |-> n, sum |-> sum, dispersion |-> Dispersion(n, sum, squares)]

\* SQLite computes with floating point, and PostgreSQL in columns of that type.
Rounded(a) == {[a EXCEPT !.dispersion = @ + e] : e \in -Rounding..Rounding}

\* A second query that fails is not noticed: PostgreSQL's values are shown as
\* (null), SQLite's not at all, and 0 is returned.
Query ==
    /\ pc = "query"
    /\ \/ type \in {"missing", "text"} /\ pc' = "silent" /\ UNCHANGED <<trouble, shown, answer>>
       \/ pc' = "silent" /\ trouble' = trouble + 1 /\ UNCHANGED <<shown, answer>>
       \/ /\ type \notin {"missing", "text"} /\ pc' = "shown"
          /\ answer' \in Rounded(Statistics(column)) /\ shown' = column /\ UNCHANGED trouble
    /\ UNCHANGED <<dbms, type, column, changes>>

\* Another client writes a row, or drops or retypes the column (external).
Change ==
    /\ changes < MaxChanges /\ changes' = changes + 1
    /\ \/ type # "missing" /\ UNCHANGED type
          /\ column' \in {c \in (IF dbms = "sqlite" THEN Columns ELSE Typed(type)) :
                            \E v \in Numbers \cup {NULL, TEXT} : c = Append(column, v)}
       \/ type' = "missing" /\ UNCHANGED column
       \/ type = "numeric" /\ type' = "text" /\ column' = [k \in DOMAIN column |-> TEXT]
    /\ UNCHANGED <<dbms, trouble, shown, pc, answer>>

Next == ConnectFails \/ Connect \/ Check \/ CheckStumbles \/ Query \/ Change
Spec == Init /\ [][Next]_vars

-----------------------------------------------------------------------------
\* The dispersion is the mean square of the distance to the mean, although it is
\* computed from three sums: but for the rounding, which may make one that is
\* near 0 negative (lines 68 and 113).
DispersionIsVariance ==
    LET Distance(v) == answer.n * Number(v) - answer.sum
        squares == Total([k \in DOMAIN shown |-> Counted(shown[k]) * Distance(shown[k]) * Distance(shown[k])])
    IN pc = "shown" => /\ answer.dispersion >= -Rounding
                       /\ answer.n * (answer.dispersion - Rounding) <= squares
                       /\ answer.n * (answer.dispersion + Rounding) >= squares

\* Nothing is shown after a check that passed only if another client has changed
\* the table in between, or a statement failed by itself (lines 71-73, 101 and 116).
SilentForCause == pc = "silent" => changes > 0 \/ trouble > 0

\* PostgreSQL's statistics are of numbers only; SQLite's count a text as 0
\* only behind a first row that is not one, after a change or an unnoticed failure.
TextBehindFirst ==
    pc = "shown" => \/ TEXT \notin Range(shown)
                    \/ dbms = "sqlite" /\ (changes > 0 \/ trouble > 0 \/ shown[1] # TEXT)
=============================================================================
