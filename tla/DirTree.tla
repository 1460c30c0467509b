------------------------------- MODULE DirTree -------------------------------
(***************************************************************************)
(* src/6-oop/main.c: the tree of the files below the working directory, a  *)
(* row of a tree store for each.  The calls of list_recursively are a      *)
(* stack; GIO and GTK are external.  The root directory is entry 0.        *)
(***************************************************************************)
EXTENDS Integers, Sequences

CONSTANTS
    Entries   \* bound: files and directories below the root

EntriesAssumption == Entries \in Nat

Kinds == {"regular", "link", "directory", "other"}
NoRow == 0

VARIABLES
    kind, dir,   \* of each entry: its type, the directory it is in
    calls,       \* dir, entries not seen yet and parent row of each call
    rows,        \* entry and parent row of each row
    error,       \* error is set
    skipped,     \* history: malloc failed for an entry
    exit_status

vars == <<kind, dir, calls, rows, error, skipped, exit_status>>

Call(d, parent) == [dir |-> d, left |-> {e \in 1..Entries : dir[e] = d}, parent |-> parent]

\* app_activate_cb: a row for the root, whose children are listed beside it,
\* root being NULL, and not below it.
Init ==
    /\ kind \in [1..Entries -> Kinds]
    /\ dir \in {d \in [1..Entries -> 0..Entries] :
                   \A e \in 1..Entries : d[e] < e /\ (d[e] > 0 => kind[d[e]] = "directory")}
    /\ calls = <<Call(0, NoRow)>>
    /\ rows = <<[entry |-> 0, parent |-> NoRow]>>
    /\ error = FALSE /\ skipped = {} /\ exit_status = "none"

Top == calls[Len(calls)]
Under == SubSeq(calls, 1, Len(calls) - 1)
-----------------------------------------------------------------------------
AddRow(e) == Append(rows, [entry |-> e, parent |-> Top.parent])

\* Mutant: a subdirectory's rows go where the directory's own rows go.
SameParent(e) == Call(e, Top.parent)
Below(e) == Call(e, Len(rows'))

\* g_file_enumerator_next_file gives the entries in any order.
Visit ==
    /\ calls # <<>>
    /\ \E e \in Top.left :
          LET rest == [Top EXCEPT !.left = @ \ {e}] IN
          \/ /\ kind[e] # "other"
             /\ rows' = AddRow(e)
             /\ calls' = Under \o <<rest>> \o IF kind[e] = "directory" THEN <<Below(e)>> ELSE <<>>
             /\ UNCHANGED skipped
          \* no row: another type of file, or malloc fails
          \/ /\ calls' = Under \o <<rest>>
             /\ skipped' = IF kind[e] = "other" THEN skipped ELSE skipped \cup {e}
             /\ UNCHANGED rows
    /\ UNCHANGED <<kind, dir, error, exit_status>>

\* Mutant: the reason for the end of an enumeration is not looked at.
Unseen == error
Seen == TRUE
\* The enumeration ends, after the last entry or by an error, which may keep
\* it from starting.
Leave ==
    /\ calls # <<>>
    /\ \/ Top.left = {} /\ UNCHANGED error
       \/ error' = Seen
    /\ calls' = Under
    /\ UNCHANGED <<kind, dir, rows, skipped, exit_status>>

\* build_tree returns; main returns the application's status, not this one.
Show ==
    /\ calls = <<>> /\ exit_status = "none"
    /\ exit_status' = IF error THEN "failure" ELSE "success"
    /\ UNCHANGED <<kind, dir, calls, rows, error, skipped>>

Next == Visit \/ Leave \/ Show
Spec == Init /\ [][Next]_vars

-----------------------------------------------------------------------------
\* Every row stands below the row of its directory, the entries of the root
\* at the top, and no entry has two rows (lines 18-88).
RowsUnderDirectories ==
    \A r \in 2..Len(rows) :
       /\ IF dir[rows[r].entry] = 0 THEN rows[r].parent = NoRow
          ELSE rows[r].parent \in 1..(r - 1) /\ rows[rows[r].parent].entry = dir[rows[r].entry]
       /\ \A q \in 1..(r - 1) : rows[q].entry # rows[r].entry

\* A tree that ends in success is complete: what it lacks could not be
\* allocated, lies below such a directory, or is of no type that is shown.
CompleteOnSuccess ==
    exit_status = "success" =>
       \A e \in 1..Entries :
          \/ \E r \in DOMAIN rows : rows[r].entry = e
          \/ kind[e] = "other" \/ e \in skipped
          \/ dir[e] # 0 /\ ~\E r \in DOMAIN rows : rows[r].entry = dir[e]
=============================================================================
