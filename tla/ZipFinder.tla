------------------------------ MODULE ZipFinder ------------------------------
(***************************************************************************)
(* src/1-rarjpeg/main.c: is a file a JPEG, a zip archive or both, and what *)
(* files are in the archive.  A file is a sequence of cells: a signature   *)
(* is one cell, a header of the central directory HEADER cells, the        *)
(* end-of-directory record END cells, with the directory's size last.      *)
(***************************************************************************)
EXTENDS Integers, Sequences, SequencesExt

CONSTANTS
    Lengths,     \* of names, extra fields and comments in archives
    MaxEntries,  \* bound: files in an archive
    MaxCells,    \* bound: cells of a file that is no archive
    MaxNames,    \* bound: names printed
    Window,      \* cells of the comment behind the record: 65536 bytes
    Wrap         \* cdrOffset has 32 bits: 2^32

HEADER == 4      \* signature and three lengths: 46 bytes
END == 2         \* signature and size: 22 bytes
CDR_FILE_HEADER_SIGNATURE == 97
EOCDR_SIGNATURE == 98
JPEG_SIGNATURE == 99

VARIABLES
    file,
    entries,     \* history: what was archived, <<>> for a file that is no archive
    pc,
    result,      \* bits of the result that are set
    offset,      \* fileHeaderOffset
    held,        \* what is on the stack of printAllFilenames: the last header read
    names        \* printed, as far as they were read

vars == <<file, entries, pc, result, offset, held, names>>

\* An archive: a picture or nothing, the archived data, the directory, its
\* end and a comment.
Fill(n) == [k \in 1..n |-> 0]
Directory(es) == FlattenSeq([k \in 1..Len(es) |->
    <<CDR_FILE_HEADER_SIGNATURE, es[k].name, es[k].extra, es[k].comment>>
    \o [j \in 1..es[k].name |-> k] \o Fill(es[k].extra + es[k].comment)])
Archive(front, es, comment) ==
    front \o Fill(Len(es)) \o Directory(es) \o <<EOCDR_SIGNATURE, Len(Directory(es))>> \o Fill(comment)
Fronts == {<<>>, <<JPEG_SIGNATURE>>, <<JPEG_SIGNATURE, EOCDR_SIGNATURE, 0>>}
EntryLists == UNION {[1..n -> [name : Lengths, extra : Lengths, comment : Lengths]] : n \in 1..MaxEntries}
\* A directory that is as long as the signature reads would show a record one
\* cell behind the true one; a longer archive than Wrap has other offsets.
ZipAssumption ==
    /\ Lengths \subseteq 0..Window /\ Wrap \in Nat \ {0}
    /\ {MaxEntries, MaxCells, MaxNames, Window} \subseteq Nat
    /\ \A es \in EntryLists :
          /\ Len(Directory(es)) # EOCDR_SIGNATURE
          /\ \A front \in Fronts, comment \in Lengths : Len(Archive(front, es, comment)) < Wrap
\* A variable of printAllFilenames that nothing was read into yet: its value is
\* whatever the stack holds.
Unset == -1
Cells == {0, 1, CDR_FILE_HEADER_SIGNATURE, EOCDR_SIGNATURE, JPEG_SIGNATURE}

Init ==
    /\ \/ \E front \in Fronts, es \in EntryLists, comment \in Lengths :
             entries = es /\ file = Archive(front, es, comment)
       \/ entries = <<>> /\ file \in UNION {[1..n -> Cells] : n \in 0..MaxCells}
    /\ pc = "open" /\ result = {} /\ offset = 0 /\ names = <<>>
    /\ held = [sig |-> Unset, name |-> Unset, extra |-> Unset, comment |-> Unset]

-----------------------------------------------------------------------------
At(o) == file[o + 1]

OpenFails ==
    /\ pc = "open" /\ pc' = "ended" /\ result' = {"ERR"}
    /\ UNCHANGED <<file, entries, offset, held, names>>

Magic ==
    /\ pc = "open" /\ pc' = "search"
    /\ result' = IF file # <<>> /\ At(0) = JPEG_SIGNATURE THEN {"JPEG"} ELSE {}
    /\ UNCHANGED <<file, entries, offset, held, names>>

\* Mutant: the search runs forwards.
Earlier(i, j) == i < j
Later(i, j) == i > j
\* eocdrOffset: the record nearest to the end, if the window holds one; the
\* directory ends where the record starts.
Records == {i \in 0..Len(file) - END : i >= Len(file) - (Window + END) /\ At(i) = EOCDR_SIGNATURE}
Search ==
    /\ pc = "search"
    /\ \/ Records = {} /\ pc' = "ended" /\ UNCHANGED <<result, offset>>
       \/ \E i \in Records :
             /\ \A j \in Records \ {i} : Later(i, j)
             /\ result' = result \cup {"ZIP"}
             /\ offset' = (i - At(i + END - 1)) % Wrap
             /\ pc' = "list"
    /\ UNCHANGED <<file, entries, held, names>>

\* fread: what it may leave in a variable that held `old'.  At the end of the
\* file it leaves it alone, and its result is not looked at.
Read(o, old) ==
    IF o < Len(file) THEN {At(o)} ELSE IF old = Unset THEN Cells ELSE {old}
\* Where a read of n cells from o ends.
Reached(o, n) == IF o >= Len(file) THEN o ELSE IF o + n > Len(file) THEN Len(file) ELSE o + n

\* Mutant: the header's own size is left out.
NextFrom(o, h) == Reached(o, h.name) + h.extra + h.comment
NextHeader(o, h) == Reached(o + HEADER, h.name) + h.extra + h.comment

\* One turn of printAllFilenames; each turn finds the variables of the one before.
PrintFilename ==
    /\ pc = "list" /\ Len(names) < MaxNames
    /\ CDR_FILE_HEADER_SIGNATURE \in Read(offset, held.sig)
    /\ \E n \in Read(offset + 1, held.name), e \in Read(offset + 2, held.extra),
          c \in Read(offset + 3, held.comment) :
          held' = [sig |-> CDR_FILE_HEADER_SIGNATURE, name |-> n, extra |-> e, comment |-> c]
    /\ names' = Append(names, SubSeq(file, offset + HEADER + 1, Reached(offset + HEADER, held'.name)))
    /\ offset' = NextHeader(offset, held')
    /\ UNCHANGED <<file, entries, pc, result>>

NoHeader ==
    /\ pc = "list" /\ \E signature \in Read(offset, held.sig) : signature # CDR_FILE_HEADER_SIGNATURE
    /\ pc' = "ended"
    /\ UNCHANGED <<file, entries, result, offset, held, names>>

Next == OpenFails \/ Magic \/ Search \/ PrintFilename \/ NoHeader
Spec == Init /\ [][Next]_vars

-----------------------------------------------------------------------------
\* An archive is recognised behind a picture too, even one whose own data
\* holds a record, and all its names are listed, in order (lines 85-110).
Listed ==
    entries # <<>> /\ pc = "ended" /\ result # {"ERR"} =>
       /\ result = IF At(0) = JPEG_SIGNATURE THEN {"JPEG", "ZIP"} ELSE {"ZIP"}
       /\ names = [k \in 1..Len(entries) |-> [j \in 1..entries[k].name |-> k]]

\* Whatever the file holds and the stack, every turn of the list gets on by a
\* header: what is listed inside the file is bounded by its length.
WalkAdvances == Len(names) * HEADER <= offset

\* Once a name is listed, the list ends inside the file only, at what is no
\* header.  A walk that has passed the end never ends, as the signature of the
\* turn before is still there (lines 34-44).
EndsInFile ==
    pc = "ended" /\ names # <<>> => offset < Len(file) /\ At(offset) # CDR_FILE_HEADER_SIGNATURE
=============================================================================
