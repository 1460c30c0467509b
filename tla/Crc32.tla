-------------------------------- MODULE Crc32 --------------------------------
(***************************************************************************)
(* src/9-crc32/main.c: the checksum of a file that is mapped chunk by      *)
(* chunk.  The checksum has Width bits and the polynomial Poly (32 and     *)
(* EDB88320 in the code), a char CharBits.                                 *)
(***************************************************************************)
EXTENDS Integers, Sequences

CONSTANTS
    Width, CharBits, Poly,
    BitXor(_, _),         \* C's ^
    PageSize, CHUNK_SIZE,
    MaxLength             \* bound: bytes of a file

Bytes == 0..(2^CharBits - 1)
Ones == 2^Width - 1
BitOf(n, k) == (n \div 2^k) % 2
\* The powers of two; ^ adds the bits.
ChecksumAssumption ==
    /\ {Width, CharBits, PageSize, CHUNK_SIZE} \subseteq Nat \ {0} /\ MaxLength \in Nat
    /\ 2^0 = 1 /\ \A k \in 0..(Width + CharBits) : 2^k \in Nat \ {0} /\ 2^(k + 1) = 2 * 2^k
    /\ Poly \in 2^(Width - 1)..Ones
    /\ \A a, b \in 0..Ones :
         /\ BitXor(a, b) \in 0..Ones
         /\ \A k \in 0..(Width - 1) : BitOf(BitXor(a, b), k) = (BitOf(a, k) + BitOf(b, k)) % 2

VARIABLES
    file,       \* what the file holds now
    was,        \* history: what it held when its size was taken
    filesize,
    pc, current_offset,
    data,       \* the mapping: its offset and its length
    i, crc

vars == <<file, was, filesize, pc, current_offset, data, i, crc>>

Init ==
    /\ file \in UNION {[1..n -> Bytes] : n \in 0..MaxLength} /\ was = <<>>
    /\ filesize = 0 /\ pc = "open" /\ current_offset = 0
    /\ data = [at |-> 0, length |-> 0] /\ i = 0 /\ crc = Ones

-----------------------------------------------------------------------------
\* Mutant: only the lowest bit of the checksum decides.
BitAlone(c, bit) == IF c % 2 = 1 THEN BitXor(c \div 2, Poly) ELSE c \div 2
\* One turn of the loop: the lowest bits of ch and of crc.
Bit(c, bit) == IF c % 2 # bit THEN BitXor(c \div 2, Poly) ELSE c \div 2
\* The bits of a char, the lowest first; the sign that >>= repeats is not
\* reached in CharBits turns.
Crc32Bitwise(c, ch) ==
    LET turn[j \in 0..CharBits] == IF j = 0 THEN c ELSE Bit(turn[j - 1], BitOf(ch, j - 1))
    IN turn[CharBits]

\* CHUNK_SIZE in whole pages, one at least.
ChunkSize == IF CHUNK_SIZE < PageSize THEN PageSize ELSE (CHUNK_SIZE \div PageSize) * PageSize

\* Mutant: every mapping has the length of a chunk.
WholeChunk(offset) == ChunkSize
MapLen(offset) == IF offset + ChunkSize > filesize THEN filesize - offset ELSE ChunkSize

-----------------------------------------------------------------------------
Fail == pc' = "failed" /\ UNCHANGED <<file, was, filesize, current_offset, data, i, crc>>

\* open and fstat.
Open ==
    /\ pc = "open" /\ pc' = "loop"
    /\ filesize' = Len(file) /\ was' = file
    /\ UNCHANGED <<file, current_offset, data, i, crc>>

OpenFails == pc = "open" /\ Fail

\* The head of the loop: the next mapping, or the report.
Map ==
    /\ pc = "loop" /\ current_offset < filesize
    /\ data' = [at |-> current_offset, length |-> MapLen(current_offset)]
    /\ pc' = "read" /\ i' = 0
    /\ UNCHANGED <<file, was, filesize, current_offset, crc>>

MapFails == pc = "loop" /\ current_offset < filesize /\ Fail

\* A byte past the end of the file reads as 0 in its last page, and kills the
\* process in the pages behind it.
Backed(at) == at < ((Len(file) + PageSize - 1) \div PageSize) * PageSize
Read ==
    /\ pc = "read" /\ i < data.length
    /\ LET at == data.at + i IN
       IF Backed(at)
       THEN /\ crc' = Crc32Bitwise(crc, IF at < Len(file) THEN file[at + 1] ELSE 0)
            /\ i' = i + 1 /\ UNCHANGED pc
       ELSE pc' = "killed" /\ UNCHANGED <<crc, i>>
    /\ UNCHANGED <<file, was, filesize, current_offset, data>>

\* Mutant: the next chunk starts a page further on.
NextPage == data.at + PageSize
NextOffset == current_offset + ChunkSize
\* munmap; its failure is only reported.
Unmap ==
    /\ pc = "read" /\ i = data.length
    /\ pc' = "loop" /\ current_offset' = NextOffset
    /\ UNCHANGED <<file, was, filesize, data, i, crc>>

Report ==
    /\ pc = "loop" /\ current_offset >= filesize
    /\ pc' = "reported" /\ crc' = Ones - crc
    /\ UNCHANGED <<file, was, filesize, current_offset, data, i>>

\* Another process cuts the file (external).
Truncate ==
    /\ pc \in {"loop", "read"} /\ file = was
    /\ \E n \in 0..Len(file) - 1 : file' = SubSeq(file, 1, n)
    /\ UNCHANGED <<was, filesize, pc, current_offset, data, i, crc>>

Next == Open \/ OpenFails \/ Map \/ MapFails \/ Read \/ Unmap \/ Report \/ Truncate
Spec == Init /\ [][Next]_vars

-----------------------------------------------------------------------------
\* The types; a mapping starts on a page, as mmap requires, and ends within
\* the size taken.
TypeOK ==
    /\ pc \in {"open", "loop", "read", "failed", "killed", "reported"}
    /\ crc \in 0..Ones /\ i \in 0..data.length
    /\ data.at % PageSize = 0 /\ data.at + data.length <= filesize

\* The checksum by its definition: the remainder of the message, its first
\* Width bits inverted and Width zeros appended, by the polynomial.  The
\* highest coefficient comes first, the lowest bit of a number being it.
Message(s) ==
    [k \in 1..(Len(s) * CharBits + Width) |->
        IF k <= Len(s) * CharBits THEN BitOf(s[(k - 1) \div CharBits + 1], (k - 1) % CharBits) ELSE 0]
Generator == [k \in 1..(Width + 1) |-> IF k = 1 THEN 1 ELSE BitOf(Poly, k - 2)]
Divide(a, k) ==
    [j \in DOMAIN a |-> IF a[k] = 1 /\ j \in k..(k + Width) THEN (a[j] + Generator[j - k + 1]) % 2 ELSE a[j]]
Remainder(s) ==
    LET n == Len(s) * CharBits
        m == Message(s)
        divided[k \in 0..n] ==
            IF k = 0 THEN [j \in DOMAIN m |-> IF j <= Width THEN 1 - m[j] ELSE m[j]]
            ELSE Divide(divided[k - 1], k)
        sum[k \in 0..Width] == IF k = 0 THEN 0 ELSE sum[k - 1] + divided[n][n + k] * 2^(k - 1)
    IN sum[Width]

\* The file left alone, the report is the checksum of its bytes, whatever the
\* chunks they were read in (lines 63-88).
ReportsChecksum == pc = "reported" /\ file = was => crc = Ones - Remainder(was)

\* Only a file cut behind the program's back kills it (lines 67-69).
KilledOnlyIfCut == pc = "killed" => Len(file) < filesize
=============================================================================
