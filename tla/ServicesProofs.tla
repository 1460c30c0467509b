---------------------------- MODULE ServicesProofs ----------------------------
(***************************************************************************)
(* Proofs about the programs of Services: the logger, the size daemon, the *)
(* telnet client and the authentication hook, each a section here; the     *)
(* file server has a module of its own, whose theorems Services takes with *)
(* the instances.  At the end, what the runs check of the composition.     *)
(***************************************************************************)
EXTENDS Services, Sequences, SequencesExt, SequenceTheorems, FiniteSetTheorems,
        WellFoundedInduction, TLAPS

\* A set of numbers that is not empty has a least one.
LEMMA Least ==
  ASSUME NEW S \in SUBSET Nat, S # {}
  PROVE  \E x \in S : \A y \in S : x <= y
<1> DEFINE R == { p \in Nat \X Nat : p[1] < p[2] }
<1>1. R = OpToRel(<, Nat)
  BY DEF OpToRel
<1>2. IsWellFoundedOn(R, Nat)
  BY <1>1, NatLessThanWellFounded
<1> HIDE DEF R
<1>3. PICK x \in S : \A y \in S : ~(<<y, x>> \in R)
  BY <1>2, WFMin
<1>4. \A y \in S : ~(y < x)
  BY <1>3 DEF R
<1> QED BY <1>4

-----------------------------------------------------------------------------
(* Logger: any threads, files, records and frames, any misuse.             *)

(* The inductive invariant *)

\* What the current FILE has printed and what its file will hold once it is flushed.
Stream == text[target[file]] \o unflushed[file]

\* An open FILE has a file, a closed one no text, and the logger's is open.
FilesInv ==
  /\ file # Log!NoFile => target[file] \in Paths
  /\ \A h \in Log!Handles : target[h] = Log!NoPath => unflushed[h] = <<>>

\* What the callers' order gives: a logger is created while nobody uses it, so whoever
\* is in a call has a file and a mutex, and the mutex excludes.
OrderInv ==
  ~misused =>
    /\ file # Log!NoFile => ready
    /\ exiting => \A t \in Threads : pc[t] = "idle"
    /\ \A t \in Threads :
         /\ pc[t] = "open" => ready /\ Log!Quiet(t)
         /\ pc[t] \in Log!Inside \cup {"lock"} => file # Log!NoFile
         /\ pc[t] \in Log!Inside <=> holder = t

\* Frames are counted from the heading to the end of the call.
FrameInv == \A t \in Threads : pc[t] \notin {"frames", "unlock"} => printed[t] = 0

\* The last piece printed is the n-th of the record a thread is writing.
LastPiece(t, n) ==
  /\ Len(Stream) > 0
  /\ Stream[Len(Stream)].record = record[t] /\ Stream[Len(Stream)].piece = n

\* Between two prints of a record its last piece is the last printed.
TailInv ==
  ~misused => \A t \in Threads :
    /\ pc[t] = "heading" => LastPiece(t, 1)
    /\ pc[t] = "frames" => LastPiece(t, 3 + 2 * printed[t])

\* What is printed was printed before now, and before the time that the thread under
\* the mutex has read.
Before(s, c) == \A i \in 1..Len(s) : s[i].time <= c
ClockInv ==
  /\ \A t \in Threads : stamp[t] <= clock
  /\ ~misused /\ ~exiting =>
       /\ \A p \in Paths : Before(text[p], clock)
       /\ file # Log!NoFile => Before(Stream, clock)
StampInv ==
  ~misused => \A t \in Threads : pc[t] \in {"record", "heading", "frames"} => Before(Stream, stamp[t])

\* Whole and in order is not only what is in a file, but what the current FILE will add.
Good(s) == Log!Whole(s) /\ Log!Ordered(s)
TextInv ==
  /\ \A p \in Paths : Log!Settled(p) => Good(text[p])
  /\ file # Log!NoFile => (Log!Settled(target[file]) => Good(Stream))

LogInv ==
  /\ Log!TypeOK /\ FilesInv /\ OrderInv /\ FrameInv /\ TailInv /\ ClockInv /\ StampInv /\ TextInv

-----------------------------------------------------------------------------
(* Sequences of pieces *)

PrefixOf(u, s) == Len(u) <= Len(s) /\ \A i \in 1..Len(u) : u[i] = s[i]

\* A flush of k of the pieces b moves them behind s.
Join(u, v, w) == u \o v = w
LEMMA FlushIs ==
  ASSUME NEW S, NEW s \in Seq(S), NEW b \in Seq(S), NEW k \in 0..Len(b)
  PROVE  /\ s \o SubSeq(b, 1, k) \in Seq(S) /\ SubSeq(b, k + 1, Len(b)) \in Seq(S)
         /\ s \o b \in Seq(S)
         /\ PrefixOf(s \o SubSeq(b, 1, k), s \o b)
         /\ Join(s \o SubSeq(b, 1, k), SubSeq(b, k + 1, Len(b)), s \o b)
<1> DEFINE u == SubSeq(b, 1, k)
           v == SubSeq(b, k + 1, Len(b))
<1>1. Len(b) \in Nat /\ k \in Nat /\ k <= Len(b) /\ Len(s) \in Nat
  OBVIOUS
<1>2. u \in Seq(S) /\ Len(u) = k /\ \A i \in 1..k : u[i] = b[i]
  <2>1. \A i \in 1..k : b[i] \in S
    BY <1>1
  <2> HIDE DEF u, v
  <2>2. 1 \in Int /\ k \in Int
    BY <1>1
  <2>3. /\ SubSeq(b, 1, k) \in Seq(S) /\ Len(SubSeq(b, 1, k)) = IF 1 <= k THEN k - 1 + 1 ELSE 0
        /\ \A i \in 1..(k - 1 + 1) : SubSeq(b, 1, k)[i] = b[1 + i - 1]
    BY <2>1, <2>2, SubSeqProperties
  <2>4. /\ u \in Seq(S) /\ Len(u) = IF 1 <= k THEN k - 1 + 1 ELSE 0
        /\ \A i \in 1..(k - 1 + 1) : u[i] = b[1 + i - 1]
    BY <2>3 DEF u
  <2> QED BY <1>1, <2>4
<1>3. v \in Seq(S) /\ Len(v) = Len(b) - k /\ \A i \in 1..(Len(b) - k) : v[i] = b[k + i]
  <2>1. \A i \in (k + 1)..Len(b) : b[i] \in S
    BY <1>1
  <2>2. /\ SubSeq(b, k + 1, Len(b)) \in Seq(S)
        /\ Len(SubSeq(b, k + 1, Len(b))) = IF k + 1 <= Len(b) THEN Len(b) - (k + 1) + 1 ELSE 0
        /\ \A i \in 1..(Len(b) - (k + 1) + 1) : SubSeq(b, k + 1, Len(b))[i] = b[k + 1 + i - 1]
    <3> HIDE DEF v
    <3>1. k + 1 \in Int /\ Len(b) \in Int
      BY <1>1
    <3> QED BY <3>1, <2>1, SubSeqProperties
  <2> HIDE DEF v
  <2>3. /\ v \in Seq(S) /\ Len(v) = IF k + 1 <= Len(b) THEN Len(b) - (k + 1) + 1 ELSE 0
        /\ \A i \in 1..(Len(b) - (k + 1) + 1) : v[i] = b[k + 1 + i - 1]
    BY <2>2 DEF v
  <2> QED BY <1>1, <2>3
<1> HIDE DEF u, v
<1>4. /\ s \o u \in Seq(S) /\ Len(s \o u) = Len(s) + k
      /\ \A i \in 1..(Len(s) + k) : (s \o u)[i] = IF i <= Len(s) THEN s[i] ELSE u[i - Len(s)]
  BY <1>2, ConcatProperties
<1>5. /\ s \o b \in Seq(S) /\ Len(s \o b) = Len(s) + Len(b)
      /\ \A i \in 1..(Len(s) + Len(b)) : (s \o b)[i] = IF i <= Len(s) THEN s[i] ELSE b[i - Len(s)]
  BY ConcatProperties
<1>6. /\ (s \o u) \o v \in Seq(S) /\ Len((s \o u) \o v) = Len(s) + Len(b)
      /\ \A i \in 1..(Len(s) + Len(b)) : ((s \o u) \o v)[i] =
           IF i <= Len(s) + k THEN (s \o u)[i] ELSE v[i - (Len(s) + k)]
  <2>1. /\ (s \o u) \o v \in Seq(S) /\ Len((s \o u) \o v) = Len(s \o u) + Len(v)
        /\ \A i \in 1..(Len(s \o u) + Len(v)) : ((s \o u) \o v)[i] =
             IF i <= Len(s \o u) THEN (s \o u)[i] ELSE v[i - Len(s \o u)]
    BY <1>3, <1>4, ConcatProperties
  <2>2. Len(s \o u) = Len(s) + k /\ Len(s \o u) + Len(v) = Len(s) + Len(b)
    BY <1>1, <1>3, <1>4
  <2> QED BY <2>1, <2>2
<1>7. PrefixOf(s \o u, s \o b)
  BY <1>1, <1>2, <1>4, <1>5 DEF PrefixOf
<1>8. (s \o u) \o v = s \o b
  <2>1. Len((s \o u) \o v) = Len(s \o b)
    BY <1>1, <1>5, <1>6
  <2>2. ASSUME NEW i \in 1..Len(s \o b) PROVE ((s \o u) \o v)[i] = (s \o b)[i]
    <3>1. i \in 1..(Len(s) + Len(b)) /\ i \in Nat
      BY <1>5
    <3>2. CASE i <= Len(s)
      BY <1>1, <1>4, <1>5, <1>6, <3>1, <3>2
    <3>3. CASE i > Len(s) /\ i <= Len(s) + k
      <4>1. i - Len(s) \in 1..k
        BY <1>1, <3>1, <3>3
      <4> QED BY <1>1, <1>2, <1>4, <1>5, <1>6, <3>1, <3>3, <4>1
    <3>4. CASE i > Len(s) + k
      <4>1. i - (Len(s) + k) \in 1..(Len(b) - k) /\ k + (i - (Len(s) + k)) = i - Len(s)
        BY <1>1, <3>1, <3>4
      <4>2. v[i - (Len(s) + k)] = b[i - Len(s)]
        BY <1>3, <4>1
      <4>3. ~(i <= Len(s) + k) /\ ~(i <= Len(s))
        BY <1>1, <3>1, <3>4
      <4> QED BY <1>5, <1>6, <3>1, <4>2, <4>3
    <3>5. i <= Len(s) \/ (i > Len(s) /\ i <= Len(s) + k) \/ i > Len(s) + k
      BY <1>1, <3>1
    <3> QED BY <3>2, <3>3, <3>4, <3>5
  <2> QED BY <1>5, <1>6, <2>1, <2>2, SeqEqual
<1>9. Join(s \o u, v, s \o b)
  BY <1>8 DEF Join
<1> QED BY <1>3, <1>4, <1>5, <1>7, <1>9 DEF u, v

\* What holds of a text holds of its beginning.
LEMMA PrefixKeeps ==
  ASSUME NEW s \in Seq(Log!Piece), NEW u \in Seq(Log!Piece), PrefixOf(u, s), NEW c
  PROVE  /\ Good(s) => Good(u)
         /\ Before(s, c) => Before(u, c)
<1>1. Len(u) \in Nat /\ Len(s) \in Nat /\ Len(u) <= Len(s) /\ \A i \in 1..Len(u) : u[i] = s[i]
  BY DEF PrefixOf
<1>2. Before(s, c) => Before(u, c)
  BY <1>1 DEF Before
<1>3. Log!Ordered(s) => Log!Ordered(u)
  BY <1>1 DEF Log!Ordered
<1>4. Log!Whole(s) => Log!Whole(u)
  <2> SUFFICES ASSUME Log!Whole(s), NEW i \in 1..Len(u), u[i].piece # 0
               PROVE  i > 1 /\ u[i - 1].record = u[i].record /\ u[i - 1].piece + 1 = u[i].piece
    BY DEF Log!Whole
  <2>1. i \in 1..Len(s) /\ u[i] = s[i]
    BY <1>1
  <2>2. i > 1 /\ s[i - 1].record = s[i].record /\ s[i - 1].piece + 1 = s[i].piece
    BY <2>1 DEF Log!Whole
  <2>3. i - 1 \in 1..Len(u)
    BY <2>2
  <2> QED BY <1>1, <2>1, <2>2, <2>3
<1> QED BY <1>2, <1>3, <1>4 DEF Good

\* What one print adds to a text: the two pieces of the n-th print of a record.
Adds(t, n, s, u) ==
  /\ Len(u) = Len(s) + 2 /\ \A i \in 1..Len(s) : u[i] = s[i]
  /\ u[Len(s) + 1] = [record |-> record[t], piece |-> 2 * n, time |-> stamp[t]]
  /\ u[Len(s) + 2] = [record |-> record[t], piece |-> 2 * n + 1, time |-> stamp[t]]

LEMMA PrintAdds ==
  ASSUME Log!LoggerAssumption, Log!TypeOK, NEW t \in Threads, NEW n \in 0..(1 + Frames), NEW s \in Seq(Log!Piece)
  PROVE  /\ Log!PrintOf(t, n) \in Seq(Log!Piece)
         /\ s \o Log!PrintOf(t, n) \in Seq(Log!Piece) /\ Adds(t, n, s, s \o Log!PrintOf(t, n))
<1> DEFINE z == Log!PrintOf(t, n)
<1>1. Frames \in Nat /\ n \in Nat /\ 2 * n \in 0..(3 + 2 * Frames) /\ 2 * n + 1 \in 0..(3 + 2 * Frames)
  BY DEF Log!LoggerAssumption
<1>2. record[t] \in 0..MaxRecords /\ stamp[t] \in 0..MaxClock
  BY DEF Log!TypeOK
<1>3. \A j \in 1..2 : [record |-> record[t], piece |-> 2 * n + j - 1, time |-> stamp[t]] \in Log!Piece
  <2> SUFFICES ASSUME NEW j \in 1..2 PROVE 2 * n + j - 1 \in 0..(3 + 2 * Frames)
    BY <1>2 DEF Log!Piece
  <2>1. j = 1 \/ j = 2
    OBVIOUS
  <2> QED BY <1>1, <2>1
<1>4. z \in Seq(Log!Piece) /\ Len(z) = 2
  BY <1>3 DEF Log!PrintOf
<1>5. /\ z[1] = [record |-> record[t], piece |-> 2 * n, time |-> stamp[t]]
      /\ z[2] = [record |-> record[t], piece |-> 2 * n + 1, time |-> stamp[t]]
  BY <1>1 DEF Log!PrintOf
<1> HIDE DEF z
<1>6. /\ s \o z \in Seq(Log!Piece) /\ Len(s \o z) = Len(s) + 2 /\ Len(s) \in Nat
      /\ \A i \in 1..(Len(s) + 2) : (s \o z)[i] = IF i <= Len(s) THEN s[i] ELSE z[i - Len(s)]
  <2>1. /\ s \o z \in Seq(Log!Piece) /\ Len(s \o z) = Len(s) + Len(z)
        /\ \A i \in 1..(Len(s) + Len(z)) : (s \o z)[i] = IF i <= Len(s) THEN s[i] ELSE z[i - Len(s)]
    BY <1>4, ConcatProperties
  <2> QED BY <1>4, <2>1
<1>7. (s \o z)[Len(s) + 1] = z[1] /\ (s \o z)[Len(s) + 2] = z[2] /\ \A i \in 1..Len(s) : (s \o z)[i] = s[i]
  BY <1>6
<1> QED BY <1>4, <1>5, <1>6, <1>7 DEF Adds, z

\* The first print of a record, or the next one behind the one before, keeps a text good.
LEMMA PrintKeeps ==
  ASSUME Log!LoggerAssumption, Log!TypeOK, NEW t \in Threads, NEW n \in Nat,
         NEW s \in Seq(Log!Piece), NEW u \in Seq(Log!Piece), Adds(t, n, s, u),
         Before(s, stamp[t]), Good(s),
         \/ n = 0
         \/ Len(s) > 0 /\ s[Len(s)].record = record[t] /\ s[Len(s)].piece + 1 = 2 * n
  PROVE  Good(u)
<1> DEFINE m == Len(s)
<1>1. /\ m \in Nat /\ Len(u) = m + 2 /\ \A i \in 1..m : u[i] = s[i]
      /\ u[m + 1].record = record[t] /\ u[m + 1].piece = 2 * n /\ u[m + 1].time = stamp[t]
      /\ u[m + 2].record = record[t] /\ u[m + 2].piece = 2 * n + 1 /\ u[m + 2].time = stamp[t]
  BY DEF Adds
<1>2. \A i \in 1..m : s[i].time <= stamp[t]
  BY DEF Before
<1>3. n = 0 \/ (m > 0 /\ s[m].record = record[t] /\ s[m].piece + 1 = 2 * n)
  OBVIOUS
<1>4. stamp[t] \in Nat
  BY DEF Log!TypeOK
<1> HIDE DEF m
<1>5. ASSUME NEW i \in 1..(m + 2), u[i].piece # 0
      PROVE  i > 1 /\ u[i - 1].record = u[i].record /\ u[i - 1].piece + 1 = u[i].piece
  <2>1. CASE i \in 1..m
    <3>1. u[i] = s[i] /\ s[i].piece # 0
      BY <1>1, <1>5, <2>1
    <3>2. i > 1 /\ s[i - 1].record = s[i].record /\ s[i - 1].piece + 1 = s[i].piece
      BY <2>1, <3>1 DEF Good, Log!Whole, m
    <3>3. i - 1 \in 1..m
      BY <1>1, <2>1, <3>2
    <3> QED BY <1>1, <3>1, <3>2, <3>3
  <2>2. CASE i = m + 1
    <3>1. n # 0
      BY <1>1, <1>5, <2>2
    <3>2. m > 0 /\ s[m].record = record[t] /\ s[m].piece + 1 = 2 * n /\ u[m] = s[m]
      BY <1>1, <1>3, <3>1
    <3>3. i > 1 /\ i - 1 = m
      BY <1>1, <2>2, <3>2
    <3> QED BY <1>1, <2>2, <3>2, <3>3
  <2>3. CASE i = m + 2
    <3>1. i > 1 /\ i - 1 = m + 1
      BY <1>1, <2>3
    <3> QED BY <1>1, <2>3, <3>1
  <2> QED BY <1>1, <2>1, <2>2, <2>3
<1>6. ASSUME NEW i \in 2..(m + 2) PROVE u[i - 1].time <= u[i].time
  <2>1. CASE i \in 2..m
    <3>1. s[i - 1].time <= s[i].time
      BY <2>1 DEF Good, Log!Ordered, m
    <3>2. u[i] = s[i] /\ u[i - 1] = s[i - 1]
      BY <1>1, <2>1
    <3> QED BY <3>1, <3>2
  <2>2. CASE i = m + 1
    <3>1. i - 1 = m /\ m \in 1..m
      BY <1>1, <2>2
    <3> QED BY <1>1, <1>2, <2>2, <3>1
  <2>3. CASE i = m + 2
    <3>1. i - 1 = m + 1
      BY <1>1, <2>3
    <3> QED BY <1>1, <1>4, <2>3, <3>1
  <2> QED BY <1>1, <2>1, <2>2, <2>3
<1> QED BY <1>1, <1>5, <1>6 DEF Good, Log!Whole, Log!Ordered

LEMMA PrintBefore ==
  ASSUME NEW t \in Threads, NEW n \in Nat, NEW c, stamp[t] <= c,
         NEW s \in Seq(Log!Piece), NEW u \in Seq(Log!Piece), Adds(t, n, s, u), Before(s, c)
  PROVE  Before(u, c)
<1>1. /\ Len(s) \in Nat /\ Len(u) = Len(s) + 2 /\ \A i \in 1..Len(s) : u[i] = s[i] /\ s[i].time <= c
      /\ u[Len(s) + 1].time = stamp[t] /\ u[Len(s) + 2].time = stamp[t]
  BY DEF Adds, Before
<1> SUFFICES ASSUME NEW i \in 1..(Len(s) + 2) PROVE u[i].time <= c
  BY <1>1 DEF Before
<1>2. i \in 1..Len(s) \/ i = Len(s) + 1 \/ i = Len(s) + 2
  BY <1>1
<1> QED BY <1>1, <1>2

-----------------------------------------------------------------------------
(* What the steps do to the texts *)

\* What an fprintf does that goes through, and one that the file takes only in part.
Wrote(t, n) ==
  LET pieces == unflushed[file] \o Log!PrintOf(t, n) IN
  \E k \in 0..Len(pieces) : Log!Flush(file, pieces, k, SubSeq(pieces, k + 1, Len(pieces)))
Cut(t, n) ==
  LET pieces == unflushed[file] \o Log!PrintOf(t, n) IN
  \E k \in 0..Len(pieces) : Log!Flush(file, pieces, k, <<>>)

\* Only the current FILE and its file are concerned.
Others ==
  /\ UNCHANGED <<file, target>>
  /\ text' \in [Paths -> Seq(Log!Piece)] /\ unflushed' \in [Log!Handles -> Seq(Log!Piece)]
  /\ \A p \in Paths \ {target[file]} : text'[p] = text[p]
  /\ \A h \in Log!Handles \ {file} : unflushed'[h] = unflushed[h]

\* The texts of the current FILE.
LEMMA StreamType ==
  ASSUME Log!TypeOK, FilesInv, file # Log!NoFile
  PROVE  /\ file \in Log!Handles /\ target[file] \in Paths
         /\ text[target[file]] \in Seq(Log!Piece) /\ unflushed[file] \in Seq(Log!Piece)
         /\ Stream \in Seq(Log!Piece) /\ PrefixOf(text[target[file]], Stream)
<1>1. /\ file \in Log!Handles /\ target[file] \in Paths
      /\ text[target[file]] \in Seq(Log!Piece) /\ unflushed[file] \in Seq(Log!Piece)
  BY DEF Log!TypeOK, FilesInv
<1> DEFINE s == text[target[file]]
           u == unflushed[file]
<1>2. Stream = s \o u /\ s \in Seq(Log!Piece) /\ u \in Seq(Log!Piece)
  BY <1>1 DEF Stream
<1> HIDE DEF s, u
<1>3. /\ s \o u \in Seq(Log!Piece) /\ Len(s \o u) = Len(s) + Len(u)
      /\ \A i \in 1..(Len(s) + Len(u)) : (s \o u)[i] = IF i <= Len(s) THEN s[i] ELSE u[i - Len(s)]
  BY <1>2, ConcatProperties
<1>4. Stream \in Seq(Log!Piece) /\ PrefixOf(s, Stream)
  BY <1>2, <1>3 DEF PrefixOf
<1> QED BY <1>1, <1>4 DEF s

\* A flush of the current FILE, of some pieces b, after which rest is in the buffer.
LEMMA Flushed ==
  ASSUME Log!TypeOK, FilesInv, file # Log!NoFile, UNCHANGED <<file, target>>,
         NEW b \in Seq(Log!Piece), NEW k \in 0..Len(b), NEW rest \in Seq(Log!Piece),
         Log!Flush(file, b, k, rest)
  PROVE  /\ Others /\ text'[target[file]] = text[target[file]] \o SubSeq(b, 1, k)
         /\ unflushed'[file] = rest
<1> DEFINE q == target[file]
<1>1. /\ file \in Log!Handles /\ q \in Paths /\ text[q] \in Seq(Log!Piece)
  BY StreamType
<1>2. text[q] \o SubSeq(b, 1, k) \in Seq(Log!Piece)
  BY <1>1, FlushIs
<1> HIDE DEF q
<1>3. text' = [text EXCEPT ![q] = text[q] \o SubSeq(b, 1, k)] /\ unflushed' = [unflushed EXCEPT ![file] = rest]
  BY DEF Log!Flush, q
<1>4. text \in [Paths -> Seq(Log!Piece)] /\ unflushed \in [Log!Handles -> Seq(Log!Piece)]
  BY DEF Log!TypeOK
<1>5. /\ text' \in [Paths -> Seq(Log!Piece)] /\ text'[q] = text[q] \o SubSeq(b, 1, k)
      /\ \A p \in Paths \ {q} : text'[p] = text[p]
  BY <1>1, <1>2, <1>3, <1>4
<1>6. /\ unflushed' \in [Log!Handles -> Seq(Log!Piece)] /\ unflushed'[file] = rest
      /\ \A h \in Log!Handles \ {file} : unflushed'[h] = unflushed[h]
  BY <1>1, <1>3, <1>4
<1> QED BY <1>5, <1>6 DEF Others, q

\* A print that goes through is added to what the FILE has printed.
LEMMA WroteIs ==
  ASSUME Log!LoggerAssumption, Log!TypeOK, FilesInv, file # Log!NoFile, UNCHANGED <<file, target>>,
         NEW t \in Threads, NEW n \in 0..(1 + Frames), Wrote(t, n)
  PROVE  /\ Others /\ Stream' \in Seq(Log!Piece) /\ Adds(t, n, Stream, Stream')
         /\ PrefixOf(text'[target[file]], Stream')
<1> DEFINE q == target[file]
           s == text[q]
           u == unflushed[file]
           z == Log!PrintOf(t, n)
           b == u \o z
<1>1. s \in Seq(Log!Piece) /\ u \in Seq(Log!Piece) /\ Stream = s \o u /\ Stream \in Seq(Log!Piece)
  BY StreamType DEF Stream
<1>2. z \in Seq(Log!Piece) /\ b \in Seq(Log!Piece) /\ Adds(t, n, Stream, Stream \o z)
  BY <1>1, PrintAdds
<1>3. PICK k \in 0..Len(b) : Log!Flush(file, b, k, SubSeq(b, k + 1, Len(b)))
  BY DEF Wrote
<1> HIDE DEF b, s, u, z
<1>4. /\ s \o SubSeq(b, 1, k) \in Seq(Log!Piece) /\ SubSeq(b, k + 1, Len(b)) \in Seq(Log!Piece)
      /\ s \o b \in Seq(Log!Piece)
      /\ PrefixOf(s \o SubSeq(b, 1, k), s \o b)
      /\ Join(s \o SubSeq(b, 1, k), SubSeq(b, k + 1, Len(b)), s \o b)
  <2>1. s \in Seq(Log!Piece) /\ b \in Seq(Log!Piece) /\ k \in 0..Len(b)
    BY <1>1, <1>2, <1>3
  <2> QED BY <2>1, FlushIs
<1>5. Others /\ text'[q] = s \o SubSeq(b, 1, k) /\ unflushed'[file] = SubSeq(b, k + 1, Len(b))
  BY <1>2, <1>3, <1>4, Flushed DEF s
<1>6. Stream' = s \o b
  <2>1. Stream' = text'[q] \o unflushed'[file]
    BY DEF Stream
  <2>2. Join(text'[q], unflushed'[file], s \o b)
    BY <1>4, <1>5
  <2> QED BY <2>1, <2>2 DEF Join
<1>7. s \o b = Stream \o z
  BY <1>1, <1>2, ConcatAssociative DEF b
<1> QED BY <1>2, <1>4, <1>5, <1>6, <1>7

\* A write that fails leaves the beginning of what was printed.
LEMMA CutIs ==
  ASSUME Log!LoggerAssumption, Log!TypeOK, FilesInv, file # Log!NoFile, UNCHANGED <<file, target>>,
         NEW t \in Threads, NEW n \in 0..(1 + Frames), Cut(t, n)
  PROVE  /\ Others /\ Stream' \in Seq(Log!Piece) /\ text'[target[file]] = Stream'
         /\ \E v \in Seq(Log!Piece) : Adds(t, n, Stream, v) /\ PrefixOf(Stream', v)
<1> DEFINE q == target[file]
           s == text[q]
           u == unflushed[file]
           z == Log!PrintOf(t, n)
           b == u \o z
<1>1. s \in Seq(Log!Piece) /\ u \in Seq(Log!Piece) /\ Stream = s \o u /\ Stream \in Seq(Log!Piece)
  BY StreamType DEF Stream
<1>2. /\ z \in Seq(Log!Piece) /\ b \in Seq(Log!Piece) /\ Adds(t, n, Stream, Stream \o z)
      /\ Stream \o z \in Seq(Log!Piece)
  BY <1>1, PrintAdds
<1>3. PICK k \in 0..Len(b) : Log!Flush(file, b, k, <<>>)
  BY DEF Cut
<1> HIDE DEF b, s, u, z
<1>4. /\ s \o SubSeq(b, 1, k) \in Seq(Log!Piece) /\ PrefixOf(s \o SubSeq(b, 1, k), s \o b)
  BY <1>1, <1>2, <1>3, FlushIs
<1>5. Others /\ text'[q] = s \o SubSeq(b, 1, k) /\ unflushed'[file] = <<>>
  <2>1. <<>> \in Seq(Log!Piece)
    OBVIOUS
  <2> QED BY <1>2, <1>3, <2>1, Flushed DEF s
<1>6. Stream' = text'[q]
  <2>1. Stream' = text'[q] \o unflushed'[file]
    BY DEF Stream
  <2>2. text'[q] \in Seq(Log!Piece)
    BY <1>4, <1>5
  <2> QED BY <1>5, <2>1, <2>2, ConcatEmptySeq
<1>7. s \o b = Stream \o z
  BY <1>1, <1>2, ConcatAssociative DEF b
<1> QED BY <1>2, <1>4, <1>5, <1>6, <1>7

\* A FILE that is flushed for the last time leaves the beginning of what it has printed.
LEMMA LastFlush ==
  ASSUME Log!TypeOK, NEW h \in Log!Handles, target[h] \in Paths, NEW k \in 0..Len(unflushed[h]),
         Log!Flush(h, unflushed[h], k, <<>>)
  PROVE  /\ text' \in [Paths -> Seq(Log!Piece)] /\ unflushed' \in [Log!Handles -> Seq(Log!Piece)]
         /\ \A p \in Paths \ {target[h]} : text'[p] = text[p]
         /\ \A g \in Log!Handles \ {h} : unflushed'[g] = unflushed[g]
         /\ unflushed'[h] = <<>> /\ PrefixOf(text'[target[h]], text[target[h]] \o unflushed[h])
<1> DEFINE q == target[h]
           b == unflushed[h]
<1>1. q \in Paths /\ text[q] \in Seq(Log!Piece) /\ b \in Seq(Log!Piece) /\ k \in 0..Len(b)
  BY DEF Log!TypeOK
<1> HIDE DEF q, b
<1>2. text[q] \o SubSeq(b, 1, k) \in Seq(Log!Piece) /\ PrefixOf(text[q] \o SubSeq(b, 1, k), text[q] \o b)
  BY <1>1, FlushIs
<1>3. <<>> \in Seq(Log!Piece)
  OBVIOUS
<1>4. text' = [text EXCEPT ![q] = text[q] \o SubSeq(b, 1, k)] /\ unflushed' = [unflushed EXCEPT ![h] = <<>>]
  BY DEF Log!Flush, q, b
<1>5. text \in [Paths -> Seq(Log!Piece)] /\ unflushed \in [Log!Handles -> Seq(Log!Piece)]
  BY DEF Log!TypeOK
<1>6. /\ text' \in [Paths -> Seq(Log!Piece)] /\ PrefixOf(text'[q], text[q] \o b)
      /\ \A p \in Paths \ {q} : text'[p] = text[p]
  BY <1>1, <1>2, <1>4, <1>5
<1>7. /\ unflushed' \in [Log!Handles -> Seq(Log!Piece)] /\ unflushed'[h] = <<>>
      /\ \A g \in Log!Handles \ {h} : unflushed'[g] = unflushed[g]
  BY <1>1, <1>3, <1>4, <1>5
<1> QED BY <1>6, <1>7 DEF q, b

\* Which print a thread makes where.
PartAt(t, n) ==
  \/ pc[t] = "record" /\ n = 0
  \/ pc[t] = "heading" /\ n = 1
  \/ pc[t] = "frames" /\ n = 2 + printed[t]

\* The three steps that print: a print is added, or the call ends, with the texts as
\* they are or cut.
Printing(t) == Log!Record(t) \/ Log!Heading(t) \/ Log!Frame(t)
Prints(t, n) ==
  /\ PartAt(t, n) /\ file # Log!NoFile
  /\ UNCHANGED <<ready, file, target, level, record, stamp, records, creates, clock, exiting, misused, crashed>>
  /\ holder' = holder
  /\ printed' = [printed EXCEPT ![t] = IF pc[t] = "frames" THEN printed[t] + 1 ELSE printed[t]]
  /\ pc[t] = "frames" => printed[t] < Frames
  /\ \/ UNCHANGED <<text, unflushed>> /\ pc' = [pc EXCEPT ![t] = "unlock"]
     \/ Cut(t, n) /\ pc' = [pc EXCEPT ![t] = "unlock"]
     \/ /\ Wrote(t, n)
        /\ pc' = [pc EXCEPT ![t] = CASE pc[t] = "record" /\ level[t] = "error" -> "heading"
                                     [] pc[t] = "record" /\ level[t] # "error" -> "unlock"
                                     [] pc[t] \in {"heading", "frames"} -> "frames"]

LEMMA FprintfIs ==
  ASSUME Log!LoggerAssumption, Log!TypeOK, FilesInv, NEW t \in Threads, NEW n \in 0..(1 + Frames),
         NEW next, Log!Fprintf(t, n, next, "unlock")
  PROVE  /\ file # Log!NoFile
         /\ UNCHANGED <<ready, file, target, level, record, stamp, records, creates, clock, exiting, misused,
                        crashed>>
         /\ holder' = holder
         /\ \/ UNCHANGED <<text, unflushed>> /\ Log!Goto(t, "unlock")
            \/ Cut(t, n) /\ Log!Goto(t, "unlock")
            \/ Wrote(t, n) /\ Log!Goto(t, next)
<1> DEFINE b == unflushed[file] \o Log!PrintOf(t, n)
           older == Len(unflushed[file])
<1>1. file # Log!NoFile
  BY DEF Log!Fprintf
<1>2. b \in Seq(Log!Piece) /\ unflushed[file] \in Seq(Log!Piece)
  BY <1>1, StreamType, PrintAdds
<1>3. Len(b) \in Nat /\ older \in Nat
  BY <1>2
<1>4. {0} \cup older..Len(b) \subseteq 0..Len(b) /\ 0..(Len(b) - 1) \subseteq 0..Len(b)
  <2> HIDE DEF b, older
  <2> QED BY <1>3
<1>5. \/ /\ \E k \in {0} \cup older..Len(b) : Log!Flush(file, b, k, SubSeq(b, k + 1, Len(b)))
         /\ Log!Goto(t, next)
      \/ /\ \E k \in 0..(Len(b) - 1) : Log!Flush(file, b, k, <<>>)
         /\ Log!Goto(t, "unlock")
      \/ UNCHANGED <<text, unflushed>> /\ Log!Goto(t, "unlock")
  BY DEF Log!Fprintf
<1>6. \/ /\ \E k \in 0..Len(b) : Log!Flush(file, b, k, SubSeq(b, k + 1, Len(b)))
         /\ Log!Goto(t, next)
      \/ /\ \E k \in 0..Len(b) : Log!Flush(file, b, k, <<>>)
         /\ Log!Goto(t, "unlock")
      \/ UNCHANGED <<text, unflushed>> /\ Log!Goto(t, "unlock")
  <2> HIDE DEF b, older
  <2> QED BY <1>4, <1>5
<1> QED BY <1>1, <1>6 DEF Log!Fprintf, Log!HolderAfterLine, Log!bounds, Wrote, Cut

LEMMA PrintIs ==
  ASSUME Log!LoggerAssumption, Log!TypeOK, FilesInv, NEW t \in Threads, Printing(t)
  PROVE  \E n \in 0..(1 + Frames) : Prints(t, n)
<1> USE DEF Log!At, Log!Goto, PartAt
<1>0. printed[t] \in 0..Frames /\ printed \in [Threads -> 0..Frames] /\ Frames \in Nat
  BY DEF Log!TypeOK, Log!LoggerAssumption
<1>1. CASE Log!Record(t)
  <2>1. 0 \in 0..(1 + Frames)
    BY <1>0
  <2>2. /\ pc[t] = "record" /\ UNCHANGED printed
        /\ Log!Fprintf(t, 0, IF level[t] = "error" THEN "heading" ELSE "unlock", "unlock")
    BY <1>1 DEF Log!Record
  <2>3. /\ file # Log!NoFile
        /\ UNCHANGED <<ready, file, target, level, record, stamp, records, creates, clock, exiting, misused,
                       crashed>>
        /\ holder' = holder
        /\ \/ UNCHANGED <<text, unflushed>> /\ Log!Goto(t, "unlock")
           \/ Cut(t, 0) /\ Log!Goto(t, "unlock")
           \/ Wrote(t, 0) /\ Log!Goto(t, IF level[t] = "error" THEN "heading" ELSE "unlock")
    BY <2>1, <2>2, FprintfIs
  <2>4. Prints(t, 0)
    BY <1>0, <2>2, <2>3 DEF Prints
  <2> QED BY <2>1, <2>4
<1>2. CASE Log!Heading(t)
  <2>1. 1 \in 0..(1 + Frames)
    BY <1>0
  <2>2. /\ pc[t] = "heading" /\ UNCHANGED printed
        /\ Log!Fprintf(t, 1, "frames", "unlock")
    BY <1>2 DEF Log!Heading
  <2>3. /\ file # Log!NoFile
        /\ UNCHANGED <<ready, file, target, level, record, stamp, records, creates, clock, exiting, misused,
                       crashed>>
        /\ holder' = holder
        /\ \/ UNCHANGED <<text, unflushed>> /\ Log!Goto(t, "unlock")
           \/ Cut(t, 1) /\ Log!Goto(t, "unlock")
           \/ Wrote(t, 1) /\ Log!Goto(t, "frames")
    BY <2>1, <2>2, FprintfIs
  <2>4. Prints(t, 1)
    BY <1>0, <2>2, <2>3 DEF Prints
  <2> QED BY <2>1, <2>4
<1>3. CASE Log!Frame(t)
  <2>1. 2 + printed[t] \in 0..(1 + Frames) /\ printed[t] < Frames
    BY <1>0, <1>3 DEF Log!Frame, Log!MoreFrames
  <2>2. /\ pc[t] = "frames" /\ printed' = [printed EXCEPT ![t] = printed[t] + 1]
        /\ Log!Fprintf(t, 2 + printed[t], "frames", "unlock")
    BY <1>3 DEF Log!Frame
  <2>3. /\ file # Log!NoFile
        /\ UNCHANGED <<ready, file, target, level, record, stamp, records, creates, clock, exiting, misused,
                       crashed>>
        /\ holder' = holder
        /\ \/ UNCHANGED <<text, unflushed>> /\ Log!Goto(t, "unlock")
           \/ Cut(t, 2 + printed[t]) /\ Log!Goto(t, "unlock")
           \/ Wrote(t, 2 + printed[t]) /\ Log!Goto(t, "frames")
    BY <2>1, <2>2, FprintfIs
  <2>4. Prints(t, 2 + printed[t])
    BY <1>0, <2>1, <2>2, <2>3 DEF Prints
  <2> QED BY <2>1, <2>4
<1> QED BY <1>1, <1>2, <1>3 DEF Printing

-----------------------------------------------------------------------------
(* Types, files and the callers' order *)

\* Every type holds at the start.
LEMMA InitLogType == ASSUME Log!LoggerAssumption, Log!Init PROVE Log!TypeOK
<1>1. /\ text \in [Paths -> Seq(Log!Piece)] /\ unflushed \in [Log!Handles -> Seq(Log!Piece)]
      /\ target \in [Log!Handles -> Paths \cup {Log!NoPath}]
  BY DEF Log!Init
<1>2. 0 \in 0..MaxRecords /\ 0 \in 0..MaxCreates /\ 0 \in 0..MaxClock /\ 0 \in 0..Frames
  BY DEF Log!LoggerAssumption
<1> QED BY <1>1, <1>2 DEF Log!Init, Log!TypeOK, Log!Levels

\* No step that leaves the FILEs alone.
Still == UNCHANGED <<file, target, text, unflushed>>
\* A FILE is opened.
Opened ==
  /\ UNCHANGED <<text, unflushed>>
  /\ \E h \in Log!Handles, p \in Paths :
       target[h] = Log!NoPath /\ file' = h /\ target' = [target EXCEPT ![h] = p]
\* The logger's FILE is closed.
Closed ==
  /\ file # Log!NoFile /\ file' = Log!NoFile /\ target' = [target EXCEPT ![file] = Log!NoPath]
  /\ \E n \in 0..Len(unflushed[file]) : Log!Flush(file, unflushed[file], n, <<>>)

\* The steps, by what they do to the FILEs.
LEMMA Kinds ==
  ASSUME [Log!Next]_Log!vars
  PROVE  \/ Still
         \/ \E t \in Threads : Log!CreateOpen(t) /\ (Opened \/ (UNCHANGED <<target, text, unflushed>> /\ file' = Log!NoFile))
         \/ \E t \in Threads : Log!Terminate(t) /\ Closed
         \/ \E t \in Threads : Printing(t)
         \/ \E h \in Log!Handles : Log!FlushAtExit(h)
<1> USE DEF Log!logger, Log!stdio
<1>1. ASSUME NEW t \in Threads, Log!CreateOpen(t)
      PROVE  Opened \/ (UNCHANGED <<target, text, unflushed>> /\ file' = Log!NoFile)
  BY <1>1 DEF Log!CreateOpen, Opened
<1>2. ASSUME NEW t \in Threads, Log!Terminate(t) PROVE Closed
  BY <1>2 DEF Log!Terminate, Closed
<1>3. ASSUME NEW t \in Threads,
             \/ Log!CreateMutex(t) \/ Log!Exit(t) \/ Log!Call(t) \/ Log!Lock(t) \/ Log!LockUndefined(t) \/ Log!Time(t)
             \/ Log!TimeCrashes(t) \/ Log!NoSymbols(t) \/ Log!FprintfUndefined(t) \/ Log!Unlock(t)
      PROVE  Still
  BY <1>3 DEF Log!CreateMutex, Log!Exit, Log!Call, Log!Lock, Log!LockUndefined, Log!Time, Log!TimeCrashes, Log!NoSymbols,
              Log!FprintfUndefined, Log!Unlock, Log!Abort, Still
<1>4. Log!Tick \/ UNCHANGED Log!vars => Still
  BY DEF Log!Tick, Log!vars, Still
<1> QED BY <1>1, <1>2, <1>3, <1>4 DEF Log!Next, Log!LogStep, Printing

\* What the steps do to the FILEs and their files is typed.
LEMMA NextStdio ==
  ASSUME Log!LoggerAssumption, Log!TypeOK, FilesInv, [Log!Next]_Log!vars
  PROVE  /\ file' \in Log!Handles \cup {Log!NoFile} /\ target' \in [Log!Handles -> Paths \cup {Log!NoPath}]
         /\ text' \in [Paths -> Seq(Log!Piece)] /\ unflushed' \in [Log!Handles -> Seq(Log!Piece)]
         /\ FilesInv'
<1>0. /\ file \in Log!Handles \cup {Log!NoFile} /\ target \in [Log!Handles -> Paths \cup {Log!NoPath}]
      /\ text \in [Paths -> Seq(Log!Piece)] /\ unflushed \in [Log!Handles -> Seq(Log!Piece)]
      /\ Log!NoPath \notin Paths
      /\ file # Log!NoFile => target[file] \in Paths
      /\ \A h \in Log!Handles : target[h] = Log!NoPath => unflushed[h] = <<>>
  BY DEF Log!TypeOK, Log!LoggerAssumption, FilesInv
<1>1. CASE Still
  BY <1>0, <1>1 DEF Still, FilesInv
<1>2. CASE Opened
  BY <1>0, <1>2 DEF Opened, FilesInv
<1>3. CASE UNCHANGED <<target, text, unflushed>> /\ file' = Log!NoFile
  BY <1>0, <1>3 DEF FilesInv
<1>4. CASE Closed
  <2>1. file \in Log!Handles /\ target[file] \in Paths
    BY <1>0, <1>4 DEF Closed
  <2>2. PICK n \in 0..Len(unflushed[file]) : Log!Flush(file, unflushed[file], n, <<>>)
    BY <1>4 DEF Closed
  <2>3. /\ text' \in [Paths -> Seq(Log!Piece)] /\ unflushed' \in [Log!Handles -> Seq(Log!Piece)]
        /\ \A h \in Log!Handles \ {file} : unflushed'[h] = unflushed[h]
        /\ unflushed'[file] = <<>>
    BY <2>1, <2>2, LastFlush
  <2> QED BY <1>0, <1>4, <2>1, <2>3 DEF Closed, FilesInv
<1>5. ASSUME NEW t \in Threads, Printing(t)
      PROVE  /\ file' \in Log!Handles \cup {Log!NoFile} /\ target' \in [Log!Handles -> Paths \cup {Log!NoPath}]
             /\ text' \in [Paths -> Seq(Log!Piece)] /\ unflushed' \in [Log!Handles -> Seq(Log!Piece)]
             /\ FilesInv'
  <2>1. PICK n \in 0..(1 + Frames) : Prints(t, n)
    BY <1>5, PrintIs
  <2>2. file # Log!NoFile /\ UNCHANGED <<file, target>>
    BY <2>1 DEF Prints
  <2>3. UNCHANGED <<text, unflushed>> \/ Others
    BY <2>1, <2>2, WroteIs, CutIs DEF Prints
  <2> QED BY <1>0, <2>2, <2>3 DEF Others, FilesInv
<1>6. ASSUME NEW h \in Log!Handles, Log!FlushAtExit(h)
      PROVE  /\ file' \in Log!Handles \cup {Log!NoFile} /\ target' \in [Log!Handles -> Paths \cup {Log!NoPath}]
             /\ text' \in [Paths -> Seq(Log!Piece)] /\ unflushed' \in [Log!Handles -> Seq(Log!Piece)]
             /\ FilesInv'
  <2>1. target[h] \in Paths /\ UNCHANGED <<file, target>>
    BY <1>0, <1>6 DEF Log!FlushAtExit, Log!logger
  <2>2. PICK n \in 0..Len(unflushed[h]) : Log!Flush(h, unflushed[h], n, <<>>)
    BY <1>6 DEF Log!FlushAtExit
  <2>3. /\ text' \in [Paths -> Seq(Log!Piece)] /\ unflushed' \in [Log!Handles -> Seq(Log!Piece)]
        /\ \A g \in Log!Handles \ {h} : unflushed'[g] = unflushed[g]
        /\ unflushed'[h] = <<>>
    BY <2>1, <2>2, LastFlush
  <2> QED BY <1>0, <2>1, <2>3 DEF FilesInv
<1> QED BY <1>1, <1>2, <1>3, <1>4, <1>5, <1>6, Kinds

\* The types of what the calls keep.
CallType ==
  /\ ready \in BOOLEAN /\ holder \in Threads \cup {Log!Nobody}
  /\ pc \in [Threads -> Log!Inside \cup {"idle", "open", "lock"}]
  /\ level \in [Threads -> Log!Levels] /\ record \in [Threads -> 0..MaxRecords]
  /\ stamp \in [Threads -> 0..MaxClock] /\ printed \in [Threads -> 0..Frames]
  /\ records \in 0..MaxRecords /\ creates \in 0..MaxCreates /\ clock \in 0..MaxClock
  /\ exiting \in BOOLEAN /\ misused \in BOOLEAN /\ crashed \in BOOLEAN

\* Every step keeps the types.
LEMMA NextLogType ==
  ASSUME Log!LoggerAssumption, Log!TypeOK, FilesInv, [Log!Next]_Log!vars
  PROVE  Log!TypeOK' /\ FilesInv'
<1> USE DEF Log!logger, Log!call, Log!bounds, Log!Inside
<1> SUFFICES CallType'
  BY NextStdio DEF Log!TypeOK, CallType
<1>0. CallType
  BY DEF Log!TypeOK, CallType
<1>1. ASSUME NEW t \in Threads, Log!CreateMutex(t) PROVE CallType'
  <2>1. creates + 1 \in 0..MaxCreates
    BY <1>0, <1>1 DEF Log!CreateMutex, CallType, Log!LoggerAssumption
  <2>2. misused' \in BOOLEAN
    BY <1>1 DEF Log!CreateMutex, Log!Callers, Log!Quiet
  <2> QED BY <1>0, <1>1, <2>1, <2>2 DEF Log!CreateMutex, Log!Goto, CallType
<1>2. ASSUME NEW t \in Threads, Log!CreateOpen(t) PROVE CallType'
  BY <1>0, <1>2 DEF Log!CreateOpen, Log!At, Log!Goto, CallType
<1>3. ASSUME NEW t \in Threads, Log!Terminate(t) PROVE CallType'
  <2>1. misused' \in BOOLEAN
    BY <1>3 DEF Log!Terminate, Log!Callers, Log!Quiet
  <2> QED BY <1>0, <1>3, <2>1 DEF Log!Terminate, CallType
<1>4. ASSUME NEW t \in Threads, Log!Call(t) PROVE CallType'
  <2>1. records + 1 \in 0..MaxRecords
    BY <1>0, <1>4 DEF Log!Call, CallType, Log!LoggerAssumption
  <2>2. misused' \in BOOLEAN
    BY <1>4 DEF Log!Call, Log!Callers
  <2>3. level' \in [Threads -> Log!Levels]
    BY <1>0, <1>4 DEF Log!Call, CallType
  <2> QED BY <1>0, <1>4, <2>1, <2>2, <2>3 DEF Log!Call, Log!Goto, CallType
<1>5. ASSUME NEW t \in Threads, Log!Lock(t) PROVE CallType'
  BY <1>0, <1>5 DEF Log!Lock, Log!At, Log!Goto, CallType
<1>6. ASSUME NEW t \in Threads, Log!LockUndefined(t) PROVE CallType'
  BY <1>0, <1>6 DEF Log!LockUndefined, Log!Abort, CallType
<1>7. ASSUME NEW t \in Threads, Log!Time(t) PROVE CallType'
  BY <1>0, <1>7 DEF Log!Time, Log!At, Log!Goto, Log!HolderAfterTime, CallType
<1>8. ASSUME NEW t \in Threads, Log!TimeCrashes(t) PROVE CallType'
  BY <1>0, <1>8 DEF Log!TimeCrashes, Log!Abort, CallType
<1>9. ASSUME NEW t \in Threads, Printing(t) PROVE CallType'
  <2>1. PICK n \in 0..(1 + Frames) : Prints(t, n)
    BY <1>9, PrintIs
  <2>2. /\ UNCHANGED <<ready, level, record, stamp, records, creates, clock, exiting, misused, crashed>>
        /\ holder' = holder
        /\ printed' = [printed EXCEPT ![t] = IF pc[t] = "frames" THEN printed[t] + 1 ELSE printed[t]]
        /\ pc[t] = "frames" => printed[t] < Frames
        /\ \E next \in {"heading", "frames", "unlock"} : pc' = [pc EXCEPT ![t] = next]
    BY <2>1 DEF Prints, PartAt
  <2>3. printed' \in [Threads -> 0..Frames]
    BY <1>0, <2>2 DEF CallType, Log!LoggerAssumption
  <2> QED BY <1>0, <2>2, <2>3 DEF CallType
<1>10. ASSUME NEW t \in Threads, Log!NoSymbols(t) PROVE CallType'
  BY <1>0, <1>10 DEF Log!NoSymbols, Log!At, Log!Goto, Log!CleanUp, CallType
<1>11. ASSUME NEW t \in Threads, Log!FprintfUndefined(t) PROVE CallType'
  BY <1>0, <1>11 DEF Log!FprintfUndefined, Log!Abort, CallType
<1>12. ASSUME NEW t \in Threads, Log!Unlock(t) PROVE CallType'
  BY <1>0, <1>12 DEF Log!Unlock, Log!At, Log!Goto, CallType, Log!LoggerAssumption
<1>13. ASSUME NEW t \in Threads, Log!Exit(t) PROVE CallType'
  <2>1. misused' \in BOOLEAN
    BY <1>13 DEF Log!Exit, Log!Callers, Log!Quiet
  <2> QED BY <1>0, <1>13, <2>1 DEF Log!Exit, CallType
<1>14. ASSUME NEW h \in Log!Handles, Log!FlushAtExit(h) PROVE CallType'
  BY <1>0, <1>14 DEF Log!FlushAtExit, CallType
<1>15. CASE Log!Tick
  BY <1>0, <1>15 DEF Log!Tick, CallType, Log!LoggerAssumption
<1>16. CASE UNCHANGED Log!vars
  BY <1>0, <1>16 DEF Log!vars, CallType
<1> QED BY <1>1, <1>2, <1>3, <1>4, <1>5, <1>6, <1>7, <1>8, <1>9, <1>10,
  <1>11, <1>12, <1>13, <1>14, <1>15, <1>16
  DEF Log!Next, Log!LogStep, Printing

\* A misuse is never forgotten.
LEMMA MisuseStays ==
  ASSUME [Log!Next]_Log!vars, ~misused'
  PROVE  ~misused
BY DEF Log!Next, Log!LogStep, Log!vars, Log!CreateMutex, Log!CreateOpen, Log!Terminate, Log!Exit, Log!Call, Log!Callers,
       Log!Lock, Log!LockUndefined, Log!Time, Log!TimeCrashes, Log!Record, Log!Heading, Log!NoSymbols, Log!Frame, Log!Fprintf,
       Log!FprintfUndefined, Log!Unlock, Log!FlushAtExit, Log!Tick, Log!Abort

\* Every step keeps the order of the calls and the mutex's meaning.
LEMMA NextOrder ==
  ASSUME Log!LoggerAssumption, Log!TypeOK, FilesInv, OrderInv, [Log!Next]_Log!vars
  PROVE  OrderInv'
<1> USE DEF Log!logger, Log!call, Log!bounds
<1>0. ~misused' => ~misused
  BY MisuseStays
<1> SUFFICES ASSUME ~misused, ~misused' PROVE OrderInv'
  BY <1>0 DEF OrderInv
<1> USE DEF OrderInv
<1>00. Log!Nobody \notin Threads /\ \A t \in Threads : pc[t] # "idle" => ~exiting
  BY DEF Log!LoggerAssumption
<1>1. ASSUME NEW t \in Threads, Log!CreateMutex(t) PROVE OrderInv'
  <2>1. pc[t] = "idle" /\ Log!Quiet(t) /\ ~exiting /\ file' = file /\ exiting' = exiting
    BY <1>1 DEF Log!CreateMutex, Log!Callers, Log!At
  <2>2. \A u \in Threads : pc[u] = "idle"
    BY <2>1 DEF Log!Quiet
  <2>3. CASE ready' = TRUE /\ holder' = Log!Nobody /\ Log!Goto(t, "open")
    <3>1. pc'[t] = "open" /\ \A u \in Threads \ {t} : pc'[u] = "idle"
      BY <2>2, <2>3 DEF Log!Goto, Log!TypeOK
    <3> QED BY <1>00, <2>1, <2>3, <3>1 DEF Log!Inside, Log!Quiet
  <2>4. CASE UNCHANGED <<ready, holder, pc>>
    BY <2>1, <2>4 DEF Log!Quiet
  <2> QED BY <1>1, <2>3, <2>4 DEF Log!CreateMutex
<1>2. ASSUME NEW t \in Threads, Log!CreateOpen(t) PROVE OrderInv'
  <2>1. pc[t] = "open" /\ pc' = [pc EXCEPT ![t] = "idle"] /\ ready' = ready /\ holder' = holder /\ exiting' = exiting
    BY <1>2 DEF Log!CreateOpen, Log!At, Log!Goto
  <2>2. ready /\ Log!Quiet(t) /\ holder # t
    BY <2>1 DEF Log!Inside
  <2>3. \A u \in Threads : pc'[u] = "idle"
    BY <2>1, <2>2 DEF Log!Quiet, Log!TypeOK
  <2>4. \A u \in Threads : holder # u
    BY <2>2 DEF Log!Quiet, Log!Inside
  <2> QED BY <2>1, <2>2, <2>3, <2>4 DEF Log!Inside
<1>3. ASSUME NEW t \in Threads, Log!Terminate(t) PROVE OrderInv'
  <2>1. pc[t] = "idle" /\ Log!Quiet(t) /\ file' = Log!NoFile /\ holder' = Log!Nobody /\ pc' = pc /\ exiting' = exiting
    BY <1>3 DEF Log!Terminate, Log!Callers, Log!At, Log!call
  <2>2. \A u \in Threads : pc[u] = "idle"
    BY <2>1 DEF Log!Quiet
  <2> QED BY <1>00, <2>1, <2>2 DEF Log!Inside
<1>4. ASSUME NEW t \in Threads, Log!Call(t) PROVE OrderInv'
  <2>1. /\ pc[t] = "idle" /\ pc' = [pc EXCEPT ![t] = "lock"] /\ file # Log!NoFile /\ ~exiting /\ exiting' = exiting
        /\ \A u \in Threads : pc[u] # "open"
        /\ UNCHANGED Log!logger
    BY <1>4 DEF Log!Call, Log!Callers, Log!Created, Log!At, Log!Goto
  <2>2. pc'[t] = "lock" /\ \A u \in Threads \ {t} : pc'[u] = pc[u]
    BY <2>1 DEF Log!TypeOK
  <2> QED BY <2>1, <2>2 DEF Log!Inside
<1>5. ASSUME NEW t \in Threads, Log!Lock(t) PROVE OrderInv'
  <2>1. /\ pc[t] = "lock" /\ pc'[t] = "time" /\ \A u \in Threads \ {t} : pc'[u] = pc[u]
        /\ ready' = ready /\ file' = file /\ holder' = t /\ holder = Log!Nobody /\ exiting' = exiting
    BY <1>5 DEF Log!Lock, Log!Lockable, Log!At, Log!Goto, Log!TypeOK
  <2> QED BY <1>00, <2>1 DEF Log!Inside, Log!Quiet
<1>6. ASSUME NEW t \in Threads, Log!LockUndefined(t) PROVE OrderInv'
  BY <1>6 DEF Log!LockUndefined, Log!Abort, OrderInv, Log!Quiet
<1>7. ASSUME NEW t \in Threads, Log!Time(t) PROVE OrderInv'
  <2>1. /\ pc[t] = "time" /\ pc'[t] \in Log!Inside /\ \A u \in Threads \ {t} : pc'[u] = pc[u]
        /\ ready' = ready /\ file' = file /\ holder' = holder /\ exiting' = exiting
    BY <1>7 DEF Log!Time, Log!HolderAfterTime, Log!At, Log!Goto, Log!TypeOK, Log!Inside
  <2> QED BY <1>00, <2>1 DEF Log!Inside, Log!Quiet
<1>8. ASSUME NEW t \in Threads, Log!TimeCrashes(t) PROVE OrderInv'
  BY <1>8 DEF Log!TimeCrashes, Log!Abort, OrderInv, Log!Quiet
<1>9. ASSUME NEW t \in Threads, Printing(t) PROVE OrderInv'
  <2>1. /\ pc[t] \in {"record", "heading", "frames"} /\ UNCHANGED <<ready, file, holder, exiting>>
        /\ \E next \in {"heading", "frames", "unlock"} : pc' = [pc EXCEPT ![t] = next]
    BY <1>9, PrintIs DEF Prints, PartAt
  <2>2. pc'[t] \in Log!Inside /\ pc[t] \in Log!Inside /\ \A u \in Threads \ {t} : pc'[u] = pc[u]
    BY <2>1 DEF Log!Inside, Log!TypeOK
  <2> QED BY <1>00, <2>1, <2>2 DEF Log!Inside, Log!Quiet
<1>10. ASSUME NEW t \in Threads, Log!NoSymbols(t) PROVE OrderInv'
  <2>1. /\ pc[t] = "heading" /\ pc'[t] = "unlock" /\ \A u \in Threads \ {t} : pc'[u] = pc[u]
        /\ ready' = ready /\ file' = file /\ holder' = holder /\ exiting' = exiting
    BY <1>10 DEF Log!NoSymbols, Log!CleanUp, Log!At, Log!Goto, Log!TypeOK
  <2> QED BY <1>00, <2>1 DEF Log!Inside, Log!Quiet
<1>11. ASSUME NEW t \in Threads, Log!FprintfUndefined(t) PROVE OrderInv'
  BY <1>11 DEF Log!FprintfUndefined, Log!Abort, OrderInv, Log!Quiet
<1>12. ASSUME NEW t \in Threads, Log!Unlock(t) PROVE OrderInv'
  <2>1. /\ pc[t] \in {"unlock", "frames"} /\ pc'[t] = "idle" /\ \A u \in Threads \ {t} : pc'[u] = pc[u]
        /\ ready' = ready /\ file' = file /\ holder' = Log!Nobody /\ exiting' = exiting
    BY <1>12 DEF Log!Unlock, Log!At, Log!Goto, Log!TypeOK
  <2> QED BY <1>00, <2>1 DEF Log!Inside, Log!Quiet
<1>13. ASSUME NEW t \in Threads, Log!Exit(t) PROVE OrderInv'
  <2>1. pc[t] = "idle" /\ Log!Quiet(t) /\ UNCHANGED <<ready, file, holder, pc>>
    BY <1>13 DEF Log!Exit, Log!Callers, Log!At
  <2>2. \A u \in Threads : pc[u] = "idle"
    BY <2>1 DEF Log!Quiet
  <2> QED BY <2>1, <2>2 DEF Log!Inside
<1>14. ASSUME NEW h \in Log!Handles, Log!FlushAtExit(h) PROVE OrderInv'
  BY <1>14 DEF Log!FlushAtExit, OrderInv, Log!Quiet
<1>15. CASE Log!Tick
  BY <1>15 DEF Log!Tick, OrderInv, Log!Quiet
<1>16. CASE UNCHANGED Log!vars
  BY <1>16 DEF Log!vars, OrderInv, Log!Quiet
<1> QED BY <1>1, <1>2, <1>3, <1>4, <1>5, <1>6, <1>7, <1>8, <1>9, <1>10,
  <1>11, <1>12, <1>13, <1>14, <1>15, <1>16
  DEF Log!Next, Log!LogStep, Printing

\* Every step counts the frames of the calls.
LEMMA NextFrame ==
  ASSUME Log!LoggerAssumption, Log!TypeOK, FilesInv, FrameInv, [Log!Next]_Log!vars
  PROVE  FrameInv'
<1> USE DEF Log!logger, Log!call, Log!bounds
<1>1. ASSUME NEW t \in Threads, Printing(t) PROVE FrameInv'
  <2>1. /\ pc[t] \in {"record", "heading", "frames"}
        /\ printed' = [printed EXCEPT ![t] = IF pc[t] = "frames" THEN printed[t] + 1 ELSE printed[t]]
        /\ pc[t] = "frames" => pc'[t] \in {"frames", "unlock"}
        /\ \E next : pc' = [pc EXCEPT ![t] = next]
    BY <1>1, PrintIs DEF Prints, PartAt, Log!TypeOK
  <2> QED BY <2>1 DEF FrameInv, Log!TypeOK
<1>2. ASSUME NEW t \in Threads, Log!Unlock(t) PROVE FrameInv'
  BY <1>2 DEF Log!Unlock, Log!Goto, Log!TypeOK, FrameInv
<1>3. ASSUME NEW t \in Threads,
             \/ Log!CreateMutex(t) \/ Log!CreateOpen(t) \/ Log!Call(t) \/ Log!Lock(t) \/ Log!Time(t) \/ Log!NoSymbols(t)
      PROVE  FrameInv'
  <2>1. printed' = printed /\ pc[t] \notin {"frames", "unlock"} /\ (pc' = pc \/ \E next : pc' = [pc EXCEPT ![t] = next])
    BY <1>3 DEF Log!CreateMutex, Log!CreateOpen, Log!Call, Log!Lock, Log!Time, Log!NoSymbols, Log!At, Log!Goto
  <2> QED BY <2>1 DEF FrameInv, Log!TypeOK
<1>4. ASSUME NEW t \in Threads,
             \/ Log!Terminate(t) \/ Log!Exit(t) \/ Log!LockUndefined(t) \/ Log!TimeCrashes(t) \/ Log!FprintfUndefined(t)
      PROVE  FrameInv'
  BY <1>4 DEF Log!Terminate, Log!Exit, Log!LockUndefined, Log!TimeCrashes, Log!FprintfUndefined, Log!Abort, FrameInv
<1>5. CASE Log!Tick \/ UNCHANGED Log!vars \/ \E h \in Log!Handles : Log!FlushAtExit(h)
  BY <1>5 DEF Log!Tick, Log!vars, Log!FlushAtExit, FrameInv
<1> QED BY <1>1, <1>2, <1>3, <1>4, <1>5 DEF Log!Next, Log!LogStep, Printing
-----------------------------------------------------------------------------
(* Texts *)

\* The clock does not go back, and a stamp is what it was or the clock.
LEMMA ClockGrows ==
  ASSUME Log!LoggerAssumption, Log!TypeOK, FilesInv, [Log!Next]_Log!vars
  PROVE  /\ clock \in Nat /\ clock' \in Nat /\ clock <= clock'
         /\ \A t \in Threads : stamp[t] \in Nat /\ (stamp'[t] = stamp[t] \/ stamp'[t] = clock)
<1> USE DEF Log!logger, Log!call, Log!bounds
<1>0. clock \in Nat /\ MaxClock \in Nat /\ \A t \in Threads : stamp[t] \in Nat
  BY DEF Log!TypeOK, Log!LoggerAssumption
<1>1. ASSUME NEW u \in Threads, Printing(u) PROVE clock' = clock /\ stamp' = stamp
  BY <1>1, PrintIs DEF Prints
<1>2. ASSUME NEW u \in Threads,
             \/ Log!CreateMutex(u) \/ Log!Terminate(u) \/ Log!Exit(u) \/ Log!Call(u) \/ Log!Lock(u) \/ Log!LockUndefined(u)
             \/ Log!TimeCrashes(u) \/ Log!NoSymbols(u) \/ Log!FprintfUndefined(u) \/ Log!Unlock(u) \/ Log!CreateOpen(u)
      PROVE  clock' = clock /\ stamp' = stamp
  BY <1>2 DEF Log!CreateMutex, Log!CreateOpen, Log!Terminate, Log!Exit, Log!Call, Log!Lock, Log!LockUndefined,
              Log!TimeCrashes, Log!NoSymbols, Log!FprintfUndefined, Log!Unlock, Log!Abort
<1>3. ASSUME NEW u \in Threads, Log!Time(u)
      PROVE  clock' = clock /\ \A t \in Threads : stamp'[t] = stamp[t] \/ stamp'[t] = clock
  BY <1>3 DEF Log!Time, Log!TypeOK
<1>4. CASE Log!Tick
  BY <1>0, <1>4 DEF Log!Tick
<1>5. CASE UNCHANGED Log!vars \/ \E h \in Log!Handles : Log!FlushAtExit(h)
  BY <1>0, <1>5 DEF Log!vars, Log!FlushAtExit
<1> QED BY <1>0, <1>1, <1>2, <1>3, <1>4, <1>5 DEF Log!Next, Log!LogStep, Printing

\* Who is at the FILE was there, or has just read the time.
LEMMA WhoPrints ==
  ASSUME Log!LoggerAssumption, Log!TypeOK, FilesInv, [Log!Next]_Log!vars,
         NEW u \in Threads, pc'[u] \in {"record", "heading", "frames"}
  PROVE  \/ Printing(u)
         \/ /\ pc'[u] = pc[u] /\ stamp'[u] = stamp[u] /\ record'[u] = record[u] /\ printed'[u] = printed[u]
         \/ pc[u] = "time" /\ pc'[u] = "record" /\ stamp'[u] = clock /\ Still
<1> USE DEF Log!logger, Log!call, Log!bounds, Log!stdio
<1> DEFINE Same == pc'[u] = pc[u] /\ stamp'[u] = stamp[u] /\ record'[u] = record[u] /\ printed'[u] = printed[u]
           Timed == pc[u] = "time" /\ pc'[u] = "record" /\ stamp'[u] = clock /\ Still
<1>1. ASSUME NEW t \in Threads, Printing(t) PROVE t = u \/ Same
  <2>1. /\ stamp' = stamp /\ record' = record
        /\ printed' = [printed EXCEPT ![t] = IF pc[t] = "frames" THEN printed[t] + 1 ELSE printed[t]]
        /\ \E next : pc' = [pc EXCEPT ![t] = next]
    BY <1>1, PrintIs DEF Prints
  <2> QED BY <2>1 DEF Log!TypeOK
<1>2. ASSUME NEW t \in Threads, Log!Time(t) PROVE Same \/ Timed
  BY <1>2 DEF Log!Time, Log!At, Log!Goto, Log!TypeOK, Still
<1>3. ASSUME NEW t \in Threads,
             Log!CreateMutex(t) \/ Log!CreateOpen(t) \/ Log!Lock(t) \/ Log!NoSymbols(t)
      PROVE  Same
  <2>1. /\ stamp' = stamp /\ record' = record /\ printed' = printed
        /\ pc' = pc \/ \E next \in {"open", "idle", "time", "unlock"} : pc' = [pc EXCEPT ![t] = next]
    BY <1>3 DEF Log!CreateMutex, Log!CreateOpen, Log!Lock, Log!NoSymbols, Log!CleanUp, Log!Goto
  <2> QED BY <2>1 DEF Log!TypeOK
<1>4. ASSUME NEW t \in Threads, Log!Call(t) \/ Log!Unlock(t) PROVE Same
  BY <1>4 DEF Log!Call, Log!Unlock, Log!Goto, Log!TypeOK
<1>5. ASSUME NEW t \in Threads,
             \/ Log!Terminate(t) \/ Log!Exit(t) \/ Log!LockUndefined(t) \/ Log!TimeCrashes(t) \/ Log!FprintfUndefined(t)
      PROVE  Same
  BY <1>5 DEF Log!Terminate, Log!Exit, Log!LockUndefined, Log!TimeCrashes, Log!FprintfUndefined, Log!Abort
<1>6. CASE Log!Tick \/ UNCHANGED Log!vars \/ \E h \in Log!Handles : Log!FlushAtExit(h)
  BY <1>6 DEF Log!Tick, Log!vars, Log!FlushAtExit
<1> QED BY <1>1, <1>2, <1>3, <1>4, <1>5, <1>6 DEF Log!Next, Log!LogStep, Printing

\* What a step does to the texts of the current FILE while the callers are in order and
\* the process goes on: nothing, or the FILE is opened, closed, or printed to.
LEMMA InOrder ==
  ASSUME Log!LoggerAssumption, Log!TypeOK, FilesInv, OrderInv, [Log!Next]_Log!vars, ~misused'
  PROVE  /\ ~misused
         /\ \/ Still
            \/ /\ ~exiting /\ exiting' = exiting /\ \A u \in Threads : pc'[u] = "idle"
               /\ \/ Opened \/ (UNCHANGED <<target, text, unflushed>> /\ file' = Log!NoFile)
                  \/ Closed
            \/ ~exiting /\ exiting' = exiting /\ \E t \in Threads : Printing(t)
            \/ /\ exiting /\ exiting' = exiting /\ (\A u \in Threads : pc'[u] = "idle")
               /\ \E h \in Log!Handles : Log!FlushAtExit(h)
<1> USE DEF Log!logger, Log!call, Log!bounds
<1>0. ~misused
  BY MisuseStays
<1>1. /\ exiting => \A t \in Threads : pc[t] = "idle"
      /\ \A t \in Threads : pc[t] = "open" => Log!Quiet(t)
  BY <1>0 DEF OrderInv
<1>2. ASSUME NEW t \in Threads, Log!CreateOpen(t)
      PROVE  ~exiting /\ exiting' = exiting /\ \A u \in Threads : pc'[u] = "idle"
  <2>1. pc[t] = "open" /\ pc' = [pc EXCEPT ![t] = "idle"] /\ exiting' = exiting
    BY <1>2 DEF Log!CreateOpen, Log!At, Log!Goto
  <2> QED BY <1>1, <2>1 DEF Log!Quiet, Log!TypeOK
<1>3. ASSUME NEW t \in Threads, Log!Terminate(t)
      PROVE  ~exiting /\ exiting' = exiting /\ \A u \in Threads : pc'[u] = "idle"
  BY <1>3 DEF Log!Terminate, Log!Callers, Log!At, Log!Quiet
<1>4. ASSUME NEW t \in Threads, Printing(t) PROVE ~exiting /\ exiting' = exiting
  BY <1>1, <1>4, PrintIs DEF Prints, PartAt
<1>5. ASSUME NEW h \in Log!Handles, Log!FlushAtExit(h)
      PROVE  exiting /\ exiting' = exiting /\ \A u \in Threads : pc'[u] = "idle"
  BY <1>1, <1>5 DEF Log!FlushAtExit
<1> QED BY <1>0, <1>2, <1>3, <1>4, <1>5, Kinds

\* What is printed of the current FILE, and what is in the others, by those kinds.
LEMMA StillIs ==
  ASSUME Log!TypeOK, FilesInv, Still
  PROVE  /\ text' = text
         /\ file' # Log!NoFile => file # Log!NoFile /\ target'[file'] = target[file] /\ Stream' = Stream
BY DEF Still, Stream

LEMMA OpenedIs ==
  ASSUME Log!TypeOK, FilesInv, Opened \/ (UNCHANGED <<target, text, unflushed>> /\ file' = Log!NoFile)
  PROVE  /\ text' = text
         /\ file' # Log!NoFile => target'[file'] \in Paths /\ Stream' = text[target'[file']]
<1>1. CASE Opened
  <2>1. PICK h \in Log!Handles, p \in Paths :
          target[h] = Log!NoPath /\ file' = h /\ target' = [target EXCEPT ![h] = p]
    BY <1>1 DEF Opened
  <2>2. target'[file'] = p /\ text' = text /\ unflushed'[file'] = <<>>
    BY <1>1, <2>1 DEF Opened, FilesInv, Log!TypeOK
  <2>3. text'[p] \o unflushed'[file'] = text[p]
    <3>1. text[p] \in Seq(Log!Piece)
      BY DEF Log!TypeOK
    <3> QED BY <2>2, <3>1, ConcatEmptySeq
  <2> QED BY <2>2, <2>3 DEF Stream
<1>2. CASE UNCHANGED <<target, text, unflushed>> /\ file' = Log!NoFile
  BY <1>2
<1> QED BY <1>1, <1>2

LEMMA ClosedIs ==
  ASSUME Log!TypeOK, FilesInv, Closed
  PROVE  /\ file # Log!NoFile /\ file' = Log!NoFile /\ \A p \in Paths \ {target[file]} : text'[p] = text[p]
         /\ text' \in [Paths -> Seq(Log!Piece)] /\ PrefixOf(text'[target[file]], Stream)
<1>1. file \in Log!Handles /\ target[file] \in Paths
  BY StreamType DEF Closed
<1>2. PICK n \in 0..Len(unflushed[file]) : Log!Flush(file, unflushed[file], n, <<>>)
  BY DEF Closed
<1> QED BY <1>1, <1>2, LastFlush DEF Closed, Stream

LEMMA FlushedIs ==
  ASSUME Log!TypeOK, FilesInv, NEW h \in Log!Handles, Log!FlushAtExit(h), Log!LoggerAssumption
  PROVE  /\ UNCHANGED <<file, target>> /\ target[h] \in Paths /\ \A p \in Paths \ {target[h]} : text'[p] = text[p]
         /\ text' \in [Paths -> Seq(Log!Piece)]
         /\ \A g \in Log!Handles \ {h} : unflushed'[g] = unflushed[g]
         /\ h = file => PrefixOf(text'[target[h]], Stream) /\ Stream' = text'[target[h]]
<1>1. target[h] \in Paths /\ UNCHANGED <<file, target>>
  BY DEF Log!FlushAtExit, Log!logger, Log!TypeOK, FilesInv, Log!LoggerAssumption
<1>2. PICK n \in 0..Len(unflushed[h]) : Log!Flush(h, unflushed[h], n, <<>>)
  BY DEF Log!FlushAtExit
<1>3. /\ text' \in [Paths -> Seq(Log!Piece)] /\ unflushed' \in [Log!Handles -> Seq(Log!Piece)]
      /\ \A p \in Paths \ {target[h]} : text'[p] = text[p]
      /\ \A g \in Log!Handles \ {h} : unflushed'[g] = unflushed[g]
      /\ unflushed'[h] = <<>> /\ PrefixOf(text'[target[h]], text[target[h]] \o unflushed[h])
  BY <1>1, <1>2, LastFlush
<1>4. text'[target[h]] \o <<>> = text'[target[h]]
  <2>1. text'[target[h]] \in Seq(Log!Piece)
    BY <1>1, <1>3
  <2> QED BY <2>1, ConcatEmptySeq
<1>5. h = file => Stream' = text'[target[h]]
  BY <1>1, <1>3, <1>4 DEF Stream
<1> QED BY <1>1, <1>3, <1>5 DEF Stream

\* A print: what is printed grows by it, is cut behind some of it, or stays; what is in
\* the file is a beginning of it.
LEMMA PrintingIs ==
  ASSUME Log!LoggerAssumption, Log!TypeOK, FilesInv, NEW t \in Threads, Printing(t)
  PROVE  \E n \in Nat :
           /\ PartAt(t, n) /\ UNCHANGED <<file, target, record, stamp>> /\ file # Log!NoFile
           /\ \A p \in Paths \ {target[file]} : text'[p] = text[p]
           /\ Stream' \in Seq(Log!Piece) /\ text'[target[file]] \in Seq(Log!Piece)
           /\ PrefixOf(text'[target[file]], Stream')
           /\ \/ Stream' = Stream
              \/ \E v \in Seq(Log!Piece) : Adds(t, n, Stream, v) /\ PrefixOf(Stream', v)
           /\ \/ pc'[t] = "unlock"
              \/ /\ Adds(t, n, Stream, Stream')
                 /\ pc'[t] = "heading" <=> pc[t] = "record"
                 /\ pc'[t] = "frames" <=> pc[t] \in {"heading", "frames"}
<1>1. PICK n \in 0..(1 + Frames) : Prints(t, n)
  BY PrintIs
<1>2. /\ n \in Nat /\ PartAt(t, n) /\ UNCHANGED <<file, target, record, stamp>> /\ file # Log!NoFile
      /\ pc \in [Threads -> Log!Inside \cup {"idle", "open", "lock"}]
      /\ pc[t] \in {"record", "heading", "frames"}
  BY <1>1 DEF Prints, PartAt, Log!LoggerAssumption, Log!TypeOK
<1>3. /\ text[target[file]] \in Seq(Log!Piece) /\ target[file] \in Paths
      /\ Stream \in Seq(Log!Piece) /\ PrefixOf(text[target[file]], Stream)
  BY <1>2, StreamType
<1> DEFINE Moves ==
             /\ \A p \in Paths \ {target[file]} : text'[p] = text[p]
             /\ Stream' \in Seq(Log!Piece) /\ text'[target[file]] \in Seq(Log!Piece)
             /\ PrefixOf(text'[target[file]], Stream')
             /\ \/ Stream' = Stream
                \/ \E v \in Seq(Log!Piece) : Adds(t, n, Stream, v) /\ PrefixOf(Stream', v)
           Goes ==
             \/ pc'[t] = "unlock"
             \/ /\ Adds(t, n, Stream, Stream')
                /\ pc'[t] = "heading" <=> pc[t] = "record"
                /\ pc'[t] = "frames" <=> pc[t] \in {"heading", "frames"}
<1>4. CASE UNCHANGED <<text, unflushed>> /\ pc' = [pc EXCEPT ![t] = "unlock"]
  <2>1. Stream' = Stream
    BY <1>2, <1>4 DEF Stream
  <2>2. Moves
    BY <1>2, <1>3, <1>4, <2>1
  <2>3. Goes
    BY <1>2, <1>4
  <2> QED BY <1>2, <2>2, <2>3
<1>5. CASE Cut(t, n) /\ pc' = [pc EXCEPT ![t] = "unlock"]
  <2>1. /\ Others /\ Stream' \in Seq(Log!Piece) /\ text'[target[file]] = Stream'
        /\ \E v \in Seq(Log!Piece) : Adds(t, n, Stream, v) /\ PrefixOf(Stream', v)
    BY <1>2, <1>5, CutIs
  <2>2. PrefixOf(Stream', Stream')
    BY <2>1 DEF PrefixOf
  <2>3. Moves
    BY <2>1, <2>2 DEF Others
  <2>4. Goes
    BY <1>2, <1>5
  <2> QED BY <1>2, <2>3, <2>4
<1>6. CASE /\ Wrote(t, n)
           /\ pc' = [pc EXCEPT ![t] = CASE pc[t] = "record" /\ level[t] = "error" -> "heading"
                                        [] pc[t] = "record" /\ level[t] # "error" -> "unlock"
                                        [] pc[t] \in {"heading", "frames"} -> "frames"]
  <2>1. /\ Others /\ Stream' \in Seq(Log!Piece) /\ Adds(t, n, Stream, Stream')
        /\ PrefixOf(text'[target[file]], Stream')
    BY <1>2, <1>6, WroteIs
  <2>2. PrefixOf(Stream', Stream')
    BY <2>1 DEF PrefixOf
  <2>3. text'[target[file]] \in Seq(Log!Piece) /\ \A p \in Paths \ {target[file]} : text'[p] = text[p]
    BY <1>3, <2>1 DEF Others
  <2>4. Moves
    BY <2>1, <2>2, <2>3
  <2>5. Goes
    <3>1. CASE pc[t] = "record"
      BY <1>2, <1>6, <2>1, <3>1
    <3>2. CASE pc[t] \in {"heading", "frames"}
      BY <1>2, <1>6, <2>1, <3>2
    <3> QED BY <1>2, <3>1, <3>2
  <2> QED BY <1>2, <2>4, <2>5
<1> QED BY <1>1, <1>4, <1>5, <1>6 DEF Prints

\* Between two prints the last piece is what the thread under the mutex printed.
LEMMA NextTail ==
  ASSUME Log!LoggerAssumption, Log!TypeOK, FilesInv, OrderInv, FrameInv, TailInv, [Log!Next]_Log!vars
  PROVE  TailInv'
<1> SUFFICES ASSUME ~misused', NEW u \in Threads, pc'[u] \in {"heading", "frames"}
             PROVE  /\ pc'[u] = "heading" => LastPiece(u, 1)'
                    /\ pc'[u] = "frames" => LastPiece(u, 3 + 2 * printed[u])'
  BY DEF TailInv
<1>0. ~misused /\ (pc[u] = "heading" => LastPiece(u, 1)) /\ (pc[u] = "frames" => LastPiece(u, 3 + 2 * printed[u]))
  BY MisuseStays DEF TailInv
<1>1. CASE Printing(u)
  <2>1. PICK n \in Nat :
          /\ PartAt(u, n) /\ UNCHANGED <<file, target, record, stamp>> /\ file # Log!NoFile
          /\ Stream' \in Seq(Log!Piece)
          /\ \/ pc'[u] = "unlock"
             \/ /\ Adds(u, n, Stream, Stream')
                /\ pc'[u] = "heading" <=> pc[u] = "record"
                /\ pc'[u] = "frames" <=> pc[u] \in {"heading", "frames"}
    BY <1>1, PrintingIs
  <2>2. /\ Adds(u, n, Stream, Stream') /\ Stream \in Seq(Log!Piece)
        /\ pc'[u] = "heading" <=> pc[u] = "record"
        /\ pc'[u] = "frames" <=> pc[u] \in {"heading", "frames"}
    BY <2>1, StreamType
  <2>3. LastPiece(u, 2 * n + 1)'
    <3>1. /\ Len(Stream) \in Nat /\ Len(Stream') = Len(Stream) + 2
          /\ Stream'[Len(Stream) + 2] = [record |-> record[u], piece |-> 2 * n + 1, time |-> stamp[u]]
      BY <2>2 DEF Adds
    <3> QED BY <2>1, <3>1 DEF LastPiece
  <2>4. pc'[u] = "heading" => 2 * n + 1 = 1
    BY <2>1, <2>2 DEF PartAt
  <2>5. pc'[u] = "frames" => 2 * n + 1 = 3 + 2 * printed'[u]
    <3>1. printed[u] \in Nat /\ printed'[u] = IF pc[u] = "frames" THEN printed[u] + 1 ELSE printed[u]
      BY <1>1, PrintIs DEF Prints, Log!TypeOK
    <3>2. pc[u] = "heading" => printed[u] = 0
      BY DEF FrameInv
    <3>3. pc[u] = "heading" => n = 1
      BY <2>1 DEF PartAt
    <3>4. pc[u] = "frames" => n = 2 + printed[u]
      BY <2>1 DEF PartAt
    <3> QED BY <2>1, <2>2, <3>1, <3>2, <3>3, <3>4
  <2>6. CASE pc'[u] = "heading"
    BY <2>3, <2>4, <2>6
  <2>7. CASE pc'[u] = "frames"
    <3>1. LastPiece(u, 2 * n + 1)' <=> LastPiece(u, 3 + 2 * printed[u])'
      BY <2>5, <2>7 DEF LastPiece
    <3> QED BY <2>3, <2>7, <3>1
  <2> QED BY <2>6, <2>7
<1>2. CASE pc'[u] = pc[u] /\ stamp'[u] = stamp[u] /\ record'[u] = record[u] /\ printed'[u] = printed[u] /\ ~Printing(u)
  <2>1. file # Log!NoFile /\ holder = u
    BY <1>0, <1>2 DEF OrderInv, Log!Inside
  <2>2. \A t \in Threads : ~Printing(t)
    <3> SUFFICES ASSUME NEW t \in Threads, Printing(t) PROVE FALSE
      OBVIOUS
    <3>1. pc[t] \in Log!Inside
      BY PrintIs DEF Prints, PartAt, Log!Inside
    <3>2. t = u
      BY <1>0, <2>1, <3>1 DEF OrderInv
    <3> QED BY <1>2, <3>2
  <2>3. Still
    BY <2>2, InOrder
  <2>4. Stream' = Stream
    BY <2>1, <2>3 DEF Still, Stream
  <2> QED BY <1>0, <1>2, <2>4 DEF LastPiece
<1> QED BY <1>1, <1>2, WhoPrints

\* What is before a time is before a later one.
LEMMA BeforeGrows ==
  ASSUME NEW s \in Seq(Log!Piece), NEW c \in Nat, NEW d \in Nat, c <= d, Before(s, c)
  PROVE  Before(s, d)
<1> SUFFICES ASSUME NEW i \in 1..Len(s) PROVE s[i].time <= d
  BY DEF Before
<1>1. s[i] \in Log!Piece
  OBVIOUS
<1>2. s[i].time \in Nat
  BY <1>1 DEF Log!Piece
<1> QED BY <1>2 DEF Before

\* Every step leaves texts and stamps behind the clock.
LEMMA NextClock ==
  ASSUME Log!LoggerAssumption, Log!TypeOK, FilesInv, OrderInv, ClockInv, [Log!Next]_Log!vars
  PROVE  ClockInv'
<1>1. /\ clock \in Nat /\ clock' \in Nat /\ clock <= clock'
      /\ \A t \in Threads : stamp[t] \in Nat /\ (stamp'[t] = stamp[t] \/ stamp'[t] = clock)
  BY ClockGrows
<1>2. ASSUME NEW t \in Threads PROVE stamp'[t] <= clock'
  <2>1. stamp[t] \in Nat /\ stamp[t] <= clock
    BY <1>1 DEF ClockInv
  <2> QED BY <1>1, <2>1
<1> DEFINE Texts(c) == /\ \A p \in Paths : Before(text'[p], c)
                       /\ file' # Log!NoFile => Before(Stream', c)
<1>3. ASSUME ~misused', ~exiting' PROVE Texts(clock')
  <2>0. \A p \in Paths : text[p] \in Seq(Log!Piece)
    BY DEF Log!TypeOK
  <2>01. ~misused /\ ~exiting
    <3>1. ~misused
      BY <1>3, MisuseStays
    <3>2. exiting => exiting'
      BY DEF Log!Next, Log!LogStep, Log!vars, Log!CreateMutex, Log!CreateOpen, Log!Terminate, Log!Exit, Log!Call,
             Log!Lock, Log!LockUndefined, Log!Time, Log!TimeCrashes, Log!Record, Log!Heading, Log!NoSymbols, Log!Frame,
             Log!Fprintf, Log!FprintfUndefined, Log!Unlock, Log!FlushAtExit, Log!Tick, Log!Abort
    <3> QED BY <1>3, <3>1, <3>2
  <2>02. /\ \A p \in Paths : Before(text[p], clock)
         /\ file # Log!NoFile => Before(Stream, clock) /\ Stream \in Seq(Log!Piece)
    BY <2>01, StreamType DEF ClockInv
  <2>03. /\ \A p \in Paths : Before(text[p], clock')
         /\ file # Log!NoFile => Before(Stream, clock') /\ Stream \in Seq(Log!Piece)
    BY <1>1, <2>0, <2>02, BeforeGrows
  <2>1. CASE Still
    BY <2>1, <2>03, StillIs
  <2>2. CASE Opened \/ (UNCHANGED <<target, text, unflushed>> /\ file' = Log!NoFile)
    BY <2>2, <2>03, OpenedIs
  <2>3. CASE Closed
    <3>1. /\ file # Log!NoFile /\ file' = Log!NoFile /\ \A p \in Paths \ {target[file]} : text'[p] = text[p]
          /\ text' \in [Paths -> Seq(Log!Piece)] /\ PrefixOf(text'[target[file]], Stream)
      BY <2>3, ClosedIs
    <3>2. target[file] \in Paths
      BY <3>1 DEF FilesInv
    <3>3. Before(text'[target[file]], clock')
      BY <2>03, <3>1, <3>2, PrefixKeeps
    <3> QED BY <2>03, <3>1, <3>3
  <2>4. ASSUME NEW t \in Threads, Printing(t) PROVE Texts(clock')
    <3>1. PICK n \in Nat :
           /\ UNCHANGED <<file, target>> /\ file # Log!NoFile
           /\ \A p \in Paths \ {target[file]} : text'[p] = text[p]
           /\ Stream' \in Seq(Log!Piece) /\ text'[target[file]] \in Seq(Log!Piece)
           /\ PrefixOf(text'[target[file]], Stream')
           /\ \/ Stream' = Stream
              \/ \E v \in Seq(Log!Piece) : Adds(t, n, Stream, v) /\ PrefixOf(Stream', v)
      BY <2>4, PrintingIs
    <3>2. Before(Stream', clock')
      <4>1. CASE Stream' = Stream
        BY <2>03, <3>1, <4>1
      <4>2. ASSUME NEW v \in Seq(Log!Piece), Adds(t, n, Stream, v), PrefixOf(Stream', v) PROVE Before(Stream', clock')
        <5>1. stamp[t] <= clock'
          <6>1. stamp[t] \in Nat /\ stamp[t] <= clock
            BY <1>1 DEF ClockInv
          <6> QED BY <1>1, <6>1
        <5>2. Before(v, clock')
          BY <2>03, <3>1, <4>2, <5>1, PrintBefore
        <5> QED BY <3>1, <4>2, <5>2, PrefixKeeps
      <4> QED BY <3>1, <4>1, <4>2
    <3>3. Before(text'[target[file]], clock')
      BY <3>1, <3>2, PrefixKeeps
    <3> QED BY <2>03, <3>1, <3>2, <3>3
  <2> QED BY <1>3, <2>01, <2>1, <2>2, <2>3, <2>4, InOrder
<1> QED BY <1>2, <1>3 DEF ClockInv

\* Who prints has its time, and who is at the FILE was there or has just read one.
LEMMA NextStamp ==
  ASSUME Log!LoggerAssumption, Log!TypeOK, FilesInv, OrderInv, ClockInv, StampInv, [Log!Next]_Log!vars
  PROVE  StampInv'
<1> SUFFICES ASSUME ~misused', NEW u \in Threads, pc'[u] \in {"record", "heading", "frames"}
             PROVE  Before(Stream', stamp'[u])
  BY DEF StampInv
<1>0. ~misused /\ (pc[u] \in {"record", "heading", "frames"} => Before(Stream, stamp[u]))
  BY MisuseStays DEF StampInv
<1>1. CASE Printing(u)
  <2>1. PICK n \in Nat :
          /\ PartAt(u, n) /\ UNCHANGED <<file, target, record, stamp>> /\ file # Log!NoFile
          /\ Stream' \in Seq(Log!Piece)
          /\ \/ Stream' = Stream
             \/ \E v \in Seq(Log!Piece) : Adds(u, n, Stream, v) /\ PrefixOf(Stream', v)
    BY <1>1, PrintingIs
  <2>2. Before(Stream, stamp[u]) /\ Stream \in Seq(Log!Piece) /\ stamp[u] <= stamp[u]
    <3>1. stamp[u] \in Nat
      BY DEF Log!TypeOK
    <3> QED BY <1>0, <2>1, <3>1, StreamType DEF PartAt
  <2>3. ASSUME NEW v \in Seq(Log!Piece), Adds(u, n, Stream, v), PrefixOf(Stream', v) PROVE Before(Stream', stamp[u])
    <3>1. Before(v, stamp[u])
      BY <2>2, <2>3, PrintBefore
    <3> QED BY <2>1, <2>3, <3>1, PrefixKeeps
  <2> QED BY <2>1, <2>2, <2>3
<1>2. CASE pc'[u] = pc[u] /\ stamp'[u] = stamp[u] /\ ~Printing(u)
  <2>1. file # Log!NoFile /\ holder = u
    BY <1>0, <1>2 DEF OrderInv, Log!Inside
  <2>2. \A t \in Threads : ~Printing(t)
    <3> SUFFICES ASSUME NEW t \in Threads, Printing(t) PROVE FALSE
      OBVIOUS
    <3>1. pc[t] \in Log!Inside
      BY PrintIs DEF Prints, PartAt, Log!Inside
    <3>2. t = u
      BY <1>0, <2>1, <3>1 DEF OrderInv
    <3> QED BY <1>2, <3>2
  <2>3. Still
    BY <2>2, InOrder
  <2>4. Stream' = Stream
    BY <2>1, <2>3 DEF Still, Stream
  <2> QED BY <1>0, <1>2, <2>4
<1>3. CASE pc[u] = "time" /\ pc'[u] = "record" /\ stamp'[u] = clock /\ Still
  <2>1. file # Log!NoFile /\ ~exiting
    BY <1>0, <1>3 DEF OrderInv, Log!Inside
  <2>2. Before(Stream, clock)
    BY <1>0, <2>1 DEF ClockInv
  <2>3. Stream' = Stream
    BY <1>3 DEF Still, Stream
  <2> QED BY <1>3, <2>2, <2>3
<1> QED BY <1>1, <1>2, <1>3, WhoPrints

\* Every step leaves records whole and in the order of their times.
LEMMA NextText ==
  ASSUME Log!LoggerAssumption, Log!TypeOK, FilesInv, OrderInv, TailInv, StampInv, TextInv, [Log!Next]_Log!vars
  PROVE  TextInv'
<1>0. \A p \in Paths : text[p] \in Seq(Log!Piece)
  BY DEF Log!TypeOK
<1>1. ASSUME ~misused', ~exiting'
      PROVE  /\ \A p \in Paths : Good(text'[p])
             /\ file' # Log!NoFile => Good(Stream')
  <2>01. ~misused /\ ~exiting
    <3>1. ~misused
      BY <1>1, MisuseStays
    <3>2. exiting => exiting'
      BY DEF Log!Next, Log!LogStep, Log!vars, Log!CreateMutex, Log!CreateOpen, Log!Terminate, Log!Exit, Log!Call,
             Log!Lock, Log!LockUndefined, Log!Time, Log!TimeCrashes, Log!Record, Log!Heading, Log!NoSymbols, Log!Frame,
             Log!Fprintf, Log!FprintfUndefined, Log!Unlock, Log!FlushAtExit, Log!Tick, Log!Abort
    <3> QED BY <1>1, <3>1, <3>2
  <2>0. /\ \A p \in Paths : Good(text[p])
        /\ file # Log!NoFile => Good(Stream) /\ Stream \in Seq(Log!Piece) /\ target[file] \in Paths
    BY <2>01, StreamType DEF TextInv, Log!Settled
  <2>1. CASE Still
    BY <2>1, <2>0, StillIs
  <2>2. CASE Opened \/ (UNCHANGED <<target, text, unflushed>> /\ file' = Log!NoFile)
    BY <2>2, <2>0, OpenedIs
  <2>3. CASE Closed
    <3>1. /\ file # Log!NoFile /\ file' = Log!NoFile /\ \A p \in Paths \ {target[file]} : text'[p] = text[p]
          /\ text' \in [Paths -> Seq(Log!Piece)] /\ PrefixOf(text'[target[file]], Stream)
      BY <2>3, ClosedIs
    <3>2. Good(text'[target[file]])
      BY <2>0, <3>1, PrefixKeeps
    <3> QED BY <2>0, <3>1, <3>2
  <2>4. ASSUME NEW t \in Threads, Printing(t)
        PROVE  /\ \A p \in Paths : Good(text'[p])
               /\ file' # Log!NoFile => Good(Stream')
    <3>1. PICK n \in Nat :
           /\ PartAt(t, n) /\ UNCHANGED <<file, target>> /\ file # Log!NoFile
           /\ \A p \in Paths \ {target[file]} : text'[p] = text[p]
           /\ Stream' \in Seq(Log!Piece) /\ text'[target[file]] \in Seq(Log!Piece)
           /\ PrefixOf(text'[target[file]], Stream')
           /\ \/ Stream' = Stream
              \/ \E v \in Seq(Log!Piece) : Adds(t, n, Stream, v) /\ PrefixOf(Stream', v)
      BY <2>4, PrintingIs
    <3>2. ASSUME NEW v \in Seq(Log!Piece), Adds(t, n, Stream, v), PrefixOf(Stream', v) PROVE Good(Stream')
      <4>1. Before(Stream, stamp[t])
        BY <2>01, <3>1 DEF StampInv, PartAt
      <4>2. printed[t] \in Nat
        BY DEF Log!TypeOK
      <4>3. \/ n = 0
            \/ Len(Stream) > 0 /\ Stream[Len(Stream)].record = record[t] /\ Stream[Len(Stream)].piece + 1 = 2 * n
        <5>1. CASE pc[t] = "record" /\ n = 0
          BY <5>1
        <5>2. CASE pc[t] = "heading" /\ n = 1
          BY <2>01, <5>2 DEF TailInv, LastPiece
        <5>3. CASE pc[t] = "frames" /\ n = 2 + printed[t]
          <6>1. Len(Stream) > 0 /\ Stream[Len(Stream)].record = record[t] /\ Stream[Len(Stream)].piece = 3 + 2 * printed[t]
            BY <2>01, <5>3 DEF TailInv, LastPiece
          <6> QED BY <4>2, <5>3, <6>1
        <5> QED BY <3>1, <5>1, <5>2, <5>3 DEF PartAt
      <4>4. Stream \in Seq(Log!Piece) /\ Good(Stream)
        BY <2>0, <3>1
      <4>5. Good(v)
        BY <3>2, <4>1, <4>3, <4>4, PrintKeeps
      <4> QED BY <3>1, <3>2, <4>5, PrefixKeeps
    <3>3. Good(Stream')
      BY <2>0, <3>1, <3>2
    <3>4. Good(text'[target[file]])
      BY <3>1, <3>3, PrefixKeeps
    <3> QED BY <2>0, <3>1, <3>3, <3>4
  <2> QED BY <1>1, <2>01, <2>1, <2>2, <2>3, <2>4, InOrder
<1>2. ASSUME ~misused', exiting'
      PROVE  /\ \A p \in Paths : Log!Settled(p)' => Good(text'[p])
             /\ file' # Log!NoFile => (Log!Settled(target[file])' => Good(Stream'))
  <2>0. ~misused /\ (Still \/ \E h \in Log!Handles : exiting /\ Log!FlushAtExit(h))
    BY <1>2, InOrder
  <2>1. CASE Still
    <3>1. \A p \in Paths : Log!Settled(p)' => Log!Settled(p)
      BY <1>2, <2>0, <2>1 DEF Still, Log!Settled
    <3>2. /\ text' = text
          /\ file' # Log!NoFile =>
               file # Log!NoFile /\ target'[file'] = target[file] /\ Stream' = Stream /\ target[file] \in Paths
      BY <2>1, StillIs DEF FilesInv
    <3> QED BY <3>1, <3>2 DEF TextInv
  <2>2. ASSUME NEW h \in Log!Handles, exiting, Log!FlushAtExit(h)
        PROVE  /\ \A p \in Paths : Log!Settled(p)' => Good(text'[p])
               /\ file' # Log!NoFile => (Log!Settled(target[file])' => Good(Stream'))
    <3>1. /\ UNCHANGED <<file, target>> /\ target[h] \in Paths /\ \A p \in Paths \ {target[h]} : text'[p] = text[p]
          /\ text' \in [Paths -> Seq(Log!Piece)]
          /\ \A g \in Log!Handles \ {h} : unflushed'[g] = unflushed[g]
          /\ h = file => PrefixOf(text'[target[h]], Stream) /\ Stream' = text'[target[h]]
      BY <2>2, FlushedIs
    <3>2. \A p \in Paths : Log!Settled(p)' => Log!Settled(p)
      BY <1>2, <2>0, <2>2, <3>1 DEF Log!Settled
    <3>3. CASE h = file
      <4>0. Log!NoFile \notin Log!Handles
        BY DEF Log!NoFile, Log!Handles
      <4>1. file # Log!NoFile /\ Stream \in Seq(Log!Piece) /\ text'[target[h]] \in Seq(Log!Piece)
        BY <3>1, <3>3, <4>0, StreamType
      <4>2. Log!Settled(target[h])' => Good(text'[target[h]])
        BY <3>1, <3>2, <3>3, <4>1, PrefixKeeps DEF TextInv
      <4> QED BY <3>1, <3>2, <3>3, <4>2 DEF TextInv
    <3>4. CASE h # file
      <4>1. ~Log!Settled(target[h])'
        BY <1>2, <3>1, <3>4 DEF Log!Settled
      <4>2. \A p \in Paths : Log!Settled(p)' => Good(text'[p])
        BY <3>1, <3>2, <4>1 DEF TextInv
      <4>3. ASSUME file' # Log!NoFile, Log!Settled(target[file])' PROVE Good(Stream')
        <5>1. file \in Log!Handles /\ target[file] \in Paths /\ file # Log!NoFile
          BY <3>1, <4>3, StreamType
        <5>2. text'[target[file]] = text[target[file]] /\ unflushed'[file] = unflushed[file]
          BY <3>1, <3>4, <4>1, <4>3, <5>1
        <5>3. Stream' = Stream
          BY <3>1, <5>2 DEF Stream
        <5>4. Log!Settled(target[file])
          BY <3>1, <3>2, <4>3, <5>1
        <5> QED BY <5>1, <5>3, <5>4 DEF TextInv
      <4> QED BY <4>2, <4>3
    <3> QED BY <3>3, <3>4
  <2> QED BY <2>0, <2>1, <2>2
<1>3. \A p : Log!Settled(p)' => ~misused'
  BY DEF Log!Settled
<1>4. exiting' \in BOOLEAN
  BY NextLogType DEF Log!TypeOK
<1>5. CASE misused'
  BY <1>3, <1>5 DEF TextInv
<1>6. CASE ~misused' /\ ~exiting'
  BY <1>1, <1>6 DEF TextInv
<1>7. CASE ~misused' /\ exiting'
  BY <1>2, <1>7 DEF TextInv
<1> QED BY <1>4, <1>5, <1>6, <1>7

-----------------------------------------------------------------------------
(* The theorems *)

\* The invariant holds at the start.
LEMMA InitLog == ASSUME Log!LoggerAssumption, Log!Init PROVE LogInv
<1>1. Log!TypeOK
  BY InitLogType
<1>2. Good(<<>>) /\ \A c : Before(<<>>, c)
  BY DEF Good, Log!Whole, Log!Ordered, Before
<1>3. \A p \in Paths : text[p] = <<>>
  BY DEF Log!Init
<1>4. \A t \in Threads : pc[t] = "idle" /\ printed[t] = 0 /\ stamp[t] = 0 /\ holder # t
  BY DEF Log!Init, Log!LoggerAssumption
<1>5. OrderInv /\ FrameInv /\ FilesInv
  BY <1>4 DEF Log!Init, OrderInv, FrameInv, FilesInv, Log!Inside
<1>6. TailInv /\ StampInv
  BY <1>4 DEF TailInv, StampInv
<1>7. ClockInv /\ TextInv
  BY <1>2, <1>3, <1>4 DEF Log!Init, ClockInv, TextInv
<1> QED BY <1>1, <1>5, <1>6, <1>7 DEF LogInv

\* Every step keeps the invariant.
LEMMA NextLog == ASSUME Log!LoggerAssumption, LogInv, [Log!Next]_Log!vars PROVE LogInv'
<1>1. Log!TypeOK /\ FilesInv /\ OrderInv /\ FrameInv /\ TailInv /\ ClockInv /\ StampInv /\ TextInv
  BY DEF LogInv
<1>2. Log!TypeOK' /\ FilesInv' /\ OrderInv' /\ FrameInv' /\ TailInv'
  BY <1>1, NextLogType, NextOrder, NextFrame, NextTail
<1>3. ClockInv' /\ StampInv' /\ TextInv'
  BY <1>1, NextClock, NextStamp, NextText
<1> QED BY <1>2, <1>3 DEF LogInv

\* What the runs check follows.
LEMMA LogSafe == ASSUME LogInv PROVE Log!OneWriter /\ Log!RecordsWhole /\ Log!TimesOrdered
BY DEF LogInv, OrderInv, TextInv, Good, Log!OneWriter, Log!RecordsWhole, Log!TimesOrdered

\* The invariant holds in every state of the library.
THEOREM LogInvariance == ASSUME Log!LoggerAssumption PROVE Log!Spec => []LogInv
<1>1. Log!Init => LogInv
  BY InitLog
<1>2. LogInv /\ [Log!Next]_Log!vars => LogInv'
  BY NextLog
<1> QED BY <1>1, <1>2, PTL DEF Log!Spec

\* The mutex of the static logger excludes, unless a caller creates or terminates it
\* under another's record: log_debug, log_info, log_warn and log_err hold it from their
\* lock to their unlock, on every error path.
THEOREM OneWriterCorrect == ASSUME Log!LoggerAssumption PROVE Log!Spec => []Log!OneWriter
<1>1. LogInv => Log!OneWriter
  BY LogSafe
<1> QED BY <1>1, LogInvariance, PTL

\* The lines, heading and frames of one record stand together in the file, however the
\* threads interleave, whichever fprintf fails and wherever the buffer is flushed: but
\* for what a FILE that a second create_logger left open adds to its file at exit.
THEOREM RecordsWholeCorrect == ASSUME Log!LoggerAssumption PROVE Log!Spec => []Log!RecordsWhole
<1>1. LogInv => Log!RecordsWhole
  BY LogSafe
<1> QED BY <1>1, LogInvariance, PTL

\* The file is in the order of its times, since get_current_time is under the mutex, but
\* for what such a FILE adds at exit.
THEOREM TimesOrderedCorrect == ASSUME Log!LoggerAssumption PROVE Log!Spec => []Log!TimesOrdered
<1>1. LogInv => Log!TimesOrdered
  BY LogSafe
<1> QED BY <1>1, LogInvariance, PTL

-----------------------------------------------------------------------------
(* SizeDaemon: any instances and clients, any documents and changes.       *)

(* The inductive invariant *)

\* The parser has gone through the document once it opens its socket; after n events
\* of a flat document it expects what follows them, and has the values behind the keys.
Behind(key, n) == {i \in 2..(n - 1) : i % 2 = 0 /\ doc[i].value = key}
ValueIs(key, n, v) ==
  \/ Behind(key, n) = {} /\ v = Daemon!Unset
  \/ \E i \in Behind(key, n) : (\A j \in Behind(key, n) : j <= i) /\ v = doc[i + 1].value
StateIs(n, state) ==
  IF n = 0 \/ n % 2 = 1 THEN state = "KEY"
  ELSE state = IF doc[n].value \in {"socketPath", "filePath"} THEN doc[n].value ELSE "OTHER"
Parsed(p) == IF at[p] = Len(doc) THEN Len(doc) - 1 ELSE at[p]
ReadInv ==
  \A p \in Instances :
    /\ pc[p] \notin {"off", "config", "failed", "crashed", "killed"} => at[p] = Len(doc)
    /\ Daemon!Flat => /\ StateIs(Parsed(p), config[p].state)
                      /\ ValueIs("socketPath", Parsed(p), config[p].socketPath)
                      /\ ValueIs("filePath", Parsed(p), config[p].filePath)

\* Who has the name between an instance's unlink and its bind is another one.
NameInv ==
  \A p \in Instances :
    pc[p] \in {"socket", "bind"} => path = Daemon!NoOne \/ path \in rivals[p] \ {p}

\* A client in a queue or in hand has connected, and the file is in its window since.
WindowInv ==
  /\ \A c \in Clients : IF peer[c] = "idle" THEN got[c] = Daemon!NoOne ELSE file \in window[c]
  /\ \A p \in Instances :
       /\ \A i \in 1..Len(queue[p]) : peer[queue[p][i]] # "idle"
       /\ client[p] # Daemon!NoOne => peer[client[p]] # "idle"

\* What an instance is about to write is about the client in hand, and what it is about
\* to close has been answered.
HandInv ==
  \A p \in Instances :
    /\ pc[p] = "write" => message[p] \in Sizes
    /\ pc[p] = "write" /\ client[p] # Daemon!NoOne => message[p] \in window[client[p]]
    /\ pc[p] = "close" /\ client[p] # Daemon!NoOne => got[client[p]] # Daemon!NoOne

DaemonInv ==
  /\ Daemon!TypeOK /\ ReadInv /\ NameInv /\ WindowInv /\ HandInv
  /\ Daemon!StaleNameNoObstacle /\ Daemon!FreshAnswer /\ Daemon!ClosedAnswered

-----------------------------------------------------------------------------
(* Types *)

Config == [state: {"KEY", "OTHER", "socketPath", "filePath"}, socketPath: Daemon!Texts, filePath: Daemon!Texts]
Events == [type: STRING, value: STRING]

\* The document is a sequence of events.
LEMMA DocType ==
  ASSUME Daemon!DaemonAssumption, Daemon!TypeOK
  PROVE  /\ doc \in Seq(Events) /\ Len(doc) \in Nat
         /\ \A i \in 1..Len(doc) : doc[i] \in Events /\ doc[i].value \in Daemon!Texts
<1>1. doc \in Seq(Events)
  BY DEF Daemon!DaemonAssumption, Daemon!TypeOK, Events
<1> QED BY <1>1 DEF Daemon!Texts

\* What the parser holds after an event.
LEMMA ParseStepIs ==
  ASSUME NEW c \in Config, NEW e \in Events, e.value \in Daemon!Texts
  PROVE  /\ Daemon!ParseStep(c, e) \in Config
         /\ e.type = "mapping" =>
              /\ Daemon!ParseStep(c, e).state = "KEY" /\ Daemon!ParseStep(c, e).socketPath = c.socketPath
              /\ Daemon!ParseStep(c, e).filePath = c.filePath
         /\ e.type \notin {"mapping", "scalar"} => Daemon!ParseStep(c, e) = c
         /\ e.type = "scalar" /\ c.state \in {"KEY", "OTHER"} =>
              /\ Daemon!ParseStep(c, e).socketPath = c.socketPath /\ Daemon!ParseStep(c, e).filePath = c.filePath
              /\ Daemon!ParseStep(c, e).state =
                   IF c.state = "OTHER" THEN "KEY"
                   ELSE IF e.value \in {"socketPath", "filePath"} THEN e.value ELSE "OTHER"
         /\ e.type = "scalar" /\ c.state = "socketPath" =>
              /\ Daemon!ParseStep(c, e).state = "KEY" /\ Daemon!ParseStep(c, e).socketPath = e.value
              /\ Daemon!ParseStep(c, e).filePath = c.filePath
         /\ e.type = "scalar" /\ c.state = "filePath" =>
              /\ Daemon!ParseStep(c, e).state = "KEY" /\ Daemon!ParseStep(c, e).socketPath = c.socketPath
              /\ Daemon!ParseStep(c, e).filePath = e.value
<1> USE DEF Config, Events, Daemon!ParseStep, Daemon!KeyExpected
<1>1. CASE e.type = "mapping"
  BY <1>1
<1>2. CASE e.type \notin {"mapping", "scalar"}
  BY <1>2
<1>3. CASE e.type = "scalar" /\ c.state = "KEY"
  BY <1>3
<1>4. CASE e.type = "scalar" /\ c.state = "OTHER"
  BY <1>4
<1>5. CASE e.type = "scalar" /\ c.state = "socketPath"
  BY <1>5
<1>6. CASE e.type = "scalar" /\ c.state = "filePath"
  BY <1>6
<1> QED BY <1>1, <1>2, <1>3, <1>4, <1>5, <1>6

\* The types hold at the start.
LEMMA InitDaemonType == ASSUME Daemon!DaemonAssumption, Daemon!Init PROVE Daemon!TypeOK
<1>1. doc \in Seq(Events) /\ Len(doc) \in Nat
  BY DEF Daemon!DaemonAssumption, Daemon!Init, Events
<1>2. \A p \in Instances : queue[p] = <<>> /\ <<>> \in Seq(Clients)
  BY DEF Daemon!Init
<1>3. queue \in [Instances -> Seq(Clients)]
  BY <1>2 DEF Daemon!Init
<1>4. Daemon!Unset \in Daemon!Texts
  BY DEF Daemon!Texts
<1>5. config \in [Instances -> Config]
  BY <1>4 DEF Daemon!Init, Config
<1>6. 0 \in 0..Len(doc) /\ 0 \in 0..MaxChanges
  BY <1>1 DEF Daemon!DaemonAssumption
<1>7. pc \in [Instances -> {"off"}]
  BY DEF Daemon!Init
<1> QED BY <1>3, <1>5, <1>6, <1>7 DEF Daemon!Init, Daemon!TypeOK, Config, Daemon!Stopped

\* The document is read and never changed.
LEMMA TextsFixed == ASSUME [Daemon!Next]_Daemon!vars PROVE Daemon!Texts' = Daemon!Texts
<1>1. doc' = doc
  BY DEF Daemon!Next, Daemon!Open, Daemon!Serve, Daemon!vars, Daemon!parser, Daemon!server, Daemon!world, Daemon!Start, Daemon!ParseEvent, Daemon!ParseFails, Daemon!CheckConfig,
     Daemon!Unlink, Daemon!Socket, Daemon!Bind, Daemon!Listen, Daemon!AcceptDeaf, Daemon!Accept, Daemon!AcceptFails, Daemon!Stat, Daemon!Write, Daemon!Close, Daemon!Kill, Daemon!Connect,
     Daemon!Leave, Daemon!Change, Daemon!Stop
<1> QED BY <1>1 DEF Daemon!Texts

\* Every step keeps the types.
LEMMA NextDaemonType ==
  ASSUME Daemon!DaemonAssumption, Daemon!TypeOK, [Daemon!Next]_Daemon!vars
  PROVE  Daemon!TypeOK'
<1> USE DEF Daemon!parser, Daemon!server, Daemon!world
<1>0. Daemon!Texts' = Daemon!Texts
  BY TextsFixed
<1>1. ASSUME NEW p \in Instances, Daemon!Start(p) PROVE Daemon!TypeOK'
  BY <1>1, <1>0 DEF Daemon!Start, Daemon!Stop, Daemon!Goto, Daemon!TypeOK, Daemon!Stopped, Daemon!Loop
<1>2. ASSUME NEW p \in Instances, Daemon!ParseEvent(p) PROVE Daemon!TypeOK'
  <2>1. /\ at[p] + 1 \in 1..Len(doc) /\ config[p] \in Config
        /\ doc[at[p] + 1] \in Events /\ doc[at[p] + 1].value \in Daemon!Texts
    BY <1>2, DocType DEF Daemon!ParseEvent, Daemon!TypeOK, Config
  <2>2. Daemon!ParseStep(config[p], doc[at[p] + 1]) \in Config
    BY <2>1, ParseStepIs
  <2>3. at' = [at EXCEPT ![p] = at[p] + 1] /\ at'[p] = at[p] + 1
    BY <1>2 DEF Daemon!ParseEvent, Daemon!TypeOK
  <2>4. config' = [config EXCEPT ![p] = Daemon!ParseStep(config[p], doc[at[p] + 1])]
    BY <1>2, <2>3 DEF Daemon!ParseEvent
  <2>5. config' \in [Instances -> Config] /\ at' \in [Instances -> 0..Len(doc)]
    BY <2>1, <2>2, <2>3, <2>4, DocType DEF Daemon!TypeOK, Config
  <2> QED BY <1>2, <1>0, <2>5 DEF Daemon!ParseEvent, Daemon!TypeOK, Config
<1>3. ASSUME NEW p \in Instances, Daemon!ParseFails(p) PROVE Daemon!TypeOK'
  BY <1>3, <1>0 DEF Daemon!ParseFails, Daemon!Stop, Daemon!Goto, Daemon!TypeOK, Daemon!Stopped, Daemon!Loop
<1>4. ASSUME NEW p \in Instances, Daemon!CheckConfig(p) PROVE Daemon!TypeOK'
  BY <1>4, <1>0 DEF Daemon!CheckConfig, Daemon!Stop, Daemon!Goto, Daemon!TypeOK, Daemon!Stopped, Daemon!Loop
<1>5. ASSUME NEW p \in Instances, Daemon!Unlink(p) PROVE Daemon!TypeOK'
  <2>1. rivals' \in [Instances -> SUBSET Instances]
    BY <1>5 DEF Daemon!Unlink, Daemon!TypeOK
  <2> QED BY <1>5, <1>0, <2>1 DEF Daemon!Unlink, Daemon!NameRemoved, Daemon!Goto, Daemon!TypeOK, Daemon!Stopped
<1>6. ASSUME NEW p \in Instances, Daemon!Socket(p) PROVE Daemon!TypeOK'
  BY <1>6, <1>0 DEF Daemon!Socket, Daemon!Stop, Daemon!Goto, Daemon!TypeOK, Daemon!Stopped, Daemon!Loop
<1>7. ASSUME NEW p \in Instances, Daemon!Bind(p) PROVE Daemon!TypeOK'
  <2>1. rivals' \in [Instances -> SUBSET Instances]
    <3>1. \A q \in Instances : rivals[q] \cup {p} \in SUBSET Instances
      BY DEF Daemon!TypeOK
    <3> QED BY <1>7, <3>1 DEF Daemon!Bind, Daemon!TypeOK
  <2> QED BY <1>7, <1>0, <2>1 DEF Daemon!Bind, Daemon!Goto, Daemon!TypeOK, Daemon!Stopped
<1>8. ASSUME NEW p \in Instances, Daemon!Listen(p) PROVE Daemon!TypeOK'
  BY <1>8, <1>0 DEF Daemon!Listen, Daemon!Stop, Daemon!Goto, Daemon!TypeOK, Daemon!Stopped, Daemon!Loop
<1>9. ASSUME NEW p \in Instances, Daemon!AcceptDeaf(p) PROVE Daemon!TypeOK'
  BY <1>9, <1>0 DEF Daemon!AcceptDeaf, Daemon!vars, Daemon!TypeOK, Daemon!Stopped, Daemon!Loop
<1>10. ASSUME NEW p \in Instances, Daemon!Accept(p) PROVE Daemon!TypeOK'
  <2>1. queue[p] \in Seq(Clients) /\ queue[p] # <<>>
    BY <1>10 DEF Daemon!Accept, Daemon!TypeOK
  <2>2. Head(queue[p]) \in Clients /\ Tail(queue[p]) \in Seq(Clients)
    BY <2>1, HeadTailProperties
  <2>3. queue' \in [Instances -> Seq(Clients)] /\ client' \in [Instances -> Clients \cup {Daemon!NoOne}]
    BY <1>10, <2>2 DEF Daemon!Accept, Daemon!Rest, Daemon!TypeOK
  <2> QED BY <1>10, <1>0, <2>3 DEF Daemon!Accept, Daemon!Goto, Daemon!TypeOK, Daemon!Loop
<1>11. ASSUME NEW p \in Instances, Daemon!AcceptFails(p) PROVE Daemon!TypeOK'
  BY <1>11, <1>0 DEF Daemon!AcceptFails, Daemon!Goto, Daemon!TypeOK, Daemon!Stopped, Daemon!Loop
<1>12. ASSUME NEW p \in Instances, Daemon!Stat(p) PROVE Daemon!TypeOK'
  <2>1. pc' \in [Instances -> Daemon!Stopped \cup Daemon!Loop \cup {"config", "unlink", "socket", "bind", "listen", "deaf"}]
    BY <1>12 DEF Daemon!Stat, Daemon!Goto, Daemon!TypeOK, Daemon!Stopped, Daemon!Loop
  <2>2. message' \in [Instances -> Sizes \cup {Daemon!NoOne}]
    BY <1>12 DEF Daemon!Stat, Daemon!SizeText, Daemon!TypeOK
  <2> QED BY <1>12, <1>0, <2>1, <2>2 DEF Daemon!Stat, Daemon!TypeOK
<1>13. ASSUME NEW p \in Instances, Daemon!Write(p) PROVE Daemon!TypeOK'
  <2>1. got' \in [Clients -> Sizes \cup {Daemon!NoOne}]
    BY <1>13 DEF Daemon!Write, Daemon!TypeOK
  <2> QED BY <1>13, <1>0, <2>1 DEF Daemon!Write, Daemon!Goto, Daemon!TypeOK, Daemon!Stopped, Daemon!Loop
<1>14. ASSUME NEW p \in Instances, Daemon!Close(p) PROVE Daemon!TypeOK'
  BY <1>14, <1>0 DEF Daemon!Close, Daemon!Goto, Daemon!TypeOK, Daemon!Stopped, Daemon!Loop
<1>15. ASSUME NEW p \in Instances, Daemon!Kill(p) PROVE Daemon!TypeOK'
  BY <1>15, <1>0 DEF Daemon!Kill, Daemon!Stop, Daemon!Goto, Daemon!TypeOK, Daemon!Stopped, Daemon!Loop
<1>16. ASSUME NEW c \in Clients, Daemon!Connect(c) PROVE Daemon!TypeOK'
  <2>1. path \in Instances
    BY <1>16 DEF Daemon!Connect, Daemon!TypeOK
  <2>2. Append(queue[path], c) \in Seq(Clients)
    BY <2>1, AppendProperties DEF Daemon!TypeOK
  <2>3. queue' \in [Instances -> Seq(Clients)]
    BY <1>16, <2>1, <2>2 DEF Daemon!Connect, Daemon!TypeOK
  <2>4. window' \in [Clients -> SUBSET Sizes]
    BY <1>16 DEF Daemon!Connect, Daemon!TypeOK
  <2> QED BY <1>16, <1>0, <2>3, <2>4 DEF Daemon!Connect, Daemon!TypeOK
<1>17. ASSUME NEW c \in Clients, Daemon!Leave(c) PROVE Daemon!TypeOK'
  BY <1>17, <1>0 DEF Daemon!Leave, Daemon!TypeOK, Daemon!Stopped, Daemon!Loop
<1>18. CASE Daemon!Change
  <2>1. changes + 1 \in 0..MaxChanges /\ file' \in Sizes
    BY <1>18 DEF Daemon!Change, Daemon!TypeOK, Daemon!DaemonAssumption
  <2>2. window' \in [Clients -> SUBSET Sizes]
    BY <1>18, <2>1 DEF Daemon!Change, Daemon!TypeOK
  <2> QED BY <1>18, <1>0, <2>1, <2>2 DEF Daemon!Change, Daemon!TypeOK
<1>19. CASE UNCHANGED Daemon!vars
  BY <1>19, <1>0 DEF Daemon!vars, Daemon!TypeOK, Daemon!Stopped, Daemon!Loop
<1> QED BY <1>1, <1>2, <1>3, <1>4, <1>5, <1>6, <1>7, <1>8, <1>9, <1>10,
  <1>11, <1>12, <1>13, <1>14, <1>15, <1>16, <1>17, <1>18, <1>19
  DEF Daemon!Next, Daemon!Open, Daemon!Serve

-----------------------------------------------------------------------------
(* The configuration *)

\* Odd and even numbers take turns.
LEMMA Turns ==
  ASSUME NEW n \in Nat
  PROVE  n % 2 \in {0, 1} /\ (n + 1) % 2 = 1 - (n % 2)
OBVIOUS

\* The state after an even number of events, and after an odd one.
LEMMA StateAt ==
  ASSUME NEW n \in Nat, NEW s
  PROVE  /\ n = 0 \/ (n % 2 = 1) => (StateIs(n, s) <=> s = "KEY")
         /\ n # 0 /\ (n % 2 # 1) =>
              (StateIs(n, s) <=> (s = IF doc[n].value \in {"socketPath", "filePath"}
                                     THEN doc[n].value ELSE "OTHER"))
BY DEF StateIs

\* The event after n others adds a value only behind a key of its name.
LEMMA ValueKept ==
  ASSUME NEW n \in Nat, NEW key, NEW v, ValueIs(key, n, v),
         (n % 2 = 1) \/ n = 0 \/ doc[n].value # key
  PROVE  ValueIs(key, n + 1, v)
<1>1. ASSUME NEW i \in Behind(key, n + 1) PROVE i \in Behind(key, n)
  <2>1. i \in 2..n /\ i % 2 = 0 /\ doc[i].value = key
    BY <1>1 DEF Behind
  <2>2. i # n
    BY <2>1
  <2>3. i \in 2..(n - 1)
    BY <2>1, <2>2
  <2> QED BY <2>1, <2>3 DEF Behind
<1>2. ASSUME NEW i \in Behind(key, n) PROVE i \in Behind(key, n + 1)
  <2>1. i \in 2..(n - 1) /\ i % 2 = 0 /\ doc[i].value = key
    BY <1>2 DEF Behind
  <2>2. i \in 2..((n + 1) - 1)
    BY <2>1
  <2> QED BY <2>1, <2>2 DEF Behind
<1>3. Behind(key, n + 1) = Behind(key, n)
  BY <1>1, <1>2
<1> QED BY <1>3 DEF ValueIs

\* The event behind a key gives it its value.
LEMMA ValueNew ==
  ASSUME NEW n \in Nat \ {0}, n % 2 = 0
  PROVE  ValueIs(doc[n].value, n + 1, doc[n + 1].value)
<1> DEFINE key == doc[n].value
<1>1. n \in 2..((n + 1) - 1)
  OBVIOUS
<1>2. n \in Behind(key, n + 1)
  BY <1>1 DEF Behind
<1>3. \A j \in Behind(key, n + 1) : j <= n
  BY DEF Behind
<1> QED BY <1>2, <1>3 DEF ValueIs

\* What the parser has read after n events.
ReadTo(n, c) ==
  /\ StateIs(n, c.state)
  /\ ValueIs("socketPath", n, c.socketPath) /\ ValueIs("filePath", n, c.filePath)

\* After one more event of a flat document the parser has what stands behind the keys.
LEMMA StepReads ==
  ASSUME doc \in Seq(Events), Daemon!Flat, NEW n \in Nat, n < Len(doc), doc[n + 1].value \in Daemon!Texts,
         NEW c \in Config, ReadTo(n, c),
         NEW m, m = IF n + 1 = Len(doc) THEN Len(doc) - 1 ELSE n + 1
  PROVE  ReadTo(m, Daemon!ParseStep(c, doc[n + 1]))
<1> DEFINE e == doc[n + 1]
           d == Daemon!ParseStep(c, e)
           paths == {"socketPath", "filePath"}
<1>0. Len(doc) \in Nat /\ n + 1 \in 1..Len(doc) /\ e \in Events
  OBVIOUS
<1>1. CASE n + 1 = Len(doc)
  <2>1. e.type = "end" /\ m = n
    BY <1>0, <1>1 DEF Daemon!Flat
  <2>2. d = c
    BY <1>0, <2>1, ParseStepIs
  <2> QED BY <2>1, <2>2
<1>2. CASE n + 1 # Len(doc)
  <2>1. m = n + 1 /\ n + 1 \in Nat
    BY <1>2
  \* What the step reads, in terms of the fields of what it leaves.
  <2>2. /\ StateIs(n, c.state) /\ ValueIs("socketPath", n, c.socketPath)
        /\ ValueIs("filePath", n, c.filePath)
    BY DEF ReadTo
  <2>3. SUFFICES /\ StateIs(n + 1, d.state)
                 /\ ValueIs("socketPath", n + 1, d.socketPath)
                 /\ ValueIs("filePath", n + 1, d.filePath)
    BY <2>1 DEF ReadTo
  <2>4. CASE n = 0
    <3>1. e.type = "mapping"
      BY <2>4 DEF Daemon!Flat
    <3>2. d.state = "KEY" /\ d.socketPath = c.socketPath /\ d.filePath = c.filePath
      BY <1>0, <3>1, ParseStepIs
    <3>3. (n + 1) % 2 = 1
      BY <2>4
    <3> HIDE DEF d
    <3>4. StateIs(n + 1, d.state)
      BY <2>1, <3>2, <3>3, StateAt
    <3> QED BY <2>2, <2>4, <3>2, <3>4, ValueKept
  <2>5. CASE n # 0
    <3>1. e.type = "scalar"
      BY <1>0, <1>2, <2>5 DEF Daemon!Flat
    <3>2. CASE n % 2 = 1
      <4>1. c.state = "KEY"
        BY <2>2, <3>2, StateAt
      <4>2. /\ d.socketPath = c.socketPath /\ d.filePath = c.filePath
            /\ d.state = IF e.value \in paths THEN e.value ELSE "OTHER"
        BY <1>0, <3>1, <4>1, ParseStepIs
      <4>3. n + 1 # 0 /\ (n + 1) % 2 # 1
        BY <3>2, Turns
      <4> HIDE DEF d
      <4>4. StateIs(n + 1, d.state)
        BY <2>1, <4>2, <4>3, StateAt
      <4> QED BY <2>2, <3>2, <4>2, <4>4, ValueKept
    <3>3. CASE n % 2 # 1 /\ doc[n].value \notin paths
      <4>1. c.state = "OTHER"
        BY <2>2, <2>5, <3>3, StateAt
      <4>2. d.socketPath = c.socketPath /\ d.filePath = c.filePath /\ d.state = "KEY"
        BY <1>0, <3>1, <4>1, ParseStepIs
      <4>3. (n + 1) % 2 = 1
        BY <3>3, Turns
      <4> HIDE DEF d
      <4>4. StateIs(n + 1, d.state)
        BY <2>1, <4>2, <4>3, StateAt
      <4> QED BY <2>2, <3>3, <4>2, <4>4, ValueKept
    <3>4. CASE n % 2 # 1 /\ doc[n].value = "socketPath"
      <4>1. c.state = "socketPath"
        BY <2>2, <2>5, <3>4, StateAt
      <4>2. d.socketPath = e.value /\ d.filePath = c.filePath /\ d.state = "KEY"
        BY <1>0, <3>1, <4>1, ParseStepIs
      <4>3. n % 2 = 0 /\ (n + 1) % 2 = 1
        BY <3>4, Turns
      <4> HIDE DEF d
      <4>4. StateIs(n + 1, d.state)
        BY <2>1, <4>2, <4>3, StateAt
      <4>5. ValueIs("socketPath", n + 1, e.value)
        BY <2>5, <3>4, <4>3, ValueNew
      <4>6. ValueIs("filePath", n + 1, c.filePath)
        BY <2>2, <3>4, ValueKept
      <4> QED BY <4>2, <4>4, <4>5, <4>6
    <3>5. CASE n % 2 # 1 /\ doc[n].value = "filePath"
      <4>1. c.state = "filePath"
        BY <2>2, <2>5, <3>5, StateAt
      <4>2. d.filePath = e.value /\ d.socketPath = c.socketPath /\ d.state = "KEY"
        BY <1>0, <3>1, <4>1, ParseStepIs
      <4>3. n % 2 = 0 /\ (n + 1) % 2 = 1
        BY <3>5, Turns
      <4> HIDE DEF d
      <4>4. StateIs(n + 1, d.state)
        BY <2>1, <4>2, <4>3, StateAt
      <4>5. ValueIs("filePath", n + 1, e.value)
        BY <2>5, <3>5, <4>3, ValueNew
      <4>6. ValueIs("socketPath", n + 1, c.socketPath)
        BY <2>2, <3>5, ValueKept
      <4> QED BY <4>2, <4>4, <4>5, <4>6
    <3> QED BY <3>2, <3>3, <3>4, <3>5
  <2> QED BY <2>4, <2>5
<1> QED BY <1>1, <1>2

\* The document is read and never changed.
LEMMA DocFixed ==
  ASSUME doc' = doc
  PROVE  /\ Daemon!Flat' <=> Daemon!Flat
         /\ \A n, s : StateIs(n, s)' <=> StateIs(n, s)
         /\ \A key, n, v : ValueIs(key, n, v)' <=> ValueIs(key, n, v)
BY DEF Daemon!Flat, StateIs, ValueIs, Behind

\* A step that reads no event keeps what was read.
LEMMA ReadFrame ==
  ASSUME ReadInv, UNCHANGED <<doc, at, config>>,
         \A p \in Instances : pc'[p] \notin {"off", "config", "failed", "crashed", "killed"} =>
           pc[p] \notin {"off", "config", "failed", "crashed", "killed"} \/ at[p] = Len(doc)
  PROVE  ReadInv'
<1>1. \A p \in Instances : Parsed(p)' = Parsed(p)
  BY DEF Parsed
<1> QED BY <1>1, DocFixed DEF ReadInv

\* Every step keeps the configurations true to the document.
LEMMA NextRead ==
  ASSUME Daemon!DaemonAssumption, Daemon!TypeOK, ReadInv, [Daemon!Next]_Daemon!vars
  PROVE  ReadInv'
<1> USE DEF Daemon!parser, Daemon!server, Daemon!world
<1>1. ASSUME NEW p \in Instances, Daemon!Start(p) PROVE ReadInv'
  BY <1>1, ReadFrame DEF Daemon!Start, Daemon!Stop, Daemon!Goto, Daemon!TypeOK
<1>2. ASSUME NEW p \in Instances, Daemon!ParseEvent(p) PROVE ReadInv'
  <2>1. /\ at' = [at EXCEPT ![p] = at[p] + 1] /\ at'[p] = at[p] + 1 /\ doc' = doc /\ pc' = pc
        /\ pc[p] = "config" /\ at[p] < Len(doc) /\ at[p] \in Nat
    BY <1>2, DocType DEF Daemon!ParseEvent, Daemon!TypeOK
  <2>2. config' = [config EXCEPT ![p] = Daemon!ParseStep(config[p], doc[at[p] + 1])]
    BY <1>2, <2>1 DEF Daemon!ParseEvent
  <2>3. /\ config'[p] = Daemon!ParseStep(config[p], doc[at[p] + 1]) /\ config[p] \in Config
        /\ \A q \in Instances \ {p} : config'[q] = config[q] /\ at'[q] = at[q]
    BY <2>1, <2>2 DEF Daemon!TypeOK, Config
  <2>4. \A q \in Instances \ {p} : Parsed(q)' = Parsed(q)
    BY <2>1, <2>3 DEF Parsed
  <2>5. Parsed(p) = at[p] /\ Parsed(p)' = IF at[p] + 1 = Len(doc) THEN Len(doc) - 1 ELSE at[p] + 1
    BY <2>1, DocType DEF Parsed
  <2>6. ASSUME Daemon!Flat
        PROVE  /\ StateIs(Parsed(p)', config'[p].state)
                      /\ ValueIs("socketPath", Parsed(p)', config'[p].socketPath)
                      /\ ValueIs("filePath", Parsed(p)', config'[p].filePath)
    <3> DEFINE n == at[p]
               c == config[p]
               m == IF n + 1 = Len(doc) THEN Len(doc) - 1 ELSE n + 1
    <3>1. /\ doc \in Seq(Events) /\ n \in Nat /\ n < Len(doc) /\ c \in Config
          /\ doc[n + 1].value \in Daemon!Texts
      BY <2>1, <2>3, DocType
    <3>2. ReadTo(n, c)
      BY <2>5, <2>6 DEF ReadInv, ReadTo
    <3> HIDE DEF n, c
    <3>3. ReadTo(m, Daemon!ParseStep(c, doc[n + 1]))
      BY <2>6, <3>1, <3>2, StepReads
    <3> QED BY <2>3, <2>5, <3>3 DEF n, c, ReadTo
  <2>7. ASSUME Daemon!Flat'
        PROVE  /\ StateIs(Parsed(p), config[p].state)'
                      /\ ValueIs("socketPath", Parsed(p), config[p].socketPath)'
                      /\ ValueIs("filePath", Parsed(p), config[p].filePath)'
    BY <2>1, <2>6, <2>7, DocFixed
  <2>8. ASSUME NEW q \in Instances \ {p}, Daemon!Flat'
        PROVE  /\ StateIs(Parsed(q), config[q].state)'
               /\ ValueIs("socketPath", Parsed(q), config[q].socketPath)'
               /\ ValueIs("filePath", Parsed(q), config[q].filePath)'
    BY <2>1, <2>3, <2>4, <2>8, DocFixed DEF ReadInv
  <2> QED BY <2>1, <2>3, <2>7, <2>8 DEF ReadInv
<1>3. ASSUME NEW p \in Instances, Daemon!ParseFails(p) PROVE ReadInv'
  BY <1>3, ReadFrame DEF Daemon!ParseFails, Daemon!Stop, Daemon!Goto, Daemon!TypeOK
<1>4. ASSUME NEW p \in Instances, Daemon!CheckConfig(p) PROVE ReadInv'
  BY <1>4, ReadFrame DEF Daemon!CheckConfig, Daemon!Stop, Daemon!Goto, Daemon!TypeOK
<1>5. ASSUME NEW p \in Instances, Daemon!Unlink(p) PROVE ReadInv'
  BY <1>5, ReadFrame DEF Daemon!Unlink, Daemon!Goto, Daemon!TypeOK
<1>6. ASSUME NEW p \in Instances, Daemon!Socket(p) PROVE ReadInv'
  BY <1>6, ReadFrame DEF Daemon!Socket, Daemon!Stop, Daemon!Goto, Daemon!TypeOK
<1>7. ASSUME NEW p \in Instances, Daemon!Bind(p) PROVE ReadInv'
  BY <1>7, ReadFrame DEF Daemon!Bind, Daemon!Goto, Daemon!TypeOK
<1>8. ASSUME NEW p \in Instances, Daemon!Listen(p) PROVE ReadInv'
  BY <1>8, ReadFrame DEF Daemon!Listen, Daemon!Stop, Daemon!Goto, Daemon!TypeOK
<1>9. ASSUME NEW p \in Instances, Daemon!AcceptDeaf(p) PROVE ReadInv'
  BY <1>9, ReadFrame DEF Daemon!AcceptDeaf, Daemon!vars
<1>10. ASSUME NEW p \in Instances, Daemon!Accept(p) PROVE ReadInv'
  BY <1>10, ReadFrame DEF Daemon!Accept, Daemon!Goto, Daemon!TypeOK
<1>11. ASSUME NEW p \in Instances, Daemon!AcceptFails(p) PROVE ReadInv'
  BY <1>11, ReadFrame DEF Daemon!AcceptFails, Daemon!Goto, Daemon!TypeOK
<1>12. ASSUME NEW p \in Instances, Daemon!Stat(p) PROVE ReadInv'
  BY <1>12, ReadFrame DEF Daemon!Stat, Daemon!Goto, Daemon!TypeOK
<1>13. ASSUME NEW p \in Instances, Daemon!Write(p) PROVE ReadInv'
  BY <1>13, ReadFrame DEF Daemon!Write, Daemon!Goto, Daemon!TypeOK
<1>14. ASSUME NEW p \in Instances, Daemon!Close(p) PROVE ReadInv'
  BY <1>14, ReadFrame DEF Daemon!Close, Daemon!Goto, Daemon!TypeOK
<1>15. ASSUME NEW p \in Instances, Daemon!Kill(p) PROVE ReadInv'
  BY <1>15, ReadFrame DEF Daemon!Kill, Daemon!Stop, Daemon!Goto, Daemon!TypeOK
<1>16. ASSUME NEW c \in Clients, Daemon!Connect(c) PROVE ReadInv'
  BY <1>16, ReadFrame DEF Daemon!Connect
<1>17. ASSUME NEW c \in Clients, Daemon!Leave(c) PROVE ReadInv'
  BY <1>17, ReadFrame DEF Daemon!Leave
<1>18. CASE Daemon!Change
  BY <1>18, ReadFrame DEF Daemon!Change
<1>19. CASE UNCHANGED Daemon!vars
  BY <1>19, ReadFrame DEF Daemon!vars
<1> QED BY <1>1, <1>2, <1>3, <1>4, <1>5, <1>6, <1>7, <1>8, <1>9, <1>10,
  <1>11, <1>12, <1>13, <1>14, <1>15, <1>16, <1>17, <1>18, <1>19
  DEF Daemon!Next, Daemon!Open, Daemon!Serve

\* A configuration that was read to the end has the last value of each key.
LEMMA ReadToTheEnd ==
  ASSUME Daemon!DaemonAssumption, Daemon!TypeOK, ReadInv
  PROVE  Daemon!ConfigRead
<1> SUFFICES ASSUME NEW p \in Instances, Daemon!Flat, pc[p] \notin {"off", "config", "failed", "crashed", "killed"}
             PROVE  /\ config[p].socketPath = Daemon!LastValue("socketPath")
                    /\ config[p].filePath = Daemon!LastValue("filePath")
  BY DEF Daemon!ConfigRead
<1>1. /\ ValueIs("socketPath", Len(doc) - 1, config[p].socketPath)
      /\ ValueIs("filePath", Len(doc) - 1, config[p].filePath)
  BY DEF ReadInv, Parsed
<1>2. ASSUME NEW key, NEW v, ValueIs(key, Len(doc) - 1, v)
      PROVE  v = Daemon!LastValue(key)
  <2> DEFINE K == {i \in 2..(Len(doc) - 2) : i % 2 = 0 /\ doc[i].value = key}
  <2>1. Len(doc) \in Nat
    BY DocType
  <2>2. Behind(key, Len(doc) - 1) = K
    BY <2>1 DEF Behind
  <2>3. Daemon!LastValue(key) =
          IF K = {} THEN Daemon!Unset ELSE doc[(CHOOSE i \in K : \A j \in K : j <= i) + 1].value
    BY DEF Daemon!LastValue
  <2>4. \A i \in K : i \in Nat
    BY <2>1
  <2> HIDE DEF K
  <2>5. CASE K = {}
    BY <1>2, <2>2, <2>3, <2>5 DEF ValueIs
  <2>6. CASE K # {}
    <3>1. PICK i \in K : (\A j \in K : j <= i) /\ v = doc[i + 1].value
      BY <1>2, <2>2, <2>6 DEF ValueIs
    <3> DEFINE h == CHOOSE k \in K : \A j \in K : j <= k
    <3>2. h \in K /\ \A j \in K : j <= h
      BY <3>1
    <3> HIDE DEF h
    <3>3. h = i
      BY <2>4, <3>1, <3>2
    <3> QED BY <2>3, <2>6, <3>1, <3>3 DEF h
  <2> QED BY <2>5, <2>6
<1> QED BY <1>1, <1>2

-----------------------------------------------------------------------------
(* The name of the socket *)

\* A step that leaves the name alone, and brings nobody between the unlink and the bind.
LEMMA NameFrame ==
  ASSUME NameInv, Daemon!StaleNameNoObstacle, UNCHANGED <<path, rivals>>,
         \A p \in Instances :
           /\ pc'[p] \in {"socket", "bind"} => pc[p] \in {"socket", "bind"}
           /\ pc'[p] = "in use" => pc[p] = "in use"
  PROVE  NameInv' /\ Daemon!StaleNameNoObstacle'
BY DEF NameInv, Daemon!StaleNameNoObstacle

\* Every step keeps the name of a dead instance from being an obstacle.
LEMMA NextName ==
  ASSUME Daemon!DaemonAssumption, Daemon!TypeOK, NameInv, Daemon!StaleNameNoObstacle, [Daemon!Next]_Daemon!vars
  PROVE  NameInv' /\ Daemon!StaleNameNoObstacle'
<1> USE DEF Daemon!parser, Daemon!server, Daemon!world
<1>1. ASSUME NEW p \in Instances, Daemon!Start(p) PROVE NameInv' /\ Daemon!StaleNameNoObstacle'
  BY <1>1, NameFrame DEF Daemon!Start, Daemon!Stop, Daemon!Goto, Daemon!TypeOK
<1>2. ASSUME NEW p \in Instances, Daemon!ParseEvent(p) PROVE NameInv' /\ Daemon!StaleNameNoObstacle'
  BY <1>2, NameFrame DEF Daemon!ParseEvent, Daemon!TypeOK
<1>3. ASSUME NEW p \in Instances, Daemon!ParseFails(p) PROVE NameInv' /\ Daemon!StaleNameNoObstacle'
  BY <1>3, NameFrame DEF Daemon!ParseFails, Daemon!Stop, Daemon!Goto, Daemon!TypeOK
<1>4. ASSUME NEW p \in Instances, Daemon!CheckConfig(p) PROVE NameInv' /\ Daemon!StaleNameNoObstacle'
  BY <1>4, NameFrame DEF Daemon!CheckConfig, Daemon!Stop, Daemon!Goto, Daemon!TypeOK
<1>5. ASSUME NEW p \in Instances, Daemon!Unlink(p) PROVE NameInv' /\ Daemon!StaleNameNoObstacle'
  <2>1. /\ \A q \in Instances \ {p} : pc'[q] = pc[q] /\ rivals'[q] = rivals[q]
        /\ \/ path' = Daemon!NoOne /\ pc'[p] = "socket"
           \/ path' = path /\ pc'[p] = "failed"
    BY <1>5 DEF Daemon!Unlink, Daemon!NameRemoved, Daemon!Goto, Daemon!TypeOK
  <2> QED BY <2>1 DEF NameInv, Daemon!StaleNameNoObstacle
<1>6. ASSUME NEW p \in Instances, Daemon!Socket(p) PROVE NameInv' /\ Daemon!StaleNameNoObstacle'
  BY <1>6, NameFrame DEF Daemon!Socket, Daemon!Stop, Daemon!Goto, Daemon!TypeOK
<1>7. ASSUME NEW p \in Instances, Daemon!Bind(p) PROVE NameInv' /\ Daemon!StaleNameNoObstacle'
  <2>1. /\ pc[p] = "bind" /\ \A q \in Instances \ {p} : pc'[q] = pc[q]
    BY <1>7 DEF Daemon!Bind, Daemon!Goto, Daemon!TypeOK
  <2>2. CASE path = Daemon!NoOne
    <3>1. path' = p /\ pc'[p] = "listen" /\ \A q \in Instances : rivals'[q] = rivals[q] \cup {p}
      BY <1>7, <2>2 DEF Daemon!Bind, Daemon!Goto, Daemon!TypeOK
    <3> QED BY <2>1, <3>1 DEF NameInv, Daemon!StaleNameNoObstacle
  <2>3. CASE path # Daemon!NoOne
    <3>1. path' = path /\ pc'[p] = "in use" /\ rivals' = rivals
      BY <1>7, <2>3 DEF Daemon!Bind, Daemon!Goto, Daemon!TypeOK
    <3> QED BY <2>1, <2>3, <3>1 DEF NameInv, Daemon!StaleNameNoObstacle
  <2> QED BY <2>2, <2>3
<1>8. ASSUME NEW p \in Instances, Daemon!Listen(p) PROVE NameInv' /\ Daemon!StaleNameNoObstacle'
  BY <1>8, NameFrame DEF Daemon!Listen, Daemon!Stop, Daemon!Goto, Daemon!TypeOK
<1>9. ASSUME NEW p \in Instances, Daemon!AcceptDeaf(p) PROVE NameInv' /\ Daemon!StaleNameNoObstacle'
  BY <1>9, NameFrame DEF Daemon!AcceptDeaf, Daemon!vars, Daemon!TypeOK
<1>10. ASSUME NEW p \in Instances, Daemon!Accept(p) PROVE NameInv' /\ Daemon!StaleNameNoObstacle'
  BY <1>10, NameFrame DEF Daemon!Accept, Daemon!Goto, Daemon!TypeOK
<1>11. ASSUME NEW p \in Instances, Daemon!AcceptFails(p) PROVE NameInv' /\ Daemon!StaleNameNoObstacle'
  BY <1>11, NameFrame DEF Daemon!AcceptFails, Daemon!Goto, Daemon!TypeOK
<1>12. ASSUME NEW p \in Instances, Daemon!Stat(p) PROVE NameInv' /\ Daemon!StaleNameNoObstacle'
  BY <1>12, NameFrame DEF Daemon!Stat, Daemon!Goto, Daemon!TypeOK
<1>13. ASSUME NEW p \in Instances, Daemon!Write(p) PROVE NameInv' /\ Daemon!StaleNameNoObstacle'
  BY <1>13, NameFrame DEF Daemon!Write, Daemon!Goto, Daemon!TypeOK
<1>14. ASSUME NEW p \in Instances, Daemon!Close(p) PROVE NameInv' /\ Daemon!StaleNameNoObstacle'
  BY <1>14, NameFrame DEF Daemon!Close, Daemon!Goto, Daemon!TypeOK
<1>15. ASSUME NEW p \in Instances, Daemon!Kill(p) PROVE NameInv' /\ Daemon!StaleNameNoObstacle'
  BY <1>15, NameFrame DEF Daemon!Kill, Daemon!Stop, Daemon!Goto, Daemon!TypeOK
<1>16. ASSUME NEW c \in Clients, Daemon!Connect(c) PROVE NameInv' /\ Daemon!StaleNameNoObstacle'
  BY <1>16, NameFrame DEF Daemon!Connect, Daemon!TypeOK
<1>17. ASSUME NEW c \in Clients, Daemon!Leave(c) PROVE NameInv' /\ Daemon!StaleNameNoObstacle'
  BY <1>17, NameFrame DEF Daemon!Leave, Daemon!TypeOK
<1>18. CASE Daemon!Change
  BY <1>18, NameFrame DEF Daemon!Change, Daemon!TypeOK
<1>19. CASE UNCHANGED Daemon!vars
  BY <1>19, NameFrame DEF Daemon!vars
<1> QED BY <1>1, <1>2, <1>3, <1>4, <1>5, <1>6, <1>7, <1>8, <1>9, <1>10,
  <1>11, <1>12, <1>13, <1>14, <1>15, <1>16, <1>17, <1>18, <1>19
  DEF Daemon!Next, Daemon!Open, Daemon!Serve

-----------------------------------------------------------------------------
(* The answers *)

\* A step that neither connects a client nor changes the file keeps the windows.
LEMMA WindowFrame ==
  ASSUME Daemon!TypeOK, WindowInv, file' = file, window' = window,
         \A c \in Clients : (peer'[c] = "idle" <=> peer[c] = "idle")
           /\ (peer[c] = "idle" => got'[c] = got[c]),
         \A p \in Instances :
           /\ \A i \in 1..Len(queue'[p]) : \E j \in 1..Len(queue[p]) : queue'[p][i] = queue[p][j]
           /\ client'[p] \in {client[p], Daemon!NoOne} \/ \E j \in 1..Len(queue[p]) : client'[p] = queue[p][j]
  PROVE  WindowInv'
<1>1. /\ \A p \in Instances : \A i \in 1..Len(queue[p]) : queue[p][i] \in Clients
      /\ \A p \in Instances : client[p] \in Clients \cup {Daemon!NoOne}
  BY DEF Daemon!TypeOK
<1>2. ASSUME NEW c \in Clients PROVE IF peer'[c] = "idle" THEN got'[c] = Daemon!NoOne ELSE file' \in window'[c]
  BY DEF WindowInv
<1>3. ASSUME NEW p \in Instances, NEW i \in 1..Len(queue'[p]) PROVE peer'[queue'[p][i]] # "idle"
  BY <1>1, <1>3 DEF WindowInv
<1>4. ASSUME NEW p \in Instances, client'[p] # Daemon!NoOne PROVE peer'[client'[p]] # "idle"
  BY <1>1, <1>4 DEF WindowInv
<1> QED BY <1>2, <1>3, <1>4 DEF WindowInv

\* Every step keeps the file in the windows of the clients that have connected.
LEMMA NextWindow ==
  ASSUME Daemon!DaemonAssumption, Daemon!TypeOK, WindowInv, [Daemon!Next]_Daemon!vars
  PROVE  WindowInv'
<1> USE DEF Daemon!parser, Daemon!server, Daemon!world
<1>1. ASSUME NEW p \in Instances, Daemon!Start(p) PROVE WindowInv'
  BY <1>1, WindowFrame DEF Daemon!Start, Daemon!Stop, Daemon!Goto, Daemon!TypeOK
<1>2. ASSUME NEW p \in Instances, Daemon!ParseEvent(p) PROVE WindowInv'
  BY <1>2, WindowFrame DEF Daemon!ParseEvent, Daemon!TypeOK
<1>3. ASSUME NEW p \in Instances, Daemon!ParseFails(p) PROVE WindowInv'
  BY <1>3, WindowFrame DEF Daemon!ParseFails, Daemon!Stop, Daemon!Goto, Daemon!TypeOK
<1>4. ASSUME NEW p \in Instances, Daemon!CheckConfig(p) PROVE WindowInv'
  BY <1>4, WindowFrame DEF Daemon!CheckConfig, Daemon!Stop, Daemon!Goto, Daemon!TypeOK
<1>5. ASSUME NEW p \in Instances, Daemon!Unlink(p) PROVE WindowInv'
  BY <1>5, WindowFrame DEF Daemon!Unlink, Daemon!Goto, Daemon!TypeOK
<1>6. ASSUME NEW p \in Instances, Daemon!Socket(p) PROVE WindowInv'
  BY <1>6, WindowFrame DEF Daemon!Socket, Daemon!Stop, Daemon!Goto, Daemon!TypeOK
<1>7. ASSUME NEW p \in Instances, Daemon!Bind(p) PROVE WindowInv'
  BY <1>7, WindowFrame DEF Daemon!Bind, Daemon!Goto, Daemon!TypeOK
<1>8. ASSUME NEW p \in Instances, Daemon!Listen(p) PROVE WindowInv'
  BY <1>8, WindowFrame DEF Daemon!Listen, Daemon!Stop, Daemon!Goto, Daemon!TypeOK
<1>9. ASSUME NEW p \in Instances, Daemon!AcceptDeaf(p) PROVE WindowInv'
  BY <1>9, WindowFrame DEF Daemon!AcceptDeaf, Daemon!vars, Daemon!TypeOK
<1>10. ASSUME NEW p \in Instances, Daemon!Accept(p) PROVE WindowInv'
  <2>1. queue[p] \in Seq(Clients) /\ queue[p] # <<>>
    BY <1>10 DEF Daemon!Accept, Daemon!TypeOK
  <2>2. /\ Len(queue[p]) \in Nat \ {0} /\ Head(queue[p]) = queue[p][1]
        /\ Len(Tail(queue[p])) = Len(queue[p]) - 1
        /\ \A i \in 1..Len(Tail(queue[p])) : Tail(queue[p])[i] = queue[p][i + 1]
    BY <2>1, HeadTailProperties
  <2>3. /\ queue'[p] = Tail(queue[p]) /\ client'[p] = Head(queue[p])
        /\ \A q \in Instances \ {p} : queue'[q] = queue[q] /\ client'[q] = client[q]
        /\ UNCHANGED <<file, window, peer, got>>
    BY <1>10 DEF Daemon!Accept, Daemon!Rest, Daemon!TypeOK
  <2>4. ASSUME NEW i \in 1..Len(queue'[p]) PROVE \E j \in 1..Len(queue[p]) : queue'[p][i] = queue[p][j]
    <3> DEFINE s == queue[p]
               t == Tail(s)
    <3>1. queue'[p] = t /\ i \in 1..Len(t) /\ Len(t) = Len(s) - 1 /\ Len(s) \in Nat /\ t[i] = s[i + 1]
      BY <2>2, <2>3, <2>4
    <3> HIDE DEF s, t
    <3>2. i + 1 \in 1..Len(s)
      BY <3>1
    <3> QED BY <3>1, <3>2 DEF s
  <2>5. 1 \in 1..Len(queue[p])
    BY <2>2
  <2>6. ASSUME NEW q \in Instances
        PROVE  /\ \A i \in 1..Len(queue'[q]) : \E j \in 1..Len(queue[q]) : queue'[q][i] = queue[q][j]
               /\ client'[q] \in {client[q], Daemon!NoOne} \/ \E j \in 1..Len(queue[q]) : client'[q] = queue[q][j]
    <3>1. CASE q = p
      BY <2>2, <2>3, <2>4, <2>5, <3>1
    <3>2. CASE q # p
      BY <2>3, <3>2
    <3> QED BY <3>1, <3>2
  <2> QED BY <2>3, <2>6, WindowFrame
<1>11. ASSUME NEW p \in Instances, Daemon!AcceptFails(p) PROVE WindowInv'
  BY <1>11, WindowFrame DEF Daemon!AcceptFails, Daemon!Goto, Daemon!TypeOK
<1>12. ASSUME NEW p \in Instances, Daemon!Stat(p) PROVE WindowInv'
  BY <1>12, WindowFrame DEF Daemon!Stat, Daemon!Goto, Daemon!TypeOK
<1>13. ASSUME NEW p \in Instances, Daemon!Write(p) PROVE WindowInv'
  <2>1. \A c \in Clients : peer[c] = "idle" => got'[c] = got[c]
    <3>1. client[p] # Daemon!NoOne => peer[client[p]] # "idle" /\ client[p] \in Clients
      BY DEF WindowInv, Daemon!TypeOK
    <3> QED BY <1>13, <3>1 DEF Daemon!Write, Daemon!Unreachable, Daemon!TypeOK
  <2> QED BY <1>13, <2>1, WindowFrame DEF Daemon!Write
<1>14. ASSUME NEW p \in Instances, Daemon!Close(p) PROVE WindowInv'
  <2>1. \A c \in Clients : peer'[c] = "idle" <=> peer[c] = "idle"
    <3>1. client[p] # Daemon!NoOne => peer[client[p]] # "idle"
      BY DEF WindowInv
    <3> QED BY <1>14, <3>1 DEF Daemon!Close, Daemon!DaemonAssumption
  <2>2. UNCHANGED <<file, window, got, queue>> /\ \A q \in Instances : client'[q] \in {client[q], Daemon!NoOne}
    BY <1>14 DEF Daemon!Close, Daemon!TypeOK
  <2> QED BY <2>1, <2>2, WindowFrame
<1>15. ASSUME NEW p \in Instances, Daemon!Kill(p) PROVE WindowInv'
  BY <1>15, WindowFrame DEF Daemon!Kill, Daemon!Stop, Daemon!Goto, Daemon!TypeOK
<1>16. ASSUME NEW c \in Clients, Daemon!Connect(c) PROVE WindowInv'
  <2>1. path \in Instances
    BY <1>16 DEF Daemon!Connect, Daemon!TypeOK
  <2>2. /\ Len(queue[path]) \in Nat /\ Len(Append(queue[path], c)) = Len(queue[path]) + 1
        /\ Append(queue[path], c)[Len(queue[path]) + 1] = c
        /\ \A i \in 1..Len(queue[path]) : Append(queue[path], c)[i] = queue[path][i]
    BY <2>1, AppendProperties DEF Daemon!TypeOK
  <2>3. /\ queue'[path] = Append(queue[path], c) /\ \A q \in Instances \ {path} : queue'[q] = queue[q]
        /\ UNCHANGED <<file, got, client>>
    BY <1>16, <2>1 DEF Daemon!Connect, Daemon!TypeOK
  <2>4. /\ peer'[c] = "waiting" /\ window'[c] = {file}
        /\ \A d \in Clients \ {c} : peer'[d] = peer[d] /\ window'[d] = window[d]
    BY <1>16 DEF Daemon!Connect, Daemon!TypeOK
  <2>5. ASSUME NEW q \in Instances, NEW i \in 1..Len(queue'[q]) PROVE peer'[queue'[q][i]] # "idle"
    <3>1. queue'[q][i] = c \/ (i \in 1..Len(queue[q]) /\ queue'[q][i] = queue[q][i])
      <4>1. CASE q = path
        BY <2>2, <2>3, <2>5, <4>1
      <4>2. CASE q # path
        BY <2>3, <2>5, <4>2
      <4> QED BY <4>1, <4>2
    <3>2. CASE queue'[q][i] = c
      BY <2>4, <3>2
    <3>3. CASE i \in 1..Len(queue[q]) /\ queue'[q][i] = queue[q][i]
      <4>1. queue[q][i] \in Clients /\ peer[queue[q][i]] # "idle"
        BY <3>3 DEF WindowInv, Daemon!TypeOK
      <4> QED BY <2>4, <3>3, <4>1
    <3> QED BY <3>1, <3>2, <3>3
  <2>6. ASSUME NEW q \in Instances, client'[q] # Daemon!NoOne PROVE peer'[client'[q]] # "idle"
    <3>1. client[q] \in Clients /\ peer[client[q]] # "idle" /\ client'[q] = client[q]
      BY <2>3, <2>6 DEF WindowInv, Daemon!TypeOK
    <3> QED BY <2>4, <3>1
  <2> QED BY <2>3, <2>4, <2>5, <2>6 DEF WindowInv
<1>17. ASSUME NEW c \in Clients, Daemon!Leave(c) PROVE WindowInv'
  BY <1>17, WindowFrame DEF Daemon!Leave, Daemon!TypeOK
<1>18. CASE Daemon!Change
  <2>1. /\ \A c \in Clients : window'[c] = IF peer[c] = "idle" THEN {} ELSE window[c] \cup {file'}
        /\ UNCHANGED <<peer, got, queue, client>>
    BY <1>18 DEF Daemon!Change
  <2> QED BY <2>1 DEF WindowInv
<1>19. CASE UNCHANGED Daemon!vars
  BY <1>19, WindowFrame DEF Daemon!vars
<1> QED BY <1>1, <1>2, <1>3, <1>4, <1>5, <1>6, <1>7, <1>8, <1>9, <1>10,
  <1>11, <1>12, <1>13, <1>14, <1>15, <1>16, <1>17, <1>18, <1>19
  DEF Daemon!Next, Daemon!Open, Daemon!Serve

\* A step of the world or of other instances keeps what an instance has in hand.
LEMMA HandFrame ==
  ASSUME Daemon!TypeOK, HandInv,
         \A c \in Clients : window[c] \subseteq window'[c] \/ peer[c] = "idle",
         WindowInv,
         \A c \in Clients : got[c] # Daemon!NoOne => got'[c] # Daemon!NoOne,
         \A p \in Instances : pc'[p] \in {"write", "close"} =>
           pc'[p] = pc[p] /\ client'[p] = client[p] /\ message'[p] = message[p]
  PROVE  HandInv'
<1> SUFFICES ASSUME NEW p \in Instances, pc'[p] \in {"write", "close"}
             PROVE  /\ pc'[p] = "write" => message'[p] \in Sizes
                    /\ pc'[p] = "write" /\ client'[p] # Daemon!NoOne => message'[p] \in window'[client'[p]]
                    /\ pc'[p] = "close" /\ client'[p] # Daemon!NoOne => got'[client'[p]] # Daemon!NoOne
  BY DEF HandInv
<1>1. client[p] # Daemon!NoOne => client[p] \in Clients /\ peer[client[p]] # "idle"
  BY DEF Daemon!TypeOK, WindowInv
<1> QED BY <1>1 DEF HandInv

\* Every step keeps what the instances have in hand fresh.
LEMMA NextHand ==
  ASSUME Daemon!DaemonAssumption, Daemon!TypeOK, WindowInv, HandInv, [Daemon!Next]_Daemon!vars
  PROVE  HandInv'
<1> USE DEF Daemon!parser, Daemon!server, Daemon!world
<1>1. ASSUME NEW p \in Instances, Daemon!Start(p) PROVE HandInv'
  BY <1>1, HandFrame DEF Daemon!Start, Daemon!Stop, Daemon!Goto, Daemon!TypeOK
<1>2. ASSUME NEW p \in Instances, Daemon!ParseEvent(p) PROVE HandInv'
  BY <1>2, HandFrame DEF Daemon!ParseEvent, Daemon!TypeOK
<1>3. ASSUME NEW p \in Instances, Daemon!ParseFails(p) PROVE HandInv'
  BY <1>3, HandFrame DEF Daemon!ParseFails, Daemon!Stop, Daemon!Goto, Daemon!TypeOK
<1>4. ASSUME NEW p \in Instances, Daemon!CheckConfig(p) PROVE HandInv'
  <2>1. /\ UNCHANGED <<window, got, message, client>> /\ pc'[p] \in {"failed", "crashed", "unlink"}
        /\ \A q \in Instances \ {p} : pc'[q] = pc[q]
    BY <1>4 DEF Daemon!CheckConfig, Daemon!Stop, Daemon!Goto, Daemon!TypeOK
  <2> QED BY <2>1, HandFrame
<1>5. ASSUME NEW p \in Instances, Daemon!Unlink(p) PROVE HandInv'
  BY <1>5, HandFrame DEF Daemon!Unlink, Daemon!Goto, Daemon!TypeOK
<1>6. ASSUME NEW p \in Instances, Daemon!Socket(p) PROVE HandInv'
  BY <1>6, HandFrame DEF Daemon!Socket, Daemon!Stop, Daemon!Goto, Daemon!TypeOK
<1>7. ASSUME NEW p \in Instances, Daemon!Bind(p) PROVE HandInv'
  BY <1>7, HandFrame DEF Daemon!Bind, Daemon!Goto, Daemon!TypeOK
<1>8. ASSUME NEW p \in Instances, Daemon!Listen(p) PROVE HandInv'
  BY <1>8, HandFrame DEF Daemon!Listen, Daemon!Stop, Daemon!Goto, Daemon!TypeOK
<1>9. ASSUME NEW p \in Instances, Daemon!AcceptDeaf(p) PROVE HandInv'
  BY <1>9, HandFrame DEF Daemon!AcceptDeaf, Daemon!vars, Daemon!TypeOK
<1>10. ASSUME NEW p \in Instances, Daemon!Accept(p) PROVE HandInv'
  <2>1. /\ UNCHANGED <<window, got, message>> /\ pc'[p] = "stat"
        /\ \A q \in Instances \ {p} : pc'[q] = pc[q] /\ client'[q] = client[q]
    BY <1>10 DEF Daemon!Accept, Daemon!Goto, Daemon!TypeOK
  <2> QED BY <2>1, HandFrame
<1>11. ASSUME NEW p \in Instances, Daemon!AcceptFails(p) PROVE HandInv'
  <2>1. /\ UNCHANGED <<window, got, message>> /\ pc'[p] = "stat"
        /\ \A q \in Instances \ {p} : pc'[q] = pc[q] /\ client'[q] = client[q]
    BY <1>11 DEF Daemon!AcceptFails, Daemon!Goto, Daemon!TypeOK
  <2> QED BY <2>1, HandFrame
<1>12. ASSUME NEW p \in Instances, Daemon!Stat(p) PROVE HandInv'
  <2>1. CASE pc'[p] = "crashed"
    <3>1. UNCHANGED <<window, got, client>> /\ \A q \in Instances \ {p} : pc'[q] = pc[q]
            /\ message'[q] = message[q]
      BY <1>12 DEF Daemon!Stat, Daemon!Goto, Daemon!TypeOK
    <3> QED BY <2>1, <3>1, HandFrame
  <2>2. CASE pc'[p] # "crashed"
    <3>1. /\ pc'[p] = "write" /\ message'[p] = file /\ file \in Sizes
          /\ UNCHANGED <<window, got, client>> /\ \A q \in Instances \ {p} : pc'[q] = pc[q]
               /\ message'[q] = message[q]
      BY <1>12, <2>2 DEF Daemon!Stat, Daemon!SizeText, Daemon!Goto, Daemon!TypeOK
    <3>2. client[p] # Daemon!NoOne => file \in window[client[p]]
      BY DEF WindowInv, Daemon!TypeOK
    <3> QED BY <3>1, <3>2 DEF HandInv
  <2> QED BY <2>1, <2>2
<1>13. ASSUME NEW p \in Instances, Daemon!Write(p) PROVE HandInv'
  <2>1. /\ UNCHANGED <<window, client, message>> /\ pc[p] = "write" /\ pc'[p] \in {"close", "killed"}
        /\ \A q \in Instances \ {p} : pc'[q] = pc[q]
    BY <1>13 DEF Daemon!Write, Daemon!Goto, Daemon!TypeOK
  <2>2. message[p] \in Sizes /\ message[p] # Daemon!NoOne
    BY <2>1 DEF HandInv, Daemon!DaemonAssumption
  <2>3. \A c \in Clients : got[c] # Daemon!NoOne => got'[c] # Daemon!NoOne
    BY <1>13, <2>2 DEF Daemon!Write, Daemon!TypeOK
  <2>4. pc'[p] = "close" /\ client[p] # Daemon!NoOne => got'[client[p]] # Daemon!NoOne
    BY <1>13, <2>1, <2>2 DEF Daemon!Write, Daemon!Goto, Daemon!Unreachable, Daemon!TypeOK
  <2>5. \A q \in Instances : client[q] # Daemon!NoOne => client[q] \in Clients
    BY DEF Daemon!TypeOK
  <2> QED BY <2>1, <2>3, <2>4, <2>5 DEF HandInv
<1>14. ASSUME NEW p \in Instances, Daemon!Close(p) PROVE HandInv'
  <2>1. /\ UNCHANGED <<window, got, message>> /\ pc'[p] = "accept"
        /\ \A q \in Instances \ {p} : pc'[q] = pc[q] /\ client'[q] = client[q]
    BY <1>14 DEF Daemon!Close, Daemon!Goto, Daemon!TypeOK
  <2> QED BY <2>1, HandFrame
<1>15. ASSUME NEW p \in Instances, Daemon!Kill(p) PROVE HandInv'
  BY <1>15, HandFrame DEF Daemon!Kill, Daemon!Stop, Daemon!Goto, Daemon!TypeOK
<1>16. ASSUME NEW c \in Clients, Daemon!Connect(c) PROVE HandInv'
  BY <1>16, HandFrame DEF Daemon!Connect, Daemon!TypeOK
<1>17. ASSUME NEW c \in Clients, Daemon!Leave(c) PROVE HandInv'
  BY <1>17, HandFrame DEF Daemon!Leave, Daemon!TypeOK
<1>18. CASE Daemon!Change
  <2>1. UNCHANGED <<pc, got, message, client>>
          /\ \A c \in Clients : window[c] \subseteq window'[c] \/ peer[c] = "idle"
    BY <1>18 DEF Daemon!Change
  <2> QED BY <2>1, HandFrame
<1>19. CASE UNCHANGED Daemon!vars
  BY <1>19, HandFrame DEF Daemon!vars
<1> QED BY <1>1, <1>2, <1>3, <1>4, <1>5, <1>6, <1>7, <1>8, <1>9, <1>10,
  <1>11, <1>12, <1>13, <1>14, <1>15, <1>16, <1>17, <1>18, <1>19
  DEF Daemon!Next, Daemon!Open, Daemon!Serve

\* Every step keeps the answers true, and closes only what is answered.
LEMMA NextAnswer ==
  ASSUME Daemon!DaemonAssumption, Daemon!TypeOK, WindowInv, HandInv, Daemon!FreshAnswer, Daemon!ClosedAnswered, [Daemon!Next]_Daemon!vars
  PROVE  Daemon!FreshAnswer' /\ Daemon!ClosedAnswered'
<1> USE DEF Daemon!parser, Daemon!server, Daemon!world
<1>1. ASSUME NEW p \in Instances, Daemon!Start(p) PROVE Daemon!FreshAnswer' /\ Daemon!ClosedAnswered'
  BY <1>1 DEF Daemon!Start, Daemon!Stop, Daemon!Goto, Daemon!FreshAnswer, Daemon!ClosedAnswered
<1>2. ASSUME NEW p \in Instances, Daemon!ParseEvent(p) PROVE Daemon!FreshAnswer' /\ Daemon!ClosedAnswered'
  BY <1>2 DEF Daemon!ParseEvent, Daemon!FreshAnswer, Daemon!ClosedAnswered
<1>3. ASSUME NEW p \in Instances, Daemon!ParseFails(p) PROVE Daemon!FreshAnswer' /\ Daemon!ClosedAnswered'
  BY <1>3 DEF Daemon!ParseFails, Daemon!Stop, Daemon!Goto, Daemon!FreshAnswer, Daemon!ClosedAnswered
<1>4. ASSUME NEW p \in Instances, Daemon!CheckConfig(p) PROVE Daemon!FreshAnswer' /\ Daemon!ClosedAnswered'
  BY <1>4 DEF Daemon!CheckConfig, Daemon!Stop, Daemon!Goto, Daemon!FreshAnswer, Daemon!ClosedAnswered
<1>5. ASSUME NEW p \in Instances, Daemon!Unlink(p) PROVE Daemon!FreshAnswer' /\ Daemon!ClosedAnswered'
  BY <1>5 DEF Daemon!Unlink, Daemon!Goto, Daemon!FreshAnswer, Daemon!ClosedAnswered
<1>6. ASSUME NEW p \in Instances, Daemon!Socket(p) PROVE Daemon!FreshAnswer' /\ Daemon!ClosedAnswered'
  BY <1>6 DEF Daemon!Socket, Daemon!Stop, Daemon!Goto, Daemon!FreshAnswer, Daemon!ClosedAnswered
<1>7. ASSUME NEW p \in Instances, Daemon!Bind(p) PROVE Daemon!FreshAnswer' /\ Daemon!ClosedAnswered'
  BY <1>7 DEF Daemon!Bind, Daemon!Goto, Daemon!FreshAnswer, Daemon!ClosedAnswered
<1>8. ASSUME NEW p \in Instances, Daemon!Listen(p) PROVE Daemon!FreshAnswer' /\ Daemon!ClosedAnswered'
  BY <1>8 DEF Daemon!Listen, Daemon!Stop, Daemon!Goto, Daemon!FreshAnswer, Daemon!ClosedAnswered
<1>9. ASSUME NEW p \in Instances, Daemon!AcceptDeaf(p) PROVE Daemon!FreshAnswer' /\ Daemon!ClosedAnswered'
  BY <1>9 DEF Daemon!AcceptDeaf, Daemon!vars, Daemon!FreshAnswer, Daemon!ClosedAnswered
<1>10. ASSUME NEW p \in Instances, Daemon!Accept(p) PROVE Daemon!FreshAnswer' /\ Daemon!ClosedAnswered'
  BY <1>10 DEF Daemon!Accept, Daemon!Goto, Daemon!FreshAnswer, Daemon!ClosedAnswered
<1>11. ASSUME NEW p \in Instances, Daemon!AcceptFails(p) PROVE Daemon!FreshAnswer' /\ Daemon!ClosedAnswered'
  BY <1>11 DEF Daemon!AcceptFails, Daemon!Goto, Daemon!FreshAnswer, Daemon!ClosedAnswered
<1>12. ASSUME NEW p \in Instances, Daemon!Stat(p) PROVE Daemon!FreshAnswer' /\ Daemon!ClosedAnswered'
  BY <1>12 DEF Daemon!Stat, Daemon!Goto, Daemon!FreshAnswer, Daemon!ClosedAnswered
<1>13. ASSUME NEW p \in Instances, Daemon!Write(p) PROVE Daemon!FreshAnswer' /\ Daemon!ClosedAnswered'
  <2>1. pc[p] = "write" /\ message[p] # Daemon!NoOne /\ UNCHANGED <<window, peer>>
    BY <1>13 DEF Daemon!Write, HandInv, Daemon!DaemonAssumption
  <2>2. \A c \in Clients : got'[c] = got[c] \/ (c = client[p] /\ c # Daemon!NoOne /\ got'[c] = message[p])
    BY <1>13 DEF Daemon!Write, Daemon!Unreachable, Daemon!TypeOK
  <2> QED BY <2>1, <2>2 DEF HandInv, Daemon!FreshAnswer, Daemon!ClosedAnswered
<1>14. ASSUME NEW p \in Instances, Daemon!Close(p) PROVE Daemon!FreshAnswer' /\ Daemon!ClosedAnswered'
  <2>1. UNCHANGED <<window, got>> /\ pc[p] = "close"
    BY <1>14 DEF Daemon!Close
  <2>2. \A c \in Clients : peer'[c] = peer[c] \/ (c = client[p] /\ c # Daemon!NoOne)
    BY <1>14 DEF Daemon!Close, Daemon!DaemonAssumption
  <2> QED BY <2>1, <2>2 DEF HandInv, Daemon!FreshAnswer, Daemon!ClosedAnswered
<1>15. ASSUME NEW p \in Instances, Daemon!Kill(p) PROVE Daemon!FreshAnswer' /\ Daemon!ClosedAnswered'
  BY <1>15 DEF Daemon!Kill, Daemon!Stop, Daemon!Goto, Daemon!FreshAnswer, Daemon!ClosedAnswered
<1>16. ASSUME NEW c \in Clients, Daemon!Connect(c) PROVE Daemon!FreshAnswer' /\ Daemon!ClosedAnswered'
  BY <1>16 DEF Daemon!Connect, Daemon!FreshAnswer, Daemon!ClosedAnswered, WindowInv, Daemon!TypeOK
<1>17. ASSUME NEW c \in Clients, Daemon!Leave(c) PROVE Daemon!FreshAnswer' /\ Daemon!ClosedAnswered'
  BY <1>17 DEF Daemon!Leave, Daemon!FreshAnswer, Daemon!ClosedAnswered, WindowInv, Daemon!TypeOK
<1>18. CASE Daemon!Change
  BY <1>18 DEF Daemon!Change, Daemon!FreshAnswer, Daemon!ClosedAnswered, WindowInv
<1>19. CASE UNCHANGED Daemon!vars
  BY <1>19 DEF Daemon!vars, Daemon!FreshAnswer, Daemon!ClosedAnswered
<1> QED BY <1>1, <1>2, <1>3, <1>4, <1>5, <1>6, <1>7, <1>8, <1>9, <1>10,
  <1>11, <1>12, <1>13, <1>14, <1>15, <1>16, <1>17, <1>18, <1>19
  DEF Daemon!Next, Daemon!Open, Daemon!Serve

-----------------------------------------------------------------------------
(* The theorems *)

\* The invariant holds at the start.
LEMMA InitDaemon == ASSUME Daemon!DaemonAssumption, Daemon!Init PROVE DaemonInv
<1>1. Daemon!TypeOK
  BY InitDaemonType
<1>2. /\ \A p \in Instances : /\ pc[p] = "off" /\ at[p] = 0 /\ client[p] = Daemon!NoOne /\ queue[p] = <<>>
                              /\ config[p] = [state |-> "KEY", socketPath |-> Daemon!Unset, filePath |-> Daemon!Unset]
      /\ \A c \in Clients : peer[c] = "idle" /\ got[c] = Daemon!NoOne
  BY DEF Daemon!Init
<1>3. ReadInv
  <2>1. ASSUME NEW p \in Instances, Daemon!Flat PROVE Parsed(p) = 0
    BY <1>2, <2>1 DEF Parsed, Daemon!Flat
  <2>2. StateIs(0, "KEY") /\ \A key : ValueIs(key, 0, Daemon!Unset)
    BY DEF StateIs, ValueIs, Behind
  <2> QED BY <1>2, <2>1, <2>2 DEF ReadInv
<1>4. NameInv /\ Daemon!StaleNameNoObstacle /\ HandInv
  BY <1>2 DEF NameInv, Daemon!StaleNameNoObstacle, HandInv
<1>5. Len(<<>>) = 0
  OBVIOUS
<1>6. \A p \in Instances : 1..Len(queue[p]) = {}
  BY <1>2, <1>5
<1>7. WindowInv /\ Daemon!FreshAnswer /\ Daemon!ClosedAnswered
  BY <1>2, <1>6 DEF WindowInv, Daemon!FreshAnswer, Daemon!ClosedAnswered
<1> QED BY <1>1, <1>3, <1>4, <1>7 DEF DaemonInv

\* Every step keeps the invariant.
LEMMA NextDaemon == ASSUME Daemon!DaemonAssumption, DaemonInv, [Daemon!Next]_Daemon!vars PROVE DaemonInv'
<1>1. /\ Daemon!TypeOK /\ ReadInv /\ NameInv /\ WindowInv /\ HandInv
      /\ Daemon!StaleNameNoObstacle /\ Daemon!FreshAnswer /\ Daemon!ClosedAnswered
  BY DEF DaemonInv
<1>2. Daemon!TypeOK' /\ ReadInv' /\ NameInv' /\ Daemon!StaleNameNoObstacle'
  BY <1>1, NextDaemonType, NextRead, NextName
<1>3. WindowInv' /\ HandInv' /\ Daemon!FreshAnswer' /\ Daemon!ClosedAnswered'
  BY <1>1, NextWindow, NextHand, NextAnswer
<1> QED BY <1>2, <1>3 DEF DaemonInv

\* The invariant holds in every state.
THEOREM DaemonInvariance == ASSUME Daemon!DaemonAssumption PROVE Daemon!Spec => []DaemonInv
<1>1. Daemon!Init => DaemonInv
  BY InitDaemon
<1>2. DaemonInv /\ [Daemon!Next]_Daemon!vars => DaemonInv'
  BY NextDaemon
<1> QED BY <1>1, <1>2, PTL DEF Daemon!Spec

\* parseConfig gives each path the last value of its key, for a document of any length,
\* wherever other keys stand and whatever their names and values are.
THEOREM ConfigReadCorrect == ASSUME Daemon!DaemonAssumption PROVE Daemon!Spec => []Daemon!ConfigRead
<1>1. DaemonInv => Daemon!ConfigRead
  BY ReadToTheEnd DEF DaemonInv
<1> QED BY <1>1, DaemonInvariance, PTL

\* The name that a killed instance has left never keeps another one from binding its own:
\* listenToUnixSocket unlinks first.
THEOREM StaleNameCorrect == ASSUME Daemon!DaemonAssumption PROVE Daemon!Spec => []Daemon!StaleNameNoObstacle
<1>1. DaemonInv => Daemon!StaleNameNoObstacle
  BY DEF DaemonInv
<1> QED BY <1>1, DaemonInvariance, PTL

\* What a client is told is a size that the file had since the client connected, and a
\* connection is closed only when answered, whichever calls fail.
THEOREM AnswersCorrect == ASSUME Daemon!DaemonAssumption PROVE Daemon!Spec => [](Daemon!FreshAnswer /\ Daemon!ClosedAnswered)
<1>1. DaemonInv => Daemon!FreshAnswer /\ Daemon!ClosedAnswered
  BY DEF DaemonInv
<1> QED BY <1>1, DaemonInvariance, PTL

-----------------------------------------------------------------------------
(* TelnetClient: any buffer, prompt, end mark and answers, in any pieces.  *)

(* The search for the prompt *)

\* What the search answers at index p[1] with p[2] characters matched, if f
\* says what it answers further on (string_has_substring, lines 28-41).
SearchStep(string, offset, length, substring, f, p) ==
  IF p[1] >= offset + length THEN FALSE
  ELSE IF string[p[1] + 1] = Client!IAC THEN f[<<p[1] + 3, p[2]>>]
  ELSE /\ length - p[1] >= Len(substring) - 1 - p[2]
       /\ LET k == IF string[p[1] + 1] = substring[p[2] + 1] THEN p[2] + 1 ELSE 0
          IN k = Len(substring) - 1 \/ f[<<p[1] + 1, k>>]

Search(string, offset, length, substring, f) ==
  f = [p \in Nat \X Nat |-> SearchStep(string, offset, length, substring, f, p)]

\* The search looks only further on, so its recursion has a solution.
LEMMA SearchSolved ==
  ASSUME NEW string, NEW offset \in Nat, NEW length \in Nat, NEW substring
  PROVE  \E f : Search(string, offset, length, substring, f)
<1> DEFINE z == offset + length
           Ends(f, m) == \A p \in Nat \X Nat : p[1] >= z - m => f[p] = SearchStep(string, offset, length,
             substring, f, p)
           Bad == {m \in Nat : ~ \E f \in [Nat \X Nat -> BOOLEAN] : Ends(f, m)}
<1>0. z \in Nat
  OBVIOUS
<1>1. SUFFICES Bad = {}
  <2>1. PICK f \in [Nat \X Nat -> BOOLEAN] : Ends(f, z)
    <3> HIDE DEF Ends, z
    <3> QED BY <1>0, <1>1
  <2>2. \A p \in Nat \X Nat : p[1] >= z - z
    BY <1>0
  <2>3. \A p \in Nat \X Nat : f[p] = SearchStep(string, offset, length, substring, f, p)
    BY <2>1, <2>2
  <2>4. f = [p \in Nat \X Nat |-> SearchStep(string, offset, length, substring, f, p)]
    BY <2>3
  <2> QED BY <2>4 DEF Search
<1>2. SUFFICES ASSUME Bad # {} PROVE FALSE
  OBVIOUS
<1>3. PICK m \in Bad : \A n \in Bad : m <= n
  <2>1. Bad \in SUBSET Nat
    OBVIOUS
  <2> HIDE DEF Bad
  <2> QED BY <1>2, <2>1, Least
<1>4. m # 0
  <2>1. SUFFICES ASSUME m = 0 PROVE FALSE
    OBVIOUS
  <2> DEFINE f == [p \in Nat \X Nat |-> FALSE]
  <2>2. f \in [Nat \X Nat -> BOOLEAN] /\ \A p \in Nat \X Nat : f[p] = FALSE
    OBVIOUS
  <2> HIDE DEF f
  <2>3. \A p \in Nat \X Nat : p[1] >= z => f[p] = SearchStep(string, offset, length, substring, f, p)
    BY <2>2 DEF SearchStep
  <2>4. z - m = z
    BY <1>0, <2>1
  <2> HIDE DEF z
  <2>5. Ends(f, m)
    BY <2>3, <2>4
  <2> QED BY <1>3, <2>2, <2>5
<1>5. PICK g \in [Nat \X Nat -> BOOLEAN] : Ends(g, m - 1)
  BY <1>3, <1>4
<1> DEFINE Step(p) == SearchStep(string, offset, length, substring, g, p)
           f == [p \in Nat \X Nat |-> IF p[1] >= z - (m - 1) THEN g[p] ELSE Step(p) = TRUE]
<1>6. \A p \in Nat \X Nat : f[p] = IF p[1] >= z - (m - 1) THEN g[p] ELSE Step(p) = TRUE
  OBVIOUS
<1>7. f \in [Nat \X Nat -> BOOLEAN]
  OBVIOUS
<1> HIDE DEF f
<1>8. ASSUME NEW p \in Nat \X Nat, p[1] >= z - m
      PROVE f[p] = SearchStep(string, offset, length, substring, f, p)
  <2>1. \A h, j \in Nat : h >= z - (m - 1) => f[<<h, j>>] = g[<<h, j>>]
    BY <1>6
  <2>2. p[1] + 3 \in Nat /\ p[1] + 1 \in Nat /\ p[2] \in Nat /\ p[2] + 1 \in Nat /\ 0 \in Nat
        /\ p[1] + 3 >= z - (m - 1) /\ p[1] + 1 >= z - (m - 1)
    BY <1>0, <1>3, <1>8
  <2> HIDE DEF z
  <2> DEFINE k == IF string[p[1] + 1] = substring[p[2] + 1] THEN p[2] + 1 ELSE 0
  <2>3. k \in Nat
    BY <2>2
  <2> HIDE DEF k
  <2>4. f[<<p[1] + 3, p[2]>>] = g[<<p[1] + 3, p[2]>>] /\ f[<<p[1] + 1, k>>] = g[<<p[1] + 1, k>>]
    BY <2>1, <2>2, <2>3
  <2>5. g[<<p[1] + 3, p[2]>>] \in BOOLEAN /\ g[<<p[1] + 1, k>>] \in BOOLEAN
    BY <2>2, <2>3
  <2>6. SearchStep(string, offset, length, substring, f, p) = Step(p)
    BY <2>4, Zenon DEF SearchStep, k
  <2>7. Step(p) \in BOOLEAN
    BY <2>5, Zenon DEF SearchStep, k
  <2> HIDE DEF Step
  <2>8. CASE p[1] >= z - (m - 1)
    BY <1>5, <1>6, <2>6, <2>8 DEF Step
  <2>9. CASE ~(p[1] >= z - (m - 1))
    BY <1>6, <2>6, <2>7, <2>9
  <2> QED BY <2>8, <2>9
<1>9. Ends(f, m)
  BY <1>8
<1> QED BY <1>3, <1>7, <1>9

\* What string_has_substring answers for a whole chunk.
LEMMA FoundIs ==
  ASSUME NEW string, NEW length \in Nat, NEW substring
  PROVE  \E f : /\ Client!Found(string, 0, length, substring) = f[<<0, 0>>]
                /\ \A h, j \in Nat : f[<<h, j>>] = SearchStep(string, 0, length, substring, f, <<h, j>>)
<1> DEFINE f == CHOOSE f : Search(string, 0, length, substring, f)
<1>1. Client!Found(string, 0, length, substring) = f[<<0, 0>>]
  BY DEF Client!Found, Search, SearchStep, Client!First, Client!AfterMismatch
<1>2. Search(string, 0, length, substring, f)
  BY SearchSolved
<1> HIDE DEF f
<1>3. \A p \in Nat \X Nat : f[p] = SearchStep(string, 0, length, substring, f, p)
  BY <1>2 DEF Search
<1> QED BY <1>1, <1>3

\* A chunk with the whole of substring is found to have it, when no telnet
\* command is in it and no earlier copy of the first character.
LEMMA FindsWhole ==
  ASSUME NEW S, NEW string \in Seq(S), NEW substring \in Seq(S), Len(substring) > 1,
         NEW h \in 1..(Len(string) - Len(substring) + 1),
         SubSeq(string, h, h + Len(substring) - 1) = substring,
         \A j \in 1..Len(string) : string[j] # Client!IAC /\ (j < h => string[j] # substring[1])
  PROVE  Client!Found(string, 0, Len(string), substring)
<1> DEFINE n == Len(string)
           w == Len(substring)
           m == w - 1
<1>1. PICK f : /\ Client!Found(string, 0, n, substring) = f[<<0, 0>>]
               /\ \A q, j \in Nat : f[<<q, j>>] = SearchStep(string, 0, n, substring, f, <<q, j>>)
  <2>1. n \in Nat
    OBVIOUS
  <2> HIDE DEF n
  <2> QED BY <2>1, FoundIs
<1>2. n \in Nat /\ m \in Nat \ {0} /\ h \in Nat \ {0} /\ h + m <= n
  <2>1. n \in Nat /\ w \in Nat /\ w > 1 /\ h \in 1..(n - w + 1)
    OBVIOUS
  <2> HIDE DEF n, w
  <2>2. w - 1 \in Nat \ {0} /\ h \in Nat \ {0} /\ h + (w - 1) <= n
    BY <2>1
  <2> QED BY <2>1, <2>2
<1>3. \A j \in 0..m : string[h + j] = substring[j + 1]
  <2>1. h \in Int /\ h + w - 1 \in Int /\ w = (h + w - 1) - h + 1 /\ w \in Nat
    BY <1>2
  <2>2. \A o \in h..(h + w - 1) : string[o] \in S
    <3>1. \A o \in h..(h + w - 1) : o \in 1..n
      BY <1>2
    <3>2. \A o \in 1..n : string[o] \in S
      OBVIOUS
    <3> QED BY <3>1, <3>2
  <2>3. \A o \in 1..w : substring[o] = string[h + o - 1]
    <3>1. \A o \in 1..(h + w - 1) - h + 1 : SubSeq(string, h, h + w - 1)[o] = string[h + o - 1]
      BY <2>1, <2>2, SubSeqProperties
    <3> QED BY <2>1, <3>1
  <2> HIDE DEF w
  <2> TAKE j \in 0..m
  <2>4. j + 1 \in 1..w /\ h + (j + 1) - 1 = h + j
    BY <2>1
  <2> QED BY <2>3, <2>4
<1>4. \A j \in 1..n : string[j] # Client!IAC /\ (j < h => string[j] # substring[1])
  OBVIOUS
<1>5. \A q, j \in Nat : q < n /\ string[q + 1] # Client!IAC =>
         LET k == IF string[q + 1] = substring[j + 1] THEN j + 1 ELSE 0
         IN f[<<q, j>>] = (n - q >= m - j /\ (k = m \/ f[<<q + 1, k>>]))
  <2> SUFFICES ASSUME NEW q \in Nat, NEW j \in Nat, q < n, string[q + 1] # Client!IAC
               PROVE  LET k == IF string[q + 1] = substring[j + 1] THEN j + 1 ELSE 0
                      IN f[<<q, j>>] = (n - q >= m - j /\ (k = m \/ f[<<q + 1, k>>]))
    OBVIOUS
  <2>1. f[<<q, j>>] = SearchStep(string, 0, n, substring, f, <<q, j>>)
    BY <1>1
  <2>2. ~(q >= 0 + n) /\ <<q, j>>[1] = q /\ <<q, j>>[2] = j
    BY <1>2
  <2> HIDE DEF n
  <2> QED BY <2>1, <2>2, Zenon DEF SearchStep
<1> HIDE DEF n, m
\* from the copy on, every character matches
<1>6. \A j \in 0..(m - 1) : f[<<h - 1 + j, j>>]
  <2> DEFINE Bad == {d \in Nat : d < m /\ ~f[<<h - 1 + (m - 1 - d), m - 1 - d>>]}
  <2>1. SUFFICES Bad = {}
    <3> TAKE j \in 0..(m - 1)
    <3>1. m - 1 - j \in Nat /\ m - 1 - j < m /\ m - 1 - (m - 1 - j) = j
      BY <1>2
    <3> QED BY <2>1, <3>1
  <2>2. SUFFICES ASSUME Bad # {} PROVE FALSE
    OBVIOUS
  <2>3. PICK d \in Bad : \A x \in Bad : d <= x
    <3>1. Bad \in SUBSET Nat
      OBVIOUS
    <3> HIDE DEF Bad
    <3> QED BY <2>2, <3>1, Least
  <2> DEFINE j == m - 1 - d
             q == h - 1 + j
  <2>4. j \in Nat /\ q \in Nat /\ q < n /\ j \in 0..m /\ q + 1 = h + j /\ h + j \in 1..n /\ n - q >= m - j
    BY <1>2, <2>3
  <2>5. string[q + 1] = substring[j + 1] /\ string[q + 1] # Client!IAC
    BY <1>3, <1>4, <2>4
  <2>6. ~f[<<q, j>>]
    BY <2>3
  <2>7. d # 0 => f[<<q + 1, j + 1>>]
    <3> SUFFICES ASSUME d # 0 PROVE f[<<q + 1, j + 1>>]
      OBVIOUS
    <3>0. d \in Nat /\ d < m
      BY <2>3
    <3>1. d - 1 \in Nat /\ d - 1 < m /\ ~(d <= d - 1)
      BY <1>2, <3>0
    <3>2. m - 1 - (d - 1) = j + 1 /\ h - 1 + (m - 1 - (d - 1)) = q + 1
      BY <1>2, <2>3
    <3> HIDE DEF j, q
    <3>3. d - 1 \notin Bad
      BY <2>3, <3>1
    <3> QED BY <3>1, <3>2, <3>3
  <2>8. d = 0 => j + 1 = m
    BY <1>2
  <2> HIDE DEF j, q, Bad
  <2>9. f[<<q, j>>] = (n - q >= m - j /\ (j + 1 = m \/ f[<<q + 1, j + 1>>]))
    BY <1>5, <2>4, <2>5
  <2> QED BY <2>4, <2>6, <2>7, <2>8, <2>9
\* before it, none does
<1>7. \A q \in 0..(h - 1) : f[<<q, 0>>]
  <2> DEFINE Bad == {d \in Nat : d < h /\ ~f[<<h - 1 - d, 0>>]}
  <2>1. SUFFICES Bad = {}
    <3> TAKE q \in 0..(h - 1)
    <3>1. h - 1 - q \in Nat /\ h - 1 - q < h /\ h - 1 - (h - 1 - q) = q
      BY <1>2
    <3> QED BY <2>1, <3>1
  <2>2. SUFFICES ASSUME Bad # {} PROVE FALSE
    OBVIOUS
  <2>3. PICK d \in Bad : \A x \in Bad : d <= x
    <3>1. Bad \in SUBSET Nat
      OBVIOUS
    <3> HIDE DEF Bad
    <3> QED BY <2>2, <3>1, Least
  <2> DEFINE q == h - 1 - d
  <2>4. q \in Nat /\ q < n /\ q + 1 \in 1..n /\ n - q >= m - 0 /\ 0 \in Nat
    BY <1>2, <2>3
  <2>5. ~f[<<q, 0>>]
    BY <2>3
  <2>6. d # 0
    <3>1. SUFFICES ASSUME d = 0 PROVE FALSE
      OBVIOUS
    <3>2. q = h - 1 + 0 /\ 0 \in 0..(m - 1)
      BY <1>2, <3>1
    <3> QED BY <1>6, <2>5, <3>2
  <2>7. q + 1 < h /\ h - 1 - (d - 1) = q + 1 /\ d - 1 \in Nat /\ d - 1 < h /\ ~(d <= d - 1)
    BY <1>2, <2>3, <2>6
  <2>8. d - 1 \notin Bad
    <3> HIDE DEF Bad, q
    <3> QED BY <2>3, <2>7
  <2>9. f[<<q + 1, 0>>]
    BY <2>7, <2>8
  <2>10. string[q + 1] # Client!IAC /\ string[q + 1] # substring[0 + 1]
    BY <1>4, <2>4, <2>7
  <2> HIDE DEF q, Bad
  <2> QED BY <1>5, <2>4, <2>5, <2>9, <2>10
<1>8. f[<<0, 0>>]
  BY <1>2, <1>7
<1> QED BY <1>1, <1>8 DEF n

-----------------------------------------------------------------------------
(* What was found *)

\* The characters from index i on without the telnet commands, if f says what
\* they are further on.
DataStep(chunk, f, h) ==
  IF h > Len(chunk) THEN <<>> ELSE IF chunk[h] = Client!IAC THEN f[h + 3] ELSE <<chunk[h]>> \o f[h + 1]

LEMMA DataIs ==
  ASSUME NEW S, NEW chunk \in Seq(S)
  PROVE  \E f : /\ Client!Data(chunk) = f[1]
                /\ \A h \in Nat \ {0} : f[h] = DataStep(chunk, f, h) /\ f[h] \in Seq(S)
<1> DEFINE z == Len(chunk) + 1
           Ends(f, m) == \A h \in Nat : h >= z - m => f[h] = DataStep(chunk, f, h)
           Bad == {m \in Nat : ~ \E f : f = [h \in Nat |-> f[h]] /\ Ends(f, m)}
<1>1. z \in Nat \ {0}
  OBVIOUS
<1>2. Bad = {}
  <2>1. SUFFICES ASSUME Bad # {} PROVE FALSE
    OBVIOUS
  <2>2. PICK m \in Bad : \A n \in Bad : m <= n
    <3>1. Bad \in SUBSET Nat
      OBVIOUS
    <3> HIDE DEF Bad
    <3> QED BY <2>1, <3>1, Least
  <2>3. m # 0
    <3>1. SUFFICES ASSUME m = 0 PROVE FALSE
      OBVIOUS
    <3> DEFINE f == [h \in Nat |-> <<>>]
    <3>2. f = [h \in Nat |-> f[h]] /\ \A h \in Nat : f[h] = <<>>
      OBVIOUS
    <3> HIDE DEF f
    <3>3. \A h \in Nat : h >= z => f[h] = DataStep(chunk, f, h)
      BY <3>2 DEF DataStep
    <3>4. z - m = z
      BY <1>1, <3>1
    <3> HIDE DEF z
    <3>5. Ends(f, m)
      BY <3>3, <3>4
    <3> QED BY <2>2, <3>2, <3>5
  <2>4. PICK g : g = [h \in Nat |-> g[h]] /\ Ends(g, m - 1)
    <3>1. m \in Nat
      BY <2>2
    <3>2. m - 1 \in Nat /\ ~(m <= m - 1)
      BY <2>3, <3>1
    <3>3. m - 1 \notin Bad
      <4> HIDE DEF Bad
      <4> QED BY <2>2, <3>2
    <3> HIDE DEF Ends
    <3> QED BY <3>2, <3>3
  <2> DEFINE f == [h \in Nat |-> IF h >= z - (m - 1) THEN g[h] ELSE DataStep(chunk, g, h)]
  <2>5. f = [h \in Nat |-> f[h]] /\ \A h \in Nat : f[h] = IF h >= z - (m - 1) THEN g[h]
          ELSE DataStep(chunk, g, h)
    OBVIOUS
  <2> HIDE DEF f
  <2>6. ASSUME NEW h \in Nat, h >= z - m PROVE f[h] = DataStep(chunk, f, h)
    <3>1. h + 3 \in Nat /\ h + 1 \in Nat /\ h + 3 >= z - (m - 1) /\ h + 1 >= z - (m - 1)
      BY <1>1, <2>2, <2>6
    <3>2. f[h + 3] = g[h + 3] /\ f[h + 1] = g[h + 1]
      BY <2>5, <3>1
    <3>3. DataStep(chunk, f, h) = DataStep(chunk, g, h)
      BY <3>2 DEF DataStep
    <3> QED BY <2>4, <2>5, <3>3
  <2>7. Ends(f, m)
    BY <2>6
  <2> QED BY <2>2, <2>5, <2>7
<1>3. \E f : f = [h \in Nat |-> DataStep(chunk, f, h)]
  <2>1. PICK f : f = [h \in Nat |-> f[h]] /\ Ends(f, z)
    <3> HIDE DEF Ends, z
    <3> QED BY <1>1, <1>2
  <2>2. \A h \in Nat : f[h] = DataStep(chunk, f, h)
    <3>1. \A h \in Nat : h >= z - z
      BY <1>1
    <3> QED BY <2>1, <3>1
  <2> QED BY <2>1, <2>2, Zenon
<1> DEFINE f == CHOOSE f : f = [h \in Nat |-> DataStep(chunk, f, h)]
<1>4. Client!Data(chunk) = f[1]
  BY DEF Client!Data, DataStep
<1>5. f = [h \in Nat |-> DataStep(chunk, f, h)]
  BY <1>3
<1> HIDE DEF f
<1>6. \A h \in Nat : f[h] = DataStep(chunk, f, h)
  BY <1>5
<1>7. \A h \in Nat \ {0} : f[h] \in Seq(S)
  <2> DEFINE Worse == {d \in Nat : \E h \in Nat \ {0} : h + d = z + 3 /\ f[h] \notin Seq(S)}
  <2>1. \A h \in Nat : h >= z => f[h] \in Seq(S)
    <3>1. <<>> \in Seq(S)
      OBVIOUS
    <3>2. \A h \in Nat : h >= z => h > Len(chunk)
      OBVIOUS
    <3> HIDE DEF z
    <3> QED BY <1>6, <3>1, <3>2 DEF DataStep
  <2>2. SUFFICES ASSUME Worse # {} PROVE FALSE
    <3>1. SUFFICES ASSUME NEW h \in Nat \ {0}, f[h] \notin Seq(S) PROVE FALSE
      OBVIOUS
    <3>2. ~(h >= z)
      BY <2>1, <3>1
    <3>3. z + 3 - h \in Nat /\ h + (z + 3 - h) = z + 3
      BY <1>1, <3>2
    <3> QED BY <2>2, <3>1, <3>3
  <2>3. PICK d \in Worse : \A x \in Worse : d <= x
    <3>1. Worse \in SUBSET Nat
      OBVIOUS
    <3> HIDE DEF Worse
    <3> QED BY <2>2, <3>1, Least
  <2>4. PICK h \in Nat \ {0} : h + d = z + 3 /\ f[h] \notin Seq(S)
    BY <2>3
  <2>5. h < z
    BY <1>1, <2>1, <2>4
  <2>12. d \in Nat
    BY <2>3
  <2>6. d \in Nat /\ d > 3 /\ d - 1 \in Nat /\ d - 3 \in Nat /\ ~(d <= d - 1) /\ ~(d <= d - 3)
        /\ (h + 1) + (d - 1) = z + 3 /\ (h + 3) + (d - 3) = z + 3 /\ h + 1 \in Nat \ {0}
             /\ h + 3 \in Nat \ {0}
    <3> HIDE DEF z, Worse
    <3> QED BY <1>1, <2>4, <2>5, <2>12
  <2>7. d - 1 \notin Worse /\ d - 3 \notin Worse
    <3> HIDE DEF Worse
    <3> QED BY <2>3, <2>6
  <2>8. f[h + 1] \in Seq(S) /\ f[h + 3] \in Seq(S)
    BY <2>6, <2>7
  <2>9. chunk[h] \in S
    BY <1>1, <2>4, <2>5
  <2>10. <<chunk[h]>> \o f[h + 1] \in Seq(S) /\ <<>> \in Seq(S)
    BY <2>8, <2>9
  <2>11. f[h] = DataStep(chunk, f, h)
    BY <1>6
  <2> HIDE DEF Worse, z
  <2> QED BY <2>4, <2>8, <2>10, <2>11 DEF DataStep
<1> QED BY <1>4, <1>6, <1>7

\* A prefix grows by the element after it.
LEMMA PrefixIs ==
  ASSUME NEW S, NEW t \in Seq(S), NEW j \in 0..Len(t)
  PROVE  /\ SubSeq(t, 1, j) \in Seq(S) /\ Len(SubSeq(t, 1, j)) = j
    /\ \A h \in 1..j : SubSeq(t, 1, j)[h] = t[h]
         /\ j < Len(t) => SubSeq(t, 1, j + 1) = SubSeq(t, 1, j) \o <<t[j + 1]>>
<1> DEFINE v == SubSeq(t, 1, j)
           w == SubSeq(t, 1, j + 1)
<1>1. v \in Seq(S) /\ Len(v) = j /\ \A h \in 1..j : v[h] = t[h]
  OBVIOUS
<1>2. ASSUME j < Len(t) PROVE w = v \o <<t[j + 1]>>
  <2>1. w \in Seq(S) /\ Len(w) = j + 1 /\ \A h \in 1..(j + 1) : w[h] = t[h]
    BY <1>2
  <2>2. t[j + 1] \in S
    BY <1>2
  <2> HIDE DEF v, w
  <2> DEFINE x == v \o <<t[j + 1]>>
  <2>3. x \in Seq(S) /\ Len(x) = j + 1 /\ \A h \in 1..(j + 1) : x[h] = t[h]
    BY <1>1, <2>2
  <2> HIDE DEF x
  <2>4. w = x
    BY <2>1, <2>3
  <2> QED BY <2>4 DEF x
<1> QED BY <1>1, <1>2

HasPart(t, u) == \E h \in 1..(Len(t) - Len(u) + 1) : SubSeq(t, h, h + Len(u) - 1) = u

LEMMA HasFirst == ASSUME NEW S, NEW u \in Seq(S), NEW t \in Seq(S) PROVE HasPart(u \o t, u)
<1>1. 1 \in 1..(Len(u \o t) - Len(u) + 1)
  OBVIOUS
<1>2. SubSeq(u \o t, 1, 1 + Len(u) - 1) = u
  OBVIOUS
<1> QED BY <1>1, <1>2 DEF HasPart

LEMMA HasAfter ==
  ASSUME NEW S, NEW u \in Seq(S), NEW t \in Seq(S), NEW w \in Seq(S), HasPart(t, u) PROVE HasPart(w \o t, u)
<1>1. PICK h \in 1..(Len(t) - Len(u) + 1) : SubSeq(t, h, h + Len(u) - 1) = u
  BY DEF HasPart
<1> DEFINE k == h + Len(w)
<1>2. k \in 1..(Len(w \o t) - Len(u) + 1)
  OBVIOUS
<1>3. SubSeq(w \o t, k, k + Len(u) - 1) = SubSeq(t, h, h + Len(u) - 1)
  <2>1. Len(SubSeq(w \o t, k, k + Len(u) - 1)) = Len(u) /\ Len(SubSeq(t, h, h + Len(u) - 1)) = Len(u)
    OBVIOUS
  <2>2. \A j \in 1..Len(u) : SubSeq(w \o t, k, k + Len(u) - 1)[j] = SubSeq(t, h, h + Len(u) - 1)[j]
    OBVIOUS
  <2> QED BY <2>1, <2>2
<1> QED BY <1>1, <1>2, <1>3 DEF HasPart

\* When the search answers true, all of substring but its last character is
\* among the chunk's characters, with telnet commands only between them.
LEMMA FindsData ==
  ASSUME NEW S, NEW string \in Seq(S), NEW substring \in Seq(S), Len(substring) > 1,
         Client!Found(string, 0, Len(string), substring)
  PROVE  Client!Data(string) \in Seq(S) /\ HasPart(Client!Data(string), SubSeq(substring, 1,
    Len(substring) - 1))
<1> DEFINE n == Len(string)
           m == Len(substring) - 1
           u == SubSeq(substring, 1, m)
<1>1. PICK f : /\ Client!Found(string, 0, n, substring) = f[<<0, 0>>]
               /\ \A q, j \in Nat : f[<<q, j>>] = SearchStep(string, 0, n, substring, f, <<q, j>>)
  <2>1. n \in Nat
    OBVIOUS
  <2> HIDE DEF n
  <2> QED BY <2>1, FoundIs
<1>2. PICK g : Client!Data(string) = g[1] /\ \A h \in Nat \ {0} : g[h] = DataStep(string, g, h)
        /\ g[h] \in Seq(S)
  BY DataIs
<1>3. n \in Nat /\ m \in Nat \ {0} /\ u \in Seq(S) /\ Len(u) = m
      /\ \A j \in 0..m : /\ SubSeq(substring, 1, j) \in Seq(S) /\ Len(SubSeq(substring, 1, j)) = j
      /\ \A k \in 0..m : k < m => SubSeq(substring, 1, k + 1) = SubSeq(substring, 1,
           k) \o <<substring[k + 1]>>
  <2>0. n \in Nat /\ Len(substring) \in Nat /\ Len(substring) > 1
    OBVIOUS
  <2>1. n \in Nat /\ m \in Nat \ {0} /\ \A j \in 0..m : j \in 0..Len(substring) /\ j < Len(substring)
    <3> DEFINE x == Len(substring)
    <3> HIDE DEF x
    <3>1. x \in Nat /\ x > 1 => x - 1 \in Nat \ {0} /\ \A j \in 0..(x - 1) : j \in 0..x /\ j < x
      OBVIOUS
    <3> QED BY <2>0, <3>1 DEF x
  <2>2. m \in 0..m
    BY <2>1
  <2> HIDE DEF m, n
  <2> QED BY <2>1, <2>2, PrefixIs DEF u
<1>4. \A q, j \in Nat : f[<<q, j>>] =>
        /\ q < n
        /\ \/ string[q + 1] = Client!IAC /\ f[<<q + 3, j>>]
           \/ /\ string[q + 1] # Client!IAC
              /\ \/ string[q + 1] = substring[j + 1] /\ (j + 1 = m \/ f[<<q + 1, j + 1>>])
                 \/ f[<<q + 1, 0>>]
  <2> SUFFICES ASSUME NEW q \in Nat, NEW j \in Nat, f[<<q, j>>]
      PROVE  /\ q < n
             /\ \/ string[q + 1] = Client!IAC /\ f[<<q + 3, j>>]
                \/ /\ string[q + 1] # Client!IAC
                   /\ \/ string[q + 1] = substring[j + 1] /\ (j + 1 = m \/ f[<<q + 1, j + 1>>])
                      \/ f[<<q + 1, 0>>]
    OBVIOUS
  <2>1. SearchStep(string, 0, n, substring, f, <<q, j>>)
    BY <1>1
  <2>2. <<q, j>>[1] = q /\ <<q, j>>[2] = j
    OBVIOUS
  <2>3. 0 # m
    BY <1>3
  <2>4. q >= 0 + n <=> ~(q < n)
    BY <1>3
  <2> HIDE DEF n
  <2> QED BY <2>1, <2>2, <2>3, <2>4, Zenon DEF SearchStep
<1>5. \A q \in Nat : q < n => g[q + 1] = (IF string[q + 1] = Client!IAC THEN g[q + 4]
        ELSE <<string[q + 1]>> \o g[q + 2])
                           /\ string[q + 1] \in S
  <2> TAKE q \in Nat
  <2> HAVE q < n
  <2>1. g[q + 1] = DataStep(string, g, q + 1)
    BY <1>2
  <2>2. (q + 1) + 3 = q + 4 /\ (q + 1) + 1 = q + 2 /\ ~(q + 1 > n) /\ q + 1 \in 1..n
    BY <1>3
  <2>3. string[q + 1] \in S
    BY <2>2
  <2> QED BY <2>1, <2>2, <2>3 DEF DataStep
<1> HIDE DEF n, m, u
<1>6. \A q, j \in Nat : j < m /\ f[<<q, j>>] => HasPart(SubSeq(substring, 1, j) \o g[q + 1], u)
  <2> DEFINE P(q, j) == j < m /\ f[<<q, j>>] => HasPart(SubSeq(substring, 1, j) \o g[q + 1], u)
             Bad == {d \in Nat : \E q, j \in Nat : q + d = n + 3 /\ ~P(q, j)}
  <2>1. SUFFICES Bad = {}
    <3>1. SUFFICES ASSUME NEW q \in Nat, NEW j \in Nat, ~P(q, j) PROVE FALSE
      OBVIOUS
    <3>2. q < n
      BY <1>4, <3>1
    <3>3. n + 3 - q \in Nat /\ q + (n + 3 - q) = n + 3
      BY <1>3, <3>2
    <3> HIDE DEF P
    <3> QED BY <2>1, <3>1, <3>3
  <2>2. SUFFICES ASSUME Bad # {} PROVE FALSE
    OBVIOUS
  <2>3. PICK d \in Bad : \A x \in Bad : d <= x
    <3>1. Bad \in SUBSET Nat
      OBVIOUS
    <3> HIDE DEF Bad
    <3> QED BY <2>2, <3>1, Least
  <2>4. d \in Nat
    BY <2>3
  <2>5. PICK q \in Nat, j \in Nat : q + d = n + 3 /\ ~P(q, j)
    BY <2>3
  <2>6. j < m /\ f[<<q, j>>] /\ ~HasPart(SubSeq(substring, 1, j) \o g[q + 1], u)
    BY <2>5
  <2>7. q < n
    BY <1>4, <2>6
  <2>8. d - 1 \in Nat /\ d - 3 \in Nat /\ ~(d <= d - 1) /\ ~(d <= d - 3) /\ (q + 1) + (d - 1) = n + 3
        /\ (q + 3) + (d - 3) = n + 3 /\ q + 1 \in Nat /\ q + 3 \in Nat
    <3>1. q + d = n + 3
      BY <2>5
    <3> HIDE DEF P, Bad
    <3> QED BY <1>3, <2>4, <2>7, <3>1
  <2>9. d - 1 \notin Bad /\ d - 3 \notin Bad
    <3> HIDE DEF Bad
    <3> QED BY <2>3, <2>8
  <2>10. /\ \A h \in Nat : h < m /\ f[<<q + 1, h>>] => HasPart(SubSeq(substring, 1, h) \o g[q + 2], u)
         /\ \A h \in Nat : h < m /\ f[<<q + 3, h>>] => HasPart(SubSeq(substring, 1, h) \o g[q + 4], u)
    <3>1. \A h \in Nat : P(q + 1, h) /\ P(q + 3, h)
      <4> HIDE DEF P
      <4> QED BY <2>8, <2>9
    <3>2. (q + 3) + 1 = q + 4 /\ (q + 1) + 1 = q + 2
      OBVIOUS
    <3> QED BY <3>1, <3>2, Zenon
  <2> DEFINE c == string[q + 1]
             v == SubSeq(substring, 1, j)
  <2>11. v \in Seq(S) /\ c \in S /\ g[q + 1] \in Seq(S) /\ g[q + 2] \in Seq(S) /\ g[q + 4] \in Seq(S)
         /\ g[q + 1] = IF c = Client!IAC THEN g[q + 4] ELSE <<c>> \o g[q + 2]
    <3>1. j \in 0..m
      BY <1>3, <2>6
    <3>2. q + 1 \in Nat \ {0} /\ q + 2 \in Nat \ {0} /\ q + 4 \in Nat \ {0}
      OBVIOUS
    <3> QED BY <1>2, <1>3, <1>5, <2>7, <3>1, <3>2
  <2> HIDE DEF P, Bad
  <2>13. CASE c = Client!IAC /\ f[<<q + 3, j>>]
    <3>1. HasPart(v \o g[q + 4], u)
      BY <2>6, <2>10, <2>13, Zenon
    <3> HIDE DEF c, v
    <3> QED BY <2>6, <2>11, <2>13, <3>1 DEF v
  <2>14. CASE c # Client!IAC /\ f[<<q + 1, 0>>]
    <3>1. HasPart(SubSeq(substring, 1, 0) \o g[q + 2], u)
      <4>1. 0 \in Nat /\ 0 < m
        BY <1>3
      <4> QED BY <2>10, <2>14, <4>1, Zenon
    <3>2. SubSeq(substring, 1, 0) \o g[q + 2] = g[q + 2]
      <4>1. 0 \in 0..m
        BY <1>3
      <4>2. SubSeq(substring, 1, 0) \in Seq(S) /\ Len(SubSeq(substring, 1, 0)) = 0
        BY <1>3, <4>1
      <4>3. SubSeq(substring, 1, 0) = <<>>
        BY <4>2
      <4> QED BY <2>11, <4>3
    <3>3. v \o <<c>> \in Seq(S) /\ <<c>> \in Seq(S)
      BY <2>11
    <3> HIDE DEF v, c
    <3>4. HasPart((v \o <<c>>) \o g[q + 2], u)
      BY <1>3, <2>11, <3>1, <3>2, <3>3, HasAfter
    <3>5. (v \o <<c>>) \o g[q + 2] = v \o (<<c>> \o g[q + 2])
      <4> DEFINE y == <<c>>
                 z == g[q + 2]
      <4>1. v \in Seq(S) /\ y \in Seq(S) /\ z \in Seq(S)
        BY <2>11, <3>3
      <4> HIDE DEF y, z
      <4>2. (v \o y) \o z = v \o (y \o z)
        BY <4>1, ConcatAssociative
      <4> QED BY <4>2 DEF y, z
    <3> QED BY <2>6, <2>11, <2>14, <3>4, <3>5 DEF v
  <2>15. CASE c # Client!IAC /\ c = substring[j + 1] /\ (j + 1 = m \/ f[<<q + 1, j + 1>>])
    <3> DEFINE w == SubSeq(substring, 1, j + 1)
    <3>1. j \in 0..m /\ j + 1 \in Nat
      BY <1>3, <2>6
    <3>2. w = v \o <<c>>
      BY <1>3, <2>6, <2>15, <3>1
    <3>3. <<c>> \in Seq(S)
      BY <2>11
    <3>4. HasPart(w \o g[q + 2], u)
      <4>1. CASE j + 1 = m
        <5>1. w = u
          BY <4>1 DEF u
        <5> HIDE DEF w
        <5> QED BY <1>3, <2>11, <5>1, HasFirst
      <4>2. CASE j + 1 # m /\ f[<<q + 1, j + 1>>]
        <5>1. j + 1 < m
          BY <1>3, <2>6, <3>1, <4>2
        <5> QED BY <2>10, <3>1, <4>2, <5>1, Zenon
      <4> QED BY <2>15, <4>1, <4>2
    <3> HIDE DEF v, c, w
    <3>5. (v \o <<c>>) \o g[q + 2] = v \o (<<c>> \o g[q + 2])
      <4> DEFINE y == <<c>>
                 z == g[q + 2]
      <4>1. v \in Seq(S) /\ y \in Seq(S) /\ z \in Seq(S)
        BY <2>11, <3>3
      <4> HIDE DEF y, z
      <4>2. (v \o y) \o z = v \o (y \o z)
        BY <4>1, ConcatAssociative
      <4> QED BY <4>2 DEF y, z
    <3> QED BY <2>6, <2>11, <2>15, <3>2, <3>4, <3>5 DEF v
  <2> QED BY <1>4, <2>6, <2>13, <2>14, <2>15
<1>7. HasPart(SubSeq(substring, 1, 0) \o g[1], u)
  <2>1. 0 < m /\ f[<<0, 0>>] /\ 0 + 1 = 1
    BY <1>1, <1>3 DEF n
  <2> QED BY <1>6, <2>1
<1>8. SubSeq(substring, 1, 0) \o g[1] = g[1]
  <2>1. 0 \in 0..m
    BY <1>3
  <2>2. SubSeq(substring, 1, 0) = <<>>
    BY <1>3, <2>1
  <2> QED BY <1>2, <2>2
<1>9. g[1] \in Seq(S) /\ Client!Data(string) = g[1]
  BY <1>2
<1>10. Client!Data(string) \in Seq(S) /\ HasPart(Client!Data(string), u)
  BY <1>7, <1>8, <1>9
<1> QED BY <1>10 DEF u, m

-----------------------------------------------------------------------------
(* The inductive invariant *)

ClientType ==
  /\ Client!TypeOK
  /\ {stream, buffer, answer, due, out} \subseteq Seq(Client!Bytes)

\* What is in the buffer at each line: a chunk without the prompt, or with it,
\* and then all that the host has sent since, but what is still to come.
BufferInv ==
  /\ pc \in {"open", "connect"} => buffer = <<>>
  /\ pc = "prompt" /\ buffer # <<>> => ~Client!Found(buffer, 0, Len(buffer), Prompt)
  /\ pc = "command" /\ r > 0 => Client!Found(buffer, 0, Len(buffer), Prompt)
  /\ pc \in {"answer", "show"} => due = buffer \o stream
  /\ pc = "answer" => len = Len(buffer)
  /\ pc = "show" => len + r <= Len(buffer)

EndInv ==
  /\ pc # "end" => out = <<>>
  /\ pc \notin {"open", "connect"} => connected \/ exit_code = 1
  /\ Client!PrintedFaithfully

ClientInv == ClientType /\ BufferInv /\ EndInv

LEMMA InitClient == ASSUME Client!ClientAssumption, Client!Init PROVE ClientInv
<1>1. stream \in Seq(Client!Bytes) /\ answer \in Seq(Client!Bytes)
  BY DEF Client!Init, Client!ClientAssumption, Client!Texts
<1>2. buffer = <<>> /\ due = <<>> /\ out = <<>> /\ Len(buffer) = 0 /\ <<>> \in Seq(Client!Bytes)
  BY DEF Client!Init
<1>3. ClientType
  <2>1. BUF_SIZE \in Nat
    BY DEF Client!ClientAssumption
  <2>2. Client!TypeOK
    <3>1. 0 \in -1..BUF_SIZE /\ 0 \in 0..BUF_SIZE /\ 0 <= BUF_SIZE
      BY <2>1
    <3>2. pc = "open" /\ exit_code = 0 /\ connected = FALSE /\ closed = FALSE /\ r = 0 /\ len = 0
      BY DEF Client!Init
    <3> QED BY <1>2, <3>1, <3>2 DEF Client!TypeOK
  <2> QED BY <1>1, <1>2, <2>2 DEF ClientType
<1> QED BY <1>2, <1>3 DEF Client!Init, ClientInv, BufferInv, EndInv, Client!PrintedFaithfully

\* What recv hands over is the start of the stream.
LEMMA ReceivedIs ==
  ASSUME stream \in Seq(Client!Bytes), NEW room \in Nat,
         NEW chunk \in Client!Received(room), Client!Taken(chunk)
  PROVE  /\ chunk \in Seq(Client!Bytes) /\ Len(chunk) <= room /\ connected
         /\ stream' \in Seq(Client!Bytes) /\ stream = chunk \o stream'
<1>1. connected /\ stream' = SubSeq(stream, Len(chunk) + 1, Len(stream))
  BY DEF Client!Taken
<1>2. CASE chunk = <<>>
  <2>1. stream' = SubSeq(stream, 1, Len(stream))
    BY <1>1, <1>2
  <2>2. stream' = stream
    BY <2>1
  <2>3. Len(chunk) = 0 /\ chunk \in Seq(Client!Bytes) /\ chunk \o stream = stream
    BY <1>2
  <2> QED BY <1>1, <2>2, <2>3
<1>3. CASE chunk # <<>>
  <2>1. PICK n \in 1..Len(stream) : n <= room /\ chunk = SubSeq(stream, 1, n)
    BY <1>3 DEF Client!Received
  <2>2. chunk \in Seq(Client!Bytes) /\ Len(chunk) = n
    BY <2>1
  <2>3. stream' = SubSeq(stream, n + 1, Len(stream))
    BY <1>1, <2>2
  <2>4. stream' \in Seq(Client!Bytes) /\ Len(stream') = Len(stream) - n
    BY <2>3
  <2>5. SubSeq(stream, 1, n) \o SubSeq(stream, n + 1, Len(stream)) = stream
    <3>1. stream \in Seq(Client!Bytes) /\ Len(stream) \in Nat /\ n \in (1 - 1)..Len(stream)
            /\ 1 \in 1..(Len(stream) + 1)
      BY <2>1
    <3>2. Len(stream) \in n..Len(stream) /\ SubSeq(stream, 1, Len(stream)) = stream
      BY <3>1
    <3> QED BY <3>1, <3>2, ConcatAdjacentSubSeq
  <2> QED BY <1>1, <2>1, <2>2, <2>3, <2>4, <2>5
<1> QED BY <1>2, <1>3

LEMMA AwaitKeeps == ASSUME Client!ClientAssumption, ClientInv, Client!AwaitPrompt PROVE ClientInv'
<1>1. PICK chunk \in Client!Received(BUF_SIZE - 1) : Client!Taken(chunk) /\ Client!TakeChunk(chunk)
  BY DEF Client!AwaitPrompt
<1>2. pc = "prompt" /\ UNCHANGED <<exit_code, connected, closed, len, answer, due, out>>
  BY DEF Client!AwaitPrompt
<1>3. BUF_SIZE - 1 \in Nat /\ BUF_SIZE \in Nat
  BY DEF Client!ClientAssumption
<1>4. stream \in Seq(Client!Bytes) /\ out = <<>>
  BY <1>2 DEF ClientInv, ClientType, EndInv
<1>5. chunk \in Seq(Client!Bytes) /\ Len(chunk) <= BUF_SIZE - 1 /\ connected
        /\ stream' \in Seq(Client!Bytes) /\ Len(chunk) \in Nat
  <2>1. chunk \in Seq(Client!Bytes) /\ Len(chunk) <= BUF_SIZE - 1 /\ connected
          /\ stream' \in Seq(Client!Bytes)
    BY <1>1, <1>3, <1>4, ReceivedIs
  <2> QED BY <2>1
<1>6. /\ buffer' = chunk /\ r' = Len(chunk)
      /\ pc' = IF chunk = <<>> \/ Client!Found(chunk, 0, Len(chunk), Prompt) THEN "command" ELSE "prompt"
  BY <1>1 DEF Client!TakeChunk, Client!StreamEnds
<1>7. r' > 0 <=> chunk # <<>>
  BY <1>5, <1>6
<1>8. ClientType'
  BY <1>2, <1>3, <1>5, <1>6 DEF ClientInv, ClientType, Client!TypeOK
<1>9. BufferInv'
  BY <1>6, <1>7 DEF BufferInv
<1>10. EndInv'
  BY <1>2, <1>4, <1>5, <1>6 DEF EndInv, Client!PrintedFaithfully
<1> QED BY <1>8, <1>9, <1>10 DEF ClientInv

LEMMA ReadKeeps == ASSUME Client!ClientAssumption, ClientInv, Client!ReadAnswer PROVE ClientInv'
<1>1. PICK chunk \in Client!Received(BUF_SIZE - len) : Client!Taken(chunk) /\ Client!TakeAnswer(chunk)
  BY DEF Client!ReadAnswer, Client!Room
<1>2. pc = "answer" /\ UNCHANGED <<exit_code, connected, closed, answer, due, out>>
  BY DEF Client!ReadAnswer
<1>3. BUF_SIZE - len \in Nat /\ BUF_SIZE \in Nat /\ len \in Nat
  BY DEF Client!ClientAssumption, ClientInv, ClientType, Client!TypeOK
<1>4. stream \in Seq(Client!Bytes) /\ buffer \in Seq(Client!Bytes) /\ out = <<>>
        /\ due = buffer \o stream /\ len = Len(buffer)
  BY <1>2 DEF ClientInv, ClientType, EndInv, BufferInv
<1>5. chunk \in Seq(Client!Bytes) /\ Len(chunk) <= BUF_SIZE - len /\ connected
        /\ stream' \in Seq(Client!Bytes) /\ stream = chunk \o stream'
  BY <1>1, <1>3, <1>4, ReceivedIs
<1>6. /\ r' = Len(chunk) /\ buffer' = buffer \o chunk
      /\ \/ pc' = "show" /\ len' = len
         \/ pc' = "answer" /\ len' = len + Len(chunk)
  BY <1>1 DEF Client!TakeAnswer, Client!Appended
<1>7. buffer' \in Seq(Client!Bytes) /\ Len(buffer') = len + Len(chunk) /\ Len(chunk) \in Nat
        /\ Len(buffer') <= BUF_SIZE
  <2>1. buffer \o chunk \in Seq(Client!Bytes) /\ Len(buffer \o chunk) = Len(buffer) + Len(chunk)
          /\ Len(chunk) \in Nat
    BY <1>4, <1>5
  <2> QED BY <1>3, <1>4, <1>5, <1>6, <2>1
<1>8. due' = buffer' \o stream'
  <2>1. (buffer \o chunk) \o stream' = buffer \o (chunk \o stream')
    BY <1>4, <1>5, ConcatAssociative
  <2> QED BY <1>2, <1>4, <1>5, <1>6, <2>1
<1>9. ClientType'
  BY <1>2, <1>3, <1>5, <1>6, <1>7 DEF ClientInv, ClientType, Client!TypeOK
<1>10. BufferInv'
  BY <1>3, <1>6, <1>7, <1>8 DEF BufferInv
<1>11. EndInv'
  BY <1>2, <1>4, <1>5, <1>6 DEF EndInv, Client!PrintedFaithfully
<1> QED BY <1>9, <1>10, <1>11 DEF ClientInv

\* What Show prints is what is due, from the first newline on.
LEMMA ShowKeeps == ASSUME Client!ClientAssumption, ClientInv, Client!Show PROVE ClientInv'
<1> DEFINE newlines == {h \in 1..Len(buffer) : buffer[h] = Client!Newline}
           first == CHOOSE h \in newlines : \A j \in newlines : h <= j
<1>1. pc = "show" /\ pc' = "end" /\ UNCHANGED <<exit_code, connected, Client!host, r, buffer, len>>
      /\ out' = IF newlines = {} THEN <<>> ELSE SubSeq(buffer, first, len + r - 1)
  BY DEF Client!Show
<1>2. /\ buffer \in Seq(Client!Bytes) /\ stream \in Seq(Client!Bytes) /\ due \in Seq(Client!Bytes)
           /\ due = buffer \o stream
      /\ len + r <= Len(buffer) /\ len \in Int /\ r \in Int /\ Len(buffer) \in Nat
      /\ (connected \/ exit_code = 1)
  BY <1>1 DEF ClientInv, ClientType, Client!TypeOK, BufferInv, EndInv
<1>3. newlines # {} => first \in newlines /\ \A j \in newlines : first <= j
  <2>1. newlines \in SUBSET Nat
    OBVIOUS
  <2> HIDE DEF newlines
  <2> QED BY <2>1, Least
<1> DEFINE z == len + r - 1
<1>4. z \in Int /\ z < Len(buffer)
  BY <1>2
<1>5. CASE newlines = {} \/ z < first
  <2>1. out' = <<>>
    <3>1. CASE newlines = {}
      BY <1>1, <3>1
    <3>2. CASE newlines # {} /\ z < first
      <4>1. out' = SubSeq(buffer, first, z) /\ first \in 1..Len(buffer)
        BY <1>1, <1>3, <3>2
      <4> HIDE DEF first, z
      <4> QED BY <1>2, <1>4, <3>2, <4>1
    <3> QED BY <1>5, <3>1, <3>2
  <2>2. ClientType'
    <3>1. <<>> \in Seq(Client!Bytes)
      OBVIOUS
    <3> QED BY <1>1, <2>1, <3>1 DEF ClientInv, ClientType, Client!TypeOK, Client!host
  <2> QED BY <1>1, <1>2, <2>1, <2>2 DEF ClientInv, BufferInv, EndInv, Client!PrintedFaithfully, Client!host
<1>6. CASE newlines # {} /\ first <= z
  <2>1. first \in 1..Len(buffer) /\ buffer[first] = Client!Newline
          /\ \A j \in 1..Len(buffer) : buffer[j] = Client!Newline => first <= j
    BY <1>3, <1>6
  <2>2. out' = SubSeq(buffer, first, z)
    BY <1>1, <1>6
  <2> HIDE DEF newlines, first, z
  <2>3. out' \in Seq(Client!Bytes) /\ Len(out') = z - first + 1
          /\ \A j \in 1..(z - first + 1) : out'[j] = buffer[first + j - 1]
    BY <1>2, <1>4, <1>6, <2>1, <2>2
  <2>4. due' = due /\ Len(due) = Len(buffer) + Len(stream) /\ Len(stream) \in Nat
          /\ \A j \in 1..Len(buffer) : due[j] = buffer[j]
    BY <1>1, <1>2 DEF Client!host
  <2>5. first \in 1..(Len(due') - Len(out') + 1) /\ first + Len(out') - 1 = z
    BY <1>2, <1>4, <2>1, <2>3, <2>4
  <2>6. out' = SubSeq(due', first, first + Len(out') - 1)
    <3> DEFINE x == SubSeq(due, first, z)
    <3>0. due \in Seq(Client!Bytes) /\ first \in 1..Len(due) /\ z \in first..Len(due)
      BY <1>2, <1>4, <1>6, <2>1, <2>4
    <3>1. x \in Seq(Client!Bytes) /\ Len(x) = z - first + 1
            /\ \A j \in 1..(z - first + 1) : x[j] = due[first + j - 1]
      BY <3>0
    <3>2. \A j \in 1..(z - first + 1) : x[j] = out'[j]
      <4> TAKE j \in 1..(z - first + 1)
      <4>1. first + j - 1 \in 1..Len(buffer)
        BY <1>2, <1>4, <1>6, <2>1
      <4> QED BY <2>3, <2>4, <3>1, <4>1
    <3> HIDE DEF x
    <3>3. x = out'
      BY <2>3, <3>1, <3>2
    <3> QED BY <2>4, <2>5, <3>3 DEF x
  <2>7. \A j \in 1..first : (due'[j] = Client!Newline) = (j = first)
    BY <1>2, <2>1, <2>4
  <2>8. Client!PrintedFaithfully'
    BY <2>5, <2>6, <2>7 DEF Client!PrintedFaithfully
  <2>9. ClientType'
    BY <1>1, <2>3 DEF ClientInv, ClientType, Client!TypeOK, Client!host
  <2> QED BY <1>1, <1>2, <2>8, <2>9 DEF ClientInv, BufferInv, EndInv, Client!host
<1>7. newlines # {} => first \in Int
  BY <1>3
<1> QED BY <1>4, <1>5, <1>6, <1>7

LEMMA NextClient == ASSUME Client!ClientAssumption, ClientInv, [Client!Next]_Client!vars PROVE ClientInv'
<1>1. CASE Client!Open
  BY <1>1 DEF Client!Open, Client!OpenFailure, Client!host, ClientInv, ClientType, Client!TypeOK,
    BufferInv, EndInv, Client!PrintedFaithfully
<1>2. CASE Client!Connect
  <2>1. pc = "connect" /\ pc' = "prompt" /\ (connected' \/ exit_code' = 1)
          /\ exit_code' \in {exit_code, 1} /\ connected' \in {connected, TRUE}
        /\ UNCHANGED <<stream, closed, answer, due, r, buffer, len, out>>
    BY <1>2 DEF Client!Connect, Client!Fail, Client!host
  <2> QED BY <2>1 DEF ClientInv, ClientType, Client!TypeOK, BufferInv, EndInv, Client!PrintedFaithfully
<1>3. CASE Client!AwaitFails
  <2>1. pc = "prompt" /\ r' = -1 /\ exit_code' = 1 /\ pc' = "end"
          /\ UNCHANGED <<connected, stream, closed, answer, due, buffer, len, out>>
    BY <1>3 DEF Client!AwaitFails, Client!RecvFails, Client!host
  <2>2. ClientType'
    BY <2>1 DEF ClientInv, ClientType, Client!TypeOK, Client!ClientAssumption
  <2> QED BY <2>1, <2>2 DEF ClientInv, BufferInv, EndInv, Client!PrintedFaithfully
<1>4. CASE Client!Command
  <2>1. pc = "command"
    BY <1>4 DEF Client!Command
  <2>2. CASE Client!Fail("end")
    BY <2>1, <2>2 DEF Client!Fail, Client!host, ClientInv, ClientType, Client!TypeOK, BufferInv, EndInv,
      Client!PrintedFaithfully
  <2>3. CASE /\ pc' = "answer"
             /\ stream' = IF closed THEN stream ELSE stream \o answer
             /\ due' = stream' /\ buffer' = <<>> /\ len' = 0
             /\ UNCHANGED <<exit_code, connected, closed, r, answer, out>>
    <3>1. stream \in Seq(Client!Bytes) /\ answer \in Seq(Client!Bytes) /\ out = <<>> /\ BUF_SIZE \in Nat
      BY <2>1 DEF ClientInv, ClientType, EndInv, Client!ClientAssumption
    <3>2. stream' \in Seq(Client!Bytes) /\ buffer' \in Seq(Client!Bytes) /\ Len(buffer') = 0
            /\ buffer' \o stream' = stream'
      <4>1. stream \o answer \in Seq(Client!Bytes)
        BY <3>1
      <4>2. stream' \in Seq(Client!Bytes)
        BY <2>3, <3>1, <4>1
      <4> QED BY <2>3, <4>2
    <3>3. ClientType'
      BY <2>3, <3>1, <3>2 DEF ClientInv, ClientType, Client!TypeOK
    <3>4. BufferInv'
      BY <2>3, <3>2 DEF BufferInv
    <3>5. EndInv'
      BY <2>1, <2>3, <3>1 DEF ClientInv, EndInv, Client!PrintedFaithfully
    <3> QED BY <3>3, <3>4, <3>5 DEF ClientInv
  <2> QED BY <1>4, <2>2, <2>3 DEF Client!Command
<1>5. CASE Client!AnswerFails
  <2>1. pc = "answer" /\ r' = -1 /\ exit_code' = 1 /\ pc' = "show"
          /\ UNCHANGED <<connected, stream, closed, answer, due, buffer, len, out>>
    BY <1>5 DEF Client!AnswerFails, Client!RecvFails, Client!host
  <2>2. ClientType'
    BY <2>1 DEF ClientInv, ClientType, Client!TypeOK, Client!ClientAssumption
  <2>3. len = Len(buffer) /\ len \in Int
    BY <2>1 DEF ClientInv, BufferInv, ClientType, Client!TypeOK
  <2> QED BY <2>1, <2>2, <2>3 DEF ClientInv, BufferInv, EndInv, Client!PrintedFaithfully
<1>6. CASE Client!HostCloses
  BY <1>6 DEF Client!HostCloses, ClientInv, ClientType, Client!TypeOK, BufferInv, EndInv,
    Client!PrintedFaithfully
<1>7. CASE UNCHANGED Client!vars
  BY <1>7 DEF Client!vars, Client!host, ClientInv, ClientType, Client!TypeOK, BufferInv, EndInv,
    Client!PrintedFaithfully
<1> QED BY <1>1, <1>2, <1>3, <1>4, <1>5, <1>6, <1>7, AwaitKeeps, ReadKeeps, ShowKeeps DEF Client!Next,
      Client!Main, Client!Ended

\* The client succeeds only with a connection, misses no prompt that comes in one
\* piece, asks only after a prompt, and prints bytes of the answer that stand
\* together there from its first newline on, however the stream is cut and
\* whatever the size of the buffer (src/11-client/main.c:22-185).
LEMMA PrintedCorrect ==
  ASSUME Client!ClientAssumption
  PROVE  Client!Spec => [](Client!TypeOK /\ Client!SuccessConnected /\ Client!PromptRecognised
    /\ Client!PromptAwaited /\ Client!PrintedFaithfully)
<1>1. Client!Init => ClientInv
  BY InitClient
<1>2. ClientInv /\ [Client!Next]_Client!vars => ClientInv'
  BY NextClient
<1>3. ClientInv => Client!TypeOK /\ Client!SuccessConnected /\ Client!PromptRecognised
        /\ Client!PromptAwaited /\ Client!PrintedFaithfully
  <2> SUFFICES ASSUME ClientInv PROVE Client!TypeOK /\ Client!SuccessConnected
        /\ Client!PromptRecognised /\ Client!PromptAwaited /\ Client!PrintedFaithfully
    OBVIOUS
  <2>1. Client!TypeOK /\ Client!SuccessConnected /\ Client!PrintedFaithfully
    BY DEF ClientInv, ClientType, EndInv, Client!SuccessConnected
  <2>2. buffer \in Seq(Client!Bytes) /\ Prompt \in Seq(Client!Bytes) /\ Len(Prompt) > 1
    BY DEF ClientInv, ClientType, Client!ClientAssumption, Client!Texts
  <2>3. Client!PromptRecognised
    <3> SUFFICES ASSUME pc = "prompt", NEW h \in 1..(Len(buffer) - Len(Prompt) + 1),
                        SubSeq(buffer, h, h + Len(Prompt) - 1) = Prompt,
                        \A j \in 1..Len(buffer) : buffer[j] # Client!IAC /\ (j < h => buffer[j] # Prompt[1])
                 PROVE FALSE
      BY DEF Client!PromptRecognised
    <3>1. Client!Found(buffer, 0, Len(buffer), Prompt)
      BY <2>2, FindsWhole
    <3>2. buffer # <<>>
      BY <2>2
    <3> QED BY <3>1, <3>2 DEF ClientInv, BufferInv
  <2>4. Client!PromptAwaited
    <3> SUFFICES ASSUME pc = "command", r > 0
                 PROVE  \E h \in 1..(Len(Client!Data(buffer)) - Len(Prompt) + 2) :
                          SubSeq(Client!Data(buffer), h, h + Len(Prompt) - 2) = SubSeq(Prompt, 1,
                            Len(Prompt) - 1)
      BY DEF Client!PromptAwaited
    <3> DEFINE u == SubSeq(Prompt, 1, Len(Prompt) - 1)
               t == Client!Data(buffer)
    <3>1. Client!Found(buffer, 0, Len(buffer), Prompt)
      BY DEF ClientInv, BufferInv
    <3>2. t \in Seq(Client!Bytes) /\ HasPart(t, u)
      BY <2>2, <3>1, FindsData
    <3>3. Len(u) = Len(Prompt) - 1 /\ Len(Prompt) \in Nat
      BY <2>2
    <3> HIDE DEF t, u
    <3>4. PICK h \in 1..(Len(t) - Len(u) + 1) : SubSeq(t, h, h + Len(u) - 1) = u
      BY <3>2 DEF HasPart
    <3>5. h \in 1..(Len(t) - Len(Prompt) + 2) /\ h + Len(u) - 1 = h + Len(Prompt) - 2
      BY <3>2, <3>3
    <3> QED BY <3>4, <3>5 DEF t, u
  <2> QED BY <2>1, <2>3, <2>4
<1> QED BY <1>1, <1>2, <1>3, PTL DEF Client!Spec

-----------------------------------------------------------------------------
(* AuthHook: any number of pods and of bits in an address.                 *)

(* The mask *)

\* A mask of n ones compares addresses as the quotients by 2^(Width - n) do.
LEMMA MaskCompares ==
  ASSUME Hook!HookAssumption, NEW bits \in 0..Width, NEW a \in Hook!Addresses, NEW b \in Hook!Addresses
  PROVE  /\ Hook!Mask(bits) \in Hook!Addresses
         /\ And(a, Hook!Mask(bits)) = And(b,
              Hook!Mask(bits)) <=> a \div 2^(Width - bits) = b \div 2^(Width - bits)
<1> DEFINE k == Width - bits
           m == 2^k
           w == 2^Width
<1>1. k \in 0..Width /\ Width \in Nat \ {0}
  BY DEF Hook!HookAssumption
<1>2. m \in 1..w /\ w \in Nat
  <2>1. Width \in 0..Width
    BY <1>1
  <2>2. 2^Width \in 1..2^Width
    BY <2>1 DEF Hook!HookAssumption
  <2>3. 2^k \in 1..2^Width
    BY <1>1 DEF Hook!HookAssumption
  <2> QED BY <2>2, <2>3
<1>3. Hook!Mask(bits) = w - m
  <2>1. CASE bits = 0
    BY <1>1, <1>2, <2>1 DEF Hook!Mask
  <2>2. CASE bits # 0
    BY <2>2 DEF Hook!Mask
  <2> QED BY <2>1, <2>2
<1>4. \A c \in Hook!Addresses : And(c, w - m) = (c \div m) * m
  BY <1>1 DEF Hook!HookAssumption
<1>5. Hook!Addresses = 0..(w - 1)
  BY DEF Hook!Addresses
<1> HIDE DEF w, m, k
<1>6. a \in Nat /\ b \in Nat /\ a \div m \in Int /\ b \div m \in Int
  BY <1>2, <1>5
<1>7. ASSUME NEW x \in Int, NEW y \in Int, x * m = y * m PROVE x = y
  <2>1. x < y => (x + 1) * m <= y * m
    BY <1>2, SMT
  <2>2. y < x => (y + 1) * m <= x * m
    BY <1>2, SMT
  <2>3. (x + 1) * m = x * m + m /\ (y + 1) * m = y * m + m
    BY <1>2, SMT
  <2>4. x * m \in Int /\ y * m \in Int
    BY <1>2, SMT
  <2> QED BY <1>2, <1>7, <2>1, <2>2, <2>3, <2>4
<1>8. And(a, Hook!Mask(bits)) = And(b, Hook!Mask(bits)) <=> a \div m = b \div m
  <2>1. And(a, Hook!Mask(bits)) = (a \div m) * m /\ And(b, Hook!Mask(bits)) = (b \div m) * m
    BY <1>3, <1>4
  <2> QED BY <1>6, <1>7, <2>1
<1>9. Hook!Mask(bits) \in Hook!Addresses
  BY <1>2, <1>3, <1>5
<1> QED BY <1>8, <1>9 DEF m, k

-----------------------------------------------------------------------------
(* The inductive invariant *)

Envs == [instance : BOOLEAN, cidr : [network : Hook!Addresses, bits : -1..Width + 1] \cup {Hook!NoCidr}]
Caches == [valid : BOOLEAN, network : Hook!Addresses, mask : Hook!Addresses, client : BOOLEAN]

HookType ==
  /\ Hook!TypeOK
  /\ env \in Envs /\ host \in Hook!Addresses \cup {Hook!NoAddress, Hook!Local}
  /\ {cluster, known, list} \subseteq [1..PodCount -> Hook!Pods]
  /\ cache \in Caches /\ authorized \in BOOLEAN /\ nextCalled \in BOOLEAN

\* The addresses of annotated pods that anybody has heard of.
MarksInv ==
  \A pods \in {cluster, known, list}, p \in 1..PodCount : pods[p].mark = "true" => pods[p].ip \in marked

\* What the variables that outlive a call hold of the CIDR.
CachesInv ==
  cache.valid => /\ env.cidr # Hook!NoCidr /\ env.cidr.bits \in 0..Width
                 /\ cache.network = env.cidr.network /\ cache.mask = Hook!Mask(env.cidr.bits)

\* What is known of the client at each line.
HookInv ==
  /\ pc \in {"start", "hook", "cached", "asking", "listed"} => ~authorized /\ verdict = "none"
  /\ pc \in {"start", "hook", "cached", "asking", "listed", "decided"} => ~nextCalled
  /\ pc # "listed" /\ ~authorized /\ pc # "refused" => list = Hook!NoPods
  /\ pc \in {"asking", "listed"} => Hook!Inside
  /\ pc \in {"decided", "returned"} /\ ~authorized => Hook!Inside
  /\ authorized => host = Hook!Local \/ (Hook!Inside /\ host \in marked)
  /\ pc = "returned" => nextCalled = authorized
  /\ verdict = "outside" => ~Hook!Inside

HookWorks == HookType /\ MarksInv /\ CachesInv /\ HookInv

\* is_ip_in_cidr (lines 43-71) says what the quotients say.
LEMMA InCidrExact ==
  ASSUME Hook!HookAssumption, HookType, CachesInv, cache.valid, host # Hook!Local
  PROVE  Hook!IsIpInCidr(host, cache) <=> Hook!Inside
<1>1. env.cidr # Hook!NoCidr /\ env.cidr.bits \in 0..Width /\ cache.network = env.cidr.network
        /\ cache.mask = Hook!Mask(env.cidr.bits)
      /\ cache.network \in Hook!Addresses
  BY DEF CachesInv, HookType, Caches
<1>2. Hook!NoAddress \notin Hook!Addresses
  BY DEF Hook!NoAddress, Hook!Addresses
<1>3. CASE host = Hook!NoAddress
  BY <1>2, <1>3 DEF Hook!IsIpInCidr, Hook!Inside
<1>4. CASE host \in Hook!Addresses
  <2>1. And(host, cache.mask) = And(cache.network, cache.mask)
          <=> host \div 2^(Width - env.cidr.bits) = cache.network \div 2^(Width - env.cidr.bits)
    BY <1>1, <1>4, MaskCompares
  <2> QED BY <1>1, <1>2, <1>4, <2>1 DEF Hook!IsIpInCidr, Hook!Inside
<1> QED BY <1>3, <1>4 DEF HookType

LEMMA ZeroAddress == ASSUME Hook!HookAssumption PROVE 0 \in Hook!Addresses
<1>1. 0 \in 0..Width /\ Width \in 0..Width
  BY DEF Hook!HookAssumption
<1>2. 2^Width \in 1..2^Width /\ 2^0 \in 1..2^Width
  BY <1>1 DEF Hook!HookAssumption
<1> QED BY <1>2 DEF Hook!Addresses

LEMMA InitHook == ASSUME Hook!HookAssumption, Hook!Init PROVE HookWorks
<1>1. 0 \in Hook!Addresses /\ Hook!NoPods \in [1..PodCount -> Hook!Pods]
        /\ \A p \in 1..PodCount : Hook!NoPods[p].mark # "true"
  BY ZeroAddress DEF Hook!NoPods, Hook!Pods
<1>2. HookType
  BY <1>1 DEF Hook!Init, HookType, Hook!TypeOK, Envs, Caches, Hook!NoCache
<1>3. MarksInv
  BY <1>1 DEF Hook!Init, MarksInv
<1>4. CachesInv
  BY DEF Hook!Init, CachesInv, Hook!NoCache
<1>5. HookInv
  BY DEF Hook!Init, HookInv
<1> QED BY <1>2, <1>3, <1>4, <1>5 DEF HookWorks

LEMMA NextHook == ASSUME Hook!HookAssumption, HookWorks, [Hook!Next]_Hook!vars PROVE HookWorks'
<1> USE DEF HookWorks, Hook!external
<1>0. PodCount \in Nat /\ Width \in Nat
  BY DEF Hook!HookAssumption
<1>1. CASE Hook!Change
  <2>1. PICK p \in 1..PodCount, pod \in Hook!Pods :
          /\ cluster' = [cluster EXCEPT ![p] = pod]
          /\ marked' = IF pod.mark = "true" THEN marked \cup {pod.ip} ELSE marked
    BY <1>1 DEF Hook!Change
  <2>2. UNCHANGED <<env, known, pc, host, cache, list, verdict, authorized, nextCalled>>
    BY <1>1 DEF Hook!Change
  <2>3. marked \subseteq marked' /\ (pod.mark = "true" => pod.ip \in marked')
    BY <2>1
  <2>4. HookType'
    BY <2>1, <2>2 DEF HookType, Hook!TypeOK
  <2>5. MarksInv'
    BY <2>1, <2>2, <2>3 DEF MarksInv, HookType
  <2>6. CachesInv'
    BY <2>2 DEF CachesInv
  <2>7. HookInv'
    BY <2>2, <2>3 DEF HookInv, Hook!Inside
  <2> QED BY <2>4, <2>5, <2>6, <2>7
<1>2. CASE Hook!Sync
  <2>1. known' = cluster /\ UNCHANGED <<env, cluster, changes, marked, pc, host, cache, list, verdict,
          authorized, nextCalled>>
    BY <1>2 DEF Hook!Sync
  <2> QED BY <2>1 DEF HookType, Hook!TypeOK, MarksInv, CachesInv, HookInv, Hook!Inside
<1>3. CASE Hook!Connect
  <2>1. pc = "start" /\ pc' = "hook" /\ host' \in Hook!Addresses \cup {Hook!NoAddress, Hook!Local}
        /\ UNCHANGED <<env, cluster, known, changes, marked, cache, list, verdict, authorized, nextCalled>>
    BY <1>3 DEF Hook!Connect
  <2> QED BY <2>1 DEF HookType, Hook!TypeOK, MarksInv, CachesInv, HookInv, Hook!Inside
<1>4. CASE Hook!FillCache
  <2>1. pc = "hook" /\ pc' = "cached"
        /\ UNCHANGED <<env, cluster, known, changes, marked, host, list, verdict, authorized, nextCalled>>
    BY <1>4 DEF Hook!FillCache
  <2>2. PICK c \in BOOLEAN :
          cache' = IF Hook!ValidBits(env.cidr.bits) /\ env.cidr.network # Hook!NoAddress
                   THEN [valid |-> TRUE, network |-> env.cidr.network,
                         mask |-> Hook!Mask(env.cidr.bits), client |-> c]
                   ELSE [Hook!NoCache EXCEPT !.client = c]
    BY <1>4 DEF Hook!FillCache
  <2>3. CASE env.cidr.bits \in 0..Width /\ env.cidr.network # Hook!NoAddress
    <3>1. env.cidr # Hook!NoCidr
      BY <2>3 DEF Hook!NoCidr
    <3>2. env.cidr.network \in Hook!Addresses
      BY <3>1 DEF HookType, Envs
    <3>3. Hook!Mask(env.cidr.bits) \in Hook!Addresses
      BY <2>3, <3>2, MaskCompares
    <3>4. cache' = [valid |-> TRUE, network |-> env.cidr.network, mask |-> Hook!Mask(env.cidr.bits),
            client |-> c]
      BY <2>2, <2>3 DEF Hook!ValidBits
    <3>5. HookType' /\ CachesInv'
      BY <2>1, <2>3, <3>1, <3>2, <3>3, <3>4 DEF HookType, Hook!TypeOK, CachesInv, Caches
    <3> QED BY <2>1, <3>5 DEF MarksInv, HookInv, Hook!Inside
  <2>4. CASE ~(env.cidr.bits \in 0..Width /\ env.cidr.network # Hook!NoAddress)
    <3>1. cache' = [Hook!NoCache EXCEPT !.client = c]
      BY <2>2, <2>4 DEF Hook!ValidBits
    <3>2. cache'.valid = FALSE /\ cache'.mask = 0 /\ cache'.network = 0
            /\ cache' = [valid |-> FALSE, network |-> 0, mask |-> 0, client |-> c]
      BY <3>1 DEF Hook!NoCache
    <3>3. 0 \in Hook!Addresses
      BY ZeroAddress
    <3>4. HookType' /\ CachesInv'
      BY <2>1, <3>2, <3>3 DEF HookType, Hook!TypeOK, CachesInv, Caches
    <3> QED BY <2>1, <3>4 DEF MarksInv, HookInv, Hook!Inside
  <2> QED BY <2>3, <2>4
<1>5. CASE Hook!Check
  <2>1. pc = "cached" /\ UNCHANGED <<env, cluster, known, changes, marked, host, cache, list, nextCalled>>
    BY <1>5 DEF Hook!Check
  <2>2. Hook!Inside' <=> Hook!Inside
    BY <2>1 DEF Hook!Inside
  <2>3. MarksInv' /\ CachesInv'
    BY <2>1 DEF MarksInv, CachesInv
  <2>4. CASE Hook!Reason # "none" /\ Hook!Refuse(Hook!Reason)
    <3>1. pc' = "refused" /\ verdict' = Hook!Reason /\ UNCHANGED authorized
      BY <2>4 DEF Hook!Refuse
    <3>2. Hook!Reason \in Hook!Refusals
      BY <2>4 DEF Hook!Reason, Hook!Refusals
    <3>3. Hook!Reason = "outside" => cache.valid /\ host # Hook!Local /\ ~Hook!IsIpInCidr(host, cache)
      BY DEF Hook!Reason
    <3>4. Hook!Reason = "outside" => ~Hook!Inside
      BY <3>3, InCidrExact
    <3>5. HookType'
      BY <2>1, <3>1, <3>2 DEF HookType, Hook!TypeOK
    <3> HIDE DEF HookWorks
    <3>6. ~authorized /\ ~nextCalled
      BY <2>1 DEF HookWorks, HookInv
    <3>7. HookInv'
      BY <2>1, <2>2, <3>1, <3>4, <3>6 DEF HookInv
    <3> QED BY <2>3, <3>5, <3>7 DEF HookWorks
  <2>5. CASE Hook!Reason = "none" /\ UNCHANGED verdict
          /\ pc' = (IF host = Hook!Local THEN "decided" ELSE "asking") /\ authorized' = (host = Hook!Local)
    <3>1. host # Hook!Local => cache.valid /\ Hook!IsIpInCidr(host, cache)
      BY <2>5 DEF Hook!Reason
    <3>2. host # Hook!Local => Hook!Inside
      BY <3>1, InCidrExact
    <3>3. HookType'
      BY <2>1, <2>5 DEF HookType, Hook!TypeOK
    <3>4. HookInv'
      BY <2>1, <2>2, <2>5, <3>2 DEF HookInv
    <3> QED BY <2>3, <3>3, <3>4
  <2> QED BY <1>5, <2>4, <2>5 DEF Hook!Check
<1>6. CASE Hook!Ask
  <2>1. pc = "asking" /\ UNCHANGED <<env, cluster, known, changes, marked, host, cache, nextCalled,
          authorized>>
    BY <1>6 DEF Hook!Ask, Hook!Refuse
  <2>2. \/ pc' = "refused" /\ verdict' \in {"rbac", "api"} /\ list' = list
        \/ pc' = "decided" /\ list' = list /\ verdict' = verdict
        \/ pc' = "listed" /\ list' = known /\ verdict' = verdict
    BY <1>6 DEF Hook!Ask, Hook!Refuse
  <2>3. HookType' /\ CachesInv'
    BY <2>1, <2>2 DEF HookType, Hook!TypeOK, CachesInv, Hook!Refusals
  <2>4. MarksInv'
    BY <2>1, <2>2 DEF MarksInv
  <2>5. HookInv'
    BY <2>1, <2>2 DEF HookInv, Hook!Inside
  <2> QED BY <2>3, <2>4, <2>5
<1>7. CASE Hook!Decide
  <2>1. pc = "listed" /\ UNCHANGED <<env, cluster, known, changes, marked, host, cache, list, nextCalled>>
    BY <1>7 DEF Hook!Decide
  <2>2. \/ Hook!Marked(list, host) /\ pc' = "decided" /\ authorized' = TRUE /\ verdict' = verdict
        \/ pc' = "refused" /\ verdict' = "unmarked" /\ authorized' = authorized
    BY <1>7 DEF Hook!Decide, Hook!Refuse
  <2>3. Hook!Marked(list, host) => host \in marked
    <3> SUFFICES ASSUME Hook!Marked(list, host) PROVE host \in marked
      OBVIOUS
    <3>1. DOMAIN list = 1..PodCount
      BY DEF HookType
    <3>2. PICK p \in 1..PodCount : list[p] = [ip |-> host, mark |-> "true"]
      BY <3>1 DEF Hook!Marked
    <3> QED BY <3>2 DEF MarksInv
  <2>4. HookType' /\ CachesInv' /\ MarksInv'
    BY <2>1, <2>2 DEF HookType, Hook!TypeOK, CachesInv, Hook!Refusals, MarksInv
  <2>5. HookInv'
    BY <2>1, <2>2, <2>3 DEF HookInv, Hook!Inside
  <2> QED BY <2>4, <2>5
<1>8. CASE Hook!CallNext
  <2>1. pc = "decided" /\ pc' = "returned" /\ nextCalled' = authorized
        /\ UNCHANGED <<env, cluster, known, changes, marked, host, cache, list, verdict, authorized>>
    BY <1>8 DEF Hook!CallNext, Hook!Chained
  <2> QED BY <2>1 DEF HookType, Hook!TypeOK, MarksInv, CachesInv, HookInv, Hook!Inside
<1>9. CASE UNCHANGED Hook!vars
  BY <1>9 DEF Hook!vars, HookType, Hook!TypeOK, MarksInv, CachesInv, HookInv, Hook!Inside
<1> QED BY <1>1, <1>2, <1>3, <1>4, <1>5, <1>6, <1>7, <1>8, <1>9 DEF Hook!Next

\* The strengthening is an invariant: every address of an annotated pod that the
\* cluster, the API's cache or a list has is marked, and what outlives a call of the
\* hook is the CIDR's network and mask (src/project/auth_k8s.c).
THEOREM HookInvariance == ASSUME Hook!HookAssumption PROVE Hook!Spec => []HookWorks
<1>1. Hook!Init => HookWorks
  BY InitHook
<1>2. HookWorks /\ [Hook!Next]_Hook!vars => HookWorks'
  BY NextHook
<1> QED BY <1>1, <1>2, PTL DEF Hook!Spec

\* A connection is authorized only from an address that some annotated pod inside
\* the CIDR had, and the next hook runs for such ones only, for every width of
\* addresses, any number of pods and any delay of the cache
\* (src/project/auth_k8s.c:43-172).
LEMMA VerifiedCorrect == ASSUME Hook!HookAssumption
PROVE Hook!Spec => [](Hook!CidrExact /\ Hook!VerifiedByPod /\ Hook!ChainOnlyAuthorized)
<1>1. HookWorks => Hook!CidrExact /\ Hook!VerifiedByPod /\ Hook!ChainOnlyAuthorized
  BY DEF HookWorks, HookInv, Hook!CidrExact, Hook!VerifiedByPod, Hook!ChainOnlyAuthorized
<1> QED BY <1>1, HookInvariance, PTL

-----------------------------------------------------------------------------
(* The composition: the program is chosen once, and takes its own steps.   *)

\* No step changes the program.
LEMMA ProgramFixed == [Next]_vars => program' = program
  BY DEF Next, vars, notServer, notLogger, notDaemon, notClient, notHook

\* A behaviour is one of the server with one worker, or never is.
LEMMA RunsServe == Spec => (([](program = "serve") /\ Serve!Spec) \/ []~(program = "serve"))
<1>1. Init /\ program = "serve" => Serve!Init
  BY DEF Init
<1>2. program = "serve" /\ [Next]_vars => [Serve!Next]_Serve!vars /\ (program = "serve")'
  <2> SUFFICES ASSUME program = "serve", [Next]_vars PROVE [Serve!Next]_Serve!vars
    BY ProgramFixed
  <2>1. UNCHANGED vars => UNCHANGED Serve!vars
    BY DEF vars, serverOnly, Serve!vars, Serve!mainVars, Serve!workerVars, Serve!netVars
  <2> QED BY <2>1 DEF Next, MayStop
<1>3. ~(program = "serve") /\ [Next]_vars => (~(program = "serve"))'
  BY ProgramFixed
<1> QED BY <1>1, <1>2, <1>3, PTL DEF Spec, Serve!Spec

\* A behaviour is one of the server with several, or never is.
LEMMA RunsRace == Spec => (([](program = "race") /\ Race!Spec) \/ []~(program = "race"))
<1>1. Init /\ program = "race" => Race!Init
  BY DEF Init
<1>2. program = "race" /\ [Next]_vars => [Race!Next]_Race!vars /\ (program = "race")'
  <2> SUFFICES ASSUME program = "race", [Next]_vars PROVE [Race!Next]_Race!vars
    BY ProgramFixed
  <2>1. UNCHANGED vars => UNCHANGED Race!vars
    BY DEF vars, serverOnly, Race!vars, Race!mainVars, Race!workerVars, Race!netVars
  <2> QED BY <2>1 DEF Next, MayStop
<1>3. ~(program = "race") /\ [Next]_vars => (~(program = "race"))'
  BY ProgramFixed
<1> QED BY <1>1, <1>2, <1>3, PTL DEF Spec, Race!Spec

\* A behaviour is one of the logging library, or never is.
LEMMA RunsLog == Spec => (([](program = "log") /\ Log!Spec) \/ []~(program = "log"))
<1>1. Init /\ program = "log" => Log!Init
  BY DEF Init
<1>2. program = "log" /\ [Next]_vars => [Log!Next]_Log!vars /\ (program = "log")'
  <2> SUFFICES ASSUME program = "log", [Next]_vars PROVE [Log!Next]_Log!vars
    BY ProgramFixed
  <2>1. UNCHANGED vars => UNCHANGED Log!vars
    BY DEF vars, loggerOnly, Log!vars, Log!logger, Log!stdio, Log!call, Log!bounds
  <2> QED BY <2>1 DEF Next, MayStop
<1>3. ~(program = "log") /\ [Next]_vars => (~(program = "log"))'
  BY ProgramFixed
<1> QED BY <1>1, <1>2, <1>3, PTL DEF Spec, Log!Spec

\* A behaviour is one of the size daemon, or never is.
LEMMA RunsDaemon == Spec => (([](program = "daemon") /\ Daemon!Spec) \/ []~(program = "daemon"))
<1>1. Init /\ program = "daemon" => Daemon!Init
  BY DEF Init
<1>2. program = "daemon" /\ [Next]_vars => [Daemon!Next]_Daemon!vars /\ (program = "daemon")'
  <2> SUFFICES ASSUME program = "daemon", [Next]_vars PROVE [Daemon!Next]_Daemon!vars
    BY ProgramFixed
  <2>1. UNCHANGED vars => UNCHANGED Daemon!vars
    BY DEF vars, daemonOnly, Daemon!vars, Daemon!parser, Daemon!server, Daemon!world
  <2> QED BY <2>1 DEF Next, MayStop
<1>3. ~(program = "daemon") /\ [Next]_vars => (~(program = "daemon"))'
  BY ProgramFixed
<1> QED BY <1>1, <1>2, <1>3, PTL DEF Spec, Daemon!Spec

\* A behaviour is one of the telnet client, or never is.
LEMMA RunsClient == Spec => (([](program = "client") /\ Client!Spec) \/ []~(program = "client"))
<1>1. Init /\ program = "client" => Client!Init
  BY DEF Init
<1>2. program = "client" /\ [Next]_vars => [Client!Next]_Client!vars /\ (program = "client")'
  <2> SUFFICES ASSUME program = "client", [Next]_vars PROVE [Client!Next]_Client!vars
    BY ProgramFixed
  <2>1. UNCHANGED vars => UNCHANGED Client!vars
    BY DEF vars, clientOnly, Client!vars, Client!host
  <2> QED BY <2>1 DEF Next, MayStop
<1>3. ~(program = "client") /\ [Next]_vars => (~(program = "client"))'
  BY ProgramFixed
<1> QED BY <1>1, <1>2, <1>3, PTL DEF Spec, Client!Spec

\* A behaviour is one of the authentication hook, or never is.
LEMMA RunsHook == Spec => (([](program = "hook") /\ Hook!Spec) \/ []~(program = "hook"))
<1>1. Init /\ program = "hook" => Hook!Init
  BY DEF Init
<1>2. program = "hook" /\ [Next]_vars => [Hook!Next]_Hook!vars /\ (program = "hook")'
  <2> SUFFICES ASSUME program = "hook", [Next]_vars PROVE [Hook!Next]_Hook!vars
    BY ProgramFixed
  <2>1. UNCHANGED vars => UNCHANGED Hook!vars
    BY DEF vars, hookOnly, Hook!vars, Hook!external
  <2> QED BY <2>1 DEF Next, MayStop
<1>3. ~(program = "hook") /\ [Next]_vars => (~(program = "hook"))'
  BY ProgramFixed
<1> QED BY <1>1, <1>2, <1>3, PTL DEF Spec, Hook!Spec

\* Whatever the program, the types hold.
THEOREM ServicesTypeCorrect == Spec => []TypeOK
<1>1. Serve!Spec => []Serve!TypeOK
  BY Serve!TypeCorrect, ServicesAssumption DEF ServicesAssumption
<1>2. Race!Spec => []Race!TypeOK
  BY Race!TypeCorrect, ServicesAssumption DEF ServicesAssumption
<1>3. Log!Spec => []Log!TypeOK
  <2>1. Log!Spec => []LogInv
    BY LogInvariance, ServicesAssumption DEF ServicesAssumption
  <2>2. LogInv => Log!TypeOK
    BY DEF LogInv
  <2> QED BY <2>1, <2>2, PTL
<1>4. Daemon!Spec => []Daemon!TypeOK
  <2>1. Daemon!Spec => []DaemonInv
    BY DaemonInvariance, ServicesAssumption DEF ServicesAssumption
  <2>2. DaemonInv => Daemon!TypeOK
    BY DEF DaemonInv
  <2> QED BY <2>1, <2>2, PTL
<1>5. Client!Spec => [](Client!TypeOK /\ Client!SuccessConnected /\ Client!PromptRecognised
        /\ Client!PromptAwaited /\ Client!PrintedFaithfully)
  BY PrintedCorrect, ServicesAssumption DEF ServicesAssumption
<1>6. Hook!Spec => []Hook!TypeOK
  <2>1. Hook!Spec => []HookWorks
    BY HookInvariance, ServicesAssumption DEF ServicesAssumption
  <2>2. HookWorks => Hook!TypeOK
    BY DEF HookWorks, HookType
  <2> QED BY <2>1, <2>2, PTL
<1> QED BY <1>1, <1>2, <1>3, <1>4, <1>5, <1>6, RunsServe, RunsRace, RunsLog, RunsDaemon,
      RunsClient, RunsHook, PTL DEF TypeOK

\* The exit pipe has or will have a byte for every worker that still runs after a signal, and for
\* each that waits in its read, for any number of cores, connections and signals
\* (src/12-server/main.c:87, 186).
THEOREM PipeCovered == Spec => []PipeSuffices
<1>1. Race!Spec => [](Race!ReadsReturn /\ Race!PipeCovers)
  BY Race!PipeSufficesCorrect, ServicesAssumption DEF ServicesAssumption
<1> QED BY <1>1, RunsRace, PTL DEF PipeSuffices

\* An event in hand is of an open connection of the worker's own, though the kernel
\* reuses descriptors, and no open connection is lost (lines 82-102, 169-171).
THEOREM DescriptorsCorrect == Spec => []DescriptorsKept
<1>1. Race!Spec => [](Race!NoStaleEvent /\ Race!FdsAccounted)
  BY Race!DescriptorsKeptCorrect, ServicesAssumption DEF ServicesAssumption
<1> QED BY <1>1, RunsRace, PTL DEF DescriptorsKept

\* A connection is answered once, for what it sent, with the length announced: with
\* any requests and cuts of the sends for one worker, and among any number of workers
\* (lines 97-167).
THEOREM AnswersRightCorrect == Spec => AnswersRight
<1>1. /\ Serve!Spec => []Serve!AnswerFits
      /\ Race!Spec => []Race!AnswerFits
  BY Serve!AnswerFitsCorrect, Race!AnswerFitsCorrect, ServicesAssumption DEF ServicesAssumption
<1>2. Serve!Spec => [][Serve!AnswerKept]_Serve!vars
  BY Serve!AnsweredOnceCorrect, ServicesAssumption DEF ServicesAssumption, Serve!AnsweredOnce
<1>3. Race!Spec => [][Race!AnswerKept]_Race!vars
  BY Race!AnsweredOnceCorrect, ServicesAssumption DEF ServicesAssumption, Race!AnsweredOnce
<1> DEFINE Kept == /\ program = "serve" => Serve!AnswerKept
                   /\ program = "race" => Race!AnswerKept
<1>4. program = "serve" /\ [Serve!AnswerKept]_Serve!vars => Kept
  BY DEF Serve!AnswerKept, Serve!vars, Serve!netVars
<1>5. program = "race" /\ [Race!AnswerKept]_Race!vars => Kept
  BY DEF Race!AnswerKept, Race!vars, Race!netVars
<1>6. ~(program = "serve") /\ ~(program = "race") => Kept
  OBVIOUS
<1> HIDE DEF Kept
<1>7. Spec => /\ [](/\ program = "serve" => Serve!AnswerFits
                    /\ program = "race" => Race!AnswerFits)
              /\ [][Kept]_vars
  BY <1>1, <1>2, <1>3, <1>4, <1>5, <1>6, RunsServe, RunsRace, PTL DEF Spec
<1> QED BY <1>7 DEF AnswersRight, Kept

\* One thread writes the log at a time, its records stand whole and in the order of
\* their times, for any threads, frames and misuse (src/7-logger/logger/logger.c:69-160).
THEOREM RecordsCorrect == Spec => []RecordsWhole
<1>1. Log!Spec => []Log!OneWriter /\ []Log!RecordsWhole /\ []Log!TimesOrdered
  BY OneWriterCorrect, RecordsWholeCorrect, TimesOrderedCorrect,
     ServicesAssumption DEF ServicesAssumption
<1> QED BY <1>1, RunsLog, PTL DEF RecordsWhole

\* The daemon reads its configuration right, takes a name that was left behind, and
\* answers what it closes with a size that was true meanwhile (src/8-daemon/main.c).
THEOREM DaemonAnswersCorrect == Spec => []DaemonAnswers
<1>1. Daemon!Spec => /\ []Daemon!ConfigRead /\ []Daemon!StaleNameNoObstacle
                     /\ [](Daemon!FreshAnswer /\ Daemon!ClosedAnswered)
  BY ConfigReadCorrect, StaleNameCorrect, AnswersCorrect, ServicesAssumption DEF ServicesAssumption
<1> QED BY <1>1, RunsDaemon, PTL DEF DaemonAnswers

\* The telnet client succeeds only with a connection, misses no prompt that comes in
\* one piece, asks only after a prompt, and prints bytes of the answer that stand
\* together there from its first newline on, however the stream is cut and whatever
\* the size of the buffer (src/11-client/main.c:22-185).
THEOREM AnswerPrintedCorrect == Spec => []AnswerPrinted
<1>1. Client!Spec => [](Client!TypeOK /\ Client!SuccessConnected /\ Client!PromptRecognised
        /\ Client!PromptAwaited /\ Client!PrintedFaithfully)
  BY PrintedCorrect, ServicesAssumption DEF ServicesAssumption
<1> QED BY <1>1, RunsClient, PTL DEF AnswerPrinted

\* A connection is authorized only from an address that some annotated pod inside the
\* CIDR had, and the next hook runs for such ones only, for every width of addresses,
\* any number of pods and any delay of the cache (src/project/auth_k8s.c:43-172).
THEOREM VerifiedByPodCorrect == Spec => []VerifiedByPod
<1>1. Hook!Spec => [](Hook!CidrExact /\ Hook!VerifiedByPod /\ Hook!ChainOnlyAuthorized)
  BY VerifiedCorrect, ServicesAssumption DEF ServicesAssumption
<1> QED BY <1>1, RunsHook, PTL DEF VerifiedByPod
=============================================================================
