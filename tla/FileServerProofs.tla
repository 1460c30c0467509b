-------------------------- MODULE FileServerProofs --------------------------
(***************************************************************************)
(* Proofs about FileServer, for every number of cores up to eight, every   *)
(* set of clients and descriptors, every directory and every request.      *)
(***************************************************************************)
EXTENDS FileServer, FiniteSetTheorems, SequenceTheorems, WellFoundedInduction, TLAPS

----------------------------------------------------------------------------
(* The inductive invariant *)

\* Workers are created one after the other, none has events before its loop or after,
\* and only the worker itself takes a connection off its socket.
StartInv ==
  /\ main = "create" => started < Cores
  /\ \A w \in Workers :
       /\ w > started => phase[w] = None
       /\ phase[w] \in {None, "setup", "ended"} => batch[w] = {}
       /\ ListenFd \in batch[w] => backlog[w] # <<>>

\* Handlers have written, or have to write, after a handled signal only.
PipeInv ==
  /\ main \in {"create", "install"} => signals = 0
  /\ signals = 0 => pipe = 0 /\ owed = 0
  /\ ReadsReturn
  /\ PipeCovers

\* The phases in which a worker has a connection in hand.
Serving == {"reply", "open", "send", "delete", "close"}

\* The descriptors of a worker: those in its epoll set, and the one it serves.
Held(w) == interest[w] \cup ({cur[w]} \ {NoFd})

\* A worker's descriptors are open and its own; one that it serves is in no batch, and
\* out of the epoll set before it is closed; an event in hand is of a client that did
\* something.
HeldInv ==
  \A w \in Workers :
    /\ cur[w] # NoFd <=> phase[w] \in Serving
    /\ cur[w] \notin batch[w]
    /\ phase[w] = "close" => cur[w] \notin interest[w]
    /\ \A f \in batch[w] \cap Fds :
         f \in interest[w] /\ peer[fds[f]] \in {"part", "whole", "left"}
    /\ \A f \in Held(w) : fds[f] # None /\ \A v \in Workers \ {w} : f \notin Held(v)

\* What a worker has read is of the client whose descriptor it serves.
AskedInv ==
  \A w \in Workers :
    /\ phase[w] \in {"reply", "open", "send"} =>
         asked[w] \in {sends[fds[cur[w]]].part, sends[fds[cur[w]]].whole}
    /\ phase[w] = "reply" => Verdict(asked[w]) # "open"
    /\ phase[w] \in {"open", "send"} => Verdict(asked[w]) = "open"

\* A connection waits in one place, once, and has no answer yet.
BacklogInv ==
  \A w \in Workers : \A i \in 1..Len(backlog[w]) :
    /\ peer[backlog[w][i]] # "idle" /\ answer[backlog[w][i]] = NoAnswer
    /\ \A f \in Fds : fds[f] # backlog[w][i]
    /\ \A v \in Workers : \A j \in 1..Len(backlog[v]) :
         backlog[w][i] = backlog[v][j] => w = v /\ i = j

\* The worker has written the answer of its client, or at least its headers.
Wrote(w) == phase[w] \in {"send", "delete", "close"}

\* A connection has one descriptor, and an answer only once its worker wrote it.
ConnInv ==
  /\ \A f \in Fds : fds[f] # None =>
       /\ peer[fds[f]] # "idle"
       /\ \A g \in Fds : fds[g] = fds[f] => g = f
       /\ answer[fds[f]] # NoAnswer => \E w \in Workers : cur[w] = f /\ Wrote(w)
  /\ \A c \in Conns : peer[c] = "idle" => answer[c] = NoAnswer
  /\ \A w \in Workers : phase[w] = "send" /\ Up =>
       LET a == answer[fds[cur[w]]]
       IN  a.kind = "file" /\ a.promised = promised[w] /\ a.body = 0

Inv ==
  /\ TypeOK /\ StartInv /\ PipeInv /\ HeldInv /\ FdsAccounted
  /\ AskedInv /\ AnswerFits /\ BacklogInv /\ ConnInv

----------------------------------------------------------------------------
(* The constants *)

\* The workers are finitely many, and at least one.
LEMMA WorkerSet ==
  ASSUME ServerAssumption
  PROVE  /\ Cores \in Nat \ {0} /\ Workers \subseteq Nat \ {0}
         /\ IsFiniteSet(Workers) /\ Cardinality(Workers) = Cores
<1>1. Cores \in Nat \ {0}
  BY DEF ServerAssumption
<1> QED BY <1>1, FS_Interval DEF Workers

\* No client's descriptor is one of the others.
LEMMA FdsApart ==
  ASSUME ServerAssumption
  PROVE  /\ Fds \subseteq Nat
         /\ NoFd \notin Fds /\ PipeFd \notin Fds /\ ListenFd \notin Fds
         /\ NoFd \notin {PipeFd, ListenFd} /\ PipeFd # ListenFd
BY DEF ServerAssumption, NoFd, PipeFd, ListenFd

\* The writes of a handler are at least a byte for every worker.
LEMMA WakeEnough ==
  ASSUME ServerAssumption
  PROVE  /\ Writes \in Nat /\ Writes >= 1 /\ IntSize \in Nat /\ IntSize >= 1
         /\ IntSize * Writes \in Nat /\ IntSize * Writes >= Cores
<1>1. Cores \in 1..8 /\ IntSize \in Nat /\ IntSize >= 1
  BY DEF ServerAssumption
<1>2. CASE Cores = 1 \/ Cores = 2
  BY <1>1, <1>2 DEF Writes
<1>3. CASE Cores = 3 \/ Cores = 4
  BY <1>1, <1>3 DEF Writes
<1>4. CASE Cores = 5 \/ Cores = 6
  BY <1>1, <1>4 DEF Writes
<1>5. CASE Cores = 7 \/ Cores = 8
  BY <1>1, <1>5 DEF Writes
<1> QED BY <1>1, <1>2, <1>3, <1>4, <1>5

\* A set of numbers that is not empty has a least one.
LEMMA Least ==
  ASSUME NEW S \in SUBSET Nat, S # {}
  PROVE  \E x \in S : \A y \in S : x <= y
<1> DEFINE R == { p \in Nat \X Nat : p[1] < p[2] }
<1>1. R = OpToRel(<, Nat)
  BY DEF OpToRel
<1>2. IsWellFoundedOn(R, Nat)
  BY <1>1, NatLessThanWellFounded
<1> HIDE DEF R
<1>3. PICK x \in S : \A y \in S : ~(<<y, x>> \in R)
  BY <1>2, WFMin
<1>4. \A y \in S : ~(y < x)
  BY <1>3 DEF R
<1> QED BY <1>4

\* The descriptor accept returns is a free one.
LEMMA LowestFree ==
  ASSUME ServerAssumption, Free # {}
  PROVE  Lowest(Free) \in Fds /\ fds[Lowest(Free)] = None
<1>1. \E x \in Free : \A y \in Free : x <= y
  BY FdsApart, Least DEF Free
<1>2. Lowest(Free) \in Free
  BY <1>1 DEF Lowest
<1> QED BY <1>2 DEF Free

\* What was found by the descriptor's number is the client that has it.
LEMMA ConnType ==
  ASSUME ServerAssumption, TypeOK, NEW f \in Fds, fds[f] # None
  PROVE  fds[f] \in Conns /\ sends[fds[f]] \in [part: Parsed, whole: Parsed]
BY DEF ServerAssumption, TypeOK

----------------------------------------------------------------------------
(* What a worker writes *)

\* The answer is one of the seven, with a body that fits unless its constants do not.
Fits(kind, length, body) ==
  /\ kind \in Kinds \ {None} /\ length \in Nat /\ body \in Nat
  /\ kind = "file" => body <= length
  /\ kind \notin {"file", "unparsed", "internal"} => body = length

Answers(w) == Reply(w) \/ OpenFile(w) \/ SendFile(w)

\* The headers of a file come before its body, and announce the same length.
InTurn(w, kind, length, body) ==
  /\ phase[w] = "send" => kind = "file" /\ length = promised[w] /\ phase'[w] = "delete"
  /\ phase'[w] = "send" => kind = "file" /\ length = promised'[w] /\ body = 0

\* The verdict on a request is a refusal or leads to a name of the directory.
LEMMA VerdictType ==
  ASSUME NEW r \in Parsed
  PROVE  /\ Verdict(r) \in {"unparsed", "denied", "not_found", "bad", "open"}
         /\ Verdict(r) = "open" => r.name \in Files
BY DEF Verdict, Parsed

\* A constant response has the length it announces, but for two.
LEMMA TextFits ==
  ASSUME NEW kind \in {"unparsed", "denied", "not_found", "bad", "internal"}
  PROVE  Fits(kind, Text[kind][1], Text[kind][2])
BY DEF Fits, Text, Kinds, None

\* An entry has a size, and a file one of those that files have.
LEMMA EntryType ==
  ASSUME ServerAssumption, NEW e \in Entry
  PROVE  /\ e.size \in Nat
         /\ e.kind = "file" => e \in [kind: {"file"}, size: Sizes]
<1>1. Sizes \subseteq Nat
  BY DEF ServerAssumption
<1>2. CASE e \in [kind: {"missing", "denied", "error"}, size: {0}]
  BY <1>2
<1>3. CASE e \in [kind: {"directory"}, size: {4096}]
  BY <1>3
<1>4. CASE e \in [kind: {"file"}, size: Sizes]
  BY <1>1, <1>4
<1> QED BY <1>2, <1>3, <1>4 DEF Entry

\* The three handlers write one answer each.
LEMMA AnswersWrite ==
  ASSUME ServerAssumption, TypeOK, AskedInv, NEW w \in Workers, Answers(w)
  PROVE  /\ \E kind, length, body :
              /\ Fits(kind, length, body) /\ Write(w, kind, length, body)
              /\ InTurn(w, kind, length, body)
         /\ Up /\ phase[w] \in {"reply", "open", "send"}
         /\ phase' = [phase EXCEPT ![w] = phase'[w]] /\ phase'[w] \in {"send", "delete"}
         /\ promised' \in [Workers -> Nat] /\ \A v \in Workers \ {w} : promised'[v] = promised[v]
         /\ asked[w] \in Parsed
<1>1. asked[w] \in Parsed
  BY DEF TypeOK
<1>2. CASE Reply(w)
  <2>1. /\ Up /\ phase[w] = "reply" /\ promised' = promised
        /\ Write(w, Verdict(asked[w]), Text[Verdict(asked[w])][1], Text[Verdict(asked[w])][2])
        /\ phase' = [phase EXCEPT ![w] = "delete"]
    BY <1>2 DEF Reply, AfterReply
  <2>2. Fits(Verdict(asked[w]), Text[Verdict(asked[w])][1], Text[Verdict(asked[w])][2])
    BY <1>1, <2>1, VerdictType, TextFits DEF AskedInv
  <2> QED BY <1>1, <2>1, <2>2 DEF TypeOK, InTurn
<1>3. CASE OpenFile(w)
  <2> DEFINE e == entry[asked[w].name]
  <2>1. Up /\ phase[w] = "open" /\ e \in Entry
    BY <1>1, <1>3, VerdictType DEF OpenFile, AskedInv, TypeOK
  <2>2. e.size \in Nat
    BY <2>1, EntryType
  <2>3. CASE e.kind \notin {"file", "directory"}
    <3>1. /\ Write(w, OpenError(e), Text[OpenError(e)][1], Text[OpenError(e)][2])
          /\ phase' = [phase EXCEPT ![w] = "delete"] /\ promised' = promised
      BY <1>3, <2>3 DEF OpenFile
    <3>2. OpenError(e) \in {"not_found", "denied", "internal"}
      BY DEF OpenError
    <3>3. Fits(OpenError(e), Text[OpenError(e)][1], Text[OpenError(e)][2])
      BY <3>2, TextFits
    <3> HIDE DEF e
    <3> QED BY <1>1, <2>1, <3>1, <3>3 DEF TypeOK, InTurn
  <2>4. CASE e.kind \in {"file", "directory"}
    <3>1. /\ Write(w, "file", e.size, 0) /\ phase' = [phase EXCEPT ![w] = "send"]
          /\ promised' = [promised EXCEPT ![w] = e.size]
      BY <1>3, <2>4 DEF OpenFile
    <3> HIDE DEF e
    <3>2. Fits("file", e.size, 0)
      BY <2>2 DEF Fits, Kinds, None
    <3> QED BY <1>1, <2>1, <2>2, <3>1, <3>2 DEF TypeOK, InTurn
  <2> QED BY <2>3, <2>4
<1>4. CASE SendFile(w)
  <2>1. PICK n \in Sends(promised[w], entry[asked[w].name]) : Write(w, "file", promised[w], n)
    BY <1>4 DEF SendFile
  <2>2. /\ Up /\ phase[w] = "send" /\ phase' = [phase EXCEPT ![w] = "delete"]
        /\ promised' = promised /\ promised[w] \in Nat
    BY <1>4 DEF SendFile, TypeOK
  <2>3. n \in Nat /\ n <= promised[w]
    BY <2>2 DEF Sends, ServerAssumption
  <2>4. Fits("file", promised[w], n)
    BY <2>2, <2>3 DEF Fits, Kinds, None
  <2> QED BY <1>1, <2>1, <2>2, <2>4 DEF TypeOK, InTurn
<1> QED BY <1>2, <1>3, <1>4 DEF Answers

\* A write changes the answer of one client, or kills the process.
LEMMA WriteMove ==
  ASSUME ServerAssumption, TypeOK, AskedInv, NEW w \in Workers, Answers(w)
  PROVE  /\ main' \in {main, "killed"}
         /\ answer' \in [Conns -> [kind: Kinds, promised: Nat, body: Nat, asked: Parsed]]
         /\ \A c \in Conns : fds[cur[w]] # c => answer'[c] = answer[c]
         /\ UNCHANGED <<started, pipe, signals, owed, batch, interest, cur, asked, fds, backlog,
                        peer, sends, entry>>
<1>1. PICK kind, length, body : Fits(kind, length, body) /\ Write(w, kind, length, body)
  BY AnswersWrite
<1>2. [kind |-> kind, promised |-> length, body |-> body, asked |-> asked[w]]
        \in [kind: Kinds, promised: Nat, body: Nat, asked: Parsed]
  BY <1>1, AnswersWrite DEF Fits
<1> QED BY <1>1, <1>2 DEF Write, TypeOK

----------------------------------------------------------------------------
(* Types *)

\* The types hold at the start.
LEMMA InitType == ASSUME ServerAssumption, Init PROVE TypeOK
<1>1. backlog \in [Workers -> Seq(Conns)]
  BY DEF Init
<1>2. NoRequest \in Parsed /\ NoAnswer \in [kind: Kinds, promised: Nat, body: Nat, asked: Parsed]
  BY DEF NoRequest, NoAnswer, Parsed, Kinds
<1>3. started \in 0..Cores /\ signals \in 0..MaxSignals
  BY WorkerSet DEF Init, ServerAssumption
<1>4. entry \in [Files -> Entry]
  BY DEF Init, ServerAssumption
<1> QED BY <1>1, <1>2, <1>3, <1>4 DEF Init, TypeOK

\* A worker reads what its client has sent, or finds it gone.
ReadOrGone(w, f) ==
  /\ phase' = [phase EXCEPT ![w] = phase'[w]]
  /\ \/ asked' = asked /\ phase'[w] = "delete"
     \/ /\ asked' = [asked EXCEPT ![w] = asked'[w]] /\ asked'[w] \in Parsed
        /\ fds[f] \in Conns /\ asked'[w] \in {sends[fds[f]].part, sends[fds[f]].whole}
        /\ phase'[w] = IF Verdict(asked'[w]) = "open" THEN "open" ELSE "reply"

\* The request is one the client of the descriptor sends.
LEMMA ReceiveRead ==
  ASSUME ServerAssumption, TypeOK, StartInv, HeldInv, ConnInv, NEW w \in Workers, NEW f \in Fds, Receive(w, f)
  PROVE  ReadOrGone(w, f)
<1> DEFINE c == fds[f]
<1>1. CASE c = None \/ peer[c] = "left"
  BY <1>1 DEF Receive, ReadOrGone, CleanUp, TypeOK
<1>2. CASE ~(c = None \/ peer[c] = "left")
  <2>1. c \in Conns /\ sends[c] \in [part: Parsed, whole: Parsed]
    BY <1>2, ConnType
  <2>2. peer[c] \in {"part", "whole"}
    BY <1>2 DEF HeldInv, Receive
  <2> QED BY <1>2, <2>1, <2>2 DEF Receive, ReadOrGone, TypeOK
<1> QED BY <1>1, <1>2

\* Every step keeps the types.
LEMMA NextType ==
  ASSUME ServerAssumption, TypeOK, StartInv, HeldInv, ConnInv, AskedInv, [Next]_vars
  PROVE  TypeOK'
<1> USE DEF mainVars, workerVars, netVars
<1>1. CASE CreateWorker
  <2>1. started + 1 \in Workers /\ started + 1 \in 0..Cores
    BY <1>1, WorkerSet DEF CreateWorker, StartInv, TypeOK, Workers
  <2> QED BY <1>1, <2>1 DEF CreateWorker, TypeOK
<1>2. CASE CreateFails
  BY <1>2 DEF CreateFails, TypeOK
<1>3. CASE InstallHandlers
  BY <1>3 DEF InstallHandlers, TypeOK
<1>4. CASE Join
  BY <1>4 DEF Join, TypeOK
<1>5. CASE Signal
  <2>1. signals + 1 \in 0..MaxSignals /\ owed + Writes \in Nat
    BY <1>5, WakeEnough DEF Signal, TypeOK, ServerAssumption
  <2> QED BY <1>5, <2>1 DEF Signal, Enter, TypeOK
<1>22. CASE HandlerWrites
  <2>1. owed - 1 \in Nat /\ pipe + IntSize \in Nat
    BY <1>22, WakeEnough DEF HandlerWrites, TypeOK
  <2> QED BY <1>22, <2>1 DEF HandlerWrites, TypeOK
<1>6. ASSUME NEW w \in Workers, Setup(w) PROVE TypeOK'
  BY <1>6 DEF Setup, TypeOK
<1>7. ASSUME NEW w \in Workers, SetupFails(w) PROVE TypeOK'
  BY <1>7 DEF SetupFails, TypeOK
<1>8. ASSUME NEW w \in Workers, EpollWait(w) PROVE TypeOK'
  <2>1. Ready(w) \subseteq Fds \cup {PipeFd, ListenFd}
    BY DEF Ready, TypeOK
  <2> QED BY <1>8, <2>1 DEF EpollWait, TypeOK
<1>9. ASSUME NEW w \in Workers, TakeExit(w) \/ ReadInterrupted(w) PROVE TypeOK'
  <2>1. <<>> \in Seq(Conns)
    OBVIOUS
  <2>2. CASE TakeExit(w)
    <3>1. pipe - 1 \in Nat
      BY <2>2 DEF TakeExit, TypeOK
    <3> QED BY <2>1, <2>2, <3>1 DEF TakeExit, Leaves, Exit, TypeOK
  <2>3. CASE ReadInterrupted(w)
    <3>1. signals + 1 \in 0..MaxSignals /\ owed + Writes \in Nat
      BY <2>3, WakeEnough DEF ReadInterrupted, TypeOK, ServerAssumption
    <3> QED BY <2>1, <2>3, <3>1 DEF ReadInterrupted, Leaves, Enter, Exit, TypeOK
  <2> QED BY <1>9, <2>2, <2>3
<1>10. ASSUME NEW w \in Workers, Accept(w) PROVE TypeOK'
  <2>1. backlog[w] \in Seq(Conns) /\ backlog[w] # <<>>
    BY <1>10 DEF Accept, StartInv, TypeOK
  <2>2. Head(backlog[w]) \in Conns /\ Tail(backlog[w]) \in Seq(Conns)
    BY <2>1, HeadTailProperties
  <2>3. batch' \in [Workers -> SUBSET (Fds \cup {PipeFd, ListenFd})]
    BY <1>10 DEF Accept, TypeOK
  <2>4. /\ fds' \in [Fds -> Conns \cup {None}] /\ interest' \in [Workers -> SUBSET Fds]
        /\ backlog' \in [Workers -> Seq(Conns)]
    <3>1. CASE Free = {}
      BY <1>10, <3>1 DEF Accept, TypeOK
    <3>2. CASE Free # {}
      <4> DEFINE k == Lowest(Free)
      <4>1. k \in Fds
        BY <3>2, LowestFree
      <4>2. /\ fds' = [fds EXCEPT ![k] = Head(backlog[w])]
            /\ interest' = [interest EXCEPT ![w] = interest[w] \cup {k}]
            /\ backlog' = [backlog EXCEPT ![w] = Tail(backlog[w])]
        BY <1>10, <3>2 DEF Accept, Watched
      <4> HIDE DEF k
      <4>3. interest[w] \cup {k} \in SUBSET Fds
        BY <4>1 DEF TypeOK
      <4> QED BY <2>2, <4>1, <4>2, <4>3 DEF TypeOK
    <3> QED BY <3>1, <3>2
  <2> QED BY <1>10, <2>3, <2>4 DEF Accept, TypeOK
<1>11. ASSUME NEW w \in Workers, NEW f \in Fds, Receive(w, f) PROVE TypeOK'
  <2>1. ReadOrGone(w, f)
    BY <1>11, ReceiveRead
  <2>2. asked' \in [Workers -> Parsed] /\ phase'[w] \in {"delete", "open", "reply"}
    <3>1. asked[w] \in Parsed
      BY DEF TypeOK
    <3> QED BY <1>11, <2>1, <3>1 DEF ReadOrGone, Receive, TypeOK
  <2> QED BY <1>11, <2>1, <2>2 DEF ReadOrGone, Receive, TypeOK
<1>12. ASSUME NEW w \in Workers, Reply(w) PROVE TypeOK'
  <2>1. Answers(w)
    BY <1>12 DEF Answers
  <2>2. /\ main' \in {main, "killed"}
        /\ answer' \in [Conns -> [kind: Kinds, promised: Nat, body: Nat, asked: Parsed]]
        /\ UNCHANGED <<started, pipe, signals, owed, batch, interest, cur, asked, fds, backlog, peer, sends,
                       entry>>
    BY <2>1, WriteMove
  <2>3. phase' = [phase EXCEPT ![w] = phase'[w]] /\ phase'[w] \in {"send", "delete"}
          /\ promised' \in [Workers -> Nat]
    BY <2>1, AnswersWrite
  <2> QED BY <2>2, <2>3 DEF TypeOK
<1>13. ASSUME NEW w \in Workers, OpenFile(w) PROVE TypeOK'
  <2>1. Answers(w)
    BY <1>13 DEF Answers
  <2>2. /\ main' \in {main, "killed"}
        /\ answer' \in [Conns -> [kind: Kinds, promised: Nat, body: Nat, asked: Parsed]]
        /\ UNCHANGED <<started, pipe, signals, owed, batch, interest, cur, asked, fds, backlog, peer, sends,
                       entry>>
    BY <2>1, WriteMove
  <2>3. phase' = [phase EXCEPT ![w] = phase'[w]] /\ phase'[w] \in {"send", "delete"}
          /\ promised' \in [Workers -> Nat]
    BY <2>1, AnswersWrite
  <2> QED BY <2>2, <2>3 DEF TypeOK
<1>14. ASSUME NEW w \in Workers, SendFile(w) PROVE TypeOK'
  <2>1. Answers(w)
    BY <1>14 DEF Answers
  <2>2. /\ main' \in {main, "killed"}
        /\ answer' \in [Conns -> [kind: Kinds, promised: Nat, body: Nat, asked: Parsed]]
        /\ UNCHANGED <<started, pipe, signals, owed, batch, interest, cur, asked, fds, backlog, peer, sends,
                       entry>>
    BY <2>1, WriteMove
  <2>3. phase' = [phase EXCEPT ![w] = phase'[w]] /\ phase'[w] \in {"send", "delete"}
          /\ promised' \in [Workers -> Nat]
    BY <2>1, AnswersWrite
  <2> QED BY <2>2, <2>3 DEF TypeOK
<1>15. ASSUME NEW w \in Workers, Delete(w) PROVE TypeOK'
  BY <1>15 DEF Delete, StillOpen, TypeOK
<1>16. ASSUME NEW w \in Workers, Close(w) PROVE TypeOK'
  <2>1. NoRequest \in Parsed
    BY DEF NoRequest, Parsed
  <2>2. fds' \in [Fds -> Conns \cup {None}]
    BY <1>16 DEF Close, TypeOK
  <2> QED BY <1>16, <2>1, <2>2 DEF Close, TypeOK
<1>17. ASSUME NEW c \in Conns, Arrive(c) PROVE TypeOK'
  BY <1>17 DEF Arrive, TypeOK
<1>18. ASSUME NEW c \in Conns, Leave(c) PROVE TypeOK'
  BY <1>18 DEF Leave, TypeOK
<1>19. ASSUME NEW c \in Conns, NEW w \in Workers, Connect(c, w) PROVE TypeOK'
  <2>1. Append(backlog[w], c) \in Seq(Conns)
    BY AppendProperties DEF TypeOK
  <2> QED BY <1>19, <2>1 DEF Connect, TypeOK
<1>20. ASSUME NEW n \in Files, Resize(n) PROVE TypeOK'
  <2>1. PICK s \in Sizes : entry' = [entry EXCEPT ![n].size = s]
    BY <1>20 DEF Resize
  <2>2. entry[n] \in [kind: {"file"}, size: Sizes]
    BY <1>20, EntryType DEF Resize, TypeOK
  <2>3. [entry[n] EXCEPT !.size = s] \in Entry
    BY <2>1, <2>2 DEF Entry
  <2>4. entry' \in [Files -> Entry]
    BY <2>1, <2>3 DEF TypeOK
  <2> QED BY <1>20, <2>4 DEF Resize, TypeOK
<1>21. CASE UNCHANGED vars
  BY <1>21 DEF vars, TypeOK
<1> QED BY <1>1, <1>2, <1>3, <1>4, <1>5, <1>6, <1>7, <1>8, <1>9, <1>10, <1>11, <1>12, <1>13, <1>14,
  <1>15, <1>16, <1>17, <1>18, <1>19, <1>20, <1>21, <1>22
  DEF Next, Main, Worker, World, Ended

----------------------------------------------------------------------------
(* The exit pipe *)

\* The workers that have not ended, and those with the pipe's event in hand.
Running == { w \in Workers : phase[w] # "ended" }
InHand == { w \in Workers : PipeFd \in batch[w] }

\* Both sets are finite.
LEMMA Counts ==
  ASSUME ServerAssumption
  PROVE  /\ IsFiniteSet(Running) /\ Cardinality(Running) \in Nat /\ Cardinality(Running) <= Cores
         /\ IsFiniteSet(InHand) /\ Cardinality(InHand) \in Nat
<1>1. Running \subseteq Workers /\ InHand \subseteq Workers
  BY DEF Running, InHand
<1> QED BY <1>1, WorkerSet, FS_Subset, FS_CardinalityType

\* A set of workers that grew by none has no more members.
LEMMA FewerWorkers ==
  ASSUME ServerAssumption, NEW S \in SUBSET Workers, NEW T \in SUBSET S
  PROVE  /\ IsFiniteSet(S) /\ Cardinality(S) \in Nat /\ Cardinality(T) \in Nat
         /\ Cardinality(T) <= Cardinality(S)
         /\ \A w \in S : T = S \ {w} => Cardinality(T) = Cardinality(S) - 1
         /\ \A w \in S : Cardinality(S) >= 1
<1>1. IsFiniteSet(S) /\ IsFiniteSet(T)
  BY WorkerSet, FS_Subset
<1>2. Cardinality(S) \in Nat /\ Cardinality(T) \in Nat /\ Cardinality(T) <= Cardinality(S)
  BY <1>1, FS_Subset, FS_CardinalityType
<1>3. ASSUME NEW w \in S PROVE Cardinality(S \ {w}) = Cardinality(S) - 1 /\ Cardinality(S) >= 1
  <2>1. Cardinality(S \ {w}) = Cardinality(S) - 1
    BY <1>1, FS_RemoveElement
  <2>2. IsFiniteSet(S \ {w})
    BY <1>1, FS_Subset
  <2>3. Cardinality(S \ {w}) \in Nat
    BY <2>2, FS_CardinalityType
  <2> QED BY <1>2, <2>1, <2>3
<1> QED BY <1>1, <1>2, <1>3

\* The pipe's part of the invariant, of the two sets.
LEMMA PipeSets ==
  /\ ReadsReturn <=> \A w \in InHand : Due >= Cardinality(InHand)
  /\ PipeCovers <=> (main = "join" /\ signals > 0 => Due >= Cardinality(Running))
BY DEF ReadsReturn, PipeCovers, InHand, Running

\* What is due is a number of bytes, and nothing before the first handled signal.
LEMMA DueType ==
  ASSUME ServerAssumption, TypeOK
  PROVE  /\ Due \in Nat /\ signals \in Nat /\ pipe \in Nat /\ owed \in Nat
         /\ PipeInv /\ signals = 0 => Due = 0
         /\ pipe > 0 => Due > 0
<1>1. pipe \in Nat /\ owed \in Nat /\ signals \in Nat /\ IntSize \in Nat
  BY WakeEnough DEF TypeOK, ServerAssumption
<1>2. IntSize * owed \in Nat /\ (owed = 0 => IntSize * owed = 0)
  BY <1>1
<1> QED BY <1>1, <1>2 DEF Due, PipeInv

\* Entering the handler makes at least a byte due for each worker.
LEMMA EnterDue ==
  ASSUME ServerAssumption, TypeOK, Enter, UNCHANGED pipe
  PROVE  Due' = Due + IntSize * Writes
<1>1. owed \in Nat /\ IntSize \in Nat /\ Writes \in Nat /\ pipe \in Nat
  BY WakeEnough DEF TypeOK
<1>2. IntSize * (owed + Writes) = IntSize * owed + IntSize * Writes
  BY <1>1
<1>3. IntSize * owed \in Nat /\ IntSize * Writes \in Nat
  BY <1>1
<1> QED BY <1>1, <1>2, <1>3 DEF Due, Enter

\* A write of the handler puts into the pipe what was due.
LEMMA WriteDue ==
  ASSUME ServerAssumption, TypeOK, HandlerWrites
  PROVE  Due' = Due
<1>1. owed \in Nat /\ owed > 0 /\ IntSize \in Nat /\ pipe \in Nat
  BY WakeEnough DEF TypeOK, HandlerWrites
<1>2. IntSize * (owed - 1) = IntSize * owed - IntSize
  BY <1>1
<1>3. IntSize * owed \in Nat
  BY <1>1
<1> QED BY <1>1, <1>2, <1>3 DEF Due, HandlerWrites

\* A step that takes and adds nothing, ends no more than a worker and gives none the
\* pipe's event keeps the pipe's part.
LEMMA PipeFrame ==
  ASSUME ServerAssumption, PipeInv, UNCHANGED <<pipe, signals, owed>>,
         TypeOK,
         main' \in {"create", "install"} => main \in {"create", "install"},
         main' = "join" => main = "join" \/ signals = 0,
         \A w \in Workers : phase[w] = "ended" => phase'[w] = "ended",
         \A w \in Workers : PipeFd \in batch'[w] => PipeFd \in batch[w]
  PROVE  PipeInv'
<1>1. Running' \in SUBSET Running /\ InHand' \in SUBSET InHand
  BY DEF Running, InHand
<1>2. Running \in SUBSET Workers /\ InHand \in SUBSET Workers
  BY DEF Running, InHand
<1> DEFINE n == Cardinality(Running)
           nn == Cardinality(Running)'
           m == Cardinality(InHand)
           mm == Cardinality(InHand)'
<1>3. n \in Nat /\ nn \in Nat /\ nn <= n /\ m \in Nat /\ mm \in Nat /\ mm <= m
  BY <1>1, <1>2, FewerWorkers
<1>4. /\ \A w \in InHand : Due >= m
      /\ main = "join" /\ signals > 0 => Due >= n
  BY PipeSets DEF PipeInv
<1>5. Due \in Nat /\ signals \in Nat /\ Due' = Due
  BY DueType DEF Due
<1> HIDE DEF n, nn, m, mm
<1>6. /\ \A w \in InHand' : Due' >= mm
      /\ main' = "join" /\ signals' > 0 => Due' >= nn
  BY <1>1, <1>3, <1>4, <1>5
<1>7. (ReadsReturn /\ PipeCovers)'
  BY <1>6, PipeSets DEF nn, mm, ReadsReturn, PipeCovers, InHand, Running
<1> QED BY <1>7 DEF PipeInv

\* A step that keeps the two sets and takes nothing keeps the pipe's part.
LEMMA PipeGrows ==
  ASSUME ServerAssumption, TypeOK, PipeInv, phase' = phase, batch' = batch, main' = main,
         Due' \in Nat, Due' >= Due, Due' >= Cores \/ signals' = signals,
         main = "join", signals' \in Nat, signals' > 0
  PROVE  PipeInv'
<1> DEFINE n == Cardinality(Running)
           m == Cardinality(InHand)
<1>1. n \in Nat /\ n <= Cores /\ m \in Nat /\ Cores \in Nat
  BY Counts, WorkerSet
<1>2. (\A v \in InHand : Due >= m) /\ (signals > 0 => Due >= n)
  BY PipeSets DEF PipeInv
<1>3. Running' = Running /\ InHand' = InHand
  BY DEF Running, InHand
<1>4. Due \in Nat
  BY DueType
<1> HIDE DEF n, m
<1>5. (\A v \in InHand : Due' >= m) /\ Due' >= n
  BY <1>1, <1>2, <1>4
<1>6. (ReadsReturn /\ PipeCovers)'
  BY <1>3, <1>5 DEF n, m, ReadsReturn, PipeCovers, InHand, Running
<1> QED BY <1>6 DEF PipeInv

\* A worker that leaves its loop needs no more than a byte.
LEMMA PipeLeaves ==
  ASSUME ServerAssumption, TypeOK, PipeInv, NEW w \in Workers, Leaves(w),
         Due' \in Nat, Due' >= Due - 1, signals' \in Nat, signals' >= signals
  PROVE  PipeInv'
<1>1. /\ Up /\ main' = main
      /\ phase' = [phase EXCEPT ![w] = "ended"] /\ batch' = [batch EXCEPT ![w] = {}]
      /\ w \in InHand /\ w \in Running
  BY DEF Leaves, Exit, InHand, Running
<1>2. Due \in Nat /\ signals \in Nat /\ (signals = 0 => Due = 0)
  BY DueType
<1>3. Running' = Running \ {w} /\ InHand' = InHand \ {w}
  BY <1>1 DEF Running, InHand, TypeOK
<1>4. Running \in SUBSET Workers /\ InHand \in SUBSET Workers
  BY DEF Running, InHand
<1> DEFINE n == Cardinality(Running)
           nn == Cardinality(Running)'
           m == Cardinality(InHand)
           mm == Cardinality(InHand)'
<1>5. n \in Nat /\ nn = n - 1 /\ m \in Nat /\ mm = m - 1 /\ m >= 1
  BY <1>1, <1>3, <1>4, FewerWorkers
<1>6. Due >= m /\ (main = "join" /\ signals > 0 => Due >= n)
  BY <1>1, PipeSets DEF PipeInv
<1> HIDE DEF n, nn, m, mm
<1>7. signals > 0
  BY <1>2, <1>5, <1>6
<1>8. main = "join"
  BY <1>1, <1>7 DEF PipeInv, Up
<1>9. Due' >= mm /\ Due' >= nn
  BY <1>2, <1>5, <1>6, <1>7, <1>8
<1>10. (ReadsReturn /\ PipeCovers)'
  BY <1>9 DEF nn, mm, ReadsReturn, PipeCovers, InHand, Running
<1> QED BY <1>1, <1>2, <1>7, <1>8, <1>10 DEF PipeInv

\* Every step keeps a byte due for each worker that will read one.
LEMMA NextPipe ==
  ASSUME ServerAssumption, TypeOK, StartInv, HeldInv, ConnInv, AskedInv, PipeInv, [Next]_vars
  PROVE  PipeInv'
<1> USE DEF mainVars, workerVars, netVars
<1>1. CASE CreateWorker
  <2>1. started + 1 \in Workers /\ phase[started + 1] = None
    BY <1>1, WorkerSet DEF CreateWorker, StartInv, TypeOK, Workers
  <2>2. \A w \in Workers : phase[w] = "ended" => phase'[w] = "ended"
    BY <1>1, <2>1 DEF CreateWorker, TypeOK, None
  <2> QED BY <1>1, <2>2, PipeFrame DEF CreateWorker, PipeInv
<1>2. CASE CreateFails
  BY <1>2, PipeFrame DEF CreateFails, TypeOK, PipeInv
<1>3. CASE InstallHandlers
  BY <1>3, PipeFrame DEF InstallHandlers, TypeOK, PipeInv
<1>4. CASE Join
  BY <1>4, PipeFrame DEF Join, TypeOK, PipeInv
<1>5. CASE Signal
  <2>1. CASE main = "join"
    <3>1. /\ Enter /\ main' = main /\ phase' = phase /\ batch' = batch /\ pipe' = pipe
          /\ signals' = signals + 1
      BY <1>5, <2>1 DEF Signal, Enter
    <3>2. Due' = Due + IntSize * Writes
      BY <3>1, EnterDue
    <3>3. Due \in Nat /\ signals \in Nat /\ IntSize * Writes \in Nat /\ IntSize * Writes >= Cores
            /\ Cores \in Nat
      BY DueType, WakeEnough, WorkerSet
    <3>4. Due' \in Nat /\ Due' >= Due /\ Due' >= Cores /\ signals' \in Nat /\ signals' > 0
      BY <3>1, <3>2, <3>3
    <3> QED BY <2>1, <3>1, <3>4, PipeGrows
  <2>2. CASE main # "join"
    <3>1. /\ pipe' = pipe /\ owed' = owed /\ main' = "killed" /\ phase' = phase /\ batch' = batch
          /\ signals' = signals + 1
      BY <1>5, <2>2 DEF Signal
    <3>2. signals \in Nat /\ Due' = Due
      BY <3>1, DueType DEF Due
    <3>3. ReadsReturn'
      BY <3>1, <3>2 DEF PipeInv, ReadsReturn
    <3>4. PipeCovers'
      BY <3>1 DEF PipeCovers
    <3> QED BY <3>1, <3>2, <3>3, <3>4 DEF PipeInv
  <2> QED BY <2>1, <2>2
<1>22. CASE HandlerWrites
  <2>1. main' = main /\ phase' = phase /\ batch' = batch /\ signals' = signals /\ Up /\ owed > 0
    BY <1>22 DEF HandlerWrites
  <2>2. Due' = Due /\ Due \in Nat /\ signals \in Nat
    BY <1>22, WriteDue, DueType
  <2>3. signals # 0 /\ main = "join"
    BY <2>1, <2>2 DEF PipeInv, Up, TypeOK
  <2>4. signals' \in Nat /\ signals' > 0 /\ Due' \in Nat /\ Due' >= Due
    BY <2>1, <2>2, <2>3
  <2> QED BY <2>1, <2>3, <2>4, PipeGrows
<1>6. ASSUME NEW w \in Workers, Setup(w) PROVE PipeInv'
  BY <1>6, PipeFrame DEF Setup, TypeOK, PipeInv
<1>7. ASSUME NEW w \in Workers, SetupFails(w) PROVE PipeInv'
  BY <1>7, PipeFrame DEF SetupFails, TypeOK, PipeInv
<1>8. ASSUME NEW w \in Workers, EpollWait(w) PROVE PipeInv'
  <2>1. /\ Up /\ main' = main /\ pipe' = pipe /\ signals' = signals /\ owed' = owed /\ phase' = phase
        /\ batch' = [batch EXCEPT ![w] = Ready(w)]
    BY <1>8 DEF EpollWait
  <2>2. CASE PipeFd \notin Ready(w)
    <3>1. \A v \in Workers : PipeFd \in batch'[v] => PipeFd \in batch[v]
      BY <2>1, <2>2 DEF TypeOK
    <3> QED BY <2>1, <3>1, PipeFrame
  <2>3. CASE PipeFd \in Ready(w)
    <3>1. pipe > 0
      BY <2>3, FdsApart DEF Ready, TypeOK
    <3>2. pipe \in Nat /\ signals \in Nat /\ Due \in Nat /\ Due' = Due
      BY <2>1, DueType DEF Due
    <3>3. main = "join" /\ signals > 0
      BY <2>1, <3>1, <3>2 DEF PipeInv, Up
    <3>4. InHand' \in SUBSET Running /\ Running \in SUBSET Workers
      <4>1. \A v \in Workers \ {w} : batch'[v] = batch[v]
        BY <2>1 DEF TypeOK
      <4>2. phase[w] # "ended"
        BY <1>8 DEF EpollWait
      <4> QED BY <4>1, <4>2 DEF InHand, Running, StartInv
    <3> DEFINE n == Cardinality(Running)
               mm == Cardinality(InHand)'
    <3>5. n \in Nat /\ mm \in Nat /\ mm <= n
      BY <3>4, FewerWorkers
    <3>6. Due >= n
      BY <3>3, PipeSets DEF PipeInv
    <3> HIDE DEF n, mm
    <3>7. Due' >= mm /\ Due' >= n
      BY <2>1, <3>2, <3>5, <3>6
    <3>8. Running' = Running
      BY <2>1 DEF Running
    <3>9. (ReadsReturn /\ PipeCovers)'
      BY <3>7, <3>8 DEF n, mm, ReadsReturn, PipeCovers, InHand, Running
    <3> QED BY <2>1, <3>9 DEF PipeInv
  <2> QED BY <2>2, <2>3
<1>9. ASSUME NEW w \in Workers, TakeExit(w) \/ ReadInterrupted(w) PROVE PipeInv'
  <2>1. Due \in Nat /\ signals \in Nat /\ pipe \in Nat /\ (pipe > 0 => Due > 0)
    BY DueType
  <2>2. CASE TakeExit(w)
    <3>1. Leaves(w) /\ signals' = signals /\ pipe > 0
      BY <2>2 DEF TakeExit
    <3>2. Due' = Due - 1
      <4>1. IntSize * owed \in Nat
        BY WakeEnough DEF TypeOK
      <4> QED BY <2>1, <2>2, <4>1 DEF TakeExit, Due
    <3> QED BY <2>1, <3>1, <3>2, PipeLeaves
  <2>3. CASE ReadInterrupted(w)
    <3>1. Leaves(w) /\ Enter /\ pipe' = pipe /\ signals' = signals + 1
      BY <2>3 DEF ReadInterrupted, Enter
    <3>2. Due' = Due + IntSize * Writes
      BY <3>1, EnterDue
    <3>3. IntSize * Writes \in Nat
      BY WakeEnough
    <3> QED BY <2>1, <3>1, <3>2, <3>3, PipeLeaves
  <2> QED BY <1>9, <2>2, <2>3
<1>10. ASSUME NEW w \in Workers, Accept(w) PROVE PipeInv'
  <2>1. \A v \in Workers : PipeFd \in batch'[v] => PipeFd \in batch[v]
    BY <1>10 DEF Accept, TypeOK
  <2>2. \A v \in Workers : phase[v] = "ended" => phase'[v] = "ended"
    BY <1>10 DEF Accept, TypeOK
  <2> QED BY <1>10, <2>1, <2>2, PipeFrame DEF Accept
<1>11. ASSUME NEW w \in Workers, NEW f \in Fds, Receive(w, f) PROVE PipeInv'
  <2>1. \A v \in Workers : PipeFd \in batch'[v] => PipeFd \in batch[v]
    BY <1>11 DEF Receive, TypeOK
  <2>2. \A v \in Workers : phase[v] = "ended" => phase'[v] = "ended"
    BY <1>11, ReceiveRead DEF Receive, TypeOK, ReadOrGone
  <2> QED BY <1>11, <2>1, <2>2, PipeFrame DEF Receive
<1>12. ASSUME NEW w \in Workers, Reply(w) PROVE PipeInv'
  <2>1. Answers(w)
    BY <1>12 DEF Answers
  <2>2. main' \in {main, "killed"} /\ UNCHANGED <<pipe, signals, owed, batch>>
    BY <2>1, WriteMove
  <2>3. /\ phase' = [phase EXCEPT ![w] = phase'[w]] /\ phase[w] \in {"reply", "open", "send"}
    BY <2>1, AnswersWrite
  <2>4. \A v \in Workers : phase[v] = "ended" => phase'[v] = "ended"
    BY <2>3 DEF TypeOK
  <2> QED BY <2>2, <2>4, PipeFrame
<1>13. ASSUME NEW w \in Workers, OpenFile(w) PROVE PipeInv'
  <2>1. Answers(w)
    BY <1>13 DEF Answers
  <2>2. main' \in {main, "killed"} /\ UNCHANGED <<pipe, signals, owed, batch>>
    BY <2>1, WriteMove
  <2>3. /\ phase' = [phase EXCEPT ![w] = phase'[w]] /\ phase[w] \in {"reply", "open", "send"}
    BY <2>1, AnswersWrite
  <2>4. \A v \in Workers : phase[v] = "ended" => phase'[v] = "ended"
    BY <2>3 DEF TypeOK
  <2> QED BY <2>2, <2>4, PipeFrame
<1>14. ASSUME NEW w \in Workers, SendFile(w) PROVE PipeInv'
  <2>1. Answers(w)
    BY <1>14 DEF Answers
  <2>2. main' \in {main, "killed"} /\ UNCHANGED <<pipe, signals, owed, batch>>
    BY <2>1, WriteMove
  <2>3. /\ phase' = [phase EXCEPT ![w] = phase'[w]] /\ phase[w] \in {"reply", "open", "send"}
    BY <2>1, AnswersWrite
  <2>4. \A v \in Workers : phase[v] = "ended" => phase'[v] = "ended"
    BY <2>3 DEF TypeOK
  <2> QED BY <2>2, <2>4, PipeFrame
<1>15. ASSUME NEW w \in Workers, Delete(w) PROVE PipeInv'
  BY <1>15, PipeFrame DEF Delete, TypeOK, PipeInv
<1>16. ASSUME NEW w \in Workers, Close(w) PROVE PipeInv'
  BY <1>16, PipeFrame DEF Close, TypeOK, PipeInv
<1>17. ASSUME NEW c \in Conns, Arrive(c) PROVE PipeInv'
  BY <1>17, PipeFrame DEF Arrive, TypeOK, PipeInv
<1>18. ASSUME NEW c \in Conns, Leave(c) PROVE PipeInv'
  BY <1>18, PipeFrame DEF Leave, TypeOK, PipeInv
<1>19. ASSUME NEW c \in Conns, NEW w \in Workers, Connect(c, w) PROVE PipeInv'
  BY <1>19, PipeFrame DEF Connect, TypeOK, PipeInv
<1>20. ASSUME NEW n \in Files, Resize(n) PROVE PipeInv'
  BY <1>20, PipeFrame DEF Resize, TypeOK, PipeInv
<1>21. CASE UNCHANGED vars
  BY <1>21, PipeFrame DEF vars, TypeOK, PipeInv
<1> QED BY <1>1, <1>2, <1>3, <1>4, <1>5, <1>6, <1>7, <1>8, <1>9, <1>10, <1>11, <1>12, <1>13, <1>14,
  <1>15, <1>16, <1>17, <1>18, <1>19, <1>20, <1>21, <1>22
  DEF Next, Main, Worker, World, Ended

\* Every step keeps the beginnings and the ends of the workers in order.
LEMMA NextStart ==
  ASSUME ServerAssumption, TypeOK, StartInv, HeldInv, ConnInv, AskedInv, [Next]_vars
  PROVE  StartInv'
<1> USE DEF mainVars, workerVars, netVars
<1>1. CASE CreateWorker
  <2>1. started + 1 \in Workers /\ started \in Nat /\ Cores \in Nat /\ Workers \subseteq Nat
    BY <1>1, WorkerSet DEF CreateWorker, StartInv, TypeOK, Workers
  <2>2. phase[started + 1] = None /\ batch[started + 1] = {}
    BY <2>1 DEF StartInv
  <2>3. main' = "create" => started' < Cores
    BY <1>1, <2>1 DEF CreateWorker, LoopEnds, StartInv
  <2>4. /\ \A v \in Workers \ {started + 1} : phase'[v] = phase[v]
        /\ phase'[started + 1] = "setup" /\ batch' = batch /\ backlog' = backlog
        /\ started' = started + 1
    BY <1>1, <2>1 DEF CreateWorker, TypeOK
  <2>5. ASSUME NEW v \in Workers, v > started + 1 PROVE phase'[v] = None
    BY <2>1, <2>4, <2>5 DEF StartInv
  <2> QED BY <2>2, <2>3, <2>4, <2>5 DEF StartInv
<1>2. CASE CreateFails
  BY <1>2 DEF CreateFails, TypeOK, StartInv, None
<1>3. CASE InstallHandlers
  BY <1>3 DEF InstallHandlers, TypeOK, StartInv, None
<1>4. CASE Join
  BY <1>4 DEF Join, TypeOK, StartInv, None
<1>5. CASE Signal \/ HandlerWrites
  BY <1>5 DEF Signal, HandlerWrites, TypeOK, StartInv, None
<1>6. ASSUME NEW w \in Workers, Setup(w) PROVE StartInv'
  BY <1>6 DEF Setup, TypeOK, StartInv, None
<1>7. ASSUME NEW w \in Workers, SetupFails(w) PROVE StartInv'
  BY <1>7 DEF SetupFails, TypeOK, StartInv, None
<1>8. ASSUME NEW w \in Workers, EpollWait(w) PROVE StartInv'
  <2>1. ListenFd \in Ready(w) => backlog[w] # <<>>
    BY FdsApart DEF Ready, TypeOK
  <2> QED BY <1>8, <2>1 DEF EpollWait, TypeOK, StartInv, None
<1>9. ASSUME NEW w \in Workers, TakeExit(w) \/ ReadInterrupted(w) PROVE StartInv'
  <2>1. /\ Leaves(w) /\ main' = main /\ started' = started
    BY <1>9 DEF TakeExit, ReadInterrupted, Leaves
  <2>2. /\ phase[w] = "wait" /\ batch'[w] = {}
        /\ \A v \in Workers \ {w} : phase'[v] = phase[v] /\ batch'[v] = batch[v] /\ backlog'[v] = backlog[v]
    BY <2>1 DEF Leaves, TypeOK
  <2> QED BY <2>1, <2>2 DEF StartInv, None
<1>10. ASSUME NEW w \in Workers, Accept(w) PROVE StartInv'
  <2>1. /\ ListenFd \notin batch'[w] /\ \A v \in Workers \ {w} : batch'[v] = batch[v]
             /\ backlog'[v] = backlog[v]
        /\ phase' = phase /\ main' = main /\ started' = started /\ phase[w] = "wait"
    BY <1>10 DEF Accept, TypeOK
  <2> QED BY <2>1 DEF StartInv, None
<1>11. ASSUME NEW w \in Workers, NEW f \in Fds, Receive(w, f) PROVE StartInv'
  <2>1. /\ batch'[w] \subseteq batch[w] /\ \A v \in Workers \ {w} : batch'[v] = batch[v]
             /\ phase'[v] = phase[v]
        /\ backlog' = backlog /\ main' = main /\ started' = started /\ phase[w] = "wait"
        /\ phase'[w] \in {"delete", "open", "reply"}
    BY <1>11, ReceiveRead DEF Receive, ReadOrGone, TypeOK
  <2> QED BY <2>1 DEF StartInv, None
<1>12. ASSUME NEW w \in Workers, Reply(w) PROVE StartInv'
  <2>1. Answers(w)
    BY <1>12 DEF Answers
  <2>2. main' \in {main, "killed"} /\ UNCHANGED <<started, batch, backlog>>
    BY <2>1, WriteMove
  <2>3. /\ phase' = [phase EXCEPT ![w] = phase'[w]] /\ phase[w] \in {"reply", "open", "send"}
        /\ phase'[w] \in {"send", "delete"}
    BY <2>1, AnswersWrite
  <2>4. \A v \in Workers \ {w} : phase'[v] = phase[v]
    BY <2>3 DEF TypeOK
  <2> QED BY <2>2, <2>3, <2>4 DEF StartInv, None
<1>13. ASSUME NEW w \in Workers, OpenFile(w) PROVE StartInv'
  <2>1. Answers(w)
    BY <1>13 DEF Answers
  <2>2. main' \in {main, "killed"} /\ UNCHANGED <<started, batch, backlog>>
    BY <2>1, WriteMove
  <2>3. /\ phase' = [phase EXCEPT ![w] = phase'[w]] /\ phase[w] \in {"reply", "open", "send"}
        /\ phase'[w] \in {"send", "delete"}
    BY <2>1, AnswersWrite
  <2>4. \A v \in Workers \ {w} : phase'[v] = phase[v]
    BY <2>3 DEF TypeOK
  <2> QED BY <2>2, <2>3, <2>4 DEF StartInv, None
<1>14. ASSUME NEW w \in Workers, SendFile(w) PROVE StartInv'
  <2>1. Answers(w)
    BY <1>14 DEF Answers
  <2>2. main' \in {main, "killed"} /\ UNCHANGED <<started, batch, backlog>>
    BY <2>1, WriteMove
  <2>3. /\ phase' = [phase EXCEPT ![w] = phase'[w]] /\ phase[w] \in {"reply", "open", "send"}
        /\ phase'[w] \in {"send", "delete"}
    BY <2>1, AnswersWrite
  <2>4. \A v \in Workers \ {w} : phase'[v] = phase[v]
    BY <2>3 DEF TypeOK
  <2> QED BY <2>2, <2>3, <2>4 DEF StartInv, None
<1>15. ASSUME NEW w \in Workers, Delete(w) PROVE StartInv'
  BY <1>15 DEF Delete, TypeOK, StartInv, None
<1>16. ASSUME NEW w \in Workers, Close(w) PROVE StartInv'
  BY <1>16 DEF Close, TypeOK, StartInv, None
<1>17. ASSUME NEW c \in Conns, Arrive(c) PROVE StartInv'
  BY <1>17 DEF Arrive, TypeOK, StartInv, None
<1>18. ASSUME NEW c \in Conns, Leave(c) PROVE StartInv'
  BY <1>18 DEF Leave, TypeOK, StartInv, None
<1>19. ASSUME NEW c \in Conns, NEW w \in Workers, Connect(c, w) PROVE StartInv'
  <2>1. Append(backlog[w], c) # <<>>
    BY AppendProperties DEF TypeOK
  <2> QED BY <1>19, <2>1 DEF Connect, TypeOK, StartInv, None
<1>20. ASSUME NEW n \in Files, Resize(n) PROVE StartInv'
  BY <1>20 DEF Resize, TypeOK, StartInv, None
<1>21. CASE UNCHANGED vars
  BY <1>21 DEF vars, StartInv
<1> QED BY <1>1, <1>2, <1>3, <1>4, <1>5, <1>6, <1>7, <1>8, <1>9, <1>10, <1>11, <1>12, <1>13, <1>14,
  <1>15, <1>16, <1>17, <1>18, <1>19, <1>20, <1>21
  DEF Next, Main, Worker, World, Ended

----------------------------------------------------------------------------
(* The descriptors *)

\* A worker that serves a connection has an open descriptor of its own.
LEMMA InHandOpen ==
  ASSUME ServerAssumption, TypeOK, HeldInv, NEW w \in Workers, phase[w] \in Serving
  PROVE  /\ cur[w] \in Fds /\ cur[w] \in Held(w) /\ fds[cur[w]] # None /\ fds[cur[w]] \in Conns
         /\ \A v \in Workers \ {w} : cur[v] # cur[w] /\ cur[w] \notin interest[v]
<1>1. cur[w] # NoFd /\ cur[w] \in Fds \cup {NoFd}
  BY DEF HeldInv, TypeOK
<1>2. cur[w] \in Held(w)
  BY <1>1 DEF Held
<1>3. fds[cur[w]] # None /\ \A v \in Workers \ {w} : cur[w] \notin Held(v)
  BY <1>2 DEF HeldInv
<1>4. \A v \in Workers \ {w} : cur[v] # cur[w] /\ cur[w] \notin interest[v]
  BY <1>1, <1>3 DEF Held
<1> QED BY <1>1, <1>2, <1>3, <1>4 DEF TypeOK

\* A step that opens and closes nothing keeps the descriptors.
LEMMA HeldFrame ==
  ASSUME HeldInv, fds' = fds,
         \A w \in Workers :
           /\ cur'[w] = cur[w] /\ interest'[w] = interest[w] /\ batch'[w] \subseteq batch[w]
           /\ phase'[w] \in Serving <=> phase[w] \in Serving
           /\ phase'[w] = "close" => phase[w] = "close"
           /\ \A f \in batch[w] \cap Fds : peer'[fds[f]] \in {"part", "whole", "left"}
  PROVE  HeldInv'
<1>1. \A w \in Workers : Held(w)' = Held(w)
  BY DEF Held
<1> QED BY <1>1 DEF HeldInv

\* Every step keeps the descriptors of each worker open and its own.
LEMMA NextHeld ==
  ASSUME ServerAssumption, TypeOK, StartInv, HeldInv, ConnInv, AskedInv, [Next]_vars
  PROVE  HeldInv'
<1> USE DEF mainVars, workerVars, netVars
<1>1. CASE CreateWorker
  <2>1. started + 1 \in Workers /\ phase[started + 1] = None
    BY <1>1, WorkerSet DEF CreateWorker, StartInv, TypeOK, Workers
  <2> QED BY <1>1, <2>1, HeldFrame DEF CreateWorker, TypeOK, HeldInv, Serving, None
<1>2. CASE CreateFails
  BY <1>2, HeldFrame DEF CreateFails, TypeOK, HeldInv, Serving
<1>3. CASE InstallHandlers
  BY <1>3, HeldFrame DEF InstallHandlers, TypeOK, HeldInv, Serving
<1>4. CASE Join
  BY <1>4, HeldFrame DEF Join, TypeOK, HeldInv, Serving
<1>5. CASE Signal \/ HandlerWrites
  BY <1>5, HeldFrame DEF Signal, HandlerWrites, TypeOK, HeldInv, Serving
<1>6. ASSUME NEW w \in Workers, Setup(w) PROVE HeldInv'
  BY <1>6, HeldFrame DEF Setup, TypeOK, HeldInv, Serving
<1>7. ASSUME NEW w \in Workers, SetupFails(w) PROVE HeldInv'
  BY <1>7, HeldFrame DEF SetupFails, TypeOK, HeldInv, Serving
<1>8. ASSUME NEW w \in Workers, EpollWait(w) PROVE HeldInv'
  <2>1. /\ batch' = [batch EXCEPT ![w] = Ready(w)] /\ phase[w] = "wait"
        /\ UNCHANGED <<phase, interest, cur, fds, peer>>
    BY <1>8 DEF EpollWait
  <2>2. cur[w] = NoFd
    BY <2>1 DEF HeldInv, Serving
  <2>3. NoFd \notin Ready(w)
    BY FdsApart DEF Ready, TypeOK
  <2>4. \A f \in Ready(w) \cap Fds : f \in interest[w] /\ peer[fds[f]] \in {"part", "whole", "left"}
    BY FdsApart DEF Ready
  <2>5. \A v \in Workers : Held(v)' = Held(v)
    BY <2>1 DEF Held
  <2>6. batch'[w] = Ready(w) /\ \A v \in Workers \ {w} : batch'[v] = batch[v]
    BY <2>1 DEF TypeOK
  <2> QED BY <2>1, <2>2, <2>3, <2>4, <2>5, <2>6 DEF HeldInv
<1>9. ASSUME NEW w \in Workers, TakeExit(w) \/ ReadInterrupted(w) PROVE HeldInv'
  <2>1. /\ phase[w] = "wait" /\ phase'[w] = "ended" /\ batch'[w] = {} /\ interest'[w] = {}
        /\ \A v \in Workers \ {w} : phase'[v] = phase[v] /\ batch'[v] = batch[v] /\ interest'[v] = interest[v]
        /\ UNCHANGED <<cur, fds, peer>>
    BY <1>9 DEF TakeExit, ReadInterrupted, Leaves, Exit, TypeOK
  <2>2. cur[w] = NoFd
    BY <2>1 DEF HeldInv, Serving
  <2>3. Held(w)' = {} /\ \A v \in Workers \ {w} : Held(v)' = Held(v)
    BY <2>1, <2>2 DEF Held
  <2> QED BY <2>1, <2>2, <2>3 DEF HeldInv, Serving
<1>10. ASSUME NEW w \in Workers, Accept(w) PROVE HeldInv'
  <2>1. /\ phase' = phase /\ cur' = cur /\ peer' = peer /\ phase[w] = "wait"
        /\ batch'[w] \subseteq batch[w] /\ \A v \in Workers \ {w} : batch'[v] = batch[v]
    BY <1>10 DEF Accept, TypeOK
  <2>2. CASE Free = {}
    BY <1>10, <2>1, <2>2, HeldFrame DEF Accept, HeldInv
  <2>3. CASE Free # {}
    <3> DEFINE k == Lowest(Free)
    <3>1. k \in Fds /\ fds[k] = None
      BY <2>3, LowestFree
    <3>2. fds' = [fds EXCEPT ![k] = Head(backlog[w])]
            /\ interest' = [interest EXCEPT ![w] = interest[w] \cup {k}]
      BY <1>10, <2>3 DEF Accept, Watched
    <3> HIDE DEF k
    <3>3. Head(backlog[w]) \in Conns /\ Head(backlog[w]) # None
      <4>1. backlog[w] \in Seq(Conns) /\ backlog[w] # <<>>
        BY <1>10 DEF Accept, StartInv, TypeOK
      <4> QED BY <4>1, HeadTailProperties DEF ServerAssumption
    <3>4. \A v \in Workers : k \notin Held(v)
      BY <3>1 DEF HeldInv
    <3>5. /\ fds'[k] # None /\ \A f \in Fds \ {k} : fds'[f] = fds[f]
          /\ interest'[w] = interest[w] \cup {k} /\ \A v \in Workers \ {w} : interest'[v] = interest[v]
      BY <3>1, <3>2, <3>3 DEF TypeOK
    <3>6. k # NoFd
      BY <3>1, FdsApart
    <3>7. Held(w)' = Held(w) \cup {k} /\ \A v \in Workers \ {w} : Held(v)' = Held(v)
      BY <2>1, <3>5, <3>6 DEF Held
    <3>8. \A v \in Workers : Held(v) \subseteq Fds /\ \A f \in batch[v] \cap Fds : f \in Held(v)
      BY FdsApart DEF HeldInv, Held, TypeOK
    <3>9. \A v \in Workers : \A f \in Held(v)' : fds'[f] # None /\ \A u \in Workers \ {v} : f \notin Held(u)'
      BY <3>4, <3>5, <3>7, <3>8 DEF HeldInv
    <3>10. \A v \in Workers : \A f \in batch'[v] \cap Fds :
             f \in interest'[v] /\ peer'[fds'[f]] \in {"part", "whole", "left"}
      BY <2>1, <3>4, <3>5, <3>8 DEF HeldInv
    <3>11. phase[w] # "close" /\ \A v \in Workers : cur'[v] \notin batch'[v]
      BY <2>1 DEF HeldInv
    <3>12. \A v \in Workers : phase'[v] = "close" => cur'[v] \notin interest'[v]
      BY <2>1, <3>5, <3>11 DEF HeldInv
    <3>13. \A v \in Workers : cur'[v] # NoFd <=> phase'[v] \in Serving
      BY <2>1 DEF HeldInv
    <3> QED BY <3>9, <3>10, <3>11, <3>12, <3>13 DEF HeldInv
  <2> QED BY <2>2, <2>3
<1>11. ASSUME NEW w \in Workers, NEW f \in Fds, Receive(w, f) PROVE HeldInv'
  <2>1. /\ batch'[w] = batch[w] \ {f} /\ \A v \in Workers \ {w} : batch'[v] = batch[v]
             /\ phase'[v] = phase[v] /\ cur'[v] = cur[v]
        /\ cur'[w] = f /\ interest' = interest /\ fds' = fds /\ peer' = peer
        /\ phase[w] = "wait" /\ f \in batch[w] /\ phase'[w] \in {"delete", "open", "reply"}
    BY <1>11, ReceiveRead DEF Receive, ReadOrGone, TypeOK
  <2>2. cur[w] = NoFd /\ f \in interest[w] /\ f # NoFd
    BY <2>1, FdsApart DEF HeldInv, Serving
  <2>3. \A v \in Workers : Held(v)' = Held(v)
    BY <2>1, <2>2 DEF Held
  <2> QED BY <2>1, <2>2, <2>3 DEF HeldInv, Serving
<1>12. ASSUME NEW w \in Workers, Reply(w) PROVE HeldInv'
  <2>1. Answers(w)
    BY <1>12 DEF Answers
  <2>2. UNCHANGED <<batch, interest, cur, fds, peer>>
    BY <2>1, WriteMove
  <2>3. /\ phase' = [phase EXCEPT ![w] = phase'[w]] /\ phase[w] \in {"reply", "open", "send"}
        /\ phase'[w] \in {"send", "delete"}
    BY <2>1, AnswersWrite
  <2>4. \A v \in Workers \ {w} : phase'[v] = phase[v]
    BY <2>3 DEF TypeOK
  <2> QED BY <2>2, <2>3, <2>4, HeldFrame DEF HeldInv, Serving
<1>13. ASSUME NEW w \in Workers, OpenFile(w) PROVE HeldInv'
  <2>1. Answers(w)
    BY <1>13 DEF Answers
  <2>2. UNCHANGED <<batch, interest, cur, fds, peer>>
    BY <2>1, WriteMove
  <2>3. /\ phase' = [phase EXCEPT ![w] = phase'[w]] /\ phase[w] \in {"reply", "open", "send"}
        /\ phase'[w] \in {"send", "delete"}
    BY <2>1, AnswersWrite
  <2>4. \A v \in Workers \ {w} : phase'[v] = phase[v]
    BY <2>3 DEF TypeOK
  <2> QED BY <2>2, <2>3, <2>4, HeldFrame DEF HeldInv, Serving
<1>14. ASSUME NEW w \in Workers, SendFile(w) PROVE HeldInv'
  <2>1. Answers(w)
    BY <1>14 DEF Answers
  <2>2. UNCHANGED <<batch, interest, cur, fds, peer>>
    BY <2>1, WriteMove
  <2>3. /\ phase' = [phase EXCEPT ![w] = phase'[w]] /\ phase[w] \in {"reply", "open", "send"}
        /\ phase'[w] \in {"send", "delete"}
    BY <2>1, AnswersWrite
  <2>4. \A v \in Workers \ {w} : phase'[v] = phase[v]
    BY <2>3 DEF TypeOK
  <2> QED BY <2>2, <2>3, <2>4, HeldFrame DEF HeldInv, Serving
<1>15. ASSUME NEW w \in Workers, Delete(w) PROVE HeldInv'
  <2>1. /\ phase[w] = "delete" /\ phase'[w] = "close" /\ interest'[w] = interest[w] \ {cur[w]}
        /\ \A v \in Workers \ {w} : phase'[v] = phase[v] /\ interest'[v] = interest[v]
        /\ UNCHANGED <<batch, cur, fds, peer>>
    BY <1>15 DEF Delete, StillOpen, TypeOK
  <2>2. phase[w] \in Serving /\ phase'[w] \in Serving
    BY <2>1 DEF Serving
  <2>3. cur[w] # NoFd /\ cur[w] \notin batch[w]
    BY <2>2 DEF HeldInv
  <2>4. Held(w)' \subseteq Held(w) /\ \A v \in Workers \ {w} : Held(v)' = Held(v)
    BY <2>1 DEF Held
  <2> QED BY <2>1, <2>2, <2>3, <2>4 DEF HeldInv
<1>16. ASSUME NEW w \in Workers, Close(w) PROVE HeldInv'
  <2>1. /\ phase[w] = "close" /\ phase'[w] = "wait" /\ cur'[w] = NoFd
        /\ \A v \in Workers \ {w} : phase'[v] = phase[v] /\ cur'[v] = cur[v]
        /\ UNCHANGED <<batch, interest, peer>> /\ fds' = [fds EXCEPT ![cur[w]] = None]
    BY <1>16 DEF Close, TypeOK
  <2>2. phase[w] \in Serving /\ phase'[w] \notin Serving
    BY <2>1 DEF Serving
  <2>3. /\ cur[w] \in Fds /\ \A v \in Workers \ {w} : cur[w] \notin Held(v)
        /\ cur[w] \notin interest[w]
    BY <2>1, <2>2, InHandOpen DEF HeldInv
  <2>4. Held(w)' \subseteq Held(w) \ {cur[w]} /\ \A v \in Workers \ {w} : Held(v)' = Held(v)
    BY <2>1, <2>3 DEF Held
  <2>5. \A f \in Fds \ {cur[w]} : fds'[f] = fds[f]
    BY <2>1 DEF TypeOK
  <2>6. \A v \in Workers : Held(v) \subseteq Fds
    BY DEF Held, TypeOK
  <2>7. \A v \in Workers : \A f \in Held(v)' : fds'[f] # None /\ \A u \in Workers \ {v} : f \notin Held(u)'
    BY <2>3, <2>4, <2>5, <2>6 DEF HeldInv
  <2>8. \A v \in Workers : \A f \in batch'[v] \cap Fds :
          f \in interest'[v] /\ peer'[fds'[f]] \in {"part", "whole", "left"}
    <3>1. \A v \in Workers : \A f \in batch[v] \cap Fds : f # cur[w]
      BY <2>3 DEF HeldInv, Held
    <3> QED BY <2>1, <2>5, <3>1 DEF HeldInv
  <2>9. \A v \in Workers : cur'[v] \notin batch'[v]
    BY <2>1, FdsApart DEF HeldInv, TypeOK
  <2>10. \A v \in Workers : phase'[v] = "close" => cur'[v] \notin interest'[v]
    BY <2>1 DEF HeldInv
  <2>11. \A v \in Workers : cur'[v] # NoFd <=> phase'[v] \in Serving
    BY <2>1, <2>2 DEF HeldInv
  <2> QED BY <2>7, <2>8, <2>9, <2>10, <2>11 DEF HeldInv
<1>17. ASSUME NEW c \in Conns, Arrive(c) PROVE HeldInv'
  BY <1>17, HeldFrame DEF Arrive, TypeOK, HeldInv, Serving
<1>18. ASSUME NEW c \in Conns, Leave(c) PROVE HeldInv'
  BY <1>18, HeldFrame DEF Leave, TypeOK, HeldInv, Serving
<1>19. ASSUME NEW c \in Conns, NEW w \in Workers, Connect(c, w) PROVE HeldInv'
  BY <1>19, HeldFrame DEF Connect, TypeOK, HeldInv, Serving
<1>20. ASSUME NEW n \in Files, Resize(n) PROVE HeldInv'
  BY <1>20, HeldFrame DEF Resize, TypeOK, HeldInv, Serving
<1>21. CASE UNCHANGED vars
  BY <1>21, HeldFrame DEF vars, HeldInv
<1> QED BY <1>1, <1>2, <1>3, <1>4, <1>5, <1>6, <1>7, <1>8, <1>9, <1>10, <1>11, <1>12, <1>13, <1>14,
  <1>15, <1>16, <1>17, <1>18, <1>19, <1>20, <1>21
  DEF Next, Main, Worker, World, Ended

\* A worker that has ended stays so.
LEMMA EndedStays ==
  ASSUME ServerAssumption, TypeOK, StartInv, HeldInv, ConnInv, AskedInv, [Next]_vars,
         NEW v \in Workers, phase[v] = "ended"
  PROVE  phase'[v] = "ended"
<1> USE DEF mainVars, workerVars, netVars
<1>1. CASE CreateWorker
  <2>1. started + 1 \in Workers /\ phase[started + 1] = None
    BY <1>1, WorkerSet DEF CreateWorker, StartInv, TypeOK, Workers
  <2> QED BY <1>1, <2>1 DEF CreateWorker, TypeOK, None
<1>2. ASSUME NEW w \in Workers, Answers(w) PROVE phase'[v] = "ended"
  <2>1. phase' = [phase EXCEPT ![w] = phase'[w]] /\ phase[w] \in {"reply", "open", "send"}
    BY <1>2, AnswersWrite
  <2> QED BY <2>1 DEF TypeOK
<1>3. ASSUME NEW w \in Workers, NEW f \in Fds, Receive(w, f) PROVE phase'[v] = "ended"
  BY <1>3, ReceiveRead DEF Receive, ReadOrGone, TypeOK
<1>4. ASSUME NEW w \in Workers,
             \/ Setup(w) \/ SetupFails(w) \/ EpollWait(w) \/ TakeExit(w) \/ ReadInterrupted(w) \/ Accept(w)
             \/ Delete(w) \/ Close(w)
      PROVE  phase'[v] = "ended"
  BY <1>4 DEF Setup, SetupFails, EpollWait, TakeExit, ReadInterrupted, Leaves, Exit, Accept, Delete, Close,
              TypeOK
<1>5. CASE \/ CreateFails \/ InstallHandlers \/ Join \/ Signal \/ HandlerWrites \/ UNCHANGED vars
           \/ \E c \in Conns : Arrive(c) \/ Leave(c) \/ \E w \in Workers : Connect(c, w)
           \/ \E n \in Files : Resize(n)
  BY <1>5 DEF CreateFails, InstallHandlers, Join, Signal, HandlerWrites, Arrive, Leave, Connect, Resize, vars
<1> QED BY <1>1, <1>2, <1>3, <1>4, <1>5 DEF World, Next, Main, Worker, Ended, Answers

\* No worker has ended, and every open descriptor is with one.
Accounted == \A f \in Fds : fds[f] # None => \E w \in Workers : f \in interest[w] \cup {cur[w]}

\* Every step that ends no worker keeps every open descriptor with one.
LEMMA NextAccounted ==
  ASSUME ServerAssumption, TypeOK, StartInv, HeldInv, ConnInv, AskedInv, Accounted, [Next]_vars,
         \A u \in Workers : phase'[u] # "ended"
  PROVE  Accounted'
<1> USE DEF mainVars, workerVars, netVars
<1>0. \A u \in Workers : phase'[u] # "ended"
  OBVIOUS
<1>1. CASE CreateWorker
  BY <1>1 DEF CreateWorker, Accounted
<1>2. CASE CreateFails
  BY <1>2 DEF CreateFails, Accounted
<1>3. CASE InstallHandlers
  BY <1>3 DEF InstallHandlers, Accounted
<1>4. CASE Join
  BY <1>4 DEF Join, Accounted
<1>5. CASE Signal \/ HandlerWrites
  BY <1>5 DEF Signal, HandlerWrites, Accounted
<1>6. ASSUME NEW w \in Workers, Setup(w) PROVE Accounted'
  BY <1>6 DEF Setup, Accounted
<1>7. ASSUME NEW w \in Workers, SetupFails(w) PROVE Accounted'
  BY <1>7, <1>0 DEF SetupFails, TypeOK
<1>8. ASSUME NEW w \in Workers, EpollWait(w) PROVE Accounted'
  BY <1>8 DEF EpollWait, Accounted
<1>9. ASSUME NEW w \in Workers, TakeExit(w) \/ ReadInterrupted(w) PROVE Accounted'
  BY <1>9, <1>0 DEF TakeExit, ReadInterrupted, Leaves, Exit, TypeOK
<1>10. ASSUME NEW w \in Workers, Accept(w) PROVE Accounted'
  <2>1. CASE Free = {}
    BY <1>10, <2>1 DEF Accept, Accounted
  <2>2. CASE Free # {}
    <3> DEFINE k == Lowest(Free)
    <3>1. k \in Fds
      BY <2>2, LowestFree
    <3>2. /\ fds' = [fds EXCEPT ![k] = Head(backlog[w])]
               /\ interest' = [interest EXCEPT ![w] = interest[w] \cup {k}]
          /\ cur' = cur
      BY <1>10, <2>2 DEF Accept, Watched
    <3> HIDE DEF k
    <3>3. /\ \A g \in Fds \ {k} : fds'[g] = fds[g]
          /\ k \in interest'[w] /\ \A v \in Workers : interest[v] \subseteq interest'[v]
      BY <3>1, <3>2 DEF TypeOK
    <3> QED BY <3>2, <3>3 DEF Accounted
  <2> QED BY <2>1, <2>2
<1>11. ASSUME NEW w \in Workers, NEW f \in Fds, Receive(w, f) PROVE Accounted'
  <2>1. cur[w] = NoFd /\ fds' = fds /\ interest' = interest /\ \A v \in Workers \ {w} : cur'[v] = cur[v]
    BY <1>11 DEF Receive, HeldInv, Serving, TypeOK
  <2> QED BY <2>1, FdsApart DEF Accounted
<1>12. ASSUME NEW w \in Workers, Reply(w) PROVE Accounted'
  <2>1. Answers(w)
    BY <1>12 DEF Answers
  <2> QED BY <2>1, WriteMove DEF Accounted
<1>13. ASSUME NEW w \in Workers, OpenFile(w) PROVE Accounted'
  <2>1. Answers(w)
    BY <1>13 DEF Answers
  <2> QED BY <2>1, WriteMove DEF Accounted
<1>14. ASSUME NEW w \in Workers, SendFile(w) PROVE Accounted'
  <2>1. Answers(w)
    BY <1>14 DEF Answers
  <2> QED BY <2>1, WriteMove DEF Accounted
<1>15. ASSUME NEW w \in Workers, Delete(w) PROVE Accounted'
  <2>1. /\ interest'[w] = interest[w] \ {cur[w]} /\ cur' = cur /\ fds' = fds
        /\ \A v \in Workers \ {w} : interest'[v] = interest[v]
    BY <1>15 DEF Delete, StillOpen, TypeOK
  <2> QED BY <2>1 DEF Accounted
<1>16. ASSUME NEW w \in Workers, Close(w) PROVE Accounted'
  <2>1. /\ cur'[w] = NoFd /\ interest' = interest /\ fds' = [fds EXCEPT ![cur[w]] = None]
        /\ \A v \in Workers \ {w} : cur'[v] = cur[v]
    BY <1>16 DEF Close, TypeOK
  <2>2. ASSUME NEW g \in Fds, fds'[g] # None PROVE fds[g] # None /\ g # cur[w]
    BY <2>1, <2>2 DEF TypeOK
  <2> QED BY <2>1, <2>2 DEF Accounted
<1>17. ASSUME NEW c \in Conns, Arrive(c) PROVE Accounted'
  BY <1>17 DEF Arrive, Accounted
<1>18. ASSUME NEW c \in Conns, Leave(c) PROVE Accounted'
  BY <1>18 DEF Leave, Accounted
<1>19. ASSUME NEW c \in Conns, NEW w \in Workers, Connect(c, w) PROVE Accounted'
  BY <1>19 DEF Connect, Accounted
<1>20. ASSUME NEW n \in Files, Resize(n) PROVE Accounted'
  BY <1>20 DEF Resize, Accounted
<1>21. CASE UNCHANGED vars
  BY <1>21 DEF vars, Accounted
<1> QED BY <1>1, <1>2, <1>3, <1>4, <1>5, <1>6, <1>7, <1>8, <1>9, <1>10, <1>11, <1>12, <1>13, <1>14,
  <1>15, <1>16, <1>17, <1>18, <1>19, <1>20, <1>21
  DEF Next, Main, Worker, World, Ended

----------------------------------------------------------------------------
(* The requests and the answers *)

\* A worker that keeps its client keeps its request.
LEMMA AskedFrame ==
  ASSUME AskedInv, sends' = sends,
         \A w \in Workers : phase'[w] \in {"reply", "open", "send"} =>
           /\ phase'[w] = phase[w] \/ (phase[w] = "open" /\ phase'[w] = "send")
           /\ asked'[w] = asked[w] /\ fds'[cur'[w]] = fds[cur[w]]
  PROVE  AskedInv'
BY DEF AskedInv

\* Every step keeps the request in hand one of the client in hand.
LEMMA NextAsked ==
  ASSUME ServerAssumption, TypeOK, StartInv, HeldInv, ConnInv, AskedInv, [Next]_vars
  PROVE  AskedInv'
<1> USE DEF mainVars, workerVars, netVars
<1>1. CASE CreateWorker
  <2>1. started + 1 \in Workers
    BY <1>1, WorkerSet DEF CreateWorker, StartInv, TypeOK, Workers
  <2> QED BY <1>1, <2>1, AskedFrame DEF CreateWorker, TypeOK
<1>2. CASE CreateFails
  BY <1>2, AskedFrame DEF CreateFails, TypeOK
<1>3. CASE InstallHandlers
  BY <1>3, AskedFrame DEF InstallHandlers, TypeOK
<1>4. CASE Join
  BY <1>4, AskedFrame DEF Join, TypeOK
<1>5. CASE Signal \/ HandlerWrites
  BY <1>5, AskedFrame DEF Signal, HandlerWrites, TypeOK
<1>6. ASSUME NEW w \in Workers, Setup(w) PROVE AskedInv'
  BY <1>6, AskedFrame DEF Setup, TypeOK
<1>7. ASSUME NEW w \in Workers, SetupFails(w) PROVE AskedInv'
  BY <1>7, AskedFrame DEF SetupFails, TypeOK
<1>8. ASSUME NEW w \in Workers, EpollWait(w) PROVE AskedInv'
  BY <1>8, AskedFrame DEF EpollWait, TypeOK
<1>9. ASSUME NEW w \in Workers, TakeExit(w) \/ ReadInterrupted(w) PROVE AskedInv'
  BY <1>9, AskedFrame DEF TakeExit, ReadInterrupted, Leaves, Exit, TypeOK
<1>10. ASSUME NEW w \in Workers, Accept(w) PROVE AskedInv'
  <2>1. /\ phase' = phase /\ asked' = asked /\ cur' = cur /\ sends' = sends
    BY <1>10 DEF Accept
  <2>2. ASSUME NEW v \in Workers, phase[v] \in {"reply", "open", "send"} PROVE fds'[cur[v]] = fds[cur[v]]
    <3>1. cur[v] \in Fds /\ fds[cur[v]] # None
      BY <2>2, InHandOpen DEF Serving
    <3>2. CASE Free = {}
      BY <1>10, <3>2 DEF Accept
    <3>3. CASE Free # {}
      <4>1. fds[Lowest(Free)] = None /\ fds' = [fds EXCEPT ![Lowest(Free)] = Head(backlog[w])]
        BY <1>10, <3>3, LowestFree DEF Accept
      <4> QED BY <3>1, <4>1 DEF TypeOK
    <3> QED BY <3>2, <3>3
  <2> QED BY <2>1, <2>2, AskedFrame
<1>11. ASSUME NEW w \in Workers, NEW f \in Fds, Receive(w, f) PROVE AskedInv'
  <2>1. ReadOrGone(w, f)
    BY <1>11, ReceiveRead
  <2>2. /\ \A v \in Workers \ {w} : phase'[v] = phase[v] /\ cur'[v] = cur[v] /\ asked'[v] = asked[v]
        /\ cur'[w] = f /\ fds' = fds /\ sends' = sends
    BY <1>11, <2>1 DEF Receive, ReadOrGone, TypeOK
  <2>3. phase'[w] # "send"
    BY <2>1 DEF ReadOrGone
  <2>4. \/ phase'[w] = "delete"
        \/ /\ asked'[w] \in {sends[fds[f]].part, sends[fds[f]].whole}
           /\ phase'[w] = IF Verdict(asked'[w]) = "open" THEN "open" ELSE "reply"
    BY <2>1 DEF ReadOrGone
  <2> QED BY <2>2, <2>3, <2>4 DEF AskedInv
<1>12. ASSUME NEW w \in Workers, Reply(w) PROVE AskedInv'
  <2>1. Answers(w)
    BY <1>12 DEF Answers
  <2>2. UNCHANGED <<cur, fds, asked, sends>>
    BY <2>1, WriteMove
  <2>3. phase' = [phase EXCEPT ![w] = phase'[w]] /\ phase'[w] \in {"send", "delete"}
    BY <2>1, AnswersWrite
  <2>4. phase'[w] = "send" => phase[w] = "open"
    BY <1>12 DEF Reply, OpenFile, SendFile, AfterReply, TypeOK
  <2> QED BY <2>2, <2>3, <2>4, AskedFrame DEF TypeOK
<1>13. ASSUME NEW w \in Workers, OpenFile(w) PROVE AskedInv'
  <2>1. Answers(w)
    BY <1>13 DEF Answers
  <2>2. UNCHANGED <<cur, fds, asked, sends>>
    BY <2>1, WriteMove
  <2>3. phase' = [phase EXCEPT ![w] = phase'[w]] /\ phase'[w] \in {"send", "delete"}
    BY <2>1, AnswersWrite
  <2>4. phase'[w] = "send" => phase[w] = "open"
    BY <1>13 DEF Reply, OpenFile, SendFile, AfterReply, TypeOK
  <2> QED BY <2>2, <2>3, <2>4, AskedFrame DEF TypeOK
<1>14. ASSUME NEW w \in Workers, SendFile(w) PROVE AskedInv'
  <2>1. Answers(w)
    BY <1>14 DEF Answers
  <2>2. UNCHANGED <<cur, fds, asked, sends>>
    BY <2>1, WriteMove
  <2>3. phase' = [phase EXCEPT ![w] = phase'[w]] /\ phase'[w] \in {"send", "delete"}
    BY <2>1, AnswersWrite
  <2>4. phase'[w] = "send" => phase[w] = "open"
    BY <1>14 DEF Reply, OpenFile, SendFile, AfterReply, TypeOK
  <2> QED BY <2>2, <2>3, <2>4, AskedFrame DEF TypeOK
<1>15. ASSUME NEW w \in Workers, Delete(w) PROVE AskedInv'
  BY <1>15, AskedFrame DEF Delete, StillOpen, TypeOK
<1>16. ASSUME NEW w \in Workers, Close(w) PROVE AskedInv'
  <2>1. /\ phase'[w] = "wait" /\ fds' = [fds EXCEPT ![cur[w]] = None] /\ sends' = sends
        /\ \A v \in Workers \ {w} : phase'[v] = phase[v] /\ cur'[v] = cur[v] /\ asked'[v] = asked[v]
    BY <1>16 DEF Close, TypeOK
  <2>2. phase[w] = "close"
    BY <1>16 DEF Close
  <2>3. ASSUME NEW v \in Workers \ {w}, phase[v] \in {"reply", "open", "send"}
        PROVE fds'[cur[v]] = fds[cur[v]]
    <3>1. cur[v] \in Fds
      BY <2>3, InHandOpen DEF Serving
    <3>2. cur[v] # cur[w]
      BY <2>2, InHandOpen DEF Serving
    <3> QED BY <2>1, <3>1, <3>2 DEF TypeOK
  <2> QED BY <2>1, <2>3, AskedFrame
<1>17. ASSUME NEW c \in Conns, Arrive(c) PROVE AskedInv'
  BY <1>17, AskedFrame DEF Arrive, TypeOK
<1>18. ASSUME NEW c \in Conns, Leave(c) PROVE AskedInv'
  BY <1>18, AskedFrame DEF Leave, TypeOK
<1>19. ASSUME NEW c \in Conns, NEW w \in Workers, Connect(c, w) PROVE AskedInv'
  BY <1>19, AskedFrame DEF Connect, TypeOK
<1>20. ASSUME NEW n \in Files, Resize(n) PROVE AskedInv'
  BY <1>20, AskedFrame DEF Resize, TypeOK
<1>21. CASE UNCHANGED vars
  BY <1>21, AskedFrame DEF vars
<1> QED BY <1>1, <1>2, <1>3, <1>4, <1>5, <1>6, <1>7, <1>8, <1>9, <1>10, <1>11, <1>12, <1>13, <1>14,
  <1>15, <1>16, <1>17, <1>18, <1>19, <1>20, <1>21
  DEF Next, Main, Worker, World, Ended

\* What a worker writes: one answer, for the client in hand, about its request.
LEMMA Written ==
  ASSUME ServerAssumption, TypeOK, HeldInv, AskedInv, NEW w \in Workers, Answers(w)
  PROVE  \E new \in [kind: Kinds, promised: Nat, body: Nat, asked: Parsed] :
           /\ Fits(new.kind, new.promised, new.body) /\ new.asked = asked[w]
           /\ InTurn(w, new.kind, new.promised, new.body)
           /\ answer' = answer \/ answer' = [answer EXCEPT ![fds[cur[w]]] = new]
           /\ Up' => answer' = [answer EXCEPT ![fds[cur[w]]] = new]
<1>1. PICK kind, length, body :
        /\ Fits(kind, length, body) /\ Write(w, kind, length, body)
        /\ InTurn(w, kind, length, body)
  BY AnswersWrite
<1> DEFINE new == [kind |-> kind, promised |-> length, body |-> body, asked |-> asked[w]]
<1>2. new \in [kind: Kinds, promised: Nat, body: Nat, asked: Parsed]
  BY <1>1, AnswersWrite DEF Fits
<1>3. /\ new.kind = kind /\ new.promised = length /\ new.body = body /\ new.asked = asked[w]
  OBVIOUS
<1>4. fds[cur[w]] # None
  BY AnswersWrite, InHandOpen DEF Serving
<1>5. /\ main' = IF peer[fds[cur[w]]] = "left" THEN "killed" ELSE main
      /\ answer' = IF peer[fds[cur[w]]] = "left" THEN answer ELSE [answer EXCEPT ![fds[cur[w]]] = new]
  BY <1>1, <1>4 DEF Write
<1> HIDE DEF new
<1>6. Up' => answer' = [answer EXCEPT ![fds[cur[w]]] = new]
  BY <1>5 DEF Up
<1> QED BY <1>1, <1>2, <1>3, <1>5, <1>6

\* A step is a worker's answer, or leaves the answers alone.
LEMMA AnswersOrNot ==
  ASSUME [Next]_vars
  PROVE  sends' = sends /\ (answer' = answer \/ \E w \in Workers : Answers(w))
<1> USE DEF mainVars, workerVars, netVars
<1>1. ASSUME NEW w \in Workers, Answers(w) PROVE sends' = sends
  BY <1>1 DEF Answers, Reply, OpenFile, SendFile, Write
<1>2. ASSUME NEW w \in Workers, Worker(w), ~Answers(w) PROVE sends' = sends /\ answer' = answer
  BY <1>2 DEF Worker, Answers, Setup, SetupFails, EpollWait, TakeExit, Leaves, Accept, Receive,
              Delete, Close
<1>3. CASE Main \/ HandlerWrites
  BY <1>3 DEF HandlerWrites, Main, CreateWorker, CreateFails, InstallHandlers, Join
<1>4. CASE World
  BY <1>4 DEF World, Signal, ReadInterrupted, Leaves, Arrive, Leave, Connect, Resize
<1>5. CASE UNCHANGED vars
  BY <1>5 DEF vars
<1> QED BY <1>1, <1>2, <1>3, <1>4, <1>5 DEF Next, Ended

\* Every step keeps the answers fitting the requests and their own headers.
LEMMA NextFits ==
  ASSUME ServerAssumption, TypeOK, HeldInv, AskedInv, AnswerFits, [Next]_vars
  PROVE  AnswerFits'
<1>1. CASE answer' = answer
  BY <1>1, AnswersOrNot DEF AnswerFits
<1>2. ASSUME NEW w \in Workers, Answers(w) PROVE AnswerFits'
  <2>1. PICK new \in [kind: Kinds, promised: Nat, body: Nat, asked: Parsed] :
          /\ Fits(new.kind, new.promised, new.body) /\ new.asked = asked[w]
          /\ answer' = answer \/ answer' = [answer EXCEPT ![fds[cur[w]]] = new]
    BY <1>2, Written
  <2>2. asked[w] \in {sends[fds[cur[w]]].part, sends[fds[cur[w]]].whole}
    BY <1>2, AnswersWrite DEF AskedInv
  <2>3. sends' = sends
    BY AnswersOrNot
  <2>4. ASSUME NEW c \in Conns
        PROVE  answer'[c] = answer[c] \/ (c = fds[cur[w]] /\ answer'[c] = new)
    BY <2>1, <2>4 DEF TypeOK
  <2> QED BY <2>1, <2>2, <2>3, <2>4 DEF AnswerFits, Fits
<1> QED BY <1>1, <1>2, AnswersOrNot

----------------------------------------------------------------------------
(* The connections *)

\* A step that takes nothing off a socket and opens nothing keeps what waits there.
LEMMA BacklogFrame ==
  ASSUME ServerAssumption, TypeOK, BacklogInv, backlog' = backlog,
         \A f \in Fds : fds'[f] = fds[f] \/ fds'[f] = None,
         \A c \in Conns :
           /\ peer[c] # "idle" => peer'[c] # "idle"
           /\ (\A f \in Fds : fds[f] # c) => answer'[c] = answer[c]
  PROVE  BacklogInv'
<1>1. ASSUME NEW w \in Workers, NEW i \in 1..Len(backlog[w])
      PROVE  backlog[w][i] \in Conns /\ backlog[w][i] # None
  <2>1. backlog[w] \in Seq(Conns)
    BY DEF TypeOK
  <2> QED BY <2>1 DEF ServerAssumption
<1> QED BY <1>1 DEF BacklogInv

\* Every step keeps each waiting connection in one place.
LEMMA NextBacklog ==
  ASSUME ServerAssumption, TypeOK, StartInv, HeldInv, AskedInv, BacklogInv, ConnInv, [Next]_vars
  PROVE  BacklogInv'
<1> USE DEF mainVars, workerVars, netVars
<1>1. CASE CreateWorker
  BY <1>1, BacklogFrame DEF CreateWorker, TypeOK
<1>2. CASE CreateFails
  BY <1>2, BacklogFrame DEF CreateFails, TypeOK
<1>3. CASE InstallHandlers
  BY <1>3, BacklogFrame DEF InstallHandlers, TypeOK
<1>4. CASE Join
  BY <1>4, BacklogFrame DEF Join, TypeOK
<1>5. CASE Signal \/ HandlerWrites
  BY <1>5, BacklogFrame DEF Signal, HandlerWrites, TypeOK
<1>6. ASSUME NEW w \in Workers, Setup(w) PROVE BacklogInv'
  BY <1>6, BacklogFrame DEF Setup, TypeOK
<1>7. ASSUME NEW w \in Workers, SetupFails(w) PROVE BacklogInv'
  BY <1>7, BacklogFrame DEF SetupFails, TypeOK
<1>8. ASSUME NEW w \in Workers, EpollWait(w) PROVE BacklogInv'
  BY <1>8, BacklogFrame DEF EpollWait, TypeOK
<1>9. ASSUME NEW w \in Workers, TakeExit(w) \/ ReadInterrupted(w) PROVE BacklogInv'
  <2>1. /\ backlog'[w] = <<>> /\ \A v \in Workers \ {w} : backlog'[v] = backlog[v]
        /\ UNCHANGED <<fds, peer, answer>>
    BY <1>9 DEF TakeExit, ReadInterrupted, Leaves, TypeOK
  <2>2. Len(<<>>) = 0
    OBVIOUS
  <2>3. 1..Len(backlog'[w]) = {}
    BY <2>1, <2>2
  <2> QED BY <2>1, <2>3 DEF BacklogInv
<1>10. ASSUME NEW w \in Workers, Accept(w) PROVE BacklogInv'
  <2>1. CASE Free = {}
    BY <1>10, <2>1, BacklogFrame DEF Accept, TypeOK
  <2>2. CASE Free # {}
    <3> DEFINE k == Lowest(Free)
    <3> DEFINE b == backlog[w]
    <3>1. k \in Fds
      BY <2>2, LowestFree
    <3>2. fds' = [fds EXCEPT ![k] = Head(b)] /\ backlog' = [backlog EXCEPT ![w] = Tail(b)]
      BY <1>10, <2>2 DEF Accept
    <3>3. b \in Seq(Conns) /\ b # <<>>
      BY <1>10 DEF Accept, StartInv, TypeOK
    <3>4. UNCHANGED <<peer, answer>>
      BY <1>10 DEF Accept
    <3> HIDE DEF k
    <3>5. /\ \A f \in Fds \ {k} : fds'[f] = fds[f]
          /\ fds'[k] = Head(b) /\ backlog'[w] = Tail(b) /\ \A v \in Workers \ {w} : backlog'[v] = backlog[v]
      BY <3>1, <3>2 DEF TypeOK
    <3>6. Len(b) \in Nat /\ Len(b) # 0 /\ Head(b) = b[1]
      BY <3>3
    <3>7. /\ Len(Tail(b)) = Len(b) - 1
          /\ \A i \in 1..Len(Tail(b)) : Tail(b)[i] = b[i + 1] /\ i + 1 \in 1..Len(b) /\ i + 1 # 1
      BY <3>3, <3>6, HeadTailProperties
    \* Each connection that still waits did before, one place further.
    <3>8. ASSUME NEW v \in Workers, NEW i \in 1..Len(backlog'[v])
          PROVE  /\ i + (IF v = w THEN 1 ELSE 0) \in 1..Len(backlog[v])
                 /\ backlog'[v][i] = backlog[v][i + (IF v = w THEN 1 ELSE 0)]
      <4>1. CASE v = w
        BY <3>5, <3>7, <3>8, <4>1
      <4>2. CASE v # w
        BY <3>5, <3>8, <4>2
      <4> QED BY <4>1, <4>2
    <3>9. 1 \in 1..Len(b)
      BY <3>6
    <3> HIDE DEF b
    <3>10. ASSUME NEW v \in Workers, NEW i \in 1..Len(backlog'[v])
           PROVE  /\ peer[backlog'[v][i]] # "idle" /\ answer[backlog'[v][i]] = NoAnswer
                  /\ \A f \in Fds : fds[f] # backlog'[v][i]
                  /\ backlog'[v][i] # Head(b)
      <4> DEFINE j == i + (IF v = w THEN 1 ELSE 0)
      <4>1. j \in 1..Len(backlog[v]) /\ backlog'[v][i] = backlog[v][j] /\ (v = w => j # 1)
        BY <3>8, <3>10
      <4> HIDE DEF j
      <4>2. backlog[v][j] # backlog[w][1]
        BY <3>9, <4>1 DEF BacklogInv, b
      <4> QED BY <3>6, <4>1, <4>2 DEF BacklogInv, b
    <3>11. ASSUME NEW v \in Workers, NEW i \in 1..Len(backlog'[v]), NEW u \in Workers,
                  NEW j \in 1..Len(backlog'[u]),
                  backlog'[v][i] = backlog'[u][j]
           PROVE  v = u /\ i = j
      <4> DEFINE i1 == i + (IF v = w THEN 1 ELSE 0)
                 j1 == j + (IF u = w THEN 1 ELSE 0)
      <4>1. i1 \in 1..Len(backlog[v]) /\ backlog'[v][i] = backlog[v][i1]
        BY <3>8, <3>11
      <4>2. j1 \in 1..Len(backlog[u]) /\ backlog'[u][j] = backlog[u][j1]
        BY <3>8, <3>11
      <4> HIDE DEF i1, j1
      <4>3. backlog[v][i1] = backlog[u][j1]
        BY <3>11, <4>1, <4>2
      <4>4. v = u /\ i1 = j1
        BY <4>1, <4>2, <4>3 DEF BacklogInv
      <4>5. i \in Int /\ j \in Int
        OBVIOUS
      <4> QED BY <4>4, <4>5 DEF i1, j1
    <3> QED BY <3>4, <3>5, <3>10, <3>11 DEF BacklogInv
  <2> QED BY <2>1, <2>2
<1>11. ASSUME NEW w \in Workers, NEW f \in Fds, Receive(w, f) PROVE BacklogInv'
  BY <1>11, BacklogFrame DEF Receive, TypeOK
<1>12. ASSUME NEW w \in Workers, Reply(w) PROVE BacklogInv'
  <2>1. Answers(w)
    BY <1>12 DEF Answers
  <2>2. /\ UNCHANGED <<fds, backlog, peer>>
        /\ \A c \in Conns : fds[cur[w]] # c => answer'[c] = answer[c]
    BY <2>1, WriteMove
  <2>3. cur[w] \in Fds
    BY <2>1, AnswersWrite, InHandOpen DEF Serving
  <2> QED BY <2>2, <2>3, BacklogFrame
<1>13. ASSUME NEW w \in Workers, OpenFile(w) PROVE BacklogInv'
  <2>1. Answers(w)
    BY <1>13 DEF Answers
  <2>2. /\ UNCHANGED <<fds, backlog, peer>>
        /\ \A c \in Conns : fds[cur[w]] # c => answer'[c] = answer[c]
    BY <2>1, WriteMove
  <2>3. cur[w] \in Fds
    BY <2>1, AnswersWrite, InHandOpen DEF Serving
  <2> QED BY <2>2, <2>3, BacklogFrame
<1>14. ASSUME NEW w \in Workers, SendFile(w) PROVE BacklogInv'
  <2>1. Answers(w)
    BY <1>14 DEF Answers
  <2>2. /\ UNCHANGED <<fds, backlog, peer>>
        /\ \A c \in Conns : fds[cur[w]] # c => answer'[c] = answer[c]
    BY <2>1, WriteMove
  <2>3. cur[w] \in Fds
    BY <2>1, AnswersWrite, InHandOpen DEF Serving
  <2> QED BY <2>2, <2>3, BacklogFrame
<1>15. ASSUME NEW w \in Workers, Delete(w) PROVE BacklogInv'
  BY <1>15, BacklogFrame DEF Delete, StillOpen, TypeOK
<1>16. ASSUME NEW w \in Workers, Close(w) PROVE BacklogInv'
  <2>1. fds' = [fds EXCEPT ![cur[w]] = None] /\ UNCHANGED <<backlog, peer, answer>>
    BY <1>16 DEF Close
  <2> QED BY <2>1, BacklogFrame DEF TypeOK
<1>17. ASSUME NEW c \in Conns, Arrive(c) PROVE BacklogInv'
  BY <1>17, BacklogFrame DEF Arrive, TypeOK
<1>18. ASSUME NEW c \in Conns, Leave(c) PROVE BacklogInv'
  BY <1>18, BacklogFrame DEF Leave, TypeOK
<1>19. ASSUME NEW c \in Conns, NEW w \in Workers, Connect(c, w) PROVE BacklogInv'
  <2> DEFINE b == backlog[w]
  <2>1. /\ UNCHANGED <<fds, answer>> /\ peer[c] = "idle" /\ peer' = [peer EXCEPT ![c] = "connected"]
        /\ backlog' = [backlog EXCEPT ![w] = Append(b, c)]
    BY <1>19 DEF Connect
  <2>2. b \in Seq(Conns) /\ Len(b) \in Nat
    BY DEF TypeOK
  <2>3. /\ Len(Append(b, c)) = Len(b) + 1 /\ Append(b, c)[Len(b) + 1] = c
        /\ \A i \in 1..Len(b) : Append(b, c)[i] = b[i]
    BY <2>2, AppendProperties
  <2>4. backlog'[w] = Append(b, c) /\ \A v \in Workers \ {w} : backlog'[v] = backlog[v]
    BY <2>1 DEF TypeOK
  <2>5. ASSUME NEW v \in Workers, NEW i \in 1..Len(backlog'[v])
        PROVE  \/ v = w /\ i = Len(b) + 1 /\ backlog'[v][i] = c
               \/ i \in 1..Len(backlog[v]) /\ backlog'[v][i] = backlog[v][i]
    <3>1. CASE v = w
      BY <2>2, <2>3, <2>4, <2>5, <3>1
    <3>2. CASE v # w
      BY <2>4, <2>5, <3>2
    <3> QED BY <3>1, <3>2
  <2>6. ASSUME NEW v \in Workers, NEW i \in 1..Len(backlog[v])
        PROVE  backlog[v][i] # c /\ peer'[backlog[v][i]] # "idle"
    <3>1. backlog[v][i] \in Conns
      BY <2>6 DEF TypeOK
    <3> QED BY <2>1, <2>6, <3>1 DEF BacklogInv, TypeOK
  <2>7. answer[c] = NoAnswer /\ peer'[c] # "idle" /\ \A f \in Fds : fds[f] # c
    <3>1. c # None
      BY DEF ServerAssumption
    <3> QED BY <2>1, <3>1 DEF ConnInv, TypeOK
  <2> HIDE DEF b
  <2>8. ASSUME NEW v \in Workers, NEW i \in 1..Len(backlog'[v])
        PROVE  /\ peer'[backlog'[v][i]] # "idle" /\ answer[backlog'[v][i]] = NoAnswer
               /\ \A f \in Fds : fds[f] # backlog'[v][i]
    BY <2>5, <2>6, <2>7, <2>8 DEF BacklogInv
  <2>9. ASSUME NEW v \in Workers, NEW i \in 1..Len(backlog'[v]), NEW u \in Workers,
               NEW j \in 1..Len(backlog'[u]),
               backlog'[v][i] = backlog'[u][j]
        PROVE  v = u /\ i = j
    BY <2>5, <2>6, <2>9 DEF BacklogInv
  <2> QED BY <2>1, <2>8, <2>9 DEF BacklogInv
<1>20. ASSUME NEW n \in Files, Resize(n) PROVE BacklogInv'
  BY <1>20, BacklogFrame DEF Resize, TypeOK
<1>21. CASE UNCHANGED vars
  BY <1>21, BacklogFrame DEF vars, TypeOK
<1> QED BY <1>1, <1>2, <1>3, <1>4, <1>5, <1>6, <1>7, <1>8, <1>9, <1>10, <1>11, <1>12, <1>13, <1>14,
  <1>15, <1>16, <1>17, <1>18, <1>19, <1>20, <1>21
  DEF Next, Main, Worker, World, Ended

\* A step that opens, closes and answers nothing keeps the connections.
LEMMA ConnFrame ==
  ASSUME TypeOK, ConnInv, fds' = fds, answer' = answer, Up' => Up,
         \A c \in Conns : peer'[c] = "idle" => peer[c] = "idle",
         \A w \in Workers :
           /\ Wrote(w) => Wrote(w)' /\ cur'[w] = cur[w]
           /\ phase'[w] = "send" => phase[w] = "send" /\ promised'[w] = promised[w] /\ cur'[w] = cur[w]
  PROVE  ConnInv'
<1>1. \A f \in Fds : fds[f] # None => fds[f] \in Conns
  BY DEF TypeOK
<1>2. \A f \in Fds : fds'[f] # None =>
        /\ peer'[fds'[f]] # "idle"
        /\ \A g \in Fds : fds'[g] = fds'[f] => g = f
        /\ answer'[fds'[f]] # NoAnswer => \E w \in Workers : cur'[w] = f /\ Wrote(w)'
  BY <1>1 DEF ConnInv
<1>3. \A w \in Workers : phase'[w] = "send" /\ Up' => 
        LET a == answer'[fds'[cur'[w]]]
        IN  a.kind = "file" /\ a.promised = promised'[w] /\ a.body = 0
  BY DEF ConnInv
<1> QED BY <1>2, <1>3 DEF ConnInv

\* Every step keeps a connection behind one descriptor, with one answer.
LEMMA NextConn ==
  ASSUME ServerAssumption, TypeOK, StartInv, HeldInv, AskedInv, BacklogInv, ConnInv, [Next]_vars
  PROVE  ConnInv'
<1> USE DEF mainVars, workerVars, netVars
<1>1. CASE CreateWorker
  <2>1. started + 1 \in Workers /\ phase[started + 1] = None
    BY <1>1, WorkerSet DEF CreateWorker, StartInv, TypeOK, Workers
  <2> QED BY <1>1, <2>1, ConnFrame DEF CreateWorker, TypeOK, Up, Wrote, None
<1>2. CASE CreateFails
  BY <1>2, ConnFrame DEF CreateFails, TypeOK, Up, Wrote
<1>3. CASE InstallHandlers
  BY <1>3, ConnFrame DEF InstallHandlers, TypeOK, Up, Wrote
<1>4. CASE Join
  BY <1>4, ConnFrame DEF Join, TypeOK, Up, Wrote
<1>5. CASE Signal \/ HandlerWrites
  BY <1>5, ConnFrame DEF Signal, HandlerWrites, TypeOK, Up, Wrote
<1>6. ASSUME NEW w \in Workers, Setup(w) PROVE ConnInv'
  BY <1>6, ConnFrame DEF Setup, TypeOK, Up, Wrote
<1>7. ASSUME NEW w \in Workers, SetupFails(w) PROVE ConnInv'
  BY <1>7, ConnFrame DEF SetupFails, TypeOK, Up, Wrote
<1>8. ASSUME NEW w \in Workers, EpollWait(w) PROVE ConnInv'
  BY <1>8, ConnFrame DEF EpollWait, TypeOK, Up, Wrote
<1>9. ASSUME NEW w \in Workers, TakeExit(w) \/ ReadInterrupted(w) PROVE ConnInv'
  BY <1>9, ConnFrame DEF TakeExit, ReadInterrupted, Leaves, Exit, TypeOK, Up, Wrote
<1>10. ASSUME NEW w \in Workers, Accept(w) PROVE ConnInv'
  <2>1. UNCHANGED <<main, phase, cur, promised, peer, answer>>
    BY <1>10 DEF Accept
  <2>2. CASE Free = {}
    BY <1>10, <2>1, <2>2, ConnFrame DEF Accept, Up, Wrote
  <2>3. CASE Free # {}
    <3> DEFINE k == Lowest(Free)
    <3> DEFINE h == Head(backlog[w])
    <3>1. k \in Fds /\ fds[k] = None
      BY <2>3, LowestFree
    <3>2. fds' = [fds EXCEPT ![k] = h]
      BY <1>10, <2>3 DEF Accept
    <3>3. h \in Conns /\ h = backlog[w][1] /\ 1 \in 1..Len(backlog[w])
      <4>1. backlog[w] \in Seq(Conns) /\ backlog[w] # <<>>
        BY <1>10 DEF Accept, StartInv, TypeOK
      <4> QED BY <4>1, HeadTailProperties
    <3> HIDE DEF k, h
    <3>4. peer[h] # "idle" /\ answer[h] = NoAnswer /\ \A f \in Fds : fds[f] # h
      BY <3>3 DEF BacklogInv
    <3>5. fds'[k] = h /\ \A f \in Fds \ {k} : fds'[f] = fds[f]
      BY <3>1, <3>2 DEF TypeOK
    <3>6. ASSUME NEW f \in Fds, fds'[f] # None
          PROVE  /\ peer[fds'[f]] # "idle"
                 /\ \A g \in Fds : fds'[g] = fds'[f] => g = f
                 /\ answer[fds'[f]] # NoAnswer => \E v \in Workers : cur[v] = f /\ Wrote(v)
      <4>1. CASE f = k
        BY <3>4, <3>5, <4>1
      <4>2. CASE f # k
        BY <3>4, <3>5, <3>6, <4>2 DEF ConnInv
      <4> QED BY <4>1, <4>2
    <3>7. ASSUME NEW v \in Workers, phase[v] = "send" PROVE fds'[cur[v]] = fds[cur[v]]
      BY <3>1, <3>5, <3>7, InHandOpen DEF Serving
    <3>8. \A v \in Workers : Wrote(v)' <=> Wrote(v)
      BY <2>1 DEF Wrote
    <3>9. Up' <=> Up
      BY <2>1 DEF Up
    <3> QED BY <2>1, <3>6, <3>7, <3>8, <3>9 DEF ConnInv
  <2> QED BY <2>2, <2>3
<1>11. ASSUME NEW w \in Workers, NEW f \in Fds, Receive(w, f) PROVE ConnInv'
  <2>1. /\ phase[w] = "wait" /\ phase'[w] \in {"delete", "open", "reply"}
        /\ \A v \in Workers \ {w} : phase'[v] = phase[v] /\ cur'[v] = cur[v]
        /\ UNCHANGED <<main, fds, promised, peer, answer>>
    BY <1>11, ReceiveRead DEF Receive, ReadOrGone, TypeOK
  <2> QED BY <2>1, ConnFrame DEF Up, Wrote
<1>12. ASSUME NEW w \in Workers, Reply(w) PROVE ConnInv'
  <2>1. Answers(w)
    BY <1>12 DEF Answers
  <2>2. /\ UNCHANGED <<cur, fds, peer>> /\ main' \in {main, "killed"}
        /\ \A c \in Conns : fds[cur[w]] # c => answer'[c] = answer[c]
    BY <2>1, WriteMove
  <2>3. /\ Up /\ phase[w] \in {"reply", "open", "send"} /\ phase'[w] \in {"send", "delete"}
        /\ \A v \in Workers \ {w} : phase'[v] = phase[v] /\ promised'[v] = promised[v]
    BY <2>1, AnswersWrite DEF TypeOK
  <2>4. cur[w] \in Fds /\ fds[cur[w]] \in Conns /\ fds[cur[w]] # None
    BY <2>3, InHandOpen DEF Serving
  <2>5. PICK new \in [kind: Kinds, promised: Nat, body: Nat, asked: Parsed] :
          /\ InTurn(w, new.kind, new.promised, new.body)
          /\ Up' => answer' = [answer EXCEPT ![fds[cur[w]]] = new]
    BY <2>1, Written
  <2>6. ASSUME NEW f \in Fds, fds[f] # None
        PROVE  /\ peer[fds[f]] # "idle"
               /\ \A g \in Fds : fds[g] = fds[f] => g = f
               /\ answer'[fds[f]] # NoAnswer => \E v \in Workers : cur[v] = f /\ Wrote(v)'
    <3>1. peer[fds[f]] # "idle" /\ \A g \in Fds : fds[g] = fds[f] => g = f
      BY <2>6 DEF ConnInv
    <3>2. CASE f = cur[w]
      BY <2>3, <3>1, <3>2 DEF Wrote
    <3>3. ASSUME f # cur[w], answer'[fds[f]] # NoAnswer PROVE \E v \in Workers : cur[v] = f /\ Wrote(v)'
      <4>1. answer'[fds[f]] = answer[fds[f]]
        BY <2>2, <2>4, <2>6, <3>1, <3>3 DEF TypeOK
      <4>2. PICK v \in Workers : cur[v] = f /\ Wrote(v)
        BY <2>6, <3>3, <4>1 DEF ConnInv
      <4>3. v # w
        BY <3>3, <4>2
      <4> QED BY <2>3, <4>2, <4>3 DEF Wrote
    <3> QED BY <3>1, <3>2, <3>3
  <2>7. ASSUME NEW c \in Conns, peer[c] = "idle" PROVE answer'[c] = NoAnswer
    <3>1. fds[cur[w]] # c
      BY <2>4, <2>6, <2>7
    <3> QED BY <2>2, <2>7, <3>1 DEF ConnInv
  <2>8. ASSUME NEW v \in Workers, phase'[v] = "send", Up'
        PROVE  LET a == answer'[fds[cur[v]]]
               IN  a.kind = "file" /\ a.promised = promised'[v] /\ a.body = 0
    <3>1. CASE v = w
      <4>1. answer'[fds[cur[v]]] = new
        BY <2>4, <2>5, <2>8, <3>1 DEF TypeOK
      <4> QED BY <2>5, <2>8, <3>1, <4>1 DEF InTurn
    <3>2. CASE v # w
      <4>1. phase[v] = "send" /\ promised'[v] = promised[v]
        BY <2>3, <2>8, <3>2
      <4>2. cur[v] \in Fds /\ fds[cur[v]] \in Conns /\ cur[v] # cur[w]
        BY <2>3, <3>2, <4>1, InHandOpen DEF Serving
      <4>3. fds[cur[w]] # fds[cur[v]]
        BY <2>4, <2>6, <4>2
      <4>4. answer'[fds[cur[v]]] = answer[fds[cur[v]]]
        BY <2>2, <4>2, <4>3
      <4> QED BY <2>3, <4>1, <4>4 DEF ConnInv
    <3> QED BY <3>1, <3>2
  <2> QED BY <2>2, <2>6, <2>7, <2>8 DEF ConnInv
<1>13. ASSUME NEW w \in Workers, OpenFile(w) PROVE ConnInv'
  <2>1. Answers(w)
    BY <1>13 DEF Answers
  <2>2. /\ UNCHANGED <<cur, fds, peer>> /\ main' \in {main, "killed"}
        /\ \A c \in Conns : fds[cur[w]] # c => answer'[c] = answer[c]
    BY <2>1, WriteMove
  <2>3. /\ Up /\ phase[w] \in {"reply", "open", "send"} /\ phase'[w] \in {"send", "delete"}
        /\ \A v \in Workers \ {w} : phase'[v] = phase[v] /\ promised'[v] = promised[v]
    BY <2>1, AnswersWrite DEF TypeOK
  <2>4. cur[w] \in Fds /\ fds[cur[w]] \in Conns /\ fds[cur[w]] # None
    BY <2>3, InHandOpen DEF Serving
  <2>5. PICK new \in [kind: Kinds, promised: Nat, body: Nat, asked: Parsed] :
          /\ InTurn(w, new.kind, new.promised, new.body)
          /\ Up' => answer' = [answer EXCEPT ![fds[cur[w]]] = new]
    BY <2>1, Written
  <2>6. ASSUME NEW f \in Fds, fds[f] # None
        PROVE  /\ peer[fds[f]] # "idle"
               /\ \A g \in Fds : fds[g] = fds[f] => g = f
               /\ answer'[fds[f]] # NoAnswer => \E v \in Workers : cur[v] = f /\ Wrote(v)'
    <3>1. peer[fds[f]] # "idle" /\ \A g \in Fds : fds[g] = fds[f] => g = f
      BY <2>6 DEF ConnInv
    <3>2. CASE f = cur[w]
      BY <2>3, <3>1, <3>2 DEF Wrote
    <3>3. ASSUME f # cur[w], answer'[fds[f]] # NoAnswer PROVE \E v \in Workers : cur[v] = f /\ Wrote(v)'
      <4>1. answer'[fds[f]] = answer[fds[f]]
        BY <2>2, <2>4, <2>6, <3>1, <3>3 DEF TypeOK
      <4>2. PICK v \in Workers : cur[v] = f /\ Wrote(v)
        BY <2>6, <3>3, <4>1 DEF ConnInv
      <4>3. v # w
        BY <3>3, <4>2
      <4> QED BY <2>3, <4>2, <4>3 DEF Wrote
    <3> QED BY <3>1, <3>2, <3>3
  <2>7. ASSUME NEW c \in Conns, peer[c] = "idle" PROVE answer'[c] = NoAnswer
    <3>1. fds[cur[w]] # c
      BY <2>4, <2>6, <2>7
    <3> QED BY <2>2, <2>7, <3>1 DEF ConnInv
  <2>8. ASSUME NEW v \in Workers, phase'[v] = "send", Up'
        PROVE  LET a == answer'[fds[cur[v]]]
               IN  a.kind = "file" /\ a.promised = promised'[v] /\ a.body = 0
    <3>1. CASE v = w
      <4>1. answer'[fds[cur[v]]] = new
        BY <2>4, <2>5, <2>8, <3>1 DEF TypeOK
      <4> QED BY <2>5, <2>8, <3>1, <4>1 DEF InTurn
    <3>2. CASE v # w
      <4>1. phase[v] = "send" /\ promised'[v] = promised[v]
        BY <2>3, <2>8, <3>2
      <4>2. cur[v] \in Fds /\ fds[cur[v]] \in Conns /\ cur[v] # cur[w]
        BY <2>3, <3>2, <4>1, InHandOpen DEF Serving
      <4>3. fds[cur[w]] # fds[cur[v]]
        BY <2>4, <2>6, <4>2
      <4>4. answer'[fds[cur[v]]] = answer[fds[cur[v]]]
        BY <2>2, <4>2, <4>3
      <4> QED BY <2>3, <4>1, <4>4 DEF ConnInv
    <3> QED BY <3>1, <3>2
  <2> QED BY <2>2, <2>6, <2>7, <2>8 DEF ConnInv
<1>14. ASSUME NEW w \in Workers, SendFile(w) PROVE ConnInv'
  <2>1. Answers(w)
    BY <1>14 DEF Answers
  <2>2. /\ UNCHANGED <<cur, fds, peer>> /\ main' \in {main, "killed"}
        /\ \A c \in Conns : fds[cur[w]] # c => answer'[c] = answer[c]
    BY <2>1, WriteMove
  <2>3. /\ Up /\ phase[w] \in {"reply", "open", "send"} /\ phase'[w] \in {"send", "delete"}
        /\ \A v \in Workers \ {w} : phase'[v] = phase[v] /\ promised'[v] = promised[v]
    BY <2>1, AnswersWrite DEF TypeOK
  <2>4. cur[w] \in Fds /\ fds[cur[w]] \in Conns /\ fds[cur[w]] # None
    BY <2>3, InHandOpen DEF Serving
  <2>5. PICK new \in [kind: Kinds, promised: Nat, body: Nat, asked: Parsed] :
          /\ InTurn(w, new.kind, new.promised, new.body)
          /\ Up' => answer' = [answer EXCEPT ![fds[cur[w]]] = new]
    BY <2>1, Written
  <2>6. ASSUME NEW f \in Fds, fds[f] # None
        PROVE  /\ peer[fds[f]] # "idle"
               /\ \A g \in Fds : fds[g] = fds[f] => g = f
               /\ answer'[fds[f]] # NoAnswer => \E v \in Workers : cur[v] = f /\ Wrote(v)'
    <3>1. peer[fds[f]] # "idle" /\ \A g \in Fds : fds[g] = fds[f] => g = f
      BY <2>6 DEF ConnInv
    <3>2. CASE f = cur[w]
      BY <2>3, <3>1, <3>2 DEF Wrote
    <3>3. ASSUME f # cur[w], answer'[fds[f]] # NoAnswer PROVE \E v \in Workers : cur[v] = f /\ Wrote(v)'
      <4>1. answer'[fds[f]] = answer[fds[f]]
        BY <2>2, <2>4, <2>6, <3>1, <3>3 DEF TypeOK
      <4>2. PICK v \in Workers : cur[v] = f /\ Wrote(v)
        BY <2>6, <3>3, <4>1 DEF ConnInv
      <4>3. v # w
        BY <3>3, <4>2
      <4> QED BY <2>3, <4>2, <4>3 DEF Wrote
    <3> QED BY <3>1, <3>2, <3>3
  <2>7. ASSUME NEW c \in Conns, peer[c] = "idle" PROVE answer'[c] = NoAnswer
    <3>1. fds[cur[w]] # c
      BY <2>4, <2>6, <2>7
    <3> QED BY <2>2, <2>7, <3>1 DEF ConnInv
  <2>8. ASSUME NEW v \in Workers, phase'[v] = "send", Up'
        PROVE  LET a == answer'[fds[cur[v]]]
               IN  a.kind = "file" /\ a.promised = promised'[v] /\ a.body = 0
    <3>1. CASE v = w
      <4>1. answer'[fds[cur[v]]] = new
        BY <2>4, <2>5, <2>8, <3>1 DEF TypeOK
      <4> QED BY <2>5, <2>8, <3>1, <4>1 DEF InTurn
    <3>2. CASE v # w
      <4>1. phase[v] = "send" /\ promised'[v] = promised[v]
        BY <2>3, <2>8, <3>2
      <4>2. cur[v] \in Fds /\ fds[cur[v]] \in Conns /\ cur[v] # cur[w]
        BY <2>3, <3>2, <4>1, InHandOpen DEF Serving
      <4>3. fds[cur[w]] # fds[cur[v]]
        BY <2>4, <2>6, <4>2
      <4>4. answer'[fds[cur[v]]] = answer[fds[cur[v]]]
        BY <2>2, <4>2, <4>3
      <4> QED BY <2>3, <4>1, <4>4 DEF ConnInv
    <3> QED BY <3>1, <3>2
  <2> QED BY <2>2, <2>6, <2>7, <2>8 DEF ConnInv
<1>15. ASSUME NEW w \in Workers, Delete(w) PROVE ConnInv'
  BY <1>15, ConnFrame DEF Delete, StillOpen, TypeOK, Up, Wrote
<1>16. ASSUME NEW w \in Workers, Close(w) PROVE ConnInv'
  <2>1. /\ phase[w] = "close" /\ phase'[w] = "wait" /\ promised'[w] = 0
        /\ \A v \in Workers \ {w} : phase'[v] = phase[v] /\ cur'[v] = cur[v] /\ promised'[v] = promised[v]
        /\ UNCHANGED <<main, peer, answer>> /\ fds' = [fds EXCEPT ![cur[w]] = None]
    BY <1>16 DEF Close, TypeOK
  <2>2. cur[w] \in Fds
    BY <2>1, InHandOpen DEF Serving
  <2>3. fds'[cur[w]] = None /\ \A f \in Fds \ {cur[w]} : fds'[f] = fds[f]
    BY <2>1, <2>2 DEF TypeOK
  <2>4. ASSUME NEW f \in Fds, fds'[f] # None
        PROVE  /\ peer[fds'[f]] # "idle"
               /\ \A g \in Fds : fds'[g] = fds'[f] => g = f
               /\ answer[fds'[f]] # NoAnswer => \E v \in Workers : cur'[v] = f /\ Wrote(v)'
    <3>1. f # cur[w] /\ fds'[f] = fds[f] /\ fds[f] # None
      BY <2>3, <2>4
    <3>2. \A g \in Fds : fds'[g] = fds'[f] => g = f
      BY <2>3, <2>4, <3>1 DEF ConnInv
    <3>3. ASSUME answer[fds[f]] # NoAnswer PROVE \E v \in Workers : cur'[v] = f /\ Wrote(v)'
      <4>1. PICK v \in Workers : cur[v] = f /\ Wrote(v)
        BY <3>1, <3>3 DEF ConnInv
      <4>2. v # w
        BY <3>1, <4>1
      <4> QED BY <2>1, <4>1, <4>2 DEF Wrote
    <3> QED BY <3>1, <3>2, <3>3 DEF ConnInv
  <2>5. ASSUME NEW v \in Workers, phase'[v] = "send"
        PROVE  phase[v] = "send" /\ promised'[v] = promised[v] /\ fds'[cur'[v]] = fds[cur[v]]
    <3>1. v # w /\ phase[v] = "send"
      BY <2>1, <2>5
    <3>2. cur[v] \in Fds /\ cur[v] # cur[w]
      BY <2>1, <3>1, InHandOpen DEF Serving
    <3> QED BY <2>1, <2>3, <3>1, <3>2
  <2>6. Up' <=> Up
    BY <2>1 DEF Up
  <2> QED BY <2>1, <2>4, <2>5, <2>6 DEF ConnInv
<1>17. ASSUME NEW c \in Conns, Arrive(c) PROVE ConnInv'
  BY <1>17, ConnFrame DEF Arrive, TypeOK, Up, Wrote
<1>18. ASSUME NEW c \in Conns, Leave(c) PROVE ConnInv'
  BY <1>18, ConnFrame DEF Leave, TypeOK, Up, Wrote
<1>19. ASSUME NEW c \in Conns, NEW w \in Workers, Connect(c, w) PROVE ConnInv'
  BY <1>19, ConnFrame DEF Connect, TypeOK, Up, Wrote
<1>20. ASSUME NEW n \in Files, Resize(n) PROVE ConnInv'
  BY <1>20, ConnFrame DEF Resize, TypeOK, Up, Wrote
<1>21. CASE UNCHANGED vars
  BY <1>21, ConnFrame DEF vars, Up, Wrote
<1> QED BY <1>1, <1>2, <1>3, <1>4, <1>5, <1>6, <1>7, <1>8, <1>9, <1>10, <1>11, <1>12, <1>13, <1>14,
  <1>15, <1>16, <1>17, <1>18, <1>19, <1>20, <1>21
  DEF Next, Main, Worker, World, Ended

\* No step answers a client again: only the body of a file follows its headers.
LEMMA NextKept ==
  ASSUME ServerAssumption, TypeOK, HeldInv, AskedInv, ConnInv, [Next]_vars
  PROVE  AnswerKept
<1>1. CASE answer' = answer
  BY <1>1 DEF AnswerKept
<1>2. ASSUME NEW w \in Workers, Answers(w) PROVE AnswerKept
  <2>1. PICK new \in [kind: Kinds, promised: Nat, body: Nat, asked: Parsed] :
          /\ InTurn(w, new.kind, new.promised, new.body)
          /\ answer' = answer \/ answer' = [answer EXCEPT ![fds[cur[w]]] = new]
    BY <1>2, Written
  <2>2. Up /\ phase[w] \in {"reply", "open", "send"}
    BY <1>2, AnswersWrite
  <2>3. /\ cur[w] \in Fds /\ fds[cur[w]] \in Conns /\ fds[cur[w]] # None
        /\ \A v \in Workers \ {w} : cur[v] # cur[w]
    BY <2>2, InHandOpen DEF Serving
  <2> SUFFICES ASSUME NEW c \in Conns, answer[c] # NoAnswer, answer'[c] # answer[c]
               PROVE  /\ answer[c].kind = "file" /\ answer'[c].kind = "file"
                      /\ answer[c].body = 0 /\ answer'[c].promised = answer[c].promised
    BY DEF AnswerKept
  <2>4. c = fds[cur[w]] /\ answer'[c] = new
    BY <2>1 DEF TypeOK
  <2>5. \E v \in Workers : cur[v] = cur[w] /\ Wrote(v)
    BY <2>3, <2>4 DEF ConnInv
  <2>6. phase[w] = "send"
    BY <2>2, <2>3, <2>5 DEF Wrote
  <2>7. answer[c].kind = "file" /\ answer[c].promised = promised[w] /\ answer[c].body = 0
    BY <2>2, <2>4, <2>6 DEF ConnInv
  <2> QED BY <2>1, <2>4, <2>6, <2>7 DEF InTurn
<1> QED BY <1>1, <1>2, AnswersOrNot

----------------------------------------------------------------------------
(* The theorems *)

\* The invariant holds at the start.
LEMMA InitInv == ASSUME ServerAssumption, Init PROVE Inv
<1>1. TypeOK
  BY InitType
<1>2. Cores > 0 /\ \A f \in Fds : fds[f] = None
  BY WorkerSet DEF Init
<1>3. /\ main = "create" /\ started = 0 /\ signals = 0 /\ pipe = 0 /\ owed = 0
      /\ \A w \in Workers : /\ phase[w] = None /\ batch[w] = {} /\ interest[w] = {} /\ cur[w] = NoFd
                            /\ backlog[w] = <<>>
      /\ \A c \in Conns : answer[c] = NoAnswer
  BY DEF Init
<1>4. StartInv
  BY <1>2, <1>3 DEF StartInv
<1>5. PipeInv
  BY <1>3 DEF PipeInv, ReadsReturn, PipeCovers
<1>6. HeldInv
  BY <1>3 DEF HeldInv, Held, Serving, None
<1>7. FdsAccounted /\ AnswerFits
  BY <1>2, <1>3 DEF FdsAccounted, AnswerFits
<1>8. AskedInv
  BY <1>3 DEF AskedInv, None
<1>9. Len(<<>>) = 0
  OBVIOUS
<1>10. \A w \in Workers : 1..Len(backlog[w]) = {}
  BY <1>3, <1>9
<1>11. BacklogInv
  BY <1>10 DEF BacklogInv
<1>12. ConnInv
  BY <1>2, <1>3 DEF ConnInv, None
<1> QED BY <1>1, <1>4, <1>5, <1>6, <1>7, <1>8, <1>11, <1>12 DEF Inv

\* Every step keeps the invariant.
LEMMA NextInv == ASSUME ServerAssumption, Inv, [Next]_vars PROVE Inv'
<1>1. /\ TypeOK /\ StartInv /\ PipeInv /\ HeldInv /\ FdsAccounted
      /\ AskedInv /\ AnswerFits /\ BacklogInv /\ ConnInv
  BY DEF Inv
<1>2. TypeOK' /\ StartInv' /\ PipeInv' /\ HeldInv' /\ AskedInv'
  BY <1>1, NextType, NextStart, NextPipe, NextHeld, NextAsked
<1>3. AnswerFits' /\ BacklogInv' /\ ConnInv'
  BY <1>1, NextFits, NextBacklog, NextConn
<1>4. FdsAccounted'
  <2>1. CASE \E u \in Workers : phase'[u] = "ended"
    BY <2>1 DEF FdsAccounted
  <2>2. CASE \A u \in Workers : phase'[u] # "ended"
    <3>1. \A u \in Workers : phase[u] # "ended"
      BY <1>1, <2>2, EndedStays
    <3>2. Accounted
      BY <1>1, <3>1 DEF FdsAccounted, Accounted
    <3>3. Accounted'
      BY <1>1, <2>2, <3>2, NextAccounted
    <3> QED BY <3>3 DEF FdsAccounted, Accounted
  <2> QED BY <2>1, <2>2
<1> QED BY <1>2, <1>3, <1>4 DEF Inv

\* The invariant holds in every state of the server.
THEOREM Invariance == ASSUME ServerAssumption PROVE Spec => []Inv
<1>1. Init => Inv
  BY InitInv
<1>2. Inv /\ [Next]_vars => Inv'
  BY NextInv
<1> QED BY <1>1, <1>2, PTL DEF Spec

\* Every variable keeps its type: worker_thread serves descriptors of clients only,
\* and announces lengths of its own texts or of files it has opened.
THEOREM TypeCorrect == ASSUME ServerAssumption PROVE Spec => []TypeOK
<1>1. Inv => TypeOK
  BY DEF Inv
<1> QED BY <1>1, Invariance, PTL

\* signal_handler writes enough, whatever the number of cores and however its writes fall
\* between the workers' steps: a worker that found the pipe readable and waits in its read
\* has a byte there or still to be written, and after a signal so has each worker that runs.
THEOREM PipeSufficesCorrect == ASSUME ServerAssumption PROVE Spec => [](ReadsReturn /\ PipeCovers)
<1>1. Inv => ReadsReturn /\ PipeCovers
  BY DEF Inv, PipeInv
<1> QED BY <1>1, Invariance, PTL

\* However the kernel reuses the numbers of closed descriptors, an event in hand is of
\* a connection that is open and the worker's own, and no open connection is forgotten
\* while every worker runs.
THEOREM DescriptorsKeptCorrect == ASSUME ServerAssumption PROVE Spec => [](NoStaleEvent /\ FdsAccounted)
<1>1. Inv => NoStaleEvent
  <2> SUFFICES ASSUME Inv, NEW w \in Workers, NEW f \in (batch[w] \cap Fds) \cup interest[w]
               PROVE  /\ f \in interest[w] /\ fds[f] # None
                      /\ \A v \in Workers \ {w} : f \notin interest[v]
    BY DEF NoStaleEvent
  <2>1. HeldInv
    BY DEF Inv
  <2>2. f \in interest[w]
    BY <2>1 DEF HeldInv
  <2>3. f \in Held(w)
    BY <2>2 DEF Held
  <2>4. fds[f] # None /\ \A v \in Workers \ {w} : f \notin Held(v)
    BY <2>1, <2>3 DEF HeldInv
  <2> QED BY <2>2, <2>4 DEF Held
<1>2. Inv => FdsAccounted
  BY DEF Inv
<1> QED BY <1>1, <1>2, Invariance, PTL

\* A client is answered for what it sent itself, with the length announced.
THEOREM AnswerFitsCorrect == ASSUME ServerAssumption PROVE Spec => []AnswerFits
<1>1. Inv => AnswerFits
  BY DEF Inv
<1> QED BY <1>1, Invariance, PTL

\* A client is answered once, a file's body after its headers.
THEOREM AnsweredOnceCorrect == ASSUME ServerAssumption PROVE Spec => AnsweredOnce
<1>1. Inv /\ [Next]_vars => AnswerKept \/ UNCHANGED vars
  <2> SUFFICES ASSUME Inv, [Next]_vars PROVE AnswerKept
    OBVIOUS
  <2> QED BY NextKept DEF Inv
<1>2. Inv /\ [Next]_vars => [AnswerKept]_vars
  BY <1>1
<1> QED BY <1>2, Invariance, PTL DEF Spec, AnsweredOnce
=============================================================================
