----------------------------- MODULE FileServer -----------------------------
(***************************************************************************)
(* src/12-server/main.c: one epoll worker thread per core, each with its   *)
(* own listening socket on the same port, serves files over HTTP; a signal *)
(* handler writes to one pipe to stop them all.                            *)
(*                                                                         *)
(* A request is what the parser can tell of it; the file descriptors are   *)
(* those left for clients.  Edge- and level-triggered client events are    *)
(* the same here: whatever the first event brings, the connection is       *)
(* closed.  For the same reason the pipe's ONESHOT needs no state.         *)
(***************************************************************************)
EXTENDS Naturals, FiniteSets, Sequences

CONSTANTS
    Cores,       \* sysconf(_SC_NPROCESSORS_ONLN); `data' has room for eight
    IntSize,     \* sizeof(int): the bytes of one write of the handler
    Conns,       \* the clients' connections
    Fds,         \* the descriptors the process may still open, numbers
    Requests,    \* what a client may send: [part, whole: Parsed]
    Files,       \* the names in the directory
    Sizes,       \* sizes a file may have
    Entries,     \* what may be behind a name at first
    MaxSignals   \* bound: signals delivered

Workers == 1..Cores
None == "none"
NoFd == 0
PipeFd == 1    \* pipe_fds[0]
ListenFd == 2  \* a worker's own listen_fd
\* What sscanf and the string searches find in the bytes of one recv.
Parsed == [fields: 0..2, get: BOOLEAN, files: BOOLEAN, name: Files \cup {"", "illegal"}]
NoRequest == [fields |-> 0, get |-> FALSE, files |-> FALSE, name |-> ""]

\* An entry of the directory, as open, fstat and sendfile see it.
Entry == [kind: {"missing", "denied", "error"}, size: {0}]
         \cup [kind: {"directory"}, size: {4096}] \cup [kind: {"file"}, size: Sizes]

ServerAssumption ==
    /\ Cores \in 1..8 /\ IntSize \in Nat \ {0} /\ MaxSignals \in Nat
    /\ Fds \subseteq Nat \ 0..2 /\ Sizes \subseteq Nat /\ Entries \subseteq Entry
    /\ None \notin Conns /\ Requests \subseteq [part: Parsed, whole: Parsed]

VARIABLES
    main,      \* where main is, or how the process ended
    started,   \* workers created
    pipe,      \* unread bytes in the pipe
    signals,   \* signals handled
    owed,      \* writes that signal handlers have still to make
    phase,     \* where each worker is
    batch,     \* events of the last epoll_wait not yet handled
    interest,  \* client descriptors in each worker's epoll set
    cur,       \* the descriptor a worker is serving
    asked,     \* the request it has read
    promised,  \* the Content-Length it has announced
    fds,       \* the connection behind each descriptor, or None
    backlog,   \* connections waiting on each listening socket
    peer,      \* what each client has done
    sends,     \* the request a client sends
    answer,    \* what a client was sent
    entry      \* the directory

workerVars == <<phase, batch, interest, cur, asked, promised>>
mainVars == <<main, started, pipe, signals, owed>>
netVars == <<fds, backlog, peer, sends, answer>>
vars == <<mainVars, workerVars, netVars, entry>>

Up == main \in {"create", "install", "join"}
Listening(w) == phase[w] \notin {None, "setup", "ended"}
NoAnswer == [kind |-> None, promised |-> 0, body |-> 0, asked |-> NoRequest]
Kinds == {None, "file", "unparsed", "denied", "not_found", "bad", "internal"}

\* Content-Length and length of the body of each constant response.
Text == [unparsed |-> <<13, 0>>, denied |-> <<15, 15>>, not_found |-> <<16, 16>>,
         bad |-> <<13, 13>>, internal |-> <<21, 23>>]
\* What the chain of checks before open decides.
Verdict(r) ==
    IF r.fields # 2 THEN "unparsed"
    ELSE IF ~r.get THEN "denied"
    ELSE IF ~r.files THEN "not_found"
    ELSE IF r.name \in {"", "illegal"} THEN "bad" ELSE "open"
\* The response chosen from errno when open fails.
OpenError(e) == IF e.kind = "missing" THEN "not_found"
                ELSE IF e.kind = "denied" THEN "denied" ELSE "internal"

Init ==
    /\ main = "create" /\ started = 0 /\ pipe = 0 /\ signals = 0 /\ owed = 0
    /\ phase = [w \in Workers |-> None]
    /\ batch = [w \in Workers |-> {}]
    /\ interest = [w \in Workers |-> {}]
    /\ cur = [w \in Workers |-> NoFd]
    /\ asked = [w \in Workers |-> NoRequest]
    /\ promised = [w \in Workers |-> 0]
    /\ fds = [f \in Fds |-> None]
    /\ backlog = [w \in Workers |-> <<>>]
    /\ peer = [c \in Conns |-> "idle"]
    /\ sends \in [Conns -> Requests]
    /\ answer = [c \in Conns |-> NoAnswer]
    /\ entry \in [Files -> Entries]

-----------------------------------------------------------------------------
\* main and the signal handler.

\* Mutant: the loop goes on for one worker more.
LoopEndsLate(n) == n > Cores
LoopEnds(n) == n = Cores

CreateWorker ==
    /\ main = "create"
    /\ started' = started + 1
    /\ phase' = [phase EXCEPT ![started + 1] = "setup"]
    /\ main' = IF LoopEnds(started') THEN "install" ELSE main
    /\ UNCHANGED <<pipe, signals, owed, batch, interest, cur, asked, promised, netVars, entry>>

\* Returning from main ends the threads that run already.
CreateFails ==
    /\ main = "create"
    /\ main' = "failed"
    /\ UNCHANGED <<started, pipe, signals, owed, workerVars, netVars, entry>>

InstallHandlers ==
    /\ main = "install"
    /\ main' = "join"
    /\ UNCHANGED <<started, pipe, signals, owed, workerVars, netVars, entry>>

\* Mutant: one write for all the workers.
OneWrite == 1
\* How often the handler writes an int.
Writes == Cores

\* SIGINT or SIGTERM kills the process until the handlers are installed; then a
\* thread enters the handler, which the others do not wait for.
Enter == signals' = signals + 1 /\ owed' = owed + Writes
Signal ==
    /\ Up /\ signals < MaxSignals
    /\ IF main = "join" THEN Enter /\ main' = main
                        ELSE signals' = signals + 1 /\ owed' = owed /\ main' = "killed"
    /\ UNCHANGED <<started, pipe, workerVars, netVars, entry>>

HandlerWrites ==
    /\ Up /\ owed > 0
    /\ owed' = owed - 1
    /\ pipe' = pipe + IntSize
    /\ UNCHANGED <<main, started, signals, workerVars, netVars, entry>>

Join ==
    /\ main = "join" /\ owed = 0
    /\ \A w \in Workers : phase[w] = "ended"
    /\ main' = "returned"
    /\ UNCHANGED <<started, pipe, signals, owed, workerVars, netVars, entry>>

-----------------------------------------------------------------------------
\* worker_thread.

Setup(w) ==
    /\ Up /\ phase[w] = "setup"
    /\ phase' = [phase EXCEPT ![w] = "wait"]
    /\ UNCHANGED <<mainVars, batch, interest, cur, asked, promised, netVars, entry>>

\* socket, setsockopt, inet_pton or bind fails: the thread returns NULL.
SetupFails(w) ==
    /\ Up /\ phase[w] = "setup"
    /\ phase' = [phase EXCEPT ![w] = "ended"]
    /\ UNCHANGED <<mainVars, batch, interest, cur, asked, promised, netVars, entry>>

Ready(w) ==
    {f \in interest[w] : peer[fds[f]] \in {"part", "whole", "left"}}
    \cup {f \in {PipeFd} : pipe > 0} \cup {f \in {ListenFd} : backlog[w] # <<>>}

EpollWait(w) ==
    /\ Up /\ phase[w] = "wait" /\ batch[w] = {} /\ Ready(w) # {}
    /\ batch' = [batch EXCEPT ![w] = Ready(w)]
    /\ UNCHANGED <<mainVars, phase, interest, cur, asked, promised, netVars, entry>>

\* Mutant: no goto exit after the read.
ExitStays == "wait"
Exit == "ended"

\* Out: the rest of the batch is dropped, the clients stay open and unserved,
\* what waits on the socket is reset.
Leaves(w) ==
    /\ Up /\ phase[w] = "wait" /\ PipeFd \in batch[w]
    /\ phase' = [phase EXCEPT ![w] = Exit]
    /\ batch' = [batch EXCEPT ![w] = {}]
    /\ interest' = [interest EXCEPT ![w] = {}]
    /\ backlog' = [backlog EXCEPT ![w] = <<>>]
    /\ UNCHANGED <<main, started, cur, asked, promised, fds, peer, sends, answer, entry>>

\* One byte of the pipe: read waits for it when another worker took the last.
TakeExit(w) ==
    /\ pipe > 0
    /\ pipe' = pipe - 1
    /\ Leaves(w)
    /\ UNCHANGED <<signals, owed>>

\* The read that waits is interrupted by a signal handled in its thread, as the
\* handlers do not restart it: the worker is out without a byte.
ReadInterrupted(w) ==
    /\ pipe = 0 /\ signals < MaxSignals
    /\ Leaves(w)
    /\ Enter
    /\ UNCHANGED pipe

Free == {f \in Fds : fds[f] = None}
Lowest(S) == CHOOSE f \in S : \A g \in S : f <= g

\* Mutant: the client is not added to the epoll set.
Unwatched(w, f) == interest[w]
Watched(w, f) == interest[w] \cup {f}

\* accept: with no descriptor left it fails and the client waits.
Accept(w) ==
    /\ Up /\ phase[w] = "wait" /\ ListenFd \in batch[w]
    /\ batch' = [batch EXCEPT ![w] = @ \ {ListenFd}]
    /\ IF Free = {} THEN UNCHANGED <<fds, interest, backlog>>
       ELSE /\ fds' = [fds EXCEPT ![Lowest(Free)] = Head(backlog[w])]
            /\ interest' = [interest EXCEPT ![w] = Watched(w, Lowest(Free))]
            /\ backlog' = [backlog EXCEPT ![w] = Tail(@)]
    /\ UNCHANGED <<mainVars, phase, cur, asked, promised, peer, sends, answer, entry>>

\* Mutant: a failed recv goes back to the loop without clean_up.
BackToLoop == "wait"
CleanUp == "delete"

\* The one recv of a connection; whatever has arrived is the request.
Receive(w, f) ==
    /\ Up /\ phase[w] = "wait" /\ f \in batch[w]
    /\ batch' = [batch EXCEPT ![w] = @ \ {f}]
    /\ cur' = [cur EXCEPT ![w] = f]
    /\ LET c == fds[f] IN
       IF c = None \/ peer[c] = "left"
       THEN phase' = [phase EXCEPT ![w] = CleanUp] /\ UNCHANGED asked
       ELSE /\ asked' = [asked EXCEPT ![w] = sends[c][peer[c]]]
            /\ phase' = [phase EXCEPT ![w] = IF Verdict(asked'[w]) = "open" THEN "open" ELSE "reply"]
    /\ UNCHANGED <<mainVars, interest, promised, netVars, entry>>

\* A write on the descriptor; SIGPIPE ends the process when the peer has left.
Write(w, kind, length, body) ==
    LET c == fds[cur[w]] IN
    /\ main' = IF c # None /\ peer[c] = "left" THEN "killed" ELSE main
    /\ answer' = IF c = None \/ peer[c] = "left" THEN answer
                 ELSE [answer EXCEPT ![c] = [kind |-> kind, promised |-> length,
                                             body |-> body, asked |-> asked[w]]]
    /\ UNCHANGED <<started, pipe, signals, owed, batch, interest, cur, asked, fds, backlog, peer, sends, entry>>

\* Mutant: no goto clean_up after the refusal of a method.
FallsThrough(kind) == IF kind = "denied" THEN "open" ELSE "delete"
AfterReply(kind) == "delete"

Reply(w) ==
    /\ Up /\ phase[w] = "reply"
    /\ LET kind == Verdict(asked[w]) IN
       /\ Write(w, kind, Text[kind][1], Text[kind][2])
       /\ phase' = [phase EXCEPT ![w] = AfterReply(kind)]
    /\ UNCHANGED promised

\* open and fstat, then the headers with the size found, or an error.
OpenFile(w) ==
    /\ Up /\ phase[w] = "open"
    /\ LET e == entry[asked[w].name] IN
       IF e.kind \notin {"file", "directory"}
       THEN /\ Write(w, OpenError(e), Text[OpenError(e)][1], Text[OpenError(e)][2])
            /\ phase' = [phase EXCEPT ![w] = "delete"]
            /\ UNCHANGED promised
       ELSE /\ Write(w, "file", e.size, 0)
            /\ phase' = [phase EXCEPT ![w] = "send"]
            /\ promised' = [promised EXCEPT ![w] = e.size]

\* Mutant: sendfile is given the file's size of the moment.
SendsAll(announced, e) == {e.size}
\* One sendfile: at most the size announced, at most what the file has now,
\* less when the socket's buffer is full; nothing from a directory.
Sends(announced, e) ==
    {0} \cup {n \in Sizes : e.kind = "file" /\ n <= e.size /\ n <= announced}

SendFile(w) ==
    /\ Up /\ phase[w] = "send"
    /\ \E n \in Sends(promised[w], entry[asked[w].name]) : Write(w, "file", promised[w], n)
    /\ phase' = [phase EXCEPT ![w] = "delete"]
    /\ UNCHANGED promised

\* clean_up: out of the epoll set, then closed.
\* Mutant: the descriptor is closed before the DEL too.
ClosedTwice(w) == [fds EXCEPT ![cur[w]] = None]
StillOpen(w) == fds

Delete(w) ==
    /\ Up /\ phase[w] = "delete"
    /\ interest' = [interest EXCEPT ![w] = @ \ {cur[w]}]
    /\ phase' = [phase EXCEPT ![w] = "close"]
    /\ fds' = StillOpen(w)
    /\ UNCHANGED <<mainVars, batch, cur, asked, promised, backlog, peer, sends, answer, entry>>

Close(w) ==
    /\ Up /\ phase[w] = "close"
    /\ fds' = [fds EXCEPT ![cur[w]] = None]
    /\ cur' = [cur EXCEPT ![w] = NoFd]
    /\ phase' = [phase EXCEPT ![w] = "wait"]
    /\ asked' = [asked EXCEPT ![w] = NoRequest]
    /\ promised' = [promised EXCEPT ![w] = 0]
    /\ UNCHANGED <<mainVars, batch, interest, backlog, peer, sends, answer, entry>>

-----------------------------------------------------------------------------
\* The clients, the kernel's choice of a listening socket, the directory.

Connect(c, w) ==
    /\ Up /\ peer[c] = "idle" /\ Listening(w)
    /\ peer' = [peer EXCEPT ![c] = "connected"]
    /\ backlog' = [backlog EXCEPT ![w] = Append(@, c)]
    /\ UNCHANGED <<mainVars, workerVars, fds, sends, answer, entry>>

\* The request arrives in one piece or in two.
Arrive(c) ==
    /\ Up
    /\ \E how \in {"part", "whole"} :
          /\ peer[c] = "connected" \/ (peer[c] = "part" /\ how = "whole")
          /\ peer' = [peer EXCEPT ![c] = how]
    /\ UNCHANGED <<mainVars, workerVars, fds, backlog, sends, answer, entry>>

Leave(c) ==
    /\ Up /\ peer[c] \in {"connected", "part", "whole"}
    /\ peer' = [peer EXCEPT ![c] = "left"]
    /\ UNCHANGED <<mainVars, workerVars, fds, backlog, sends, answer, entry>>

\* Somebody writes to a file while it is served.
Resize(n) ==
    /\ Up /\ entry[n].kind = "file"
    /\ \E s \in Sizes \ {entry[n].size} : entry' = [entry EXCEPT ![n].size = s]
    /\ UNCHANGED <<mainVars, workerVars, netVars>>

Worker(w) ==
    \/ Setup(w) \/ SetupFails(w) \/ EpollWait(w) \/ TakeExit(w) \/ Accept(w)
    \/ \E f \in Fds : Receive(w, f)
    \/ Reply(w) \/ OpenFile(w) \/ SendFile(w) \/ Delete(w) \/ Close(w)
Main == CreateWorker \/ CreateFails \/ InstallHandlers \/ Join
World ==
    \/ Signal \/ \E w \in Workers : ReadInterrupted(w)
    \/ \E c \in Conns : Arrive(c) \/ Leave(c) \/ \E w \in Workers : Connect(c, w)
    \/ \E n \in Files : Resize(n)
Ended == ~Up /\ UNCHANGED vars

Next == Main \/ HandlerWrites \/ (\E w \in Workers : Worker(w)) \/ World \/ Ended
Spec == Init /\ [][Next]_vars
\* The scheduler runs main, the handlers and every worker; a worker handles its
\* whole batch before it waits again, so one fairness condition per worker is enough.
FairSpec == Spec /\ WF_vars(Main) /\ WF_vars(HandlerWrites) /\ \A w \in Workers : WF_vars(Worker(w))

-----------------------------------------------------------------------------
TypeOK ==
    /\ main \in {"create", "install", "join", "returned", "failed", "killed"}
    /\ started \in 0..Cores /\ pipe \in Nat /\ signals \in 0..MaxSignals /\ owed \in Nat
    /\ phase \in [Workers -> {None, "setup", "wait", "reply", "open", "send", "delete", "close", "ended"}]
    /\ batch \in [Workers -> SUBSET (Fds \cup {PipeFd, ListenFd})]
    /\ interest \in [Workers -> SUBSET Fds]
    /\ cur \in [Workers -> Fds \cup {NoFd}]
    /\ asked \in [Workers -> Parsed]
    /\ promised \in [Workers -> Nat]
    /\ fds \in [Fds -> Conns \cup {None}]
    /\ backlog \in [Workers -> Seq(Conns)]
    /\ peer \in [Conns -> {"idle", "connected", "part", "whole", "left"}]
    /\ sends \in [Conns -> Requests]
    /\ answer \in [Conns -> [kind: Kinds, promised: Nat, body: Nat, asked: Parsed]]
    /\ entry \in [Files -> Entry]

\* The bytes in the pipe and those that the handlers will still write.
Due == pipe + IntSize * owed

\* A worker that found the pipe readable may wait in read, as another was faster
\* (lines 87 and 186): a byte for it and for each other one is there or will come.
ReadsReturn ==
    \A w \in Workers : PipeFd \in batch[w] => Due >= Cardinality({v \in Workers : PipeFd \in batch[v]})

\* After a handled signal there is or will be a byte for each worker still running.
PipeCovers ==
    (main = "join" /\ signals > 0) => Due >= Cardinality({w \in Workers : phase[w] # "ended"})

\* Descriptors are reused at once, by any thread: still every event in hand
\* is about a connection that is open and in this worker's own set.
NoStaleEvent ==
    \A w \in Workers : \A f \in (batch[w] \cap Fds) \cup interest[w] :
        /\ f \in interest[w] /\ fds[f] # None
        /\ \A v \in Workers \ {w} : f \notin interest[v]

\* No descriptor is lost: an open connection is in the set of a worker or being
\* served, unless a worker has ended with its clients open.
FdsAccounted ==
    (\E w \in Workers : phase[w] = "ended") \/
    \A f \in Fds : fds[f] # None => \E w \in Workers : f \in interest[w] \cup {cur[w]}

\* A client is answered for what it sent itself, read whole or cut by the
\* single recv; and the body is the announced one, but for the two responses
\* whose constants are wrong and a file, which may be cut and never overruns.
AnswerFits ==
    \A c \in Conns : LET a == answer[c] IN a # NoAnswer =>
        /\ a.asked \in {sends[c].part, sends[c].whole}
        /\ a.kind = "file" => a.body <= a.promised
        /\ a.kind \notin {"file", "unparsed", "internal"} => a.body = a.promised

\* A connection is answered once; the second write is the body of a file.
AnswerKept ==
    \A c \in Conns : answer[c] # NoAnswer /\ answer'[c] # answer[c] =>
        answer[c].kind = "file" /\ answer'[c].kind = "file"
        /\ answer[c].body = 0 /\ answer'[c].promised = answer[c].promised
AnsweredOnce == [][AnswerKept]_vars

\* After a handled signal the process ends: every worker leaves its loop.
ShutdownEnds == (main = "join" /\ signals > 0) ~> ~Up

\* A request that has arrived on an accepted connection is disposed of: the
\* descriptor is closed, or its worker or the process has ended.
Served(c) == \/ \A f \in Fds : fds[f] # c
             \/ ~Up \/ \E w \in Workers : phase[w] = "ended"
Waiting(c) == peer[c] \in {"part", "whole", "left"} /\ ~Served(c)
RequestsServed == \A c \in Conns : Waiting(c) ~> Served(c)
=============================================================================
