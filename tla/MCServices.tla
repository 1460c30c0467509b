----------------------------- MODULE MCServices -----------------------------
(* Small instances of Services for TLC, and of its programs for liveness,  *)
(* each under the fairness of its own module.                              *)
EXTENDS Services, Sequences, FiniteSetsExt, TLC

CONSTANTS conn1, conn2, file1, thread1, thread2, path1, path2, proc1, proc2, cli1, cli2

\* A good request, and one for each refusal.
Get(name) == [fields |-> 2, get |-> TRUE, files |-> TRUE, name |-> name]
Broken == [fields |-> 1, get |-> TRUE, files |-> FALSE, name |-> ""]
Good == {[part |-> Broken, whole |-> Get(file1)]}
GoodOrRefused ==
    Good \cup {[part |-> Broken, whole |-> Get("illegal")],
               [part |-> [Broken EXCEPT !.fields = 2], whole |-> Get("")],
               [part |-> Broken, whole |-> [Get(file1) EXCEPT !.get = FALSE]]}

\* A file of one piece, or none; and everything that a name may stand for.
FileOrNone == [kind : {"file"}, size : {1}] \cup [kind : {"missing"}, size : {0}]
EveryEntry ==
    [kind : {"missing", "denied", "error"}, size : {0}]
    \cup [kind : {"directory"}, size : {4096}] \cup [kind : {"file"}, size : {1, 3}]

\* SizeDaemon: the repository's file, other orders, a missing key, a list.
Event(t, v) == [type |-> t, value |-> v]
Scalars(s) == <<Event("mapping", "")>> \o [i \in 1..Len(s) |-> Event("scalar", s[i])] \o <<Event("end", "")>>
Config == Scalars(<<"socketPath", "a", "filePath", "b">>)
Configs ==
    {Scalars(<<"socketPath", "a", "filePath", "b", "x", "c">>),
     Scalars(<<"x", "filePath", "filePath", "b", "socketPath", "filePath">>),
     Scalars(<<"filePath", "a", "socketPath", "b", "filePath", "c">>),
     Scalars(<<"socketPath", "a">>),
     [Scalars(<<"x", "", "a", "b", "", "filePath", "c">>) EXCEPT ![3].type = "sequence", ![6].type = "end"]}

\* TelnetClient: every short banner, the prompt whole, cut and doubled, with
\* one answer; and every short answer behind three banners.
Strings(S, n) == UNION {[1..k -> S] : k \in 0..n}
Pre == <<"P", "r", "e">>
Dot == <<"nl", "dot">>
Banners == Strings({"P", "r", "x", "IAC"}, 4) \cup {x \o Pre \o y : x, y \in Strings({"P", "IAC"}, 1)}
MCHosts ==
    [banner : Banners, answer : {<<"nl", "x", "nl">>}]
      \cup [banner : {<<"P", "r">>, <<"P", "r", "nl">>, <<"P", "r", "x">>}, answer : Strings({"x", "nl", "IAC"}, 5)]
LiveHosts == [banner : {<<"x", "P", "P", "r">>, <<"IAC", "P", "r", "e">>}, answer : {<<"nl", "x", "nl">>}]

\* AuthHook: the bits that two addresses share.
BitAnd(x, y) ==
    MapThenSumSet(LAMBDA i : IF (x \div 2^i) % 2 = 1 /\ (y \div 2^i) % 2 = 1 THEN 2^i ELSE 0, 0..Width - 1)

-----------------------------------------------------------------------------
ServeLive == INSTANCE FileServer WITH MaxSignals <- 1, Conns <- OneConn, Fds <- OneFd, Sizes <- Pieces
LogLive == INSTANCE Logger WITH Paths <- {path1}, MaxCreates <- 1, MaxClock <- 0, Misuse <- FALSE
DaemonLive == INSTANCE SizeDaemon WITH Clients <- {cli1, cli2}, MaxChanges <- 0, Documents <- {Config}
ClientLive == INSTANCE TelnetClient WITH Hosts <- LiveHosts, BUF_SIZE <- 4

ASSUME /\ ServeLive!ServerAssumption /\ LogLive!LoggerAssumption
       /\ DaemonLive!DaemonAssumption /\ ClientLive!ClientAssumption

LiveInit ==
    /\ program \in Programs
    /\ \/ program = "serve" /\ ServeLive!Init /\ ServerAlone
       \/ program = "log" /\ LogLive!Init /\ LoggerAlone
       \/ program = "daemon" /\ DaemonLive!Init /\ DaemonAlone
       \/ program = "client" /\ ClientLive!Init /\ ClientAlone
LiveNext ==
    \/ program = "serve" /\ ServeLive!Next /\ UNCHANGED notServer
    \/ program = "log" /\ LogLive!Next /\ UNCHANGED notLogger
    \/ program = "daemon" /\ DaemonLive!Next /\ UNCHANGED notDaemon
    \/ program = "client" /\ ClientLive!Next /\ UNCHANGED notClient
    \/ program \in MayStop /\ UNCHANGED vars

\* The fairness of each module's FairSpec, for the program that runs.
ServerMain == program = "serve" /\ ServeLive!Main /\ UNCHANGED notServer
ServerHandler == program = "serve" /\ ServeLive!HandlerWrites /\ UNCHANGED notServer
ServerWorker(w) == program = "serve" /\ ServeLive!Worker(w) /\ UNCHANGED notServer
LogStep(t) == program = "log" /\ LogLive!LogStep(t) /\ UNCHANGED notLogger
LogLock(t) == program = "log" /\ LogLive!Lock(t) /\ UNCHANGED notLogger
DaemonServe(p) == program = "daemon" /\ DaemonLive!Serve(p) /\ UNCHANGED notDaemon
DaemonAccept(p) == program = "daemon" /\ DaemonLive!Accept(p) /\ UNCHANGED notDaemon
ClientMain == program = "client" /\ ClientLive!FairMain /\ UNCHANGED notClient
HostCloses == program = "client" /\ ClientLive!HostCloses /\ UNCHANGED notClient
FairSpec ==
    /\ LiveInit /\ [][LiveNext]_vars
    /\ WF_vars(ServerMain) /\ WF_vars(ServerHandler) /\ \A w \in 1..Cores : WF_vars(ServerWorker(w))
    /\ \A t \in Threads : WF_vars(LogStep(t)) /\ SF_vars(LogLock(t))
    /\ \A p \in Instances : WF_vars(DaemonServe(p)) /\ SF_vars(DaemonAccept(p))
    /\ WF_vars(ClientMain) /\ WF_vars(HostCloses)

Interchangeable == Permutations(Threads) \cup Permutations(Paths)

-----------------------------------------------------------------------------
\* A signal ends the server, and a request it has received is disposed of.
ServerUp == program = "serve" /\ ServeLive!Up
Waiting(c) == program = "serve" /\ ServeLive!Waiting(c)
ServerProceeds ==
    /\ (ServerUp /\ main = "join" /\ signals > 0) ~> ~ServerUp
    /\ \A c \in OneConn : Waiting(c) ~> ~Waiting(c)

\* A call of the logging library returns; a client the daemon has queued is
\* answered, unless it leaves or the daemon ends; the telnet client ends once
\* the host has closed.
CallsReturn ==
    /\ \A t \in Threads : (program = "log" /\ pc[t] = "lock") ~> (program = "log" /\ LogLive!Returned(t))
    /\ \A c \in {cli1, cli2}, p \in Instances :
         (program = "daemon" /\ DaemonLive!Queued(c, p)) ~> (program = "daemon" /\ DaemonLive!Done(c, p))
    /\ (program = "client") ~> (program = "client" /\ pc = "end")
=============================================================================
