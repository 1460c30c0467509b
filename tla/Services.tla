------------------------------ MODULE Services ------------------------------
(***************************************************************************)
(* The programs that talk to others: the file server, the logging library, *)
(* the size daemon, the telnet client and the authentication hook.  They   *)
(* share nothing: a behaviour is that of one of them, `program'.  A        *)
(* constant or a variable that two of them name alike is declared once,    *)
(* and the variables that only other programs have stay idle.              *)
(***************************************************************************)
EXTENDS Integers

CONSTANTS
    Programs,                                                            \* those of the run
    Cores, IntSize, MaxSignals, Conns, Fds, Requests, Files, Pieces,     \* the file server
    Entries,
    OneConn, OneFd, AnyRequests, AnyPieces, AnyEntries,                  \* the same with one worker
    Threads, Paths, Frames, MaxRecords, MaxCreates, MaxClock, Misuse,    \* the logging library
    Instances, Clients, Sizes, MaxChanges, Faults, Documents,            \* the size daemon
    Hosts, Prompt, EndMark, BUF_SIZE,                                    \* the telnet client
    Width, And(_, _), PodCount, MaxMoves                                 \* the authentication hook

VARIABLES
    program,
    main, started, pipe, signals, owed, phase, batch, interest, cur, asked, promised, fds, backlog, sends, entry,
    ready, holder, target, unflushed, text, level, record, stamp, printed, records, creates, clock, exiting, misused,
    crashed,
    doc, at, config, path, queue, client, message, got, window, rivals,
    exit_code, connected, stream, closed, r, buffer, len, due, out,
    env, cluster, known, marked, host, cache, list, verdict, authorized, nextCalled,
    pc, file, changes, answer, peer     \* of several programs

\* The variables that one program alone has.
serverOnly == <<main, started, pipe, signals, owed, phase, batch, interest, cur, asked, promised, fds, backlog,
                sends, entry>>
loggerOnly == <<ready, holder, target, unflushed, text, level, record, stamp, printed, records, creates, clock,
                exiting, misused, crashed>>
daemonOnly == <<doc, at, config, path, queue, client, message, got, window, rivals>>
clientOnly == <<exit_code, connected, stream, closed, r, buffer, len, due, out>>
hookOnly == <<env, cluster, known, marked, host, cache, list, verdict, authorized, nextCalled>>
vars == <<program, serverOnly, loggerOnly, daemonOnly, clientOnly, hookOnly, pc, file, changes, answer, peer>>

\* What is not the program's own.
notServer == <<program, loggerOnly, daemonOnly, clientOnly, hookOnly, pc, file, changes>>
notLogger == <<program, serverOnly, daemonOnly, clientOnly, hookOnly, changes, answer, peer>>
notDaemon == <<program, serverOnly, loggerOnly, clientOnly, hookOnly, answer>>
notClient == <<program, serverOnly, loggerOnly, daemonOnly, hookOnly, file, changes, peer>>
notHook == <<program, serverOnly, loggerOnly, daemonOnly, clientOnly, file, answer, peer>>

Idle == "idle"
ServerIdle ==
    /\ main = Idle /\ started = Idle /\ pipe = Idle /\ signals = Idle /\ owed = Idle /\ phase = Idle /\ batch = Idle
    /\ interest = Idle /\ cur = Idle /\ asked = Idle /\ promised = Idle /\ fds = Idle /\ backlog = Idle
    /\ sends = Idle /\ entry = Idle
LoggerIdle ==
    /\ ready = Idle /\ holder = Idle /\ target = Idle /\ unflushed = Idle /\ text = Idle /\ level = Idle
    /\ record = Idle /\ stamp = Idle /\ exiting = Idle
    /\ printed = Idle /\ records = Idle /\ creates = Idle /\ clock = Idle /\ misused = Idle /\ crashed = Idle
DaemonIdle ==
    /\ doc = Idle /\ at = Idle /\ config = Idle /\ path = Idle /\ queue = Idle /\ client = Idle
    /\ message = Idle /\ got = Idle /\ window = Idle /\ rivals = Idle
ClientIdle ==
    /\ exit_code = Idle /\ connected = Idle /\ stream = Idle /\ closed = Idle /\ r = Idle /\ buffer = Idle
    /\ len = Idle /\ due = Idle /\ out = Idle
HookIdle ==
    /\ env = Idle /\ cluster = Idle /\ known = Idle /\ marked = Idle /\ host = Idle /\ cache = Idle
    /\ list = Idle /\ verdict = Idle /\ authorized = Idle /\ nextCalled = Idle
ServerAlone ==
    LoggerIdle /\ DaemonIdle /\ ClientIdle /\ HookIdle /\ pc = Idle /\ file = Idle /\ changes = Idle
LoggerAlone ==
    ServerIdle /\ DaemonIdle /\ ClientIdle /\ HookIdle /\ changes = Idle /\ answer = Idle /\ peer = Idle
DaemonAlone == ServerIdle /\ LoggerIdle /\ ClientIdle /\ HookIdle /\ answer = Idle
ClientAlone ==
    ServerIdle /\ LoggerIdle /\ DaemonIdle /\ HookIdle /\ file = Idle /\ changes = Idle /\ peer = Idle
HookAlone ==
    ServerIdle /\ LoggerIdle /\ DaemonIdle /\ ClientIdle /\ file = Idle /\ answer = Idle /\ peer = Idle

-----------------------------------------------------------------------------
\* The server is looked at twice: one worker with any request, and several.
Serve == INSTANCE FileServerProofs WITH
    Cores <- 1, MaxSignals <- 1, Conns <- OneConn, Fds <- OneFd, Requests <- AnyRequests, Sizes <- AnyPieces,
    Entries <- AnyEntries
Race == INSTANCE FileServerProofs WITH Sizes <- Pieces
Log == INSTANCE Logger
Daemon == INSTANCE SizeDaemon
Client == INSTANCE TelnetClient
Hook == INSTANCE AuthHook WITH MaxChanges <- MaxMoves

ASSUME ServicesAssumption ==
    /\ Serve!ServerAssumption /\ Race!ServerAssumption /\ Log!LoggerAssumption
    /\ Daemon!DaemonAssumption /\ Client!ClientAssumption /\ Hook!HookAssumption

-----------------------------------------------------------------------------
Init ==
    /\ program \in Programs
    /\ \/ program = "serve" /\ Serve!Init /\ ServerAlone
       \/ program = "race" /\ Race!Init /\ ServerAlone
       \/ program = "log" /\ Log!Init /\ LoggerAlone
       \/ program = "daemon" /\ Daemon!Init /\ DaemonAlone
       \/ program = "client" /\ Client!Init /\ ClientAlone
       \/ program = "hook" /\ Hook!Init /\ HookAlone
\* The server and the telnet client stop at their ends only, and say so in their Next.
MayStop == {"log", "daemon", "hook"}
Next ==
    \/ program = "serve" /\ Serve!Next /\ UNCHANGED notServer
    \/ program = "race" /\ Race!Next /\ UNCHANGED notServer
    \/ program = "log" /\ Log!Next /\ UNCHANGED notLogger
    \/ program = "daemon" /\ Daemon!Next /\ UNCHANGED notDaemon
    \/ program = "client" /\ Client!Next /\ UNCHANGED notClient
    \/ program = "hook" /\ Hook!Next /\ UNCHANGED notHook
    \/ program \in MayStop /\ UNCHANGED vars
Spec == Init /\ [][Next]_vars

-----------------------------------------------------------------------------
\* The types of the program that runs.
TypeOK ==
    /\ program = "serve" => Serve!TypeOK
    /\ program = "race" => Race!TypeOK
    /\ program = "log" => Log!TypeOK
    /\ program = "daemon" => Daemon!TypeOK
    /\ program = "client" => Client!TypeOK
    /\ program = "hook" => Hook!TypeOK

\* After a signal the exit pipe has or will have a byte for every worker of the
\* server, and for those that wait in read (src/12-server/main.c:87, 186).
PipeSuffices == program = "race" => Race!ReadsReturn /\ Race!PipeCovers

\* The server's workers serve no event of a descriptor that was closed and
\* reused, and lose no descriptor (lines 82-102, 169-171).
DescriptorsKept == program = "race" => Race!NoStaleEvent /\ Race!FdsAccounted

\* The server answers a connection once, for what it sent, with a body of the
\* announced length or less of a file (lines 97-167).
AnswersRight ==
    /\ [](/\ program = "serve" => Serve!AnswerFits
          /\ program = "race" => Race!AnswerFits)
    /\ [][/\ program = "serve" => Serve!AnswerKept
          /\ program = "race" => Race!AnswerKept]_vars

\* The log's mutex keeps records whole and in the order of their times
\* (src/7-logger/logger/logger.c:69-160).
RecordsWhole == program = "log" => Log!OneWriter /\ Log!RecordsWhole /\ Log!TimesOrdered

\* The daemon reads its configuration right, a name left behind does not stop
\* it, and it closes a connection only after a true answer (src/8-daemon/main.c).
DaemonAnswers ==
    program = "daemon" => /\ Daemon!ConfigRead /\ Daemon!StaleNameNoObstacle
                          /\ Daemon!FreshAnswer /\ Daemon!ClosedAnswered

\* The telnet client does not miss a prompt, commands nothing before it, and
\* prints what was answered (src/11-client/main.c:28-41, 130-185).
AnswerPrinted ==
    program = "client" => /\ Client!SuccessConnected /\ Client!PromptRecognised
                          /\ Client!PromptAwaited /\ Client!PrintedFaithfully

\* The hook admits the addresses of the CIDR that were an annotated pod's, and
\* calls the hook before it for them (src/project/auth_k8s.c:43-172).
VerifiedByPod == program = "hook" => Hook!CidrExact /\ Hook!VerifiedByPod /\ Hook!ChainOnlyAuthorized
=============================================================================
