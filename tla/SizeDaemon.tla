----------------------------- MODULE SizeDaemon -----------------------------
(***************************************************************************)
(* src/8-daemon/main.c: reads socketPath and filePath from a YAML file,    *)
(* then answers every connection on the unix socket with the size of the   *)
(* file.  Instances are processes started in the same directory, in the    *)
(* foreground or forked; one may be killed, and leaves its socket's name   *)
(* behind.  The lengths of messages and names are left out.                *)
(***************************************************************************)
EXTENDS Naturals, Sequences, FiniteSets

CONSTANTS
    Instances,  \* processes that run startServer
    Clients,    \* connections to the socket
    Documents,  \* configuration files: sequences of YAML events
    Sizes,      \* what stat can find, "missing" among it
    MaxChanges, \* bound: changes of the file
    Faults      \* may system calls fail?

NoOne == "none"
Unset == "unset"      \* malloc does not clear the configuration
Event(t, v) == [type |-> t, value |-> v]

DaemonAssumption ==
    /\ MaxChanges \in Nat /\ Faults \in BOOLEAN /\ Sizes # {}
    /\ NoOne \notin Instances \cup Clients \cup Sizes
    /\ Documents \subseteq Seq([type: STRING, value: STRING])

VARIABLES
    pc,       \* where each instance is
    doc,      \* the configuration file
    at,       \* events each instance has parsed
    config,   \* its parse_state_t and struct Config
    path,     \* the instance whose socket has the name, alive or dead
    queue,    \* clients waiting in an instance's backlog
    client,   \* the client it serves, NoOne for descriptor -1
    message,  \* its response_msg
    file,     \* what stat finds now
    changes,
    peer,     \* what each client has done
    got,      \* what it was answered
    window,   \* history: what stat would have found since it connected
    rivals    \* history: who bound the name between an unlink and its bind

parser == <<doc, at, config>>
server == <<queue, client, message>>
world == <<file, changes, peer, got, window>>
vars == <<pc, parser, path, server, world, rivals>>

Init ==
    /\ pc = [p \in Instances |-> "off"]
    /\ doc \in Documents
    /\ at = [p \in Instances |-> 0]
    /\ config = [p \in Instances |-> [state |-> "KEY", socketPath |-> Unset, filePath |-> Unset]]
    /\ path = NoOne
    /\ queue = [p \in Instances |-> <<>>]
    /\ client = [p \in Instances |-> NoOne]
    /\ message = [p \in Instances |-> NoOne]
    /\ file \in Sizes /\ changes = 0
    /\ peer = [c \in Clients |-> "idle"]
    /\ got = [c \in Clients |-> NoOne]
    /\ window = [c \in Clients |-> {}]
    /\ rivals = [p \in Instances |-> {}]

Goto(p, label) == pc' = [pc EXCEPT ![p] = label]
Stop(p, how) == Goto(p, how) /\ UNCHANGED <<parser, path, server, world, rivals>>
Stopped == {"off", "parent", "failed", "crashed", "killed", "in use"}

-----------------------------------------------------------------------------
\* main and parseConfig.

Start(p) ==
    /\ pc[p] = "off"
    /\ \/ Stop(p, "config")
       \/ Faults /\ Stop(p, "failed")     \* fork, fopen or yaml_parser_initialize

\* Mutant: a scalar after an unknown key is a key again.
KeyIn(state) == state \in {"KEY", "OTHER"}
KeyExpected(state) == state = "KEY"

\* One event of the document against the parser's state.
ParseStep(c, e) ==
    IF e.type = "mapping" THEN [c EXCEPT !.state = "KEY"]
    ELSE IF e.type # "scalar" THEN c
    ELSE IF KeyExpected(c.state)
         THEN [c EXCEPT !.state = IF e.value \in {"socketPath", "filePath"} THEN e.value ELSE "OTHER"]
    ELSE IF c.state = "OTHER" THEN [c EXCEPT !.state = "KEY"]
    ELSE [[c EXCEPT ![c.state] = e.value] EXCEPT !.state = "KEY"]

ParseEvent(p) ==
    /\ pc[p] = "config" /\ at[p] < Len(doc)
    /\ at' = [at EXCEPT ![p] = @ + 1]
    /\ config' = [config EXCEPT ![p] = ParseStep(@, doc[at'[p]])]
    /\ UNCHANGED <<pc, doc, path, server, world, rivals>>

ParseFails(p) == Faults /\ pc[p] = "config" /\ at[p] < Len(doc) /\ Stop(p, "failed")

\* A field that was never set is NULL or anything: refused, or copied from a
\* pointer that leads nowhere.
CheckConfig(p) ==
    /\ pc[p] = "config" /\ at[p] = Len(doc)
    /\ IF Unset \in {config[p].socketPath, config[p].filePath}
       THEN Stop(p, "failed") \/ Stop(p, "crashed")
       ELSE Stop(p, "unlink")

-----------------------------------------------------------------------------
\* listenToUnixSocket.

\* Mutant: the name of an earlier instance is not removed.
NameKept == path
NameRemoved == NoOne

\* Whatever has the name loses it, a running instance too.
Unlink(p) ==
    /\ pc[p] = "unlink"
    /\ \/ path' = NameRemoved /\ rivals' = [rivals EXCEPT ![p] = {}] /\ Goto(p, "socket")
       \/ Faults /\ Goto(p, "failed") /\ UNCHANGED <<path, rivals>>
    /\ UNCHANGED <<parser, server, world>>

Socket(p) == pc[p] = "socket" /\ (Stop(p, "bind") \/ (Faults /\ Stop(p, "failed")))

Bind(p) ==
    /\ pc[p] = "bind"
    /\ IF path = NoOne
       THEN /\ path' = p
            /\ rivals' = [q \in Instances |-> rivals[q] \cup {p}]
            /\ Goto(p, "listen")
       ELSE UNCHANGED <<path, rivals>> /\ Goto(p, "in use")
    /\ UNCHANGED <<parser, server, world>>

\* The result is compared with 1, so a failure goes unseen: "deaf".
Listen(p) == pc[p] = "listen" /\ (Stop(p, "accept") \/ (Faults /\ Stop(p, "deaf")))

\* accept fails on every call of an instance whose listen failed.
AcceptDeaf(p) == pc[p] = "deaf" /\ UNCHANGED vars

\* Mutant: the clients waiting behind the first are dropped.
Emptied(q) == <<>>
Rest(q) == Tail(q)

Accept(p) ==
    /\ pc[p] = "accept" /\ queue[p] # <<>>
    /\ client' = [client EXCEPT ![p] = Head(queue[p])]
    /\ queue' = [queue EXCEPT ![p] = Rest(@)]
    /\ Goto(p, "stat")
    /\ UNCHANGED <<parser, path, message, world, rivals>>

\* A failed accept is reported, and the loop goes on with descriptor -1.
AcceptFails(p) ==
    /\ Faults /\ pc[p] = "accept" /\ queue[p] # <<>>
    /\ client' = [client EXCEPT ![p] = NoOne]
    /\ Goto(p, "stat")
    /\ UNCHANGED <<parser, path, queue, message, world, rivals>>

\* Mutant: no text is made when stat fails.
Silent(p) == IF file = "missing" THEN Unset ELSE file
\* Mutant: the text of the last client is sent again.
Remembered(p) == IF message[p] = NoOne THEN file ELSE message[p]
\* getFileSize: the size, or the error's text.
SizeText(p) == file

\* malloc, unchecked, then getFileSize.
Stat(p) ==
    /\ pc[p] = "stat"
    /\ \/ message' = [message EXCEPT ![p] = SizeText(p)] /\ Goto(p, "write")
       \/ Faults /\ UNCHANGED message /\ Goto(p, "crashed")
    /\ UNCHANGED <<parser, path, queue, client, world, rivals>>

\* Mutant: the client is not written to.
Unwritten(c) == TRUE
Unreachable(c) == c = NoOne

\* SIGPIPE ends the instance when the client has left; descriptor -1 only fails.
Write(p) ==
    LET c == client[p] IN
    /\ pc[p] = "write"
    /\ IF Unreachable(c) \/ peer[c] = "left"
       THEN UNCHANGED got /\ Goto(p, IF Unreachable(c) THEN "close" ELSE "killed")
       ELSE got' = [got EXCEPT ![c] = message[p]] /\ Goto(p, "close")
    /\ UNCHANGED <<parser, path, server, file, changes, peer, window, rivals>>

Close(p) ==
    /\ pc[p] = "close"
    /\ peer' = [c \in Clients |-> IF c = client[p] THEN "closed" ELSE peer[c]]
    /\ client' = [client EXCEPT ![p] = NoOne]
    /\ Goto(p, "accept")
    /\ UNCHANGED <<parser, path, queue, message, file, changes, got, window, rivals>>

-----------------------------------------------------------------------------
Loop == {"accept", "stat", "write", "close"}

Kill(p) == Faults /\ pc[p] \notin Stopped /\ Stop(p, "killed")

\* connect finds the socket the name leads to, if anybody listens on it.
Connect(c) ==
    /\ peer[c] = "idle" /\ path # NoOne /\ pc[path] \in Loop
    /\ peer' = [peer EXCEPT ![c] = "waiting"]
    /\ queue' = [queue EXCEPT ![path] = Append(@, c)]
    /\ window' = [window EXCEPT ![c] = {file}]
    /\ UNCHANGED <<pc, parser, path, client, message, file, changes, got, rivals>>

Leave(c) ==
    /\ peer[c] = "waiting"
    /\ peer' = [peer EXCEPT ![c] = "left"]
    /\ UNCHANGED <<pc, parser, path, server, file, changes, got, window, rivals>>

Change ==
    /\ changes < MaxChanges
    /\ file' \in Sizes \ {file}
    /\ changes' = changes + 1
    /\ window' = [c \in Clients |-> IF peer[c] = "idle" THEN {} ELSE window[c] \cup {file'}]
    /\ UNCHANGED <<pc, parser, path, server, peer, got, rivals>>

Serve(p) == Accept(p) \/ AcceptFails(p) \/ Stat(p) \/ Write(p) \/ Close(p)
Open(p) == ParseEvent(p) \/ ParseFails(p) \/ CheckConfig(p) \/ Unlink(p) \/ Socket(p) \/ Bind(p) \/ Listen(p)
Next ==
    \/ \E p \in Instances : Start(p) \/ Open(p) \/ Serve(p) \/ AcceptDeaf(p) \/ Kill(p)
    \/ \E c \in Clients : Connect(c) \/ Leave(c)
    \/ Change
Spec == Init /\ [][Next]_vars
\* The process runs; an accept that fails for want of something succeeds in
\* the end if it is tried for ever.
FairSpec == Spec /\ \A p \in Instances : WF_vars(Serve(p)) /\ SF_vars(Accept(p))

-----------------------------------------------------------------------------
Texts == {Unset} \cup {doc[i].value : i \in 1..Len(doc)}
TypeOK ==
    /\ pc \in [Instances -> Stopped \cup Loop \cup {"config", "unlink", "socket", "bind", "listen", "deaf"}]
    /\ doc \in Documents /\ at \in [Instances -> 0..Len(doc)]
    /\ config \in [Instances -> [state: {"KEY", "OTHER", "socketPath", "filePath"},
                                 socketPath: Texts, filePath: Texts]]
    /\ path \in Instances \cup {NoOne} /\ rivals \in [Instances -> SUBSET Instances]
    /\ queue \in [Instances -> Seq(Clients)] /\ client \in [Instances -> Clients \cup {NoOne}]
    /\ message \in [Instances -> Sizes \cup {NoOne}] /\ file \in Sizes
    /\ changes \in 0..MaxChanges /\ window \in [Clients -> SUBSET Sizes]
    /\ got \in [Clients -> Sizes \cup {NoOne}]
    /\ peer \in [Clients -> {"idle", "waiting", "left", "closed"}]

\* A document that is one mapping of scalars to scalars gives each path the
\* last value of its key, wherever the other keys stand (lines 112-149).
Flat ==
    /\ Len(doc) >= 2 /\ doc[1].type = "mapping" /\ doc[Len(doc)].type = "end"
    /\ \A i \in 2..(Len(doc) - 1) : doc[i].type = "scalar"
LastValue(key) ==
    LET keys == {i \in 2..(Len(doc) - 2) : i % 2 = 0 /\ doc[i].value = key} IN
    IF keys = {} THEN Unset ELSE doc[(CHOOSE i \in keys : \A j \in keys : j <= i) + 1].value
ConfigRead ==
    \A p \in Instances : Flat /\ pc[p] \notin {"off", "config", "failed", "crashed", "killed"} =>
        config[p].socketPath = LastValue("socketPath") /\ config[p].filePath = LastValue("filePath")

\* The name a dead instance has left is no obstacle: bind finds it in use only
\* when another instance has bound it since the unlink.
StaleNameNoObstacle == \A p \in Instances : pc[p] = "in use" => rivals[p] \ {p} # {}

\* What a client is told was true at some moment after it connected.
FreshAnswer == \A c \in Clients : got[c] # NoOne => got[c] \in window[c]

\* An instance closes only the connection it has answered.
ClosedAnswered == \A c \in Clients : peer[c] = "closed" => got[c] # NoOne

\* A waiting client is answered, unless it leaves or its instance ends.
Queued(c, p) == c \in {queue[p][i] : i \in DOMAIN queue[p]}
Done(c, p) == got[c] # NoOne \/ peer[c] = "left" \/ pc[p] \in Stopped
ClientsAnswered == \A c \in Clients, p \in Instances : Queued(c, p) ~> Done(c, p)
=============================================================================
