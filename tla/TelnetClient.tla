---------------------------- MODULE TelnetClient ----------------------------
(***************************************************************************)
(* src/11-client/main.c: connects to a telnet host, waits for its prompt,  *)
(* sends one figlet command and prints the answer.  TCP delivers the       *)
(* host's bytes in chunks of any length.  The prompt and the end mark are  *)
(* shortened; BUF_SIZE and the streams are small.                          *)
(***************************************************************************)
EXTENDS Integers, Sequences

CONSTANTS
    Hosts,      \* what a host sends: its banner, and its answer to the command
    Prompt,     \* string_to_find
    EndMark,    \* string_to_find2
    BUF_SIZE

\* What the host and the marks are made of.
Texts == {h.banner : h \in Hosts} \cup {h.answer : h \in Hosts} \cup {Prompt, EndMark}
Bytes == UNION {{s[i] : i \in DOMAIN s} : s \in Texts}

ClientAssumption ==
    /\ BUF_SIZE \in Nat \ {0, 1} /\ Len(Prompt) > 1 /\ Len(EndMark) > 1
    /\ Texts \subseteq Seq(Bytes)

IAC == "IAC"        \* byte 255: a telnet command, two more bytes follow
Newline == "nl"

VARIABLES
    pc,         \* where main is
    exit_code,
    connected,
    stream,     \* bytes of the host not received yet
    closed,     \* the host has closed the connection
    r,          \* the last result of recv
    buffer,     \* the bytes received in the loop main is in
    len,        \* where the last chunk starts in it
    answer,     \* what the host answers
    due,        \* history: all that arrives after the command
    out         \* what was printed

host == <<stream, closed, answer, due>>
vars == <<pc, exit_code, connected, host, r, buffer, len, out>>

\* Mutant: a mismatch keeps what was matched before it.
KeepMatched(j) == j
AfterMismatch(j) == 0
\* Mutant: the first character of the chunk is left out.
Second(offset) == offset + 1
First(offset) == offset

\* string_has_substring, from index i with j characters matched: telnet
\* commands are skipped, the last character is not compared, and a mismatch
\* does not look at the same character again.
Found(string, offset, length, substring) ==
    LET needed == Len(substring) - 1
        from[at \in Nat \X Nat] ==
            LET i == at[1]
                j == at[2]
                k == IF string[i + 1] = substring[j + 1] THEN j + 1 ELSE AfterMismatch(j)
            IN IF i >= offset + length THEN FALSE
               ELSE IF string[i + 1] = IAC THEN from[<<i + 3, j>>]
               ELSE length - i >= needed - j /\ (k = needed \/ from[<<i + 1, k>>])
    IN from[<<First(offset), 0>>]

Init ==
    /\ pc = "open" /\ exit_code = 0 /\ connected = FALSE
    /\ \E h \in Hosts : stream = h.banner /\ answer = h.answer
    /\ closed = FALSE
    /\ due = <<>> /\ r = 0 /\ buffer = <<>> /\ len = 0 /\ out = <<>>

Fail(label) == pc' = label /\ exit_code' = 1 /\ UNCHANGED <<connected, host, r, buffer, len, out>>

\* Mutant: a failed name lookup leaves the exit code.
OpenQuietly == exit_code
OpenFailure == 1

\* socket, setsockopt, getaddrinfo, inet_pton: every failure ends the program.
Open ==
    /\ pc = "open"
    /\ \/ pc' = "end" /\ exit_code' = OpenFailure
       \/ pc' = "connect" /\ UNCHANGED exit_code
    /\ UNCHANGED <<connected, host, r, buffer, len, out>>

\* A failed connect is noted and the program goes on.
Connect ==
    /\ pc = "connect"
    /\ \/ Fail("prompt")
       \/ pc' = "prompt" /\ connected' = TRUE
          /\ UNCHANGED <<exit_code, host, r, buffer, len, out>>

\* recv of at most room bytes: a chunk, none at the end or without room, -1.
Received(room) ==
    IF room = 0 \/ (closed /\ stream = <<>>) THEN {<<>>}
    ELSE {SubSeq(stream, 1, n) : n \in {k \in 1..Len(stream) : k <= room}}
Taken(chunk) == connected /\ stream' = SubSeq(stream, Len(chunk) + 1, Len(stream))
RecvFails(label) ==
    /\ r' = -1 /\ exit_code' = 1 /\ pc' = label
    /\ UNCHANGED <<connected, host, buffer, len, out>>

\* Mutant: the loop runs while recv does not fail.
NeverEnds(chunk) == FALSE
StreamEnds(chunk) == chunk = <<>>

\* The first loop: each chunk overwrites the one before.
TakeChunk(chunk) ==
    /\ buffer' = chunk /\ r' = Len(chunk)
    /\ pc' = IF StreamEnds(chunk) \/ Found(chunk, 0, Len(chunk), Prompt) THEN "command" ELSE "prompt"
AwaitPrompt ==
    /\ pc = "prompt"
    /\ \E chunk \in Received(BUF_SIZE - 1) : Taken(chunk) /\ TakeChunk(chunk)
    /\ UNCHANGED <<exit_code, connected, closed, len, answer, due, out>>
AwaitFails == pc = "prompt" /\ RecvFails("end")

\* snprintf and send; the buffer is cleared for the answer.
Command ==
    /\ pc = "command"
    /\ \/ Fail("end")
       \/ /\ pc' = "answer"
          /\ stream' = IF closed THEN stream ELSE stream \o answer
          /\ due' = stream' /\ buffer' = <<>> /\ len' = 0
          /\ UNCHANGED <<exit_code, connected, closed, r, answer, out>>

\* Mutant: recv writes to the start of the buffer.
AtStart(chunk) == chunk \o buffer
Appended(chunk) == buffer \o chunk

\* The second loop: chunks follow each other up to the end mark, the end of
\* the stream, or of the buffer.
TakeAnswer(chunk) ==
    /\ r' = Len(chunk) /\ buffer' = Appended(chunk)
    /\ IF chunk = <<>> \/ Found(buffer', len, Len(chunk), EndMark)
       THEN pc' = "show" /\ UNCHANGED len
       ELSE pc' = "answer" /\ len' = len + Len(chunk)
\* Mutant: every recv may fill the whole buffer.
WholeRoom == BUF_SIZE
Room == BUF_SIZE - len

ReadAnswer ==
    /\ pc = "answer"
    /\ \E chunk \in Received(Room) : Taken(chunk) /\ TakeAnswer(chunk)
    /\ UNCHANGED <<exit_code, connected, closed, answer, due, out>>
AnswerFails == pc = "answer" /\ RecvFails("show")

\* From the first newline on, without the last of the len + r bytes.
Show ==
    /\ pc = "show"
    /\ LET newlines == {i \in 1..Len(buffer) : buffer[i] = Newline}
           first == CHOOSE i \in newlines : \A j \in newlines : i <= j
       IN out' = IF newlines = {} THEN <<>> ELSE SubSeq(buffer, first, len + r - 1)
    /\ pc' = "end"
    /\ UNCHANGED <<exit_code, connected, host, r, buffer, len>>

HostCloses ==
    /\ connected /\ ~closed
    /\ closed' = TRUE
    /\ UNCHANGED <<pc, exit_code, connected, stream, answer, due, r, buffer, len, out>>

Main ==
    \/ Open \/ Connect \/ AwaitPrompt \/ AwaitFails \/ Command \/ ReadAnswer \/ AnswerFails \/ Show
Ended == pc = "end" /\ UNCHANGED vars
Next == Main \/ HostCloses \/ Ended
Spec == Init /\ [][Next]_vars
\* The program runs; the host closes in the end (nothing else ends a wait for
\* a prompt that was missed: only sending has a timeout).
FairMain == \/ Open \/ Connect \/ AwaitPrompt \/ (~connected /\ AwaitFails)
            \/ Command \/ ReadAnswer \/ Show
FairSpec == Spec /\ WF_vars(FairMain) /\ WF_vars(HostCloses)

-----------------------------------------------------------------------------
TypeOK ==
    /\ pc \in {"open", "connect", "prompt", "command", "answer", "show", "end"}
    /\ exit_code \in {0, 1} /\ connected \in BOOLEAN /\ closed \in BOOLEAN
    /\ r \in -1..BUF_SIZE /\ len \in 0..BUF_SIZE
    /\ Len(buffer) <= BUF_SIZE

\* Success means a connection: the connect that failed and went on is caught
\* by the recv after it (lines 130 and 141).
SuccessConnected == pc = "end" /\ exit_code = 0 => connected

\* What is printed is what the host sent after the command, from its first
\* newline on: no byte lost, repeated or moved, however the stream is cut and
\* wherever the buffer ends (lines 164-185).
PrintedFaithfully ==
    out # <<>> => \E i \in 1..(Len(due) - Len(out) + 1) :
        /\ out = SubSeq(due, i, i + Len(out) - 1)
        /\ \A j \in 1..i : (due[j] = Newline) = (j = i)

\* A prompt that comes in one chunk is recognised, unless a telnet command or
\* an earlier copy of its first character is in the chunk (lines 28-41).
PromptRecognised ==
    pc = "prompt" => ~ \E i \in 1..(Len(buffer) - Len(Prompt) + 1) :
        /\ SubSeq(buffer, i, i + Len(Prompt) - 1) = Prompt
        /\ \A j \in 1..Len(buffer) : buffer[j] # IAC /\ (j < i => buffer[j] # Prompt[1])

\* The command is not sent before the prompt, less its last character, has
\* come with no more than telnet commands inside, or the host has closed.
Data(chunk) ==
    LET from[i \in Nat] == IF i > Len(chunk) THEN <<>>
                           ELSE IF chunk[i] = IAC THEN from[i + 3] ELSE <<chunk[i]>> \o from[i + 1]
    IN from[1]
PromptAwaited ==
    pc = "command" /\ r > 0 =>
        \E i \in 1..(Len(Data(buffer)) - Len(Prompt) + 2) :
            SubSeq(Data(buffer), i, i + Len(Prompt) - 2) = SubSeq(Prompt, 1, Len(Prompt) - 1)

\* The program ends once the host has closed the connection.
Terminates == <>(pc = "end")
=============================================================================
