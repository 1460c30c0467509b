------------------------------- MODULE Weather -------------------------------
(***************************************************************************)
(* src/2-weather/main.c: the weather of a city.  The answer comes in       *)
(* pieces that a callback gathers in a growing buffer, and is then parsed. *)
(* curl, the server and json-c are external; an answer is its length and   *)
(* what the parser finds in it.                                            *)
(***************************************************************************)
EXTENDS Integers, Sequences, Functions

CONSTANTS
    MaxBody,   \* bound: bytes of an answer
    MaxHours   \* bound: entries of today's "hourly"

WeatherAssumption == MaxBody \in Nat /\ MaxHours \in Nat

\* An entry of "hourly": no object, an object with its time, or without one.
Items == {"other", "timed", "timeless"}
\* What is in the answer: no JSON, no array "weather", an empty one, a first
\* day without an array "hourly", or its entries.
Documents ==
    {[kind |-> k, hourly |-> <<>>] : k \in {"no json", "no array", "no day", "no hours"}}
    \cup [kind : {"hours"}, hourly : UNION {[1..n -> Items] : n \in 0..MaxHours}]

VARIABLES
    body, document, \* the server's answer: its bytes, its content
    sent,      \* bytes of it that have come
    pc, response,
    capacity,  \* bytes realloc gave; 0: response is NULL
    i,         \* entries of "hourly" looked at
    rows,      \* those of them that were shown
    status     \* what main returns

vars == <<body, document, sent, pc, response, capacity, i, rows, status>>

Init ==
    /\ body \in {[k \in 1..n |-> k] : n \in 0..MaxBody} /\ document \in Documents
    /\ sent = 0 /\ pc = "init" /\ response = <<>> /\ capacity = 0 /\ i = 0 /\ rows = <<>> /\ status = 0

-----------------------------------------------------------------------------
Return(value) == pc' = "ended" /\ status' = value /\ UNCHANGED <<body, document, sent, response, capacity, i, rows>>
Crash == pc' = "crashed" /\ UNCHANGED <<body, document, sent, response, capacity, i, rows, status>>

\* Wrong arguments, or curl cannot be initialised.
InitFails == pc = "init" /\ Return(1)

Perform ==
    /\ pc = "init" /\ pc' = "perform"
    /\ UNCHANGED <<body, document, sent, response, capacity, i, rows, status>>

\* Mutant: no byte for the end of the string.
RoomExact(n) == Len(response) + n
Room(n) == Len(response) + n + 1

\* Mutant: each piece overwrites the one before it.
Overwritten(piece) == piece
Appended(piece) == response \o piece

\* cb: curl's next piece; realloc may fail, which ends the transfer.
Cb ==
    /\ pc = "perform" /\ sent < Len(body)
    /\ \E n \in 1..Len(body) - sent :
          /\ sent' = sent + n
          /\ \/ /\ capacity' = Room(n)
                /\ response' = Appended(SubSeq(body, sent + 1, sent + n))
                /\ UNCHANGED <<pc, status>>
             \/ pc' = "ended" /\ status' = 1 /\ UNCHANGED <<capacity, response>>
    /\ UNCHANGED <<body, document, i, rows>>

\* The connection fails or 30 seconds are over.
PerformFails == pc = "perform" /\ Return(1)

\* The whole answer has come; its status is 404 or another one.
PerformEnds ==
    /\ pc = "perform" /\ sent = Len(body)
    /\ \/ Return(1)
       \/ pc' = "parse" /\ UNCHANGED <<body, document, sent, response, capacity, i, rows, status>>

-----------------------------------------------------------------------------
\* print_current_weather_from_json.  Without a body there is no string to
\* parse; without an array "weather" nothing is said and 0 returned.
Parse ==
    /\ pc = "parse"
    /\ \/ capacity = 0 /\ Crash
       \/ capacity > 0 /\ document.kind \in {"no json", "no day"} /\ Return(1)
       \/ capacity > 0 /\ document.kind \in {"no array", "no hours"} /\ Return(0)
       \/ /\ capacity > 0 /\ document.kind = "hours" /\ pc' = "print"
          /\ UNCHANGED <<body, document, sent, response, capacity, i, rows, status>>

\* Mutant: the type of an entry is not looked at.
EveryItem(item) == TRUE
IsObject(item) == item # "other"

\* Mutant: an entry that is no object ends the loop.
BreakAfter(item) == IF item = "other" THEN Len(document.hourly) ELSE i + 1
After(item) == i + 1

\* The loop over "hourly": the time of an object is converted in any case.
Hour ==
    /\ pc = "print" /\ i < Len(document.hourly)
    /\ LET item == document.hourly[i + 1] IN
       IF IsObject(item) /\ item # "timed" THEN Crash
       ELSE /\ i' = After(item)
            /\ rows' = IF IsObject(item) THEN Append(rows, i + 1) ELSE rows
            /\ UNCHANGED <<body, document, sent, pc, response, capacity, status>>

HoursEnd == pc = "print" /\ i = Len(document.hourly) /\ Return(0)

Next ==
    \/ InitFails \/ Perform \/ Cb \/ PerformFails \/ PerformEnds
    \/ Parse \/ Hour \/ HoursEnd
Spec == Init /\ [][Next]_vars

-----------------------------------------------------------------------------
\* What is parsed is the whole answer in its order, with a byte left for the
\* end of the string, whatever pieces it came in (lines 17-33).
AnswerWhole ==
    /\ response # <<>> => Len(response) < capacity
    /\ pc \in {"parse", "print"} => response = body

\* A failed request or an answer that is no forecast shows nothing; the hours
\* shown are those of the answer in their order, and all of them on success.
HoursShown ==
    /\ rows # <<>> => document.kind = "hours"
    /\ \A k, l \in 1..Len(rows) : k < l => rows[k] < rows[l]
    /\ \A k \in 1..Len(rows) : rows[k] \in DOMAIN document.hourly /\ document.hourly[rows[k]] = "timed"
    /\ pc = "ended" /\ status = 0 /\ document.kind = "hours" =>
          \A k \in DOMAIN document.hourly : document.hourly[k] = "timed" => k \in Range(rows)

\* It crashes on an empty answer and on an hour without a time, and never on
\* an answer that could not be read.
CrashCause ==
    pc = "crashed" => \/ body = <<>>
                      \/ document.kind = "hours" /\ Range(document.hourly) \cap {"timeless"} # {}
=============================================================================
