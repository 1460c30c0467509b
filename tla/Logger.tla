------------------------------- MODULE Logger -------------------------------
(***************************************************************************)
(* src/7-logger/logger/logger.c: a logging library with one static logger, *)
(* a mutex and a FILE.  What fprintf prints is buffered by the FILE and    *)
(* reaches the file when the buffer is full, at fclose or at exit, in       *)
(* pieces that need not end where a print ends: a print is two pieces.      *)
(*                                                                         *)
(* The library cannot tell whether its callers create, use and terminate   *)
(* the logger in turn, so they need not here; `misused' notes when one did *)
(* not.  To create a logger over an open one is no misuse: its FILE stays  *)
(* open until exit.                                                        *)
(***************************************************************************)
EXTENDS Naturals, Sequences

CONSTANTS
    Threads,     \* the callers
    Paths,       \* the files a logger may be created on
    Frames,      \* stack frames printed with an error
    MaxRecords,  \* bound: calls of log_*
    MaxCreates,  \* bound: calls of create_logger
    MaxClock,    \* bound: the last time
    Misuse       \* may the callers overlap create, terminate and exit with records?

NoPath == "none"
Nobody == "nobody"
NoFile == 0
Handles == 1..MaxCreates  \* the FILE objects

LoggerAssumption ==
    /\ Frames \in Nat /\ MaxRecords \in Nat /\ MaxCreates \in Nat /\ MaxClock \in Nat
    /\ Misuse \in BOOLEAN /\ Paths # {}
    /\ Nobody \notin Threads /\ NoPath \notin Paths

\* log_debug, log_info and log_warn differ in a word of the record.
Levels == {"plain", "error"}

\* The n-th fprintf of a record prints its pieces 2n and 2n + 1: first the line,
\* then for an error the heading and the stack frames.
Piece == [record: 0..MaxRecords, piece: 0..(3 + 2 * Frames), time: 0..MaxClock]

VARIABLES
    ready,      \* the mutex is initialised
    holder,     \* who holds it
    file,       \* f_ptr: a FILE, or NoFile
    target,     \* the file behind each FILE that is open
    unflushed,  \* the buffer of each FILE
    text,       \* what each file holds
    pc,         \* where each thread is
    level,      \* the kind of record it writes
    record,     \* its number
    stamp,      \* the time it read
    printed,    \* frames printed
    records,    \* calls so far
    creates,    \* loggers created
    clock,      \* time(NULL)
    exiting,    \* exit was called
    misused,    \* the callers broke the order of calls
    crashed     \* undefined behaviour ended the process

logger == <<ready, holder, file>>
stdio == <<target, unflushed, text>>
call == <<pc, level, record, stamp, printed>>
bounds == <<records, creates>>
vars == <<logger, stdio, call, bounds, clock, exiting, misused, crashed>>

Init ==
    /\ ready = FALSE /\ holder = Nobody /\ file = NoFile
    /\ target = [h \in Handles |-> NoPath]
    /\ unflushed = [h \in Handles |-> <<>>]
    /\ text = [p \in Paths |-> <<>>]
    /\ pc = [t \in Threads |-> "idle"]
    /\ level = [t \in Threads |-> "plain"]
    /\ record = [t \in Threads |-> 0]
    /\ stamp = [t \in Threads |-> 0]
    /\ printed = [t \in Threads |-> 0]
    /\ records = 0 /\ creates = 0 /\ clock = 0
    /\ exiting = FALSE /\ misused = FALSE /\ crashed = FALSE

Quiet(t) == \A u \in Threads \ {t} : pc[u] = "idle"
At(t, label) == ~crashed /\ pc[t] = label
Goto(t, label) == pc' = [pc EXCEPT ![t] = label]
Abort == crashed' = TRUE /\ UNCHANGED <<logger, stdio, call, bounds, clock, exiting, misused>>

\* The callers do what is in order, or break it once: after that only the calls
\* in progress go on.
Callers(inOrder) ==
    /\ ~misused /\ (Misuse \/ inOrder)
    /\ misused' = ~inOrder

\* The first n pieces of those given go to the file of FILE h, the rest are
\* kept or, when the write fails, lost.
Flush(h, pieces, n, rest) ==
    /\ text' = [text EXCEPT ![target[h]] = @ \o SubSeq(pieces, 1, n)]
    /\ unflushed' = [unflushed EXCEPT ![h] = rest]

-----------------------------------------------------------------------------
\* create_logger: the mutex of the one logger, then its file.

CreateMutex(t) ==
    /\ At(t, "idle") /\ creates < MaxCreates
    /\ Callers(Quiet(t) /\ ~exiting)
    /\ creates' = creates + 1
    /\ \/ ready' = TRUE /\ holder' = Nobody /\ Goto(t, "open")
       \/ UNCHANGED <<ready, holder, pc>>          \* pthread_mutex_init fails
    /\ UNCHANGED <<file, stdio, level, record, stamp, printed, records, clock, exiting, crashed>>

\* fopen for appending: a FILE that f_ptr pointed to is not closed.
CreateOpen(t) ==
    /\ At(t, "open")
    /\ \/ \E h \in Handles, p \in Paths :
             /\ target[h] = NoPath /\ \A g \in Handles : g < h => target[g] # NoPath
             /\ file' = h /\ target' = [target EXCEPT ![h] = p]
       \/ file' = NoFile /\ UNCHANGED target       \* fopen fails
    /\ Goto(t, "idle")
    /\ UNCHANGED <<ready, holder, unflushed, text, level, record, stamp, printed, bounds, clock, exiting,
                   misused, crashed>>

\* pthread_mutex_destroy and fclose.
Terminate(t) ==
    /\ At(t, "idle") /\ file # NoFile
    /\ Callers(Quiet(t) /\ ~exiting)
    /\ ready' = FALSE /\ holder' = Nobody /\ file' = NoFile
    /\ \E n \in 0..Len(unflushed[file]) : Flush(file, unflushed[file], n, <<>>)
    /\ target' = [target EXCEPT ![file] = NoPath]
    /\ UNCHANGED <<call, bounds, clock, exiting, crashed>>

\* main returns; then every FILE that is open is flushed, in no given order.
Exit(t) ==
    /\ At(t, "idle") /\ ~exiting
    /\ Callers(Quiet(t))
    /\ exiting' = TRUE
    /\ UNCHANGED <<logger, stdio, call, bounds, clock, crashed>>

FlushAtExit(h) ==
    /\ ~crashed /\ exiting /\ unflushed[h] # <<>>
    /\ \E n \in 0..Len(unflushed[h]) : Flush(h, unflushed[h], n, <<>>)
    /\ UNCHANGED <<logger, target, call, bounds, clock, exiting, misused, crashed>>

-----------------------------------------------------------------------------
\* log_debug, log_info, log_warn, log_err.

Created == file # NoFile /\ \A u \in Threads : pc[u] # "open"

\* Callers have a logger: with Misuse, maybe one that is no longer there.
Call(t) ==
    /\ At(t, "idle") /\ records < MaxRecords
    /\ Callers(Created /\ ~exiting)
    /\ records' = records + 1
    /\ record' = [record EXCEPT ![t] = records']
    /\ \E l \in Levels : level' = [level EXCEPT ![t] = l]
    /\ Goto(t, "lock")
    /\ UNCHANGED <<logger, stdio, stamp, printed, creates, clock, exiting, crashed>>

\* Mutant: trylock, its result not looked at.
TryLock == ready
Lockable == ready /\ holder = Nobody

Lock(t) ==
    /\ At(t, "lock") /\ Lockable
    /\ holder' = t
    /\ Goto(t, "time")
    /\ UNCHANGED <<ready, file, stdio, level, record, stamp, printed, bounds, clock, exiting, misused, crashed>>

\* Locking what was never initialised or is destroyed: undefined.
LockUndefined(t) == At(t, "lock") /\ ~ready /\ Abort

\* Mutant: the mutex is released as soon as the time is read.
TimeUnlocks == Nobody
HolderAfterTime == holder

\* get_current_time.  When it fails, clean_up frees a pointer never set; when
\* its malloc fails, strcpy writes through NULL.
Time(t) ==
    /\ At(t, "time")
    /\ \/ stamp' = [stamp EXCEPT ![t] = clock] /\ Goto(t, "record")
       \/ UNCHANGED stamp /\ Goto(t, "unlock")
    /\ holder' = HolderAfterTime
    /\ UNCHANGED <<ready, file, stdio, level, record, printed, bounds, clock, exiting, misused, crashed>>
TimeCrashes(t) == At(t, "time") /\ Abort

\* Mutant: the mutex is released after each line.
LineUnlocks == Nobody
HolderAfterLine == holder

\* The pieces of the n-th fprintf of a thread's record.
PrintOf(t, n) == [j \in 1..2 |-> [record |-> record[t], piece |-> 2 * n + j - 1, time |-> stamp[t]]]

\* One fprintf: into the buffer; when that is full, it goes to the file with
\* what of this print was in it.  It fails before it prints, or when the file
\* takes only a part of what is written: the rest of it is lost.
Fprintf(t, n, next, failed) ==
    /\ file # NoFile
    /\ LET pieces == unflushed[file] \o PrintOf(t, n)
           older == Len(unflushed[file]) IN
       \/ /\ \E k \in {0} \cup older..Len(pieces) :
                Flush(file, pieces, k, SubSeq(pieces, k + 1, Len(pieces)))
          /\ Goto(t, next)
       \/ /\ \E k \in 0..(Len(pieces) - 1) : Flush(file, pieces, k, <<>>)
          /\ Goto(t, failed)
       \/ UNCHANGED <<text, unflushed>> /\ Goto(t, failed)
    /\ holder' = HolderAfterLine
    /\ UNCHANGED <<ready, file, target, level, record, stamp, bounds, clock, exiting, misused, crashed>>
\* The file is gone under the record.
FprintfUndefined(t) ==
    /\ ~crashed /\ pc[t] \in {"record", "heading", "frames"} /\ file = NoFile
    /\ Abort

Record(t) ==
    /\ At(t, "record")
    /\ Fprintf(t, 0, IF level[t] = "error" THEN "heading" ELSE "unlock", "unlock")
    /\ UNCHANGED printed

\* print_stack_trace: the heading, unless there are no symbols.
Heading(t) == At(t, "heading") /\ Fprintf(t, 1, "frames", "unlock") /\ UNCHANGED printed
\* Mutant: the error path of the trace returns with the mutex held.
ReturnLocked == "idle"
CleanUp == "unlock"

NoSymbols(t) ==
    /\ At(t, "heading")
    /\ Goto(t, CleanUp)
    /\ UNCHANGED <<logger, stdio, level, record, stamp, printed, bounds, clock, exiting, misused, crashed>>

\* Mutant: one frame too many.
MoreFramesLate(n) == n <= Frames
MoreFrames(n) == n < Frames

Frame(t) ==
    /\ At(t, "frames") /\ MoreFrames(printed[t])
    /\ printed' = [printed EXCEPT ![t] = @ + 1]
    /\ Fprintf(t, 2 + printed[t], "frames", "unlock")

Unlock(t) ==
    /\ \/ At(t, "unlock")
       \/ At(t, "frames") /\ printed[t] = Frames
    /\ holder' = Nobody
    /\ Goto(t, "idle")
    /\ printed' = [printed EXCEPT ![t] = 0]
    /\ UNCHANGED <<ready, file, stdio, level, record, stamp, bounds, clock, exiting, misused, crashed>>

Tick ==
    /\ ~crashed /\ clock < MaxClock
    /\ clock' = clock + 1
    /\ UNCHANGED <<logger, stdio, call, bounds, exiting, misused, crashed>>

LogStep(t) ==
    \/ Lock(t) \/ LockUndefined(t) \/ Time(t) \/ TimeCrashes(t) \/ Record(t) \/ Heading(t)
    \/ NoSymbols(t) \/ Frame(t) \/ FprintfUndefined(t) \/ Unlock(t) \/ CreateOpen(t)
Next ==
    \/ \E t \in Threads : CreateMutex(t) \/ Terminate(t) \/ Exit(t) \/ Call(t) \/ LogStep(t)
    \/ \E h \in Handles : FlushAtExit(h)
    \/ Tick
Spec == Init /\ [][Next]_vars
\* A thread inside the library is scheduled until it returns, and a mutex that
\* is free again and again is acquired.
FairSpec == Spec /\ \A t \in Threads : WF_vars(LogStep(t)) /\ SF_vars(Lock(t))

-----------------------------------------------------------------------------
Inside == {"time", "record", "heading", "frames", "unlock"}

TypeOK ==
    /\ ready \in BOOLEAN /\ holder \in Threads \cup {Nobody} /\ file \in Handles \cup {NoFile}
    /\ target \in [Handles -> Paths \cup {NoPath}] /\ unflushed \in [Handles -> Seq(Piece)]
    /\ text \in [Paths -> Seq(Piece)]
    /\ pc \in [Threads -> Inside \cup {"idle", "open", "lock"}]
    /\ level \in [Threads -> Levels] /\ record \in [Threads -> 0..MaxRecords]
    /\ stamp \in [Threads -> 0..MaxClock] /\ printed \in [Threads -> 0..Frames]
    /\ records \in 0..MaxRecords /\ creates \in 0..MaxCreates /\ clock \in 0..MaxClock
    /\ exiting \in BOOLEAN /\ misused \in BOOLEAN /\ crashed \in BOOLEAN

\* The mutex excludes: a thread between lock and unlock is its holder, unless
\* the callers initialised or destroyed it under a record (lines 164, 184).
OneWriter == ~misused => \A t \in Threads : pc[t] \in Inside => holder = t

\* No FILE of the file, but the logger's own, has anything to add to it any more.
Settled(p) == ~misused /\ (exiting => \A h \in Handles \ {file} : target[h] # p)

\* The pieces of a record stand together in its file: a piece that is not a
\* record's first stands right behind the one before it.  A write that failed
\* cuts records short but splits none; what a FILE that create_logger left open
\* (line 174) still adds at exit may.
Whole(pieces) ==
    \A i \in 1..Len(pieces) : pieces[i].piece # 0 =>
        /\ i > 1
        /\ pieces[i - 1].record = pieces[i].record /\ pieces[i - 1].piece + 1 = pieces[i].piece
RecordsWhole == \A p \in Paths : Settled(p) => Whole(text[p])

\* Records are in the order of their times, as the time is read under the mutex:
\* again but for what a FILE left open adds at exit.
Ordered(pieces) == \A i \in 2..Len(pieces) : pieces[i - 1].time <= pieces[i].time
TimesOrdered == \A p \in Paths : Settled(p) => Ordered(text[p])

\* Every call returns: no path of the four functions keeps the mutex.
Returned(t) == pc[t] = "idle" \/ crashed \/ misused
CallsReturn == \A t \in Threads : (pc[t] = "lock") ~> Returned(t)
=============================================================================
