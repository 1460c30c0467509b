------------------------------ MODULE LogScan ------------------------------
(***************************************************************************)
(* The multi-threaded access-log scanner, src/10-threads/main.c.           *)
(*                                                                         *)
(* main() lists a directory into a linked list, starts the threads, joins  *)
(* them and prints the report.  Each thread takes file names off the list, *)
(* scans the files into two maps and a byte count of its own, and merges   *)
(* the three into the shared scan_report when the list is empty.  One      *)
(* mutex protects the list and the report.                                 *)
(*                                                                         *)
(* A number the program accumulates (bytes served, bytes per URL, hits per *)
(* referer) is represented by the bag of log lines that were added to it:  *)
(* a line lost, or added twice, is then visible whatever its size is.      *)
(* Since a line has one URL and one referer, a map from keys to numbers is *)
(* one bag too, and a key is in the map when one of its lines is.          *)
(***************************************************************************)
EXTENDS Naturals, FiniteSets, Sequences, Functions

CONSTANTS
  Threads,     \* the threads main() creates
  Files,       \* the regular files of the directory
  Log,         \* Log[f]: what the fscanf loop finds in file f, line by line
  Malformed,   \* a line fscanf does not match in full
  NoFile,      \* the NULL file name
  Nobody,      \* the owner of a free mutex
  MaxFaults    \* bound: how many calls to malloc, fopen, stat, ... may fail

\* main() takes one thread when it is asked for none.
ASSUME ThreadsAssumption == Nobody \notin Threads /\ Threads # {}
ASSUME FilesAssumption == IsFiniteSet(Files) /\ NoFile \notin Files
ASSUME LogAssumption == DOMAIN Log = Files /\ \A f \in Files : Len(Log[f]) \in Nat
ASSUME FaultsAssumption == MaxFaults \in Nat

\* The log lines: <<f, i>> is line i of file f.
Lines == UNION { {f} \X (1..Len(Log[f])) : f \in Files }

Entry(l) == Log[l[1]][l[2]]

\* The lines that fscanf matches in full, of the whole directory and of file f.
Hits == { l \in Lines : Entry(l) # Malformed }
HitsOf(f) == { l \in Hits : l[1] = f }

VARIABLES
  mutex,     \* report->mutex: the thread that holds it, or Nobody
  files,     \* report->files, head first
  report,    \* report->total_served, ->downloaded_per_url, ->referer_count
  pc,        \* where each thread is
  file,      \* the last name get_next_file_to_scan returned to the thread
  line,      \* the next line of that file
  bytes,     \* resulting_bytes of scan_file
  mine,      \* the thread's file_report
  field,     \* the field of the report that update_scan_report is at
  loaded,    \* the value of that field the thread has read
  main,      \* where main() is
  exit_code, \* exit_code of main()
  output,    \* what main() printed
  faults     \* how many calls have failed

threadVars == <<pc, file, line, bytes, mine, field, loaded>>
mainVars == <<main, exit_code, output>>
vars == <<mutex, files, report, threadVars, mainVars, faults>>

Bags == [Lines -> Nat]
Zero == [l \in Lines |-> 0]
Plus(a, b) == [l \in Lines |-> a[l] + b[l]]
AddLine(a, l) == [a EXCEPT ![l] = @ + 1]

Fields == {"served", "perUrl", "perRef"}
Reports == [Fields -> Bags]
EmptyReport == [x \in Fields |-> Zero]

\* The key of line l in the map x, and the keys a map has.
Key(x, l) == IF x = "perUrl" THEN Entry(l).url ELSE Entry(l).referer
Has(x, map, k) == \E l \in Hits : map[l] > 0 /\ Key(x, l) = k
Keys(x, map) == { Key(x, l) : l \in { h \in Hits : map[h] > 0 } }

CanFail(n) == faults + n <= MaxFaults
Fail(n) == CanFail(n) /\ faults' = faults + n

\* The report has been freed and the process has not ended yet.
Freed == main = "freed"
Running == main \notin {"freed", "exited"}

----------------------------------------------------------------------------
(* get_next_file_to_scan *)

Goto(t, from, to) == pc[t] = from /\ pc' = [pc EXCEPT ![t] = to]

\* Mutant: a thread forgets to merge what it has scanned.
AfterNullForgets(t) == "done"

\* Where a thread goes when get_next_file_to_scan returned NULL to it.
AfterNull(t) == IF file[t] = NoFile THEN "done" ELSE "update"

GetLock(t) ==
  /\ Running
  /\ mutex = Nobody
  /\ Goto(t, "get", "head")
  /\ mutex' = t
  /\ UNCHANGED <<files, report, file, line, bytes, mine, field, loaded, mainVars, faults>>

\* Mutant: the early return keeps the mutex.
ListEmptyLocked(t) ==
  /\ Running
  /\ files = <<>>
  /\ Goto(t, "head", AfterNull(t))
  /\ UNCHANGED <<mutex, files, report, file, line, bytes, mine, field, loaded, mainVars, faults>>

ListEmpty(t) ==
  /\ Running
  /\ files = <<>>
  /\ Goto(t, "head", AfterNull(t))
  /\ mutex' = Nobody
  /\ UNCHANGED <<files, report, file, line, bytes, mine, field, loaded, mainVars, faults>>

CopyName(t) ==
  /\ Running
  /\ files # <<>>
  /\ Goto(t, "head", "pop")
  /\ file' = [file EXCEPT ![t] = Head(files)]
  /\ UNCHANGED <<mutex, files, report, line, bytes, mine, field, loaded, mainVars, faults>>

\* malloc returned NULL: the function returns NULL and keeps the mutex.
CopyNameNoMemory(t) ==
  /\ Running
  /\ files # <<>>
  /\ Goto(t, "head", AfterNull(t))
  /\ Fail(1)
  /\ UNCHANGED <<mutex, files, report, file, line, bytes, mine, field, loaded, mainVars>>

PopName(t) ==
  /\ Running
  /\ Goto(t, "pop", "open")
  /\ files' = Tail(files)
  /\ mutex' = Nobody
  /\ UNCHANGED <<report, file, line, bytes, mine, field, loaded, mainVars, faults>>

----------------------------------------------------------------------------
(* scan_file, which touches nothing but the thread's own state *)

\* Mutant: resulting_bytes is not reset for the next file.
OpenFileKeepsBytes(t) ==
  /\ main # "exited"
  /\ Goto(t, "open", "scan")
  /\ line' = [line EXCEPT ![t] = 1]
  /\ UNCHANGED <<mutex, files, report, file, bytes, mine, field, loaded, mainVars, faults>>

OpenFile(t) ==
  /\ main # "exited"
  /\ Goto(t, "open", "scan")
  /\ line' = [line EXCEPT ![t] = 1]
  /\ bytes' = [bytes EXCEPT ![t] = Zero]
  /\ UNCHANGED <<mutex, files, report, file, mine, field, loaded, mainVars, faults>>

\* Mutant: the clean_up label stands before "report->bytes += resulting_bytes".
ScanFailsAdds(t) ==
  /\ main # "exited"
  /\ Goto(t, "refer", "get")
  /\ ~Has("perRef", mine[t]["perRef"], Key("perRef", <<file[t], line[t]>>))
  /\ Fail(1)
  /\ mine' = [mine EXCEPT ![t]["served"] = Plus(@, bytes[t])]
  /\ UNCHANGED <<mutex, files, report, file, line, bytes, field, loaded, mainVars>>

\* fopen, or a malloc, strdup or hashmap_put for a new key, failed: scan_file
\* returns -1, what it put into the maps stays there, its byte count is lost.
ScanFails(t) ==
  /\ main # "exited"
  /\ \/ Goto(t, "open", "get")
     \/ /\ Goto(t, "scan", "get")
        /\ line[t] <= Len(Log[file[t]])
        /\ LET l == <<file[t], line[t]>>
           IN  l \in Hits /\ ~Has("perUrl", mine[t]["perUrl"], Key("perUrl", l))
     \/ /\ Goto(t, "refer", "get")
        /\ ~Has("perRef", mine[t]["perRef"], Key("perRef", <<file[t], line[t]>>))
  /\ Fail(1)
  /\ UNCHANGED <<mutex, files, report, file, line, bytes, mine, field, loaded, mainVars>>

ScanUrl(t) ==
  LET l == <<file[t], line[t]>> IN
  /\ main # "exited"
  /\ Goto(t, "scan", "refer")
  /\ line[t] <= Len(Log[file[t]])
  /\ l \in Hits
  /\ bytes' = [bytes EXCEPT ![t] = AddLine(@, l)]
  /\ mine' = [mine EXCEPT ![t]["perUrl"] = AddLine(@, l)]
  /\ UNCHANGED <<mutex, files, report, file, line, field, loaded, mainVars, faults>>

ScanReferer(t) ==
  /\ main # "exited"
  /\ Goto(t, "refer", "scan")
  /\ mine' = [mine EXCEPT ![t]["perRef"] = AddLine(@, <<file[t], line[t]>>)]
  /\ line' = [line EXCEPT ![t] = @ + 1]
  /\ UNCHANGED <<mutex, files, report, file, bytes, field, loaded, mainVars, faults>>

\* Mutant: the loop that skips a line does not look for EOF.
SkipLinePastEnd(t) ==
  /\ main # "exited"
  /\ Goto(t, "scan", "scan")
  /\ line[t] <= Len(Log[file[t]]) + 1
  /\ <<file[t], line[t]>> \notin Hits
  /\ line' = [line EXCEPT ![t] = @ + 1]
  /\ UNCHANGED <<mutex, files, report, file, bytes, mine, field, loaded, mainVars, faults>>

SkipLine(t) ==
  /\ main # "exited"
  /\ Goto(t, "scan", "scan")
  /\ line[t] <= Len(Log[file[t]])
  /\ <<file[t], line[t]>> \notin Hits
  /\ line' = [line EXCEPT ![t] = @ + 1]
  /\ UNCHANGED <<mutex, files, report, file, bytes, mine, field, loaded, mainVars, faults>>

EndOfFile(t) ==
  /\ main # "exited"
  /\ Goto(t, "scan", "get")
  /\ line[t] > Len(Log[file[t]])
  /\ mine' = [mine EXCEPT ![t]["served"] = Plus(@, bytes[t])]
  /\ UNCHANGED <<mutex, files, report, file, line, bytes, field, loaded, mainVars, faults>>

----------------------------------------------------------------------------
(* update_scan_report and merge_maps: every "+=" reads, then writes *)

\* Mutant: update_scan_report does not wait for the mutex.
UpdateWithoutLock(t) ==
  /\ Running
  /\ Goto(t, "update", "load")
  /\ field' = [field EXCEPT ![t] = "served"]
  /\ UNCHANGED <<mutex, files, report, file, line, bytes, mine, loaded, mainVars, faults>>

UpdateLock(t) ==
  /\ Running
  /\ mutex = Nobody
  /\ Goto(t, "update", "load")
  /\ mutex' = t
  /\ field' = [field EXCEPT ![t] = "served"]
  /\ UNCHANGED <<files, report, file, line, bytes, mine, loaded, mainVars, faults>>

Load(t) ==
  /\ Running
  /\ Goto(t, "load", "store")
  /\ loaded' = [loaded EXCEPT ![t] = report[field[t]]]
  /\ UNCHANGED <<mutex, files, report, file, line, bytes, mine, field, mainVars, faults>>

\* merge_maps_call returns -1 when it cannot allocate a new entry, which
\* hashmap_iterate_pairs takes for "remove the item and go on": the entry is
\* dropped and merge_maps returns 0.
NewKeys(t, x) == Keys(x, mine[t][x]) \ Keys(x, loaded[t])
Merged(t, x, dropped) ==
  Plus(loaded[t], [l \in Lines |-> IF l \in Hits /\ Key(x, l) \in dropped
                                   THEN 0 ELSE mine[t][x][l]])

\* Mutant: the URLs are not merged.
StoreTotalOnly(t) ==
  /\ Running
  /\ field[t] = "served"
  /\ Goto(t, "store", "load")
  /\ report' = [report EXCEPT !["served"] = Plus(loaded[t], mine[t]["served"])]
  /\ field' = [field EXCEPT ![t] = "perRef"]
  /\ UNCHANGED <<mutex, files, file, line, bytes, mine, loaded, mainVars, faults>>

StoreTotal(t) ==
  /\ Running
  /\ field[t] = "served"
  /\ Goto(t, "store", "load")
  /\ report' = [report EXCEPT !["served"] = Plus(loaded[t], mine[t]["served"])]
  /\ field' = [field EXCEPT ![t] = "perUrl"]
  /\ UNCHANGED <<mutex, files, file, line, bytes, mine, loaded, mainVars, faults>>

StoreUrls(t) ==
  /\ Running
  /\ field[t] = "perUrl"
  /\ Goto(t, "store", "load")
  /\ \E dropped \in SUBSET NewKeys(t, "perUrl") :
       /\ Fail(Cardinality(dropped))
       /\ report' = [report EXCEPT !["perUrl"] = Merged(t, "perUrl", dropped)]
  /\ field' = [field EXCEPT ![t] = "perRef"]
  /\ UNCHANGED <<mutex, files, file, line, bytes, mine, loaded, mainVars>>

StoreReferers(t) ==
  /\ Running
  /\ field[t] = "perRef"
  /\ Goto(t, "store", "unlock")
  /\ \E dropped \in SUBSET NewKeys(t, "perRef") :
       /\ Fail(Cardinality(dropped))
       /\ report' = [report EXCEPT !["perRef"] = Merged(t, "perRef", dropped)]
  /\ UNCHANGED <<mutex, files, file, line, bytes, mine, field, loaded, mainVars>>

\* Unlock, then thread_func purges and destroys the thread's maps.
UpdateUnlock(t) ==
  /\ Running
  /\ Goto(t, "unlock", "done")
  /\ mutex' = Nobody
  /\ mine' = [mine EXCEPT ![t] = EmptyReport]
  /\ UNCHANGED <<files, report, file, line, bytes, field, loaded, mainVars, faults>>

\* The points at which a thread's next step reads or writes the report.
AtReport == {"get", "head", "pop", "update", "load", "store", "unlock"}

\* The report was freed under the thread: nothing is known of it any more.
TouchFreed(t) ==
  /\ Freed
  /\ pc[t] \in AtReport
  /\ pc' = [pc EXCEPT ![t] = "undefined"]
  /\ UNCHANGED <<mutex, files, report, file, line, bytes, mine, field, loaded, mainVars, faults>>

----------------------------------------------------------------------------
(* main() *)

\* add_files_to_scan: readdir returns the files in any order.
AddFile ==
  /\ main = "list"
  /\ \E f \in Files \ Range(files) : files' = <<f>> \o files
  /\ UNCHANGED <<mutex, report, threadVars, mainVars, faults>>

Listed ==
  /\ main = "list"
  /\ Range(files) = Files
  /\ main' = "create"
  /\ UNCHANGED <<mutex, files, report, threadVars, exit_code, output, faults>>

CreateThread(t) ==
  /\ main = "create"
  /\ Goto(t, "unborn", "get")
  /\ UNCHANGED <<mutex, files, report, file, line, bytes, mine, field, loaded, mainVars, faults>>

Created ==
  /\ main = "create"
  /\ \A t \in Threads : pc[t] # "unborn"
  /\ main' = "join"
  /\ UNCHANGED <<mutex, files, report, threadVars, exit_code, output, faults>>

\* opendir, stat or malloc failed while listing, pthread_create while creating,
\* or pthread_join while joining: goto clean_up.
MainFails ==
  /\ main \in {"list", "create", "join"}
  /\ Fail(1)
  /\ exit_code' = 1
  /\ main' = "cleanup"
  /\ UNCHANGED <<mutex, files, report, threadVars, output>>

\* Mutant: main() joins one thread only.
JoinOne ==
  /\ main = "join"
  /\ \E t \in Threads : pc[t] = "done"
  /\ main' = "print"
  /\ UNCHANGED <<mutex, files, report, threadVars, exit_code, output, faults>>

\* The joins of all the threads, one after the other.
Join ==
  /\ main = "join"
  /\ \A t \in Threads : pc[t] = "done"
  /\ main' = "print"
  /\ UNCHANGED <<mutex, files, report, threadVars, exit_code, output, faults>>

NonZero(bag) == \E l \in Hits : bag[l] > 0 /\ Entry(l).size > 0

PrintReport ==
  /\ main = "print"
  /\ output' = IF NonZero(report["served"]) THEN "report" ELSE "no info"
  /\ main' = "cleanup"
  /\ UNCHANGED <<mutex, files, report, threadVars, exit_code, faults>>

CleanUp ==
  /\ main = "cleanup"
  /\ main' = "freed"
  /\ UNCHANGED <<mutex, files, report, threadVars, exit_code, output, faults>>

Exit ==
  /\ main = "freed"
  /\ main' = "exited"
  /\ UNCHANGED <<mutex, files, report, threadVars, exit_code, output, faults>>

----------------------------------------------------------------------------

Init ==
  /\ mutex = Nobody
  /\ files = <<>>
  /\ report = EmptyReport
  /\ pc = [t \in Threads |-> "unborn"]
  /\ file = [t \in Threads |-> NoFile]
  /\ line = [t \in Threads |-> 1]
  /\ bytes = [t \in Threads |-> Zero]
  /\ mine = [t \in Threads |-> EmptyReport]
  /\ field = [t \in Threads |-> "served"]
  /\ loaded = [t \in Threads |-> Zero]
  /\ main = "list"
  /\ exit_code = 0
  /\ output = "nothing"
  /\ faults = 0

GetNextFile(t) ==
  GetLock(t) \/ ListEmpty(t) \/ CopyName(t) \/ CopyNameNoMemory(t) \/ PopName(t)

ScanFile(t) ==
  \/ OpenFile(t) \/ ScanFails(t) \/ ScanUrl(t) \/ ScanReferer(t)
  \/ SkipLine(t) \/ EndOfFile(t)

UpdateReport(t) ==
  \/ UpdateLock(t) \/ Load(t) \/ StoreTotal(t) \/ StoreUrls(t)
  \/ StoreReferers(t) \/ UpdateUnlock(t)

ThreadStep(t) == GetNextFile(t) \/ ScanFile(t) \/ UpdateReport(t) \/ TouchFreed(t)

MainStep ==
  \/ AddFile \/ Listed \/ Created \/ MainFails \/ Join \/ PrintReport \/ CleanUp \/ Exit
  \/ \E t \in Threads : CreateThread(t)

\* The process has ended.
Ended == main = "exited" /\ UNCHANGED vars

Next == MainStep \/ (\E t \in Threads : ThreadStep(t)) \/ Ended

Spec == Init /\ [][Next]_vars

\* main() and every thread are scheduled as long as they can run.  No call is
\* made to fail: main() may fail while it waits, so its failures are left out;
\* where a thread may fail it has another step to take.
FairSpec ==
  /\ Spec
  /\ WF_vars(MainStep /\ ~MainFails)
  /\ \A t \in Threads : WF_vars(ThreadStep(t))

----------------------------------------------------------------------------
(* Properties *)

PCs == {"unborn", "get", "head", "pop", "open", "scan", "refer", "update",
        "load", "store", "unlock", "done", "undefined"}

\* A thread in the middle of a file is on a line of it, or just past its last
\* line (scan_file stops at the end of file).
PlaceOK ==
  \A t \in Threads :
    /\ pc[t] \in {"pop", "open", "scan", "refer"} => file[t] \in Files
    /\ pc[t] = "scan" => line[t] <= Len(Log[file[t]]) + 1
    /\ pc[t] = "refer" => <<file[t], line[t]>> \in Hits

\* The values every variable may have.
TypeOK ==
  /\ mutex \in Threads \cup {Nobody}
  /\ files \in Seq(Files)
  /\ report \in Reports
  /\ pc \in [Threads -> PCs]
  /\ file \in [Threads -> Files \cup {NoFile}]
  /\ line \in [Threads -> Nat \ {0}]
  /\ bytes \in [Threads -> Bags]
  /\ mine \in [Threads -> Reports]
  /\ field \in [Threads -> Fields]
  /\ loaded \in [Threads -> Bags]
  /\ main \in {"list", "create", "join", "print", "cleanup", "freed", "exited"}
  /\ exit_code \in {0, 1}
  /\ output \in {"nothing", "report", "no info"}
  /\ faults \in 0..MaxFaults
  /\ PlaceOK

\* No log line is added twice to a number of the shared report, whichever
\* threads scan and merge at the same time, and whatever fails.
CountedOnce == \A x \in Fields, l \in Lines : report[x][l] <= 1

\* The bag has all the lines of a file, each as often, or none.
Whole(bag) == \A k, l \in Hits : k[1] = l[1] => bag[k] = bag[l]

\* total_served counts a file entirely or not at all: a scan that fails in the
\* middle of a file contributes nothing to the total.
WholeFiles == Whole(report["served"])

\* While nothing has failed, the total, the URLs and the referers agree on the
\* lines they count whenever no thread is inside update_scan_report.
ReportConsistent ==
  (faults = 0 /\ \A t \in Threads : pc[t] \notin {"load", "store"})
     => report["served"] = report["perUrl"] /\ report["served"] = report["perRef"]

\* The mutex is held by a thread that will never release it.
LockLeaked == mutex # Nobody /\ pc[mutex] \in {"done", "update"}

Missing == { f \in Files : \E l \in HitsOf(f) : report["served"][l] = 0 }

\* What main() prints after the joins has every file, but for at most one per
\* call that failed; the one failure that can cost more is the malloc of
\* get_next_file_to_scan, which stops a thread with the mutex locked.
LossBounded ==
  output # "nothing" /\ ~LockLeaked => Cardinality(Missing) <= faults

\* No thread touches the report after clean_up freed it, unless main() gave up
\* on creating or joining the threads.
SafeFree == (\E t \in Threads : pc[t] = "undefined") => exit_code = 1

\* No update of the shared report is lost: no number in it ever decreases.
ReportOnlyGrows ==
  [][\A x \in Fields, l \in Lines : report'[x][l] >= report[x][l]]_vars

\* The program ends, unless a failed malloc left the mutex locked.
Terminates == <>(main = "exited" \/ (LockLeaked /\ faults > 0))

----------------------------------------------------------------------------
(* Why no line is counted twice: the inductive invariant *)

Locked == {"head", "pop", "load", "store", "unlock"}

\* A thread inside a critical section holds the mutex, so what it has read of
\* the list and of the report is still true.
LockInv ==
  \A t \in Threads :
    /\ pc[t] \in Locked => mutex = t
    /\ pc[t] = "pop" => files # <<>> /\ file[t] = Head(files)
    /\ pc[t] = "store" => loaded[t] = report[field[t]]
    /\ pc[t] = "unborn" => mine[t] = EmptyReport

\* No file name is in the list twice.
ListInv == \A i, j \in 1..Len(files) : files[i] = files[j] => i = j

\* The thread is scanning file f.
Scanning(t, f) == pc[t] \in {"open", "scan", "refer"} /\ file[t] = f

\* Line l is before the point a thread has reached in its file.
Behind(t, l) == l[2] < line[t] \/ (pc[t] = "refer" /\ l[2] = line[t])

\* What a thread has counted of the file it is scanning: its maps have at most
\* the lines behind it, its byte count exactly those.
Counted(t, l) ==
  /\ Scanning(t, l[1]) =>
       /\ mine[t]["served"][l] = 0
       /\ mine[t]["perUrl"][l] > 0 => pc[t] # "open" /\ Behind(t, l)
       /\ mine[t]["perRef"][l] > 0 => pc[t] # "open" /\ l[2] < line[t]
  /\ pc[t] \in {"scan", "refer"} =>
       bytes[t][l] = IF l \in HitsOf(file[t]) /\ Behind(t, l) THEN 1 ELSE 0

ScanInv == \A t \in Threads, l \in Lines : Counted(t, l)

\* A file is a thread's own while the thread scans it, and then while the
\* thread's report has a line of it.
Owns(t, f) ==
  \/ Scanning(t, f)
  \/ \E l \in Lines, x \in Fields : l[1] = f /\ mine[t][x][l] > 0

\* The thread's field x has been added to the report, and is not yet purged.
Added(t, x) ==
  \/ pc[t] = "unlock"
  \/ /\ pc[t] \in {"load", "store"}
     /\ \/ field[t] = "perUrl" /\ x = "served"
        \/ field[t] = "perRef" /\ x \in {"served", "perUrl"}

\* ... or nothing is known of it, the report having been freed.
Settled(t, x) == Added(t, x) \/ pc[t] = "undefined"

\* A file that was taken off the list is of one thread only, until its lines
\* are in the report; and each line is counted at most once on the way.
OwnerInv ==
  \A t \in Threads, f \in Files :
    Owns(t, f) =>
      /\ f \notin Range(files)
      /\ \A u \in Threads : Owns(u, f) => u = t
      /\ \A x \in Fields, l \in Lines :
           l[1] = f /\ report[x][l] > 0 => Settled(t, x)

CountInv ==
  /\ \A t \in Threads, x \in Fields, l \in Lines : mine[t][x][l] <= 1
  /\ \A x \in Fields, l \in Lines :
       report[x][l] <= 1 /\ (report[x][l] > 0 => l[1] \notin Range(files))

\* The totals of the threads and of the report have whole files only.
WholeInv == WholeFiles /\ \A t \in Threads : Whole(mine[t]["served"])

\* No thread runs before the list is complete, and none is left when main() has
\* joined them; after a failure main() does not wait.
MainInv ==
  /\ main = "list" => report = EmptyReport /\ \A t \in Threads : pc[t] = "unborn"
  /\ main \in {"print", "cleanup", "freed", "exited"} =>
       exit_code = 1 \/ \A t \in Threads : pc[t] = "done"
  /\ SafeFree

Inv ==
  TypeOK /\ LockInv /\ ListInv /\ MainInv /\ ScanInv /\ OwnerInv /\ CountInv /\ WholeInv
=============================================================================
