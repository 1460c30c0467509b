# A verification of otus-c-2025-09

The repository is a collection of C programs that have nothing in common but
their author: each directory under `src/` is a program (or a library, or a
kernel module) of its own.  There are no tests and no documentation besides
comments, so the code itself is the reference.  This project models the programs
whose behaviour depends on concurrency, on failures or on long sequences of
calls, checks the models with TLC and proves their main invariants with TLAPS.

## Inventory

| Part | State it keeps | Operations | How it interacts |
|---|---|---|---|
| `10-threads/main.c`, log scanner | shared list of files, shared report (total, two maps), a mutex; per thread two maps and a byte count | list a directory, take a file, scan it, merge, print, free | threads share the report under one mutex; `main` creates and joins them; uses `hashmap.h` |
| `10-threads/hashmap.h` | table of slots, size, capacity | create, put, get, remove, iterate, rehash, destroy | callbacks of the iterations; `put` and `rehash` call each other |
| `14-module`, ring buffer driver | ring (buffer, head, tail, count, size), its lock, the open mutex, the state of the module | open, release, read, write, ioctl, sysfs show/store, load, unload | any number of tasks that share the open file; sysfs callers; the kernel's module loader |
| `12-server`, file server | per worker a listening socket and an epoll set; one pipe | accept, receive, answer, shut down | workers share the port, the descriptors and the pipe; the signal handler writes to the pipe |
| `8-daemon` | configuration, listening socket | parse the configuration, fork, serve | clients of a Unix socket; other instances in the same directory |
| `7-logger` | one static logger: mutex and file | create, four levels of records, terminate | threads of the caller |
| `11-client`, telnet client | receive buffer | connect, wait for the prompt, send, receive | a remote host that cuts its text into chunks |
| `17-minesweeper` | grid, screen, name, top list | one frame: a click, keys | the player |
| `project/auth_k8s.c` | cached identity, address range, API client | the authentication hook | Postgres, the Kubernetes API, the next hook |
| `16-cube` | the decoder of `stb_image.h`: stream, bit buffer, tables, blocks, rows; the texture | load a JPEG texture, draw a cube | a file, `malloc`, OpenGL |
| `9-crc32`, `3-asm`, `1-rarjpeg`, `2-weather` | a running checksum; a linked list; a position in a file; a growing buffer | sequential algorithms | other writers of the file; curl's callback |
| `6-oop`, `15-db` | the rows of a tree; none | a walk over directories; two statements on a table | the file system; other clients of the database |
| `5-leak`, build files | none | a patch, recipes | none |

What makes each of them hard, and what would make it correct:

- **Log scanner.** Threads interleave on the list and on the report; every call to
  `malloc`, `fopen`, `stat`, `pthread_create` may fail, and the error paths are
  uneven: one keeps the mutex, one is understood by its caller as "remove and go
  on", one leaves half a file in the maps, one frees what the threads still use.
  Correct means: no line counted twice, none lost without a failure, a bounded
  loss with failures, no use of freed memory, and an end.
- **Hash map.** Removal leaves holes in probe windows; a put may rehash, and the
  rehash puts; the capacity may overflow in the middle.  Correct means: it is a
  map, whatever happens inside.
- **Ring buffer driver.** Calls move bytes one at a time and can fail at each;
  the size changes under waiting callers; the device is visible before it is
  ready and after loading has failed.  Correct means: each call takes effect at
  once, no byte is read that was not written, the lock is always given back, and
  nobody is inside a module that is gone.
- **Server.** A descriptor's number is reused by any thread as soon as it is
  closed; requests come in parts and leave in parts; one pipe, filled int by
  int, wakes every worker.
  Correct means: no event is served for a connection that is gone, every answer
  belongs to what its client sent, and every worker ends after a signal.
- **Logger.** The time and the lines of a record are written by several calls into a
  buffer of stdio, which reaches the file at any point of a line; a second
  `create_logger` forgets the first `FILE` with what it has buffered, and an early
  `terminate_logger` meets records in progress.  Correct means: records are whole and
  in the order of their times, and calls return.
- **Daemon.** A parser that takes YAML events for keys and values in turn; a socket
  that outlives its process; unchecked results of `accept`.  Correct means: the
  configuration is the file's, a restart is possible, an answer was true once.
- **Telnet client.** A prompt split between chunks, telnet commands inside it, a full
  buffer.  Correct means: nothing is sent before the prompt and nothing is lost
  from what is printed.
- **Authentication hook.** The API answers from a cache; an address changes its pod.
  Correct means: only an address that a marked pod had is authorised, and the
  next hook runs exactly for those.
- **Minesweeper.** A flood fill over cells in any state; a list of scores.
- **JPEG decoder.** A bit buffer that runs ahead into markers; coefficients that come
  a bit at a time over several scans, with corrections between new ones; failures of
  any `malloc`; sizes that may overflow.  Correct means: what an encoder put in comes
  out, and memory is freed once and never overrun, whatever is lost of the file.
- **The others.** Chunks that must not show in a checksum, a list freed exactly once, a
  search in a file of any length and a walk through it that does not look at the end,
  answers gathered from pieces, rows below their directory, a table that changes
  between a check and its use.

`PROJECT.json` lists the hazards at their lines with the properties that cover them,
or the reason why none does.

## Modules

| Module | Models | Kind |
|---|---|---|
| `LogScan` | `10-threads/main.c` | the program: `main` and the threads, one action per step between two accesses to shared state |
| `LogScanProofs` | | theorems about `LogScan` |
| `AbstractMap` | the promise of `hashmap.h` | abstract specification |
| `HashMap` | `10-threads/hashmap.h` | the table; implements `AbstractMap` |
| `HashMapProofs` | | theorems about `HashMap`, and that it implements `AbstractMap` |
| `AtomicRing` | the promise of the driver | abstract specification |
| `RingBuffer` | `14-module/main.c` | the driver; implements `AtomicRing` |
| `RingBufferProofs` | | theorems about `RingBuffer`, and that it implements `AtomicRing` |
| `FileServer` | `12-server/main.c` | `main`, the signal handler and the workers |
| `FileServerProofs` | | theorems about `FileServer` |
| `Logger` | `7-logger/logger/logger.c` | the library, stdio's buffers and the callers' threads |
| `SizeDaemon` | `8-daemon/main.c` | several instances and their clients |
| `TelnetClient` | `11-client/main.c` | the client against a host |
| `AuthHook` | `project/auth_k8s.c` | one connection; the cluster and its API are external |
| `Services` | | the server, the logger, the daemon, the telnet client and the hook: one of them per behaviour |
| `ServicesProofs` | | theorems about these programs, and about `Services` |
| `Minesweeper` | `17-minesweeper/main.c` | one action per screen and input |
| `MinesweeperProofs` | | theorems about the game |
| `Crc32`, `AsmList`, `ZipFinder`, `Weather`, `DirTree`, `ColumnStats` | `9-crc32`, `3-asm`, `1-rarjpeg`, `2-weather`, `6-oop`, `15-db` | one program each |
| `Tools` | | the game and these six: one of them per behaviour |
| `ToolsProofs` | | theorems about the six, and about `Tools` |
| `ImageStream` | `16-cube/stb_image.h`: the byte stream | any mix of the calls decoders make |
| `JpegHuffman` | tables, bit buffer, `receive` and `extend` | over streams of bytes |
| `JpegBlock` | blocks, baseline and progressive | over the tokens of an encoder |
| `JpegFile` | markers, frames, scans, restarts, memory | over whole and damaged files |
| `JpegRows`, `JpegColour` | resampling and the flip; colours | over sample values |
| `ImageSizes` | the size checks | one call |
| `Image` | | the parts of the decoder: one of them per behaviour |
| `ImageProofs` | | theorems about the stream, the sizes and the file, and about `Image` |
| `MCLogScan`, `MCHashMap`, `MCRingBuffer`, `MCServices`, `MCTools`, `MCImage` | | small values of the constants for TLC |

The programs share nothing.  So that one run can check several of them without their
product, `Services`, `Tools` and `Image` have a variable (`program`, `tool`, `part`) that
is chosen at the start, and the variables of all their programs under the names these
have in their own modules; those that the chosen program does not use stay idle, and
`Next` leaves them alone.  A behaviour is therefore one of a single program, and a
property of these modules is the conjunction of the programs' properties, each behind
the program's name.  A program that is looked at twice (the server with one worker and
with several, the game's field and its table) has two instances with other constants.

An operator whose comment begins with "Mutant:" is not part of a model: it is a
plausible mistake in the definition it stands before, and shows that a property
notices it.

### LogScan

A number that the program accumulates (bytes served, bytes per URL, hits per
referer) is a bag of the log lines that were added to it.  This keeps apart what
sums would hide: a line added twice and another one lost.  Since a line has one
URL and one referer, a map from keys to numbers is one bag as well, and a key is
in the map when one of its lines is.

`pc[t]` says where a thread is; a critical section has several steps, so that
mutual exclusion is shown and not assumed: `+=` is `Load` and `Store...`, and
taking a file is `CopyName` and `PopName`.  `scan_file` touches only the thread's
own state, its steps are the lines.  `field[t]` is the part of the report that
`update_scan_report` is at.  `main()` is one more process, with `main` its place.

Every failure of a call is a disjunct or an action of its own (`CopyNameNoMemory`,
`ScanFails`, the dropped entries of `StoreUrls` and `StoreReferers`, `MainFails`).
They are counted in `faults` and bounded by `MaxFaults`.  When `clean_up` frees the
report under running threads, what such a thread does next is undefined, and the
thread goes to `"undefined"`.  A join that fails stops `main` as a failed create does.

Not in the model: what the conversions of `fscanf` make of a text (a short line
swallows the next one, since a conversion skips newlines; `Log` is what the loop
finds), the failures before the list is made, and the layout of the printed report
(ten rows, whatever the number of entries).  A table that `calloc` did not provide
is not checked by the code and crashes the program at its first use; that
crash is in `HashMap`.

### HashMap

The recursion of `hashmap_put` and `hashmap_rehash_helper` is a stack of tables:
level 1 is the caller's map, and every rehash in progress pushes the table it
fills.  An entry is a key with its data (in the code: the pointers to the key and
the value).  The width of a hash and the length of a probe window are constants
(32 and 8 in the code), the hash function is any function.  Iterations are steps
around the callback, whose result is chosen freely.

The abstract `AbstractMap` knows only entries and calls.  `Contents` maps the stack
to it: the union of all tables.  So a rehash is invisible, and `PutFails` of the
detailed level must leave every entry in place.  That this holds is not obvious:
a put that overflows the capacity while entries are already in the new table would
lose them.  `RehashNeverNests` says why it does not: the windows of a table twice
as large always have room for what the smaller one held, so the only put that can
overflow the capacity is the caller's, before anything has moved.

`hashmap_create_ex` does not look at what `calloc` returns; `Crash` is the end.

### RingBuffer

`pc[t]` is `"user"`, `"lock"` (waiting), the name of the call (working under the
lock), or `"oops"`.  `read` and `write` move a byte a step and may fault at each.
`holders` are the tasks that share the one open file after `fork` or `dup`; the last
close releases the device.  `module` is how far `chardev_init` or `chardev_exit` is;
a device that is opened before `init_rb`, or after it failed, is used at the task's
peril (`Oops`).  An open file keeps the module loaded, because `fops.owner` is set, and
`device_destroy` waits for callers of the attribute: both are the kernel's promises.
A first `kmalloc` of `init_rb` that fails crashes the loading task; the module then
stays `"registered"` for ever, which the model allows as well.

`before` is a history variable: the ring when its lock was taken.  Through it the
refinement shows the abstract level the old contents until the unlock, and there
the whole call in one step.  `last` is what the last call returned.  `*offset` and
what `cleanup_rb` does with memory that is about to be freed are left out.

### FileServer

A request is what the parser can tell of it, whole and as far as the first segment
goes.  `fds` maps a descriptor to its connection; `accept` takes the lowest free one, so
numbers are reused at once.  A worker serves a batch of events that `epoll_wait`
returned earlier.  A signal starts a handler in some thread, which has one write for each
core to make: `owed` counts the writes that all handlers still have to make, `pipe` the
bytes that are there, and a write (`HandlerWrites`) adds `IntSize` of them between any two
steps of the workers.  A worker that saw the pipe readable takes one byte (`TakeExit`),
waits if others have taken all that was there, or is interrupted in that wait by a signal
that its own thread handles (`ReadInterrupted`), as the handlers are installed without
`SA_RESTART`; either way it leaves.  `Entries` is what the names stand for at first.  A peer
may leave before it is answered, and a write to it then kills the process, since
`SIGPIPE` is not ignored (`Write`).

Client events behave alike edge- or level-triggered, because the connection is closed
after the first whatever it brings; for that reason the pipe's `ONESHOT` has no state
either.  `Cores` is at most eight, the size of `worker_data` (line 217; one worker per
core is started, unchecked).  `AnswerFits` excludes two answers whose constants are
wrong: the 500 announces 21 bytes and sends 23, and the unparsed 400 is cut at 25.
Lines 131-134 cannot be reached.

### Logger, SizeDaemon, TelnetClient, AuthHook

`Logger` lets its callers do what the library cannot see: create twice, terminate
early, or exit under a record.  `misused` remembers a call out of order, and the order of
records is promised without it only.  A `FILE` is a number with the file it writes to
(`target`) and its buffer (`unflushed`): `Fprintf` appends to the buffer and moves any part
of it to the file, as a buffer of 4096 bytes would at some record, and a failing write
loses the rest.  A print is two pieces, so that the end of a buffer may cut it.  A second
`create_logger` over an open logger is no misuse, but its `FILE` is forgotten open: its
buffer reaches the file at exit (`FlushAtExit`), behind newer records.  `Settled` excludes
the files that another `FILE` had open.  An undefined lock or a `fprintf` to a closed file
has its own actions.

`SizeDaemon` has several instances because one may be killed and leave its name; a
second one unlinks the first one's name and displaces it (the test `listen() == 1`
never holds).  The configuration parser is a machine over events.  The buffer of 100
bytes for the message and the lengths of names are left out.

`TelnetClient` has a stream that arrives in chunks of any length.  `from` and `AwaitPrompt`
translate the search with its skips; `PromptRecognised` and `PromptAwaited` say when it is
exact: not when a copy of the prompt's first character comes before it.

`AuthHook` is one connection, since Postgres forks a process for each.  The list of
pods is as old as `resourceVersion=0` allows (`known` follows `cluster` late).  The memory
of the list that is not freed on two paths has no consequence in the model.

### Minesweeper and the small programs

A frame's inputs are the mouse position with its button and any set of keys.  Left out:
drawing, the count of flags shown, the status bar (which shows the last won time after
a loss, line 310), and the letters of a name (`name[10]` is filled to its end by the
first preset, line 34).

`ZipFinder` has archives behind pictures and any short files.  The result of `fread` is
not looked at (lines 34-51): what a turn of the list does not read keeps the value of the
turn before (`held`), and in the first turn whatever the stack holds (`Unset`).  So a walk
that starts inside the file and is led past its end finds the last signature again and
again and prints for ever; `EndsInFile` says that a list which ends after a name has ended
inside the file, and `WalkAdvances` that every turn passes a header.  `MaxNames` bounds the
turns.  The terminating zero one past the array (line 53) is not modelled.  `ZipAssumption`
excludes archives whose directory is as long as the signature reads (a false record would
start one cell behind the true one) and those longer than `Wrap`, the 32 bits of
`cdrOffset`.

In `DirTree` the result of the enumeration is `exit_status`, which `main` computes and does
not return (lines 125, 153); rows of the entries of the root stand beside its row and not
below it (lines 122-124).  A second error that GLib would set over a first is left out.

`ColumnStats` lets other clients write between the two statements, and a statement fail
by itself.  PostgreSQL's check ends the program then; SQLite's is skipped, since any
result but a row passes (`CheckStumbles`, line 101); the second one's failure is noticed
by neither (`silent`).  `trouble` counts these failures, and the properties name them
beside changes as the only causes.  The dispersion may be off by `Rounding` either way,
so that one near zero may be negative.

### The JPEG decoder

Each module takes for granted what the one before it shows.  `ImageStream` delivers
bytes; `JpegHuffman` makes symbols and values of bytes; `JpegBlock` makes coefficients of
symbols, which are tokens there; `JpegFile` makes a sequence of blocks of a sequence of
markers, bodies and blocks, and knows of the bit buffer only that it may have taken up
to `Ahead` blocks when it meets a marker; `JpegRows` and `JpegColour` make pixels of samples.

The encoders against which the decoder is checked are in the initial states: in
`JpegBlock`, the tokens of any coefficients under a script of scans, with every choice an
encoder has (how long a run of empty blocks is); in `JpegFile`, files as `MCImage`
composes them, whole, cut anywhere, or with one token turned to junk, while any one
`malloc` may fail.

The widths are constants.  Between 16-bit codes with an 8-bit byte and 4-bit codes
with a 2-bit byte nothing changes but the number of cases; stuffing, fill bytes,
markers and the accelerated prefix are all there.

What the code does and the properties exclude: the symbol numbered 255, if its code
is short, is taken for the mark of a prefix that is not accelerated and is not decoded
(lines 2034-2044); the test at 1001 lets a negative first term pass, and the one
at 1080-1081 is wrong for a negative factor (no caller has either); a rewind is promised
for the first buffer only, while the fill bytes of `get_marker` are unlimited; a segment
that is refused behind the frame ends the image with success (line 3440, where the
comment at 3428 expects a refusal), and a progressive image is then shown from memory
that was never written; the second-last pixel of a row that is stretched to twice its
width (`Misweighed`, line 3494; `ImageRows` shows it).

`ImageStream` has no read errors: `fread` gives what the file holds.  A failing read would
look like the end of the file.

## Runs

| Run | Bounds | Distinct states | Shows |
|---|---|---|---|
| `LogScanFaults` | 2 threads, 2 files of 2 lines sharing keys, 2 failures | 15,446 | the safety properties |
| `LogScanLive` | 2 threads, 3 files, at most 1 failure | 37,358 | termination, but for a leaked mutex |
| `HashMapCollide` | 4 keys, 3 of one hash, 2 data, width 5, window 2 | 29,525 | the map, to the overflow of the capacity; that calls return |
| `HashMapNear` | 6 keys, neighbouring homes, width 5, window 3 | 172,201 | windows and rehashes that nearly do not fit |
| `HashMapDoc` | 3 keys of one hash, width 5, window 2 | violation | the documented result of `hashmap_iterate` |
| `RingBufferCalls` | 2 tasks, sizes 1, 2 and 3, writes of 1 and 3 bytes | 1,079,496 | the driver, and that its calls are atomic |
| `RingBufferLive` | 2 tasks, sizes 1 and 2 | 58,929 | calls return |
| `Services` | see below | 4,312,604 | safety of the programs that talk to others |
| `ServicesLive` | see below | 72,266 | that they proceed |
| `Tools` | see below | 1,580,000 | the programs that work alone |
| `Image` | see below | 1,757,934 | the JPEG decoder |
| `ImageRows` | `rows` of `Image` | violation | the interpolation that a comment promises |

No run takes longer than three minutes with two workers.

The instances of `Services`, `Tools` and `Image`, with their share of the states:

| Program | Instance | States |
|---|---|---|
| `serve` | 1 worker, 1 client, a good request and one per refusal, every entry, a file of 1 or 3 pieces | 7,240 |
| `race` | 2 workers, 2 clients, 2 descriptors, 2 signals, a file or none | 1,038,022 |
| `log` | 2 threads, 2 paths, 2 records, 2 creations, misuse | 631,712 |
| `daemon` | 2 instances, 1 client, 5 documents, kills | 97,712 |
| `client` | every banner of up to 4 bytes, the prompt whole, cut and doubled; every answer of up to 5 bytes, a buffer of 5 | 99,882 |
| `hook` | 2 pods that change twice; every CIDR of 2 bits | 2,438,036 |
| `field`, `scores` | 3 by 3 cells with 1 or 2 mines; 3 places and 2 new scores | 167,878 |
| `checksum` | every file of up to 6 chars of 2 bits, 4-bit checksum, chunks of 5 | 632,788 |
| `list`, `weather` | the program's numbers; answers of 4 bytes | 3,350 |
| `zip` | archives of 2 files; every file of up to 5 cells | 502,834 |
| `tree` | 4 entries, in every tree | 255,603 |
| `columns` | 3 rows, 2 changes | 19,097 |
| `stream` | buffer of 3, images of up to 7 bytes, 4 calls | 68,000 |
| `huffman` | codes of up to 4 bits, 2-bit bytes, an 8-bit buffer, prefixes of 3 bits | 88,500 |
| `sizes` | 4-bit ints, with every pair, triple and quadruple of 14 values | 160,000 |
| `block` | 2 or 3 blocks of 5 coefficients, baseline and 2 progressive scripts | 431,000 |
| `file` | 1 and 3 components of different factors, restarts every 0 to 3 MCUs, 2 by 2 blocks | 146,000 |
| `rows` | images from 1 by 1 to 4 by 4, all factors of the code's cases | 682,000 |
| `colour` | 5 values of every sample, all component counts and transforms | 181,000 |

Why the bounds suffice: two threads are enough for every race on a list and a
report that one mutex protects, and the proofs remove the bound.  Two failures
allow one to happen in the consequence of another.  A window of two with three
keys of one hash reaches what nine such keys reach in the code's window of eight.
Sizes from one to three with writes of three bytes wrap the ring within a call,
overwrite within a call, and fill a buffer exactly.

A server of two workers with two descriptors for two clients reuses a number in the same
batch of events, and one whose first byte goes to the other worker waits in its read for
the handler's second write.  There an int has one byte: with two workers this is the case
of five to eight cores and four bytes, in which the first write is too little for all of
them.  Two records and two creations let a second logger open under a record of the first,
and the first one's buffer be flushed behind it.  Every document, banner, answer, tree and
file of a small size is taken where the question is about data.  A mask of two bits has
the two ends and a middle.  Four entries make a tree of depth four.  A bit buffer of four
bytes with codes of two bytes fills twice in a stream of three.  Two scans below the first
bit correct and add in one block, and runs of up to three blocks are ended by the count
and by the scan.

Deadlock is checked in the runs of `HashMap`, where callers never stop, and in those of
`Services`, where the server and the telnet client may stop only at their ends, and
`MayStop` lists the others.  `LogScanFaults` and `LogScanLive` do stop when a failed
`malloc` leaves the mutex locked, and the driver's tasks do when all of them died in an
oops; the programs of `Tools` and `Image` come to an end.

### Fairness

- `LogScan`: weak fairness of `main` and of every thread, which the scheduler gives;
  a mutex is free again after each critical section and the threads take it a
  bounded number of times, so weak fairness is enough.  Failures are never forced.
- `HashMap`: weak fairness of the steps of a running call: it is sequential code.
  Callers need not call, and a callback may return anything.
- `RingBuffer`: weak fairness of a task that works in the kernel; strong fairness of
  getting the lock, since a kernel mutex hands the lock to its waiters in turn.
  Nothing is assumed of users, of signals, or of loading and unloading.
- `FileServer`: weak fairness of `main`, of each worker and of the handler's writes: they
  run, and `epoll_wait` returns what is ready.  Clients and signals are free.
- `Logger`: weak fairness of a thread inside the library, strong fairness of its lock.
- `SizeDaemon`: weak fairness of the loop; strong fairness of `accept`, which may fail any
  number of times and not for ever.
- `TelnetClient`: weak fairness of the program; and the host closes in the end, since
  nothing else ends the wait for a prompt that was missed.

`MCServices` states these conditions again for the program that runs, because a fairness
condition of an instance would be about variables that another program has.

## What is proved

All theorems hold for every value of the constants under the `ASSUME`s of the
modules: any finite directory with any lines, any set of threads, any number of
failures; any tasks, any sizes that are positive, any writes; any workers, clients,
descriptors, requests and signals; any documents, banners, trees, tables and files.

`LogScanProofs`: `TypeOK`, `CountedOnce`, `WholeFiles`, `SafeFree`, `ReportOnlyGrows`,
`ReportConsistent` and `LossBounded`.  None but the first is inductive.  The argument for
what is not counted twice:

1. `LockInv`: a thread inside a critical section holds the mutex.  Hence what it
   read there is still true when it writes: the head of the list when it pops,
   the field when it stores.
2. `ListInv` and `OwnerInv`: no name is in the list twice, and a file that left the
   list is of one thread, first while the thread scans it, then while a line of
   it is in the thread's report; only fields already `Added` may show it.
3. `ScanInv`: in the middle of a file the thread's maps have at most the lines
   behind it and its byte count has exactly those.  So a line is added to the maps
   once, and a scan that fails leaves the total whole.
4. `CountInv`: so each line is counted at most once on its way, and `WholeInv`.
5. `MainInv`: after the joins every thread is done, so none is left to touch the
   freed report, unless `main` failed.

For what is not lost, the other direction (`Truth`, on top of the first invariant):

6. `BalanceInv` and `AgreeInv`: while nothing has failed, the bytes and the two maps agree in
   every thread's report, and in the shared one but for the fields that the thread under
   the mutex has already added; so they agree whenever no thread is there.
7. `LostInv` and `MergedInv`: a file that is neither in the list nor in a thread's hands,
   and of which the shared report lacks a line, was lost by a failed call, and each failed
   call lost one at most; `main` prints when all threads have merged.  The one exception
   is the `malloc` of `get_next_file_to_scan` that leaves the mutex locked, after which
   nobody merges.

`ThreadsAssumption` has `Threads # {}`, because `main` takes one thread when it is asked
for none (lines 469-472).

`RingBufferProofs`: `TypeOK`, `RingShape`, `UnloadSafe` and `ImplementsAtomic`. The lemmas
on `Mod` carry the arithmetic of positions; `AddShaped`, `TakeShaped`, `WipeShaped` and
`EmptyShaped` say that every operation leaves a well-formed ring.  `RingShape` alone is
not inductive: a read must not go on longer than there are bytes, which `MoveInv` says,
and `MoveInv` needs that nobody else is at work, which is `CallInv` (a working task owns
the lock and the module is usable). `UnloadSafe` needs `ModuleInv`: without open files and
attribute calls nobody is in a call.

The refinement sees the ring as the sequence of its bytes from the tail on: adding a byte
appends one and drops the first if the ring is full, taking one removes the first.
`HeldInv` says that a taken lock has a call at work, so the abstract level is shown `before`
during calls only, and `ProgressInv` what the call has done so far to that sequence.  The
abstract step happens at the unlock, with the whole of it; all steps before map to stutters.

`HashMapProofs`: `TypeOK`, `SizeExact`, `InWindow`, `NoDuplicates`, `RehashNeverNests` and
`ImplementsMap`, for any hash of any width, any length of the probe window and any keys
and data.  `NullAssumption` says that NULL is no key, and `PowersAssumption` states two
laws of the powers of two, which the prover does not know and TLC evaluates.  The first
four are not inductive alone: a removal clears the slot that it found, so a key must have
no second one, and a rehash stores an element in a table where nobody looked for its key.
The invariant `IInv` therefore has `GoodStack`: every table is well formed, the element
that is being moved is still in the old table and its key not yet in the new one, no key
is in two tables, and the n-th table of the stack has at least 2^(n-1) places, which
bounds the recursion by the width of a hash.

For `RehashNeverNests`, `RehashInv` says where the elements of the new table came from:
each from a slot of the old one below the next to move (`CameFrom`), no two from the same;
and that between its home and its slot no element has passed a free slot (`NoGaps`).  If an
element met a full window, then the run of full slots around it would hold more elements than
the slots of the old table they can have come from (`NewHasSlot`, by counting).

`ImplementsMap` is the whole abstract specification, with its initial states and each action.
`CallInv` says that an iteration has shown the keys of exactly the slots it passed, and that a
rehash has left no element below the next one to move.  A rehash is a stutter: what the two
tables hold together stays the same.  A put that fails drops all tables but the first; that
this loses nothing follows from `RehashNeverNests`, because then no rehash is in progress.

`FileServerProofs`: `TypeOK`, `PipeSuffices`, `DescriptorsKept`, `AnswerFits` and
`AnsweredOnce`.  The server has no lock: what keeps its workers apart is who knows which
descriptor.  `HeldInv` says it: the descriptors a worker may use (`Held`: in its epoll
set, in hand, or in its batch) are open and of no other worker, the one it serves is out
of its batch, and it leaves the epoll set before it is closed.  So a number that `accept`
reuses is in nobody's batch.  `ConnInv` and `BacklogInv` say that a connection is in one
place at a time: a backlog, or one descriptor; hence `AnsweredOnce`, and with `AskedInv`
(what a worker read is of the client whose descriptor it serves) `AnswerFits`.
`PipeSuffices` of `Services` has two parts here.  `PipeCovers`: after a signal the pipe
has or will have a byte (`Due`: those there, and `IntSize` for each write that is owed)
for every worker that still runs.  `ReadsReturn`: a worker that waits in `read` waits for
a write that is owed.  A worker that takes a byte ends, a handler's writes make at least
one due for each worker (`EnterDue`), and a write moves bytes from what is owed to what is
there (`WriteDue`). `StartInv` says that no worker runs before it was created or after its
end. `ServerAssumption` says that a client sends some request of the list and that at most
as many cores are used as the array has places; the rest of it keeps apart the values the
model uses.

`ServicesProofs` proves the logger, the daemon, the telnet client and the hook, each from its
own inductive invariant, and then the properties of `Services`.

- *Logger* (`OneWriter`, `RecordsWhole`, `TimesOrdered`; `LogInv`).  `OrderInv` is the
  promise of the callers while nothing was misused: a logger is created while nobody is in
  a call, so whoever is in one has the `FILE`, and exactly the holder of the mutex is
  between lock and unlock.  What a record means is not in the file alone: `Stream` is what
  the file has and what the current `FILE` will add to it, so a flush of any part changes
  nothing.  `TailInv`: the last piece of the stream is the one that the holder printed
  last, so the next goes behind it; `FrameInv` counts the frames.  `ClockInv` and
  `StampInv`: what is printed is no younger than the time in the holder's hands, since it
  was read under the mutex.  `TextInv` says that every settled file, and what it will
  become, is whole and in order.
- *Daemon* (`ConfigRead`, `StaleNameNoObstacle`, `FreshAnswer`, `ClosedAnswered`;
  `DaemonInv`). `ReadInv` says what the parser holds after any number of events: the state
  that the parity of the events gives, and behind each key the value of its last
  occurrence so far.  No induction over the document is needed, because the parser itself
  is the induction: each of its steps is a step of the specification.  `NameInv`: between
  an instance's unlink and its bind the name is free, or of another instance that has
  bound it since.  `WindowInv` and `HandInv`: what the file is now is in the window of
  everybody who has connected, and what an instance is about to write was the file while
  its client was in hand.
- *Telnet client* (`PromptRecognised`, `PromptAwaited`, `PrintedFaithfully`; `ClientInv`).
  The search is a recursive function; that it finds a prompt that is there, and nothing
  else, is shown for the least place at which it would not.  `BufferInv` says what the
  buffer holds at each line.
- *Hook* (`VerifiedByPod`).  `MarksInv`: whatever an old list still says of a pod with the
  mark, the address was that pod's.  `CachesInv`: the network and the mask that outlive a
  call are those of the CIDR, which has not changed since.  The comparison under a mask is
  one of quotients by a power of two (`MaskCompares`); the assumption on `And` says so,
  and TLC evaluates it for `&` of `Bitwise`.

`MinesweeperProofs`: `GameFair`.  The flood fill is the smallest set that is closed under "the
neighbours of a cell without mines around it"; `FieldInv` says so of the open cells.
`TableInv` counts, for every time, the places of the table above it: as many as
there were entries above it, up to the table's length.  So it holds the best ones, in order.

`ToolsProofs`, one invariant per program, and the properties of `Tools`:

- *List*: `HeapHas` says which cells are there and where they point, for each phase of the
  program, until it ends or has followed a bad pointer (`lost`).
- *Column*: the identity between the three sums and the squares of the distances
  (`Variance`), within the rounding, and `CheckedInv` for what a check that went well implies.
- *Tree*: `RowInv`, `CallInv` and `CompleteInv`: each call on the stack has its
  directory's row, and what has no row yet is still in front of a call, or has a reason.
- *Weather*: `ResponseInv` and `RowsInv`: the buffer is a prefix of the answer, with room for
  the end, and the rows are the hours looked at so far.
- *Zip*: `Places` says where the records of an archive are, `Walked` that the list is at
  one of them, and `Room` what holds in any file, whole or not: every name has taken a
  header.
- *Checksum*: the register after any number of bits is the remainder of dividing the
  message by the polynomial, bit by bit (`RemainderIs`); `CrcInv` says how far the chunks are.

`ImageProofs`: `StreamExact`, `SizesExact` and the memory of `JpegFile`, and with them
`StreamExact` and `MemoryKept` of `Image`.

- *Stream*, for a buffer and images of any length and counts of any size.  `Sound` is the
  invariant: the buffer holds the bytes from the reader's position to the file's
  (`MoreAt`), or nothing is left and the buffer ends in the zero byte that stands for it
  (`EndAt`); an image in memory is its own buffer (`MemoryAt`).  A rewind only moves the
  indices, so it finds the first bytes again only if the file has not been read on since
  (`FirstKept`): that is the condition in the property.  Each call has a lemma that it
  returns the bytes at the position and leaves the stream sound behind them.  The proof
  needs that no test accepts an empty image, which is true of the code: `stbi__getn` would
  hand out the zero byte of an empty file as if it had been read.
- *Sizes*, for ints and shorts of any width.  `QuotientBounds` turns
  the comparison with a quotient into one of products; the lemmas of each check build on
  the one before, since a chain of checks allows no product that a later one computes in
  an overflowed int.
- *Memory* (`MemoryInv`), for any file of tokens and any failing `malloc`: `Phase` says at
  each place of the program which buffers there are, and that a block to come lies inside
  the plane of its component, from the sampling factors and the rounding of the planes'
  sizes.

The theorems about `Services`, `Tools` and `Image` follow from those of the programs: a
program that is chosen is not left (`ProgramFixed`), and a step of the composition is one
of the chosen program's or leaves its variables alone.  Data is recursive in several
places, and the provers have no induction over it: such a lemma takes the least number for
which its claim would fail (`Least`, from the well-foundedness of `<`), and that a
recursive function exists is a lemma of its own (`SumsExist`, `OddsExist`, `JoinsExist`).

Only model-checked: the liveness properties (fairness and `ENABLED` are out of the
prover's reach), and of the decoder `CodesDecoded`, `PictureRestored` and `FileDecoded`: what
`JpegHuffman`, `JpegBlock`, `JpegRows` and `JpegColour` compute, which recursive operators
define, and which blocks the scans of `JpegFile` give.

## What disagrees with the documentation

`hashmap.h:228-229` says that `hashmap_iterate` returns non-zero if the callback
returned non-zero.  Line 460 is `if (!f(...)) return 1`: it stops when the callback
returned zero, and goes on otherwise (`HashMapDoc`).  `hashmap_iterate_pairs` is
documented to return the callback's positive value; it returns 1 for it, which
differs by a value only and is not checked.

`stb_image.h:1926` says that upsampled channels are bilinearly interpolated.  Line 3494
gives the second-last pixel of a row that is stretched to twice its width the weights 3
for `input[w-2]` and 1 for `input[w-1]`; it lies in the last sample, and its weights are
the other way round, as `stbi__resample_row_hv_2` has them (`ImageRows`).  The samples 0,
10 give 0, 3, 3, 10 instead of 0, 3, 8, 10.  This happens with components that are halved
in width only.

Two comments are not what happens, without a run of their own.  `stb_image.h:3428` says that a
file which ends without a marker makes the load fail; line 3440 returns success.
`1-rarjpeg/main.c:39` says that the list ends if a signature is not where it was supposed to
be; at the end of the file line 36 leaves the old signature there and the list goes on.

## Hazards outside the list

`PROJECT.json` has the hazards that matter most.  Others, at their lines, with no property:

- `10-threads/main.c:142` names are taken off one list by several threads (`CountedOnce`,
  `LossBounded`); `214` a short line makes `fscanf` take the next one's beginning (not
  modelled); `431` the report prints ten rows whatever there are (not modelled).
- `10-threads/hashmap.h:345` a put and a rehash call each other, `687` the capacity
  overflows (`RehashNeverNests`, `ImplementsMap`); `483` the size after a removal in an
  iteration (`SizeExact`); `323` an unchecked `calloc` (`Crash`).
- `12-server/main.c:217` more than eight cores write past `data` (assumed away).
- `8-daemon/main.c:102` the configuration is allocated without being cleared (in
  `SizeDaemon`), and its message has room for 100 bytes (not modelled).
- `17-minesweeper/main.c:310`, `34`, `1-rarjpeg/main.c:53`, `6-oop/main.c:153`: see the
  modules above.

## Plan

Done, in this order: `LogScan` (the core: real threads, real failures), `HashMap`
with `AbstractMap` (what `LogScan` stands on), `RingBuffer` with `AtomicRing`, the servers
and clients (`Services`), the small programs (`Tools`), and the decoder (`Image`).

## Not modelled

- `16-cube`: the inverse DCT and the SIMD forms of loops are arithmetic of 64 numbers;
  the other formats that `stb_image.h` reads are never loaded by `main.c`, which has one
  JPEG file; drawing is OpenGL.
- `15-db`: the maximum and the minimum of a column, which SQL computes.
- `5-leak` is a patch of a program that is not here; Makefiles, the container image and the
  manifests have no behaviour.
- In the programs that are modelled: layout of what is printed, logging, drawing, the
  lengths of names, and what libraries do inside (curl, json-c, libyaml, GLib, the
  databases, the kernel), which is modelled from its use and marked external.
