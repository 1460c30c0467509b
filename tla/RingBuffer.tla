----------------------------- MODULE RingBuffer -----------------------------
(***************************************************************************)
(* The character device ring_buffer, a kernel module:                      *)
(* src/14-module/main.c.  Tasks that share the one open file read and      *)
(* write it byte by byte under rb->lock, wipe it with an ioctl, resize it  *)
(* through sysfs, and may do so while the module is loaded and unloaded.   *)
(***************************************************************************)
EXTENDS Integers, Sequences, FiniteSets

CONSTANTS
  Tasks,          \* the tasks that use the device
  Bytes,          \* the bytes they write
  Writes,         \* what they write in one call
  ReadCounts,     \* how much they read in one call
  Sizes,          \* the sizes they ask for
  DEFAULT_SIZE,
  Blank,          \* a byte of a new buffer
  Nobody          \* the owner of a free mutex

ASSUME BlankAssumption == Blank \notin Bytes
ASSUME NobodyAssumption == Nobody \notin Tasks
ASSUME WritesAssumption == Writes \subseteq Seq(Bytes)
ASSUME ReadsAssumption == ReadCounts \subseteq Nat
ASSUME SizesAssumption == Sizes \subseteq Nat \ {0} /\ DEFAULT_SIZE \in Nat \ {0}

VARIABLES
  rb,            \* the ring buffer
  lock,          \* the owner of rb->lock
  device_mutex,  \* the device is open
  holders,       \* the tasks that hold the open file
  module,        \* how far the module is loaded or unloaded
  pc,            \* where each task is: in user space, or in its call
  call,          \* the call each task has made
  todo,          \* the bytes a call is to move: to_read, or count
  moved,         \* the bytes it has moved
  last,          \* the task that returned last, and what its call returned
  before         \* history: the ring buffer when its lock was taken

taskVars == <<pc, call, todo, moved>>
vars == <<rb, lock, device_mutex, holders, module, taskVars, last, before>>

Idle == [op |-> "none"]
Requests ==
  {[op |-> "wipe"]} \cup { [op |-> "read", count |-> n] : n \in ReadCounts }
  \cup { [op |-> "write", data |-> w] : w \in Writes }
  \cup { [op |-> "resize", size |-> n] : n \in Sizes }

\* What a call returns: a length, or an error.
Accepted == 1   \* the length of the text that was written to the attribute
ENOMEM == -12
EFAULT == -14
EBUSY == -16
EINVAL == -22
ERESTARTSYS == -512

----------------------------------------------------------------------------
(* The buffer *)

Empty(n) ==
  [buffer |-> [j \in 0..(n - 1) |-> Blank], size |-> n, head |-> 0, tail |-> 0, count |-> 0]

Take(r) == [r EXCEPT !.tail = (@ + 1) % r.size, !.count = @ - 1]

\* Mutant: head does not wrap.
AddNoWrap(r, b) ==
  [r EXCEPT !.buffer[r.head] = b, !.head = @ + 1,
            !.count = IF r.count < r.size THEN @ + 1 ELSE @]

\* Mutant: a full buffer keeps its tail.
AddKeepsTail(r, b) ==
  [r EXCEPT !.buffer[r.head] = b, !.head = (@ + 1) % r.size,
            !.count = IF r.count < r.size THEN @ + 1 ELSE @]

Add(r, b) ==
  LET written == [r EXCEPT !.buffer[r.head] = b, !.head = (@ + 1) % r.size]
  IN  IF r.count < r.size THEN [written EXCEPT !.count = @ + 1]
      ELSE [written EXCEPT !.tail = (@ + 1) % r.size]

\* What a reader would get of it.
Contents(r) == [j \in 1..r.count |-> r.buffer[(r.tail + j - 1) % r.size]]

----------------------------------------------------------------------------
(* open and release: fork() and dup() hand the open file to other tasks *)

InUser(t) == pc[t] = "user"
Answers(t, ret, data) == last' = <<t, [ret |-> ret, data |-> data]>>

\* The device can be opened from cdev_add to the start of the unloading.
Openable == module \in {"registered", "allocated", "live"}

Open(t) ==
  /\ InUser(t) /\ Openable
  /\ ~device_mutex
  /\ device_mutex' = TRUE
  /\ holders' = {t}
  /\ UNCHANGED <<rb, lock, module, taskVars, last, before>>

OpenBusy(t) ==
  /\ InUser(t) /\ Openable
  /\ device_mutex
  /\ Answers(t, EBUSY, <<>>)
  /\ UNCHANGED <<rb, lock, device_mutex, holders, module, taskVars, before>>

Share(t, u) ==
  /\ InUser(t) /\ t \in holders /\ InUser(u)
  /\ holders' = holders \cup {u}
  /\ UNCHANGED <<rb, lock, device_mutex, module, taskVars, last, before>>

\* Only the last close of the file calls rb_release.
Close(t) ==
  /\ InUser(t) /\ t \in holders
  /\ holders' = holders \ {t}
  /\ device_mutex' = (holders # {t})
  /\ UNCHANGED <<rb, lock, module, taskVars, last, before>>

----------------------------------------------------------------------------
(* Calls: each waits for rb->lock, works under it, unlocks and returns *)

Sysfs == {"resize"}
\* The attribute exists from the end of the loading until device_destroy.
SysfsExists == module \in {"live", "unloading"}

Call(t) ==
  /\ InUser(t)
  /\ \E request \in Requests :
       /\ IF request.op \in Sysfs THEN SysfsExists ELSE t \in holders
       /\ call' = [call EXCEPT ![t] = request]
  /\ pc' = [pc EXCEPT ![t] = "lock"]
  /\ UNCHANGED <<rb, lock, device_mutex, holders, module, todo, moved, last, before>>

\* Another ioctl than IOCTL_WIPE_RB, or a size that is no positive number.
Refuse(t) ==
  /\ InUser(t)
  /\ SysfsExists \/ (t \in holders /\ Openable)
  /\ Answers(t, EINVAL, <<>>)
  /\ UNCHANGED <<rb, lock, device_mutex, holders, module, taskVars, before>>

\* buffer_size_show does not take the lock.
Show(t) ==
  /\ InUser(t) /\ SysfsExists
  /\ Answers(t, rb.size, <<>>)
  /\ UNCHANGED <<rb, lock, device_mutex, holders, module, taskVars, before>>

Usable == module \in {"live", "unloading"}

ToMove(t) ==
  CASE call[t].op = "read" -> IF call[t].count < rb.count THEN call[t].count ELSE rb.count
    [] call[t].op = "write" -> Len(call[t].data)
    [] OTHER -> 0

Lock(t) ==
  /\ pc[t] = "lock" /\ Usable
  /\ lock = Nobody
  /\ lock' = t
  /\ before' = rb
  /\ pc' = [pc EXCEPT ![t] = call[t].op]
  /\ todo' = [todo EXCEPT ![t] = ToMove(t)]
  /\ UNCHANGED <<rb, device_mutex, holders, module, call, moved, last>>

Returns(t, ret, data) ==
  /\ pc' = [pc EXCEPT ![t] = "user"]
  /\ call' = [call EXCEPT ![t] = Idle]
  /\ todo' = [todo EXCEPT ![t] = 0]
  /\ moved' = [moved EXCEPT ![t] = <<>>]
  /\ Answers(t, ret, data)
  /\ UNCHANGED <<device_mutex, holders, module>>

Unlock == lock' = Nobody /\ before' = Empty(DEFAULT_SIZE)

\* Mutant: what mutex_lock_interruptible returns is not looked at.
InterruptedGoesOn(t) ==
  /\ pc[t] = "lock" /\ Usable
  /\ lock # Nobody
  /\ pc' = [pc EXCEPT ![t] = call[t].op]
  /\ todo' = [todo EXCEPT ![t] = ToMove(t)]
  /\ UNCHANGED <<rb, lock, device_mutex, holders, module, call, moved, last, before>>

\* A signal arrives while the task waits for the lock.
Interrupted(t) ==
  /\ pc[t] = "lock" /\ Usable
  /\ lock # Nobody
  /\ Returns(t, ERESTARTSYS, <<>>)
  /\ UNCHANGED <<rb, lock, before>>

\* rb is NULL, or its lock is not initialised, or all of it is freed: the same
\* for the whole module if the device is opened after init_rb failed.
Oops(t) ==
  /\ \/ pc[t] = "lock" /\ ~Usable
     \/ InUser(t) /\ module = "dangling"
  /\ pc' = [pc EXCEPT ![t] = "oops"]
  /\ UNCHANGED <<rb, lock, device_mutex, holders, module, call, todo, moved, last, before>>

Moving(t, op) == pc[t] = op /\ Len(moved[t]) < todo[t]
Moves(t, b) ==
  /\ moved' = [moved EXCEPT ![t] = Append(@, b)]
  /\ UNCHANGED <<lock, device_mutex, holders, module, pc, call, todo, last, before>>

ReadByte(t) ==
  /\ Moving(t, "read")
  /\ Moves(t, rb.buffer[rb.tail])
  /\ rb' = Take(rb)

\* Mutant: the error return does not unlock.
ReadFaultLocked(t) ==
  /\ Moving(t, "read")
  /\ Returns(t, EFAULT, moved[t])
  /\ UNCHANGED <<rb, lock, before>>

ReadFault(t) ==
  /\ Moving(t, "read")
  /\ Returns(t, EFAULT, moved[t]) /\ Unlock
  /\ UNCHANGED rb

ReadEnd(t) ==
  /\ pc[t] = "read" /\ ~Moving(t, "read")
  /\ Returns(t, todo[t], moved[t]) /\ Unlock
  /\ UNCHANGED rb

WriteByte(t) ==
  /\ Moving(t, "write")
  /\ LET b == call[t].data[Len(moved[t]) + 1]
     IN  Moves(t, b) /\ rb' = Add(rb, b)

WriteFault(t) ==
  /\ Moving(t, "write")
  /\ Returns(t, EFAULT, <<>>) /\ Unlock
  /\ UNCHANGED rb

WriteEnd(t) ==
  /\ pc[t] = "write" /\ ~Moving(t, "write")
  /\ Returns(t, todo[t], <<>>) /\ Unlock
  /\ UNCHANGED rb

Wipe(t) ==
  /\ pc[t] = "wipe"
  /\ rb' = [rb EXCEPT !.head = 0, !.tail = 0, !.count = 0]
  /\ Returns(t, 0, <<>>) /\ Unlock

Resize(t) ==
  /\ pc[t] = "resize"
  /\ rb' = Empty(call[t].size)
  /\ Returns(t, Accepted, <<>>) /\ Unlock

ResizeNoMemory(t) ==
  /\ pc[t] = "resize"
  /\ Returns(t, ENOMEM, <<>>) /\ Unlock
  /\ UNCHANGED rb

----------------------------------------------------------------------------
(* chardev_init and chardev_exit *)

Phase(from, to) ==
  /\ module = from /\ module' = to
  /\ UNCHANGED <<lock, device_mutex, holders, taskVars, last, before>>

\* From cdev_add on the device can be opened; rb is NULL yet.
Register ==
  /\ holders = {}
  /\ Phase("unloaded", "registered") \/ Phase("failed", "registered")
  /\ UNCHANGED rb

\* init_rb: the first kmalloc, and the second with mutex_init.
Allocate == Phase("registered", "allocated") /\ rb' = Empty(DEFAULT_SIZE)
Ready == Phase("allocated", "live") /\ UNCHANGED rb

\* class_create or device_create failed: cdev_del takes no open file away.
LoadFails == Phase("registered", "failed") /\ UNCHANGED rb

\* The second kmalloc failed: the device stays registered without a module.
InitRbFails == Phase("allocated", "dangling") /\ UNCHANGED rb

\* Mutant: the file operations do not name their owner.
UnloadInUse == Phase("live", "unloading") /\ UNCHANGED rb

\* An open file holds the module, which is its owner.
Unload == holders = {} /\ Phase("live", "unloading") /\ UNCHANGED rb

\* device_destroy waits for the callers of the attribute to return.
Unloaded ==
  /\ \A t \in Tasks : call[t].op \notin Sysfs
  /\ Phase("unloading", "unloaded")
  /\ UNCHANGED rb

----------------------------------------------------------------------------

Init ==
  /\ rb = Empty(DEFAULT_SIZE)
  /\ lock = Nobody
  /\ device_mutex = FALSE
  /\ holders = {}
  /\ module = "unloaded"
  /\ pc = [t \in Tasks |-> "user"]
  /\ call = [t \in Tasks |-> Idle]
  /\ todo = [t \in Tasks |-> 0]
  /\ moved = [t \in Tasks |-> <<>>]
  /\ last = <<>>
  /\ before = Empty(DEFAULT_SIZE)

User(t) ==
  \/ Open(t) \/ OpenBusy(t) \/ Close(t) \/ Call(t) \/ Refuse(t) \/ Show(t)
  \/ \E u \in Tasks : Share(t, u)

\* The steps of a call that has the lock.
Work(t) ==
  \/ ReadByte(t) \/ ReadFault(t) \/ ReadEnd(t)
  \/ WriteByte(t) \/ WriteFault(t) \/ WriteEnd(t)
  \/ Wipe(t) \/ Resize(t) \/ ResizeNoMemory(t)

LoadStep == Register \/ Allocate \/ Ready \/ LoadFails \/ InitRbFails \/ Unload \/ Unloaded

Next ==
  \/ LoadStep
  \/ \E t \in Tasks : User(t) \/ Lock(t) \/ Interrupted(t) \/ Oops(t) \/ Work(t)

Spec == Init /\ [][Next]_vars

\* A task in the kernel runs on, and a mutex is handed to its waiters in turn.
FairSpec ==
  Spec /\ \A t \in Tasks : WF_vars(Work(t)) /\ WF_vars(Oops(t)) /\ SF_vars(Lock(t))

----------------------------------------------------------------------------
(* Properties *)

Rings ==
  UNION { [buffer : [0..(n - 1) -> Bytes \cup {Blank}], size : {n},
           head : 0..(n - 1), tail : 0..(n - 1), count : 0..n] : n \in Sizes \cup {DEFAULT_SIZE} }

Calling == {"read", "write", "wipe", "resize"}

\* The values every variable may have; the ring's indices stay inside its buffer.
TypeOK ==
  /\ rb \in Rings /\ before \in Rings
  /\ lock \in Tasks \cup {Nobody}
  /\ device_mutex \in BOOLEAN
  /\ holders \subseteq Tasks
  /\ module \in {"unloaded", "registered", "allocated", "live", "unloading", "failed", "dangling"}
  /\ pc \in [Tasks -> {"user", "lock", "oops"} \cup Calling]
  /\ call \in [Tasks -> Requests \cup {Idle}]
  /\ todo \in [Tasks -> Nat]
  /\ moved \in [Tasks -> Seq(Bytes)]

\* head is count bytes after tail, and what lies between was written: no reader
\* ever gets a byte that no writer put there.
RingShape ==
  /\ rb.head = (rb.tail + rb.count) % rb.size
  /\ \A j \in 1..rb.count : Contents(rb)[j] \in Bytes

\* When a module that had finished loading is gone, no call is in progress: every
\* caller was waited for.
UnloadSafe == module = "unloaded" => \A t \in Tasks : pc[t] \in {"user", "oops"}

\* A call returns, unless it was made to a module that did not finish loading.
CallsReturn == \A t \in Tasks : pc[t] # "user" ~> pc[t] \in {"user", "oops"}

\* Every call takes effect at once, at its unlock: the bytes a read gets are
\* consecutive, those a write puts stay together, the oldest ones are dropped.
Visible == IF lock = Nobody THEN rb ELSE before
Atomic == INSTANCE AtomicRing WITH content <- Contents(Visible), size <- Visible.size
ImplementsAtomic == Atomic!Spec

----------------------------------------------------------------------------
(* Why: the inductive invariant *)

InCall(t) == pc[t] \in {"lock"} \cup Calling

\* A task works under the lock on the call it made, while the module is usable, and
\* a call comes from a task that holds the file, or through sysfs.
CallInv ==
  \A t \in Tasks :
    /\ pc[t] \in Calling => lock = t /\ pc[t] = call[t].op /\ Usable
    /\ InCall(t) => call[t] \in Requests /\ (call[t].op \in Sysfs \/ t \in holders)

\* A read in progress asks for no more than there is.
MoveInv ==
  \A t \in Tasks :
    /\ pc[t] = "read" => todo[t] - Len(moved[t]) <= rb.count
    /\ pc[t] = "write" => todo[t] = Len(call[t].data)

\* The module is not unloaded under an open file or a call of its attribute.
ModuleInv ==
  /\ module \in {"unloading", "unloaded"} => holders = {}
  /\ module = "unloaded" => \A t \in Tasks : InCall(t) => call[t].op \notin Sysfs

\* The two variables tell alike whether the device is open.
BusyWhileOpen == device_mutex <=> holders # {}

Inv ==
  TypeOK /\ RingShape /\ CallInv /\ MoveInv /\ ModuleInv /\ BusyWhileOpen
=============================================================================
