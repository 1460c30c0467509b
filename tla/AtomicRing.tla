----------------------------- MODULE AtomicRing -----------------------------
(***************************************************************************)
(* What the ring_buffer device of src/14-module/main.c promises its users: *)
(* a byte stream of limited size in which every call takes effect at once, *)
(* whatever other calls are in progress.  A write that finds no room drops *)
(* the oldest bytes; a call that fails in the middle has moved a prefix.   *)
(***************************************************************************)
EXTENDS Integers, Sequences

CONSTANTS
  Tasks,         \* the tasks that call the driver
  Requests,      \* the calls they make, records with a field op
  DEFAULT_SIZE   \* the size after the module is loaded

VARIABLES
  content,   \* the bytes in the buffer, oldest first
  size,      \* how many there may be
  call,      \* the call each task has made, Idle if none
  last       \* the task that returned last, and what its call returned

vars == <<content, size, call, last>>

Idle == [op |-> "none"]

\* What a call returns: a length, or an error.
Accepted == 1   \* the length of the text that was written to the attribute
ENOMEM == -12
EFAULT == -14
EBUSY == -16
EINVAL == -22
ERESTARTSYS == -512

\* The last n bytes of s.
Newest(s, n) == IF Len(s) <= n THEN s ELSE SubSeq(s, Len(s) - n + 1, Len(s))
Oldest(s, n) == SubSeq(s, 1, n)
Dropped(s, n) == SubSeq(s, n + 1, Len(s))

Init ==
  /\ content = <<>>
  /\ size = DEFAULT_SIZE
  /\ call = [t \in Tasks |-> Idle]
  /\ last = <<>>

Begin(t) ==
  /\ call[t] = Idle
  /\ \E request \in Requests : call' = [call EXCEPT ![t] = request]
  /\ UNCHANGED <<content, size, last>>

Returns(t, answer) ==
  /\ call' = [call EXCEPT ![t] = Idle]
  /\ last' = <<t, answer>>

\* The answer of a read has the bytes that were copied to its caller.
Read(t) ==
  /\ call[t].op = "read"
  /\ \E n \in 0..Len(content) :
       /\ n <= call[t].count
       /\ content' = Dropped(content, n)
       /\ \/ /\ n = call[t].count \/ n = Len(content)
             /\ Returns(t, [ret |-> n, data |-> Oldest(content, n)])
          \/ /\ n < call[t].count /\ n < Len(content)
             /\ Returns(t, [ret |-> EFAULT, data |-> Oldest(content, n)])
  /\ UNCHANGED size

Write(t) ==
  /\ call[t].op = "write"
  /\ LET data == call[t].data IN
     \E n \in 0..Len(data) :
       /\ content' = Newest(content \o Oldest(data, n), size)
       /\ Returns(t, [ret |-> IF n = Len(data) THEN n ELSE EFAULT, data |-> <<>>])
  /\ UNCHANGED size

Wipe(t) ==
  /\ call[t].op = "wipe"
  /\ content' = <<>>
  /\ Returns(t, [ret |-> 0, data |-> <<>>])
  /\ UNCHANGED size

Resize(t) ==
  /\ call[t].op = "resize"
  /\ content' = <<>>
  /\ size' = call[t].size
  /\ Returns(t, [ret |-> Accepted, data |-> <<>>])

\* The call was interrupted while it waited, or found no memory: no effect.
Nothing(t) ==
  /\ call[t] # Idle
  /\ \E error \in {ERESTARTSYS, ENOMEM} : Returns(t, [ret |-> error, data |-> <<>>])
  /\ UNCHANGED <<content, size>>

\* A task asks for the size, or is refused before anything else.
Answer(t) ==
  /\ call[t] = Idle
  /\ \E answer \in {size, EINVAL, EBUSY} :
       last' = <<t, [ret |-> answer, data |-> <<>>]>>
  /\ UNCHANGED <<content, size, call>>

\* The module was unloaded and loaded again.
Reload ==
  /\ content' = <<>>
  /\ size' = DEFAULT_SIZE
  /\ UNCHANGED <<call, last>>

Next ==
  \/ Reload
  \/ \E t \in Tasks :
       Begin(t) \/ Read(t) \/ Write(t) \/ Wipe(t) \/ Resize(t) \/ Nothing(t) \/ Answer(t)

Spec == Init /\ [][Next]_vars
=============================================================================
