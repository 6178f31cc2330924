--------------------------- MODULE FileDescriptor ---------------------------
(***************************************************************************)
(* eden/common/utils/FileDescriptor.cpp and Pipe.cpp (POSIX): a thread     *)
(* sends buffers through a pipe and another one receives them, each with   *)
(* one of the transfer functions.  The kernel transfers as much as it      *)
(* likes and interrupts calls.  The write end is owned by FileDescriptor   *)
(* objects that are moved, duplicated, released and closed.                *)
(*                                                                         *)
(* The bytes of a caller's buffers are numbered throughout, from 1; this   *)
(* number is also the content of a byte of the sender.                     *)
(***************************************************************************)
EXTENDS Integers, Sequences

CONSTANTS
  Objects,       \* the FileDescriptors that may own the write end
  MaxFd,         \* bound on descriptor numbers
  Capacity,      \* of the pipe
  IovMax,        \* folly::kIovMax
  SendEnds,      \* the sender's buffers: sequences of the numbers of their last bytes
  RecvEnds,      \* and the receiver's
  MaxInterrupts  \* how often a signal interrupts a call: a bound

VARIABLES
  fd,            \* object -> fd_ of the FileDescriptors of the write end
  raw,           \* a descriptor that release() has returned
  openFds,       \* the kernel's descriptors of the write end
  pipe,          \* the bytes in the pipe
  memory,        \* the receiver's memory
  sender, receiver,  \* the two calls, see Calls
  interrupts

fdVars == <<fd, raw, openFds, pipe, memory, sender, receiver, interrupts>>

kInvalid == -1
Fds == 3 .. MaxFd
Free == {n \in Fds \ openFds : \A m \in Fds \ openFds : n <= m}   \* open(2), dup(2): the lowest one

-----------------------------------------------------------------------------
(* The transfer functions *)

Vectored(function) == function \in {"readvFull", "writevFull"}
OnlyOnce(function) == function \in {"readNoInt", "writeNoInt"}

\* The bytes before the k-th buffer.
Before(ends, k) == IF k = 1 THEN 0 ELSE ends[k - 1]
Total(call) == call.ends[Len(call.ends)]

\* iov is the array as it was passed, first the element that the pointer of that name has come
\* to, and r what the last operation transferred and the loop has not dealt with.
Call(f, ends) ==
  [function |-> f, ends |-> ends, first |-> 1, r |-> 0, totalBytes |-> 0, state |-> "ready",
   iov |-> [k \in 1 .. Len(ends) |-> [base |-> Before(ends, k), len |-> ends[k] - Before(ends, k)]]]
Calls(functions, shapes) == {Call(f, ends) : f \in functions, ends \in shapes}
Single(shapes) == {ends \in shapes : Len(ends) = 1}
InCall(call) == call.state \in {"busy", "advancing"}

\* The beginning of the first buffer moves on.
\* Mutant: a buffer that is partly done begins again.
Shorten_KeepsBase(call, r) == [call EXCEPT !.iov[call.first].len = @ - r]
Shorten(call, r) == [call EXCEPT !.iov[call.first].base = @ + r, !.iov[call.first].len = @ - r]

\* wrapvFull(): one iteration of the loop that finds where to go on.  It ends when r is used
\* up, so empty buffers remain.
Advance(call) ==
  LET len == call.iov[call.first].len
      next == IF call.r >= len THEN [call EXCEPT !.r = @ - len, !.first = @ + 1]
              ELSE [Shorten(call, call.r) EXCEPT !.r = 0]
  IN IF next.first > Len(next.iov) THEN [next EXCEPT !.state = "value"]
     ELSE IF next.r = 0 THEN [next EXCEPT !.state = "busy"]
     ELSE next

\* wrapFull() and wrapvFull() after the operation has returned r.
Returned(call, r, isRead) ==
  LET counted == [call EXCEPT !.totalBytes = @ + r]
      left == call.iov[call.first].len - r
  IN IF r = 0 /\ (isRead \/ Vectored(call.function)) THEN [call EXCEPT !.state = "value"]
     ELSE IF Vectored(call.function) THEN [counted EXCEPT !.r = r, !.state = "advancing"]
     ELSE [Shorten(counted, r) EXCEPT !.state = IF OnlyOnce(call.function) \/ left = 0 THEN "value" ELSE "busy"]

\* EINTR: the operation is tried again, unless nothing is left to do.
Interrupted(call) ==
  IF Vectored(call.function) \/ call.iov[call.first].len # 0 THEN call ELSE [call EXCEPT !.state = "value"]

\* The bytes that an operation is given, and the first n of them in their order.
InWindow(call, k) ==
  k \in call.first .. Len(call.iov) /\ (Vectored(call.function) => k < call.first + IovMax)
Offered(call) ==
  {a \in 1 .. Total(call) : \E k \in 1 .. Len(call.iov) :
     InWindow(call, k) /\ call.iov[k].base < a /\ a <= call.iov[k].base + call.iov[k].len}
FirstBytes(call, n) ==
  {bytes \in [1 .. n -> Offered(call)] :
     /\ \A i, j \in 1 .. n : i < j => bytes[i] < bytes[j]
     /\ \A a \in Offered(call), i \in 1 .. n : a < bytes[i] => \E j \in 1 .. n : bytes[j] = a}

\* write(2) and writev(2): 0 bytes only when 0 were offered; the call blocks on a full pipe.
SendStep ==
  /\ sender.state = "busy"
  /\ \E n \in 0 .. Capacity - Len(pipe) : \E bytes \in FirstBytes(sender, n) :
       /\ n = 0 => Offered(sender) = {}
       /\ pipe' = pipe \o bytes
       /\ sender' = Returned(sender, n, FALSE)
  /\ UNCHANGED <<fd, raw, openFds, memory, receiver, interrupts>>

\* read(2) and readv(2): 0 bytes at the end of the file, or when 0 were asked for; the call
\* blocks while the pipe is empty and a descriptor of the write end is open.
ReceiveStep ==
  /\ receiver.state = "busy"
  /\ \E n \in 0 .. Len(pipe) : \E bytes \in FirstBytes(receiver, n) :
       /\ n = 0 => Offered(receiver) = {} \/ (pipe = <<>> /\ openFds = {})
       /\ memory' = [a \in DOMAIN memory |->
            IF \E i \in 1 .. n : bytes[i] = a THEN pipe[CHOOSE i \in 1 .. n : bytes[i] = a] ELSE memory[a]]
       /\ pipe' = SubSeq(pipe, n + 1, Len(pipe))
       /\ receiver' = Returned(receiver, n, TRUE)
  /\ UNCHANGED <<fd, raw, openFds, sender, interrupts>>

SendAdvance ==
  /\ sender.state = "advancing" /\ sender' = Advance(sender)
  /\ UNCHANGED <<fd, raw, openFds, pipe, memory, receiver, interrupts>>

ReceiveAdvance ==
  /\ receiver.state = "advancing" /\ receiver' = Advance(receiver)
  /\ UNCHANGED <<fd, raw, openFds, pipe, memory, sender, interrupts>>

Interrupt ==
  /\ interrupts < MaxInterrupts /\ interrupts' = interrupts + 1
  /\ \/ sender.state = "busy" /\ sender' = Interrupted(sender) /\ UNCHANGED receiver
     \/ receiver.state = "busy" /\ receiver' = Interrupted(receiver) /\ UNCHANGED sender
  /\ UNCHANGED <<fd, raw, openFds, pipe, memory>>

\* EIO, or EAGAIN of a descriptor that does not block: the count so far is lost.
Fails ==
  /\ \/ sender.state = "busy" /\ sender' = [sender EXCEPT !.state = "error"] /\ UNCHANGED receiver
     \/ receiver.state = "busy" /\ receiver' = [receiver EXCEPT !.state = "error"] /\ UNCHANGED sender
  /\ UNCHANGED <<fd, raw, openFds, pipe, memory, interrupts>>

StartSend ==
  /\ sender.state = "ready" /\ \E o \in Objects : fd[o] # kInvalid
  /\ sender' = [sender EXCEPT !.state = "busy"]
  /\ UNCHANGED <<fd, raw, openFds, pipe, memory, receiver, interrupts>>

StartReceive ==
  /\ receiver.state = "ready"
  /\ receiver' = [receiver EXCEPT !.state = "busy"]
  /\ UNCHANGED <<fd, raw, openFds, pipe, memory, sender, interrupts>>

-----------------------------------------------------------------------------
(* Ownership of the write end; the sender's thread does this between its calls *)

Owner == ~InCall(sender) /\ UNCHANGED <<pipe, memory, sender, receiver, interrupts>>

Close(o) ==
  /\ Owner
  /\ openFds' = openFds \ {fd[o]} /\ fd' = [fd EXCEPT ![o] = kInvalid] /\ UNCHANGED raw

\* operator=, which closes what the object had first.
Assign(to, new, movedFrom) ==
  /\ fd' = [o \in Objects |-> IF o = to THEN new ELSE IF o = movedFrom THEN kInvalid ELSE fd[o]]
  /\ openFds' = (openFds \cup {new}) \ {kInvalid, fd[to]}

\* An object that is moved to itself has closed its descriptor before it takes it.
MoveFrom(from, to) ==
  /\ Owner
  /\ Assign(to, IF from = to THEN kInvalid ELSE fd[from], from)
  /\ UNCHANGED raw

\* to = from.duplicate(): dup(2), which fails for kInvalid, and the assignment.
Duplicate(from, to) ==
  /\ Owner /\ fd[from] # kInvalid
  /\ \E copy \in Free : Assign(to, copy, "temporary")
  /\ UNCHANGED raw

Release(o) ==
  /\ Owner /\ raw = kInvalid
  /\ raw' = fd[o] /\ fd' = [fd EXCEPT ![o] = kInvalid] /\ UNCHANGED openFds

\* to = FileDescriptor(raw, ...)
Adopt(to) ==
  /\ Owner /\ raw # kInvalid
  /\ Assign(to, raw, "temporary")
  /\ raw' = kInvalid

-----------------------------------------------------------------------------
Untouched == 0

\* Pipe::Pipe()
Init ==
  /\ openFds = {3} /\ raw = kInvalid
  /\ fd = [o \in Objects |-> IF o = "pipe.write" THEN 3 ELSE kInvalid]
  /\ pipe = <<>> /\ interrupts = 0
  /\ sender \in Calls({"writeFull", "writeNoInt"}, Single(SendEnds)) \cup Calls({"writevFull"}, SendEnds)
  /\ receiver \in Calls({"readFull", "readNoInt"}, Single(RecvEnds)) \cup Calls({"readvFull"}, RecvEnds)
  /\ memory = [a \in 1 .. Total(receiver) |-> Untouched]

Next ==
  \/ StartSend \/ StartReceive \/ SendStep \/ SendAdvance \/ ReceiveStep \/ ReceiveAdvance \/ Interrupt \/ Fails
  \/ \E o \in Objects : Close(o) \/ Release(o) \/ Adopt(o) \/ (\E from \in Objects : MoveFrom(from, o) \/ Duplicate(from, o))

Spec == Init /\ [][Next]_fdVars

-----------------------------------------------------------------------------
\* As many empty buffers, one after the other, as one operation takes: readvFull() and
\* writevFull() take them for the end of the file (FileDescriptor.cpp:426-429).
EmptyRun(call) ==
  /\ Vectored(call.function)
  /\ \E k \in 1 .. Len(call.ends) - IovMax : Before(call.ends, k + IovMax) = Before(call.ends, k)

\* FileDescriptor.cpp:370-446: however the kernel cuts and interrupts the transfers, the
\* bytes arrive in order, once, and where they belong; writeFull() and writevFull() that
\* return a value have sent everything, readFull() and readvFull() stop early only at the
\* end of the file, and the ...NoInt() functions transfer something.
FullTransfers ==
  LET n == receiver.totalBytes
  IN /\ sender.totalBytes = n + Len(pipe)
     /\ \A i \in 1 .. Len(pipe) : pipe[i] = n + i
     /\ \A a \in 1 .. Total(receiver) : memory[a] = IF a <= n THEN a ELSE Untouched
     /\ sender.state = "value" /\ ~EmptyRun(sender) =>
          sender.totalBytes = Total(sender) \/ (OnlyOnce(sender.function) /\ sender.totalBytes > 0)
     /\ receiver.state = "value" /\ ~EmptyRun(receiver) =>
          \/ n = Total(receiver) \/ (OnlyOnce(receiver.function) /\ n > 0)
          \/ pipe = <<>> /\ openFds = {}

\* FileDescriptor.cpp:25-116: every open descriptor is owned by one object, or by the
\* caller of release(), and nothing owns a descriptor that is closed, so none is leaked and
\* none is closed twice (a second close could hit the next user of the number).
OwnedOnce ==
  /\ openFds = ({fd[o] : o \in Objects} \cup {raw}) \ {kInvalid}
  /\ \A o, p \in Objects : fd[o] = fd[p] /\ fd[o] # kInvalid => o = p
  /\ \A o \in Objects : fd[o] = raw => raw = kInvalid

\* FileDescriptor.cpp:25-116, 370-446: bytes arrive once and in place, and descriptors have one owner.
DescriptorsSound == FullTransfers /\ OwnedOnce
=============================================================================
