---------------------------- MODULE SerialStreams ----------------------------
(***************************************************************************)
(* The streams of a socket, SerialInputStream and SerialOutputStream, on   *)
(* top of what SerialChannel promises of the socket's read and write.      *)
(*                                                                         *)
(* A stream has one direct buffer.  A call uses it if it is large enough   *)
(* and its lock is free, and otherwise makes a buffer of its own: it never *)
(* waits for the lock.  The socket fills and empties the buffer while the  *)
(* call owns its direction of the line.                                    *)
(*                                                                         *)
(* A byte is named after the call that moves it: <<t, i>> is the i-th that *)
(* the socket gives to the read of t, or that the caller of t's write has  *)
(* passed.                                                                 *)
(***************************************************************************)
EXTENDS Integers, Sequences

CONSTANTS Threads,     \* the threads that use the streams
          NoThread,    \* "no thread"
          BufferSize,  \* BUFFER_SIZE
          Lengths      \* the lengths of the arrays that calls are given

ASSUME StreamAssumption == /\ NoThread \notin Threads
                           /\ BufferSize \in Nat \ {0}
                           /\ Lengths \subseteq Nat

VARIABLES attached, owner, moved,  \* the socket, see SerialChannel
          closed,  \* close() has begun: the calls of the socket may say so
          shared,  \* the bytes in readBuffer and writeBuffer
          lock,    \* the holders of readBufferLock and writeBufferLock
          pc, op,  \* the next statement of each thread's call, and the method
          local,   \* len, useReadBuffer or useWriteBuffer, and a buffer of its own
          result,  \* what the socket's read or write returned or threw
          bytes,   \* what a read has stored in the caller's array
          line     \* the byte the owner of the line has written last

channel == <<attached, owner, moved>>
vars    == <<channel, closed, shared, lock, pc, op, local, result, bytes, line>>

Channel == INSTANCE SerialChannel

Dir      == {"in", "out"}
ReadOps  == {"read", "readSingle"}
Ops      == ReadOps \cup {"write"}
DirOf(t) == IF op[t] \in ReadOps THEN "in" ELSE "out"

Labels   == {"idle", "tryLock", "enter", "transfer", "finish", "done"}
Outcomes == {"none", "ok", "eof", "asyncClose", "failed", "indexOutOfBounds", "runtime"}
Byte     == Threads \X (Nat \ {0})
NoLocals == [len |-> 0, shares |-> FALSE, own |-> << >>]
NoResult == [outcome |-> "none", count |-> 0]

TypeOK ==
  /\ attached \in BOOLEAN /\ closed \in BOOLEAN
  /\ owner \in [Dir -> Threads \cup {NoThread}]
  /\ moved \in [Dir -> Nat]
  /\ shared \in [Dir -> Seq(Byte)] /\ \A d \in Dir : Len(shared[d]) <= BufferSize
  /\ lock \in [Dir -> Threads \cup {NoThread}]
  /\ pc \in [Threads -> Labels]
  /\ op \in [Threads -> Ops \cup {"none"}]
  /\ local \in [Threads -> [len : Lengths \cup {0, 1}, shares : BOOLEAN, own : Seq(Byte)]]
  /\ \A t \in Threads : Len(local[t].own) <= local[t].len
  /\ result \in [Threads -> [outcome : Outcomes, count : Nat \cup {-1}]]
  /\ bytes \in [Threads -> Seq(Byte)]
  /\ line \in Byte \cup {<< >>}

Init ==
  /\ Channel!Init
  /\ closed = FALSE
  /\ shared = [d \in Dir |-> << >>]
  /\ lock = [d \in Dir |-> NoThread]
  /\ pc = [t \in Threads |-> "idle"]
  /\ op = [t \in Threads |-> "none"]
  /\ local = [t \in Threads |-> NoLocals]
  /\ result = [t \in Threads |-> NoResult]
  /\ bytes = [t \in Threads |-> << >>]
  /\ line = << >>

------------------------------------------------------------------------------
At(t, label)   == pc[t] = label
Goto(t, label) == pc' = [pc EXCEPT ![t] = label]

Least(a, b)  == IF a < b THEN a ELSE b
Named(t, n) == [i \in 1..n |-> <<t, i>>]
Buffer(t)   == IF local[t].shares THEN shared[DirOf(t)] ELSE local[t].own

\* The buffer of the call becomes the stream's or its own, and holds content.
Fill(t, shares, content) ==
  /\ shared' = IF shares THEN [shared EXCEPT ![DirOf(t)] = content] ELSE shared
  /\ local' = [local EXCEPT ![t].shares = shares,
                            ![t].own    = IF shares THEN @ ELSE content]

\* read(byte[]), read(byte[], int, int) and their write counterparts have a length;
\* read() and write(int) are given one byte.
Call(t) ==
  /\ At(t, "idle")
  /\ \E o \in Ops : \E n \in IF o = "readSingle" THEN {1} ELSE Lengths :
       /\ op' = [op EXCEPT ![t] = o]
       /\ local' = [local EXCEPT ![t].len = n]
  /\ Goto(t, "tryLock")
  /\ UNCHANGED <<channel, closed, shared, lock, result, bytes, line>>

\* Faulty: the size decides alone.
TryLockAnyway(t) ==
  /\ At(t, "tryLock")
  /\ LET shares == local[t].len <= BufferSize
     IN  /\ lock' = IF shares THEN [lock EXCEPT ![DirOf(t)] = t] ELSE lock
         /\ Fill(t, shares, IF op[t] = "write" THEN Named(t, local[t].len) ELSE << >>)
  /\ Goto(t, "enter")
  /\ UNCHANGED <<channel, closed, op, result, bytes, line>>

\* tryLock(), clear() and, to write, put() of the caller's bytes.
TryLock(t) ==
  /\ At(t, "tryLock")
  /\ LET shares == local[t].len <= BufferSize /\ lock[DirOf(t)] = NoThread
     IN  /\ lock' = IF shares THEN [lock EXCEPT ![DirOf(t)] = t] ELSE lock
         /\ Fill(t, shares, IF op[t] = "write" THEN Named(t, local[t].len) ELSE << >>)
  /\ Goto(t, "enter")
  /\ UNCHANGED <<channel, closed, op, result, bytes, line>>

\* The socket's read or write gets its monitor.
Enter(t) ==
  /\ At(t, "enter")
  /\ Channel!Claim(t, DirOf(t))
  /\ Goto(t, "transfer")
  /\ UNCHANGED <<closed, shared, lock, op, local, result, bytes, line>>

MovesOne(t) ==
  /\ At(t, "transfer")
  /\ moved' = [moved EXCEPT ![DirOf(t)] = @ + 1]
  /\ Channel!Move(t, DirOf(t))
  /\ moved[DirOf(t)] < local[t].len
  /\ UNCHANGED <<closed, lock, pc, op, result, bytes>>

\* The socket puts a byte at the position of the buffer, and takes one from it.
MoveIn(t) ==
  /\ op[t] \in ReadOps
  /\ MovesOne(t)
  /\ Fill(t, local[t].shares, Append(Buffer(t), <<t, moved["in"] + 1>>))
  /\ UNCHANGED line

MoveOut(t) ==
  /\ op[t] = "write"
  /\ MovesOne(t)
  /\ moved["out"] < Len(Buffer(t))
  /\ line' = Buffer(t)[moved["out"] + 1]
  /\ UNCHANGED <<shared, local>>

(***************************************************************************)
(* What the blocking socket answers: a read what it has when the           *)
(* inter-byte timeout ends it, and -1 when the close ends it before the    *)
(* buffer is full; a write all or an exception.  What a read has may be    *)
(* nothing: the close flushes the queue between its poll and its read(),   *)
(* which then gives 0, and the loop goes on to wait for the next byte.     *)
(***************************************************************************)
Results(t) ==
  LET n == moved[DirOf(t)]
      complete  == n = local[t].len \/ op[t] \in ReadOps
      cut       == closed /\ op[t] \in ReadOps /\ n < local[t].len
  IN  (IF complete THEN {[outcome |-> "ok", count |-> n]} ELSE {})
      \cup (IF cut THEN {[outcome |-> "ok", count |-> -1]} ELSE {})
      \cup (IF closed THEN {[outcome |-> "asyncClose", count |-> 0]} ELSE {})
      \cup {[outcome |-> "failed", count |-> 0]}

\* Faulty: the lock is given back before the bytes are taken out of the buffer.
LeaveUnlocked(t) ==
  /\ At(t, "transfer")
  /\ Channel!Yield(t, DirOf(t))
  /\ \E r \in Results(t) : result' = [result EXCEPT ![t] = r]
  /\ lock' = [d \in Dir |-> IF lock[d] = t THEN NoThread ELSE lock[d]]
  /\ line' = IF op[t] = "write" THEN << >> ELSE line
  /\ Goto(t, "finish")
  /\ UNCHANGED <<closed, shared, op, local, bytes>>

\* The socket's read or write returns or throws.
Leave(t) ==
  /\ At(t, "transfer")
  /\ Channel!Yield(t, DirOf(t))
  /\ \E r \in Results(t) : result' = [result EXCEPT ![t] = r]
  /\ line' = IF op[t] = "write" THEN << >> ELSE line
  /\ Goto(t, "finish")
  /\ UNCHANGED <<closed, shared, lock, op, local, bytes>>

\* What becomes of the socket's answer: buf.get(b, off, -1) throws, read() knows 0 and 1.
Answered(t) ==
  LET r == result[t]
  IN  CASE op[t] \in ReadOps /\ r.outcome = "asyncClose"              -> "eof"
        [] op[t] = "readSingle" /\ r.outcome = "ok" /\ r.count = 0     -> "eof"
        [] op[t] = "readSingle" /\ r.outcome = "ok" /\ r.count \notin 0..1 -> "runtime"
        [] op[t] = "read" /\ r.outcome = "ok" /\ r.count < 0           -> "indexOutOfBounds"
        [] OTHER -> r.outcome

\* The bytes below the limit that flip() sets.
Taken(t) == [i \in 1..Least(result[t].count, Len(Buffer(t))) |-> Buffer(t)[i]]

\* flip(), get() into the caller's array, and the unlock() in the `finally`.
Finish(t) ==
  /\ At(t, "finish")
  /\ result' = [result EXCEPT ![t].outcome = Answered(t)]
  /\ bytes' = [bytes EXCEPT ![t] = IF op[t] \in ReadOps /\ Answered(t) = "ok"
                                   THEN Taken(t) ELSE << >>]
  /\ lock' = [d \in Dir |-> IF lock[d] = t /\ d = DirOf(t) /\ local[t].shares
                            THEN NoThread ELSE lock[d]]
  /\ Goto(t, "done")
  /\ UNCHANGED <<channel, closed, shared, op, local, line>>

\* The caller has its answer.
Return(t) ==
  /\ At(t, "done")
  /\ Goto(t, "idle")
  /\ op' = [op EXCEPT ![t] = "none"]
  /\ local' = [local EXCEPT ![t] = NoLocals]
  /\ result' = [result EXCEPT ![t] = NoResult]
  /\ bytes' = [bytes EXCEPT ![t] = << >>]
  /\ UNCHANGED <<channel, closed, shared, lock, line>>

\* close() of either stream is that of the socket; the file is closed a little later.
Close ==
  /\ ~closed
  /\ closed' = TRUE
  /\ UNCHANGED <<channel, shared, lock, pc, op, local, result, bytes, line>>

Detach ==
  /\ closed
  /\ Channel!Detach
  /\ UNCHANGED <<closed, shared, lock, pc, op, local, result, bytes, line>>

Next == \/ \E t \in Threads : \/ Call(t) \/ TryLock(t) \/ Enter(t) \/ MoveIn(t) \/ MoveOut(t)
                              \/ Leave(t) \/ Finish(t) \/ Return(t)
        \/ Close \/ Detach

Spec == Init /\ [][Next]_vars

------------------------------------------------------------------------------
(***************************************************************************)
(* A read that succeeds stores in the caller's array the bytes that the    *)
(* socket gave to this very call, all and in order, whoever else has used  *)
(* the stream's buffer meanwhile.                                          *)
(***************************************************************************)
OwnBytesIn ==
  \A t \in Threads :
    At(t, "done") /\ op[t] \in ReadOps /\ result[t].outcome = "ok"
      => bytes[t] = Named(t, result[t].count)

(***************************************************************************)
(* While a write owns the line the bytes that go out are those its caller  *)
(* passed, each once and in order.                                         *)
(***************************************************************************)
OwnBytesOut ==
  [][moved'["out"] > moved["out"] => line' = <<owner["out"], moved'["out"]>>]_vars
=============================================================================
