--------------------------- MODULE SerialStreamsProofs ---------------------------
(*****************************************************************************)
(* Proofs about SerialStreams, for any threads, any size of the streams'     *)
(* buffers and any lengths of the callers' arrays.                           *)
(*                                                                           *)
(* Everything rests on one inductive invariant: what the buffer of a call    *)
(* holds at each of its statements (ContentInv), which needs that a shared   *)
(* buffer belongs to the call that has its lock (LockInv) and that the       *)
(* socket moves bytes for the owner of the line only (OwnerInv).             *)
(*****************************************************************************)
EXTENDS SerialStreams, SequenceTheorems, TLAPS

\* A call of t has the buffer it was given in tryLock().
HasBuffer(t) == pc[t] \in {"enter", "transfer", "finish"}

\* The lock of a stream's buffer is with the call that shares it.
LockInv ==
  \A t \in Threads, d \in Dir :
    lock[d] = t <=> HasBuffer(t) /\ local[t].shares /\ DirOf(t) = d

\* The line is owned by the call that is inside the socket's read or write.
OwnerInv ==
  /\ \A t \in Threads, d \in Dir : owner[d] = t <=> At(t, "transfer") /\ DirOf(t) = d
  /\ \A d \in Dir : owner[d] = NoThread => moved[d] = 0

\* What the socket has moved for the call of t, and put into its buffer.
Content(t) == IF op[t] = "write" THEN Named(t, local[t].len)
              ELSE IF At(t, "transfer") THEN Named(t, moved["in"]) ELSE << >>

\* The answer of the socket's read and what is in the buffer then.
ReadAnswer(t) ==
  result[t].outcome = "ok" =>
    \/ result[t].count = -1
    \/ /\ result[t].count \in 0..local[t].len
       /\ Buffer(t) = Named(t, result[t].count)

\* What is true of a call at each of its statements.
Good(t) ==
  /\ op[t] = "none" <=> At(t, "idle")
  /\ op[t] = "readSingle" /\ ~At(t, "done") => local[t].len = 1
  /\ At(t, "tryLock") => ~local[t].shares /\ local[t].own = << >>
  /\ At(t, "idle") => local[t] = NoLocals
  /\ pc[t] \in {"enter", "transfer"} => Buffer(t) = Content(t)
  /\ At(t, "transfer") => moved[DirOf(t)] <= local[t].len
  /\ HasBuffer(t) /\ local[t].shares => local[t].len <= BufferSize
  /\ pc[t] \notin {"finish", "done"} => result[t] = NoResult
  /\ At(t, "finish") => /\ result[t].outcome \in {"ok", "asyncClose", "failed"}
                        /\ op[t] \in ReadOps => ReadAnswer(t)
  /\ At(t, "done") =>
       (op[t] \in ReadOps /\ result[t].outcome = "ok" => bytes[t] = Named(t, result[t].count))

ContentInv == \A t \in Threads : Good(t)

StreamInv == TypeOK /\ LockInv /\ OwnerInv /\ ContentInv


\* The bytes of a call, numbered from the first.
LEMMA NamedBytes ==
  ASSUME NEW t \in Threads, NEW n \in Nat
  PROVE  /\ Named(t, n) \in Seq(Byte)
         /\ Len(Named(t, n)) = n
         /\ \A i \in 1..n : Named(t, n)[i] = <<t, i>>
         /\ Append(Named(t, n), <<t, n + 1>>) = Named(t, n + 1)
<1>1. /\ Named(t, n) \in Seq(Byte) /\ Len(Named(t, n)) = n
      /\ \A i \in 1..n : Named(t, n)[i] = <<t, i>>
  BY DEF Named, Byte
<1>2. Append(Named(t, n), <<t, n + 1>>) = Named(t, n + 1)
  BY <1>1 DEF Named
<1>. QED BY <1>1, <1>2

LEMMA NoBytes ==
  ASSUME NEW t PROVE Named(t, 0) = << >>
BY DEF Named

\* get() takes the bytes below the limit.
LEMMA TakesAll ==
  ASSUME NEW t \in Threads, NEW n \in Nat, result[t].count = n, Buffer(t) = Named(t, n)
  PROVE  Taken(t) = Named(t, n)
<1>1. Least(n, Len(Buffer(t))) = n
  BY NamedBytes DEF Least
<1>2. \A i \in 1..n : Buffer(t)[i] = <<t, i>>
  BY NamedBytes
<1>. QED BY <1>1, <1>2 DEF Taken, Named

Frames == [len : Lengths \cup {0, 1}, shares : BOOLEAN, own : Seq(Byte)]

LEMMA FrameTyped ==
  ASSUME TypeOK, NEW t \in Threads
  PROVE  /\ local[t] \in Frames
         /\ local[t].len \in Nat
         /\ Len(local[t].own) <= local[t].len
<1>1. local[t] \in Frames
  BY DEF TypeOK, Frames
<1>2. local[t].len \in Lengths \cup {0, 1}
  BY <1>1 DEF Frames
<1>3. local[t].len \in Nat
  <2>1. Lengths \cup {0, 1} \subseteq Nat
    BY StreamAssumption
  <2>. QED BY <1>2, <2>1
<1>4. Len(local[t].own) <= local[t].len
  BY DEF TypeOK
<1>. QED BY <1>1, <1>3, <1>4

\* A step of another thread leaves a call as it is.
LEMMA OthersGood ==
  ASSUME NEW u \in Threads, Good(u), op[u] \in Ops \cup {"none"},
         pc'[u] = pc[u], op'[u] = op[u], local'[u] = local[u], result'[u] = result[u],
         bytes'[u] = bytes[u],
         HasBuffer(u) /\ local[u].shares => shared'[DirOf(u)] = shared[DirOf(u)],
         At(u, "transfer") => moved'[DirOf(u)] = moved[DirOf(u)]
  PROVE  Good(u)'
<1>1. DirOf(u)' = DirOf(u)
  BY DEF DirOf
<1>2. HasBuffer(u) => Buffer(u)' = Buffer(u)
  BY <1>1 DEF Buffer
<1>3. HasBuffer(u) => Content(u)' = Content(u)
  BY <1>1 DEF Content, HasBuffer, Named, At, DirOf, Good, Ops, ReadOps
<1>4. HasBuffer(u) /\ ReadAnswer(u) => ReadAnswer(u)'
  BY <1>2 DEF ReadAnswer, Named
<1>. HIDE DEF Buffer, Content, ReadAnswer, DirOf
<1>. QED BY <1>1, <1>2, <1>3, <1>4 DEF Good, HasBuffer, At, Named

\* A step that gives no lock and takes none.
LEMMA LockKept ==
  ASSUME LockInv, lock' = lock,
         \A u \in Threads : /\ HasBuffer(u)' /\ local'[u].shares <=> HasBuffer(u) /\ local[u].shares
                            /\ HasBuffer(u) => DirOf(u)' = DirOf(u)
  PROVE  LockInv'
BY DEF LockInv

\* A step that neither enters nor leaves the socket.
LEMMA OwnerKept ==
  ASSUME OwnerInv, owner' = owner, moved' = moved,
         \A u \in Threads : /\ At(u, "transfer")' <=> At(u, "transfer")
                            /\ At(u, "transfer") => DirOf(u)' = DirOf(u)
  PROVE  OwnerInv'
BY DEF OwnerInv

------------------------------------------------------------------------------
(* One lemma per action. *)

LEMMA CallStep ==
  ASSUME StreamInv, NEW t \in Threads, Call(t)
  PROVE  StreamInv'
<1>1. PICK o \in Ops, n \in Lengths \cup {1} :
        /\ o = "readSingle" => n = 1
        /\ op' = [op EXCEPT ![t] = o]
        /\ local' = [local EXCEPT ![t].len = n]
  BY DEF Call
<1>2. /\ pc[t] = "idle" /\ pc' = [pc EXCEPT ![t] = "tryLock"]
      /\ UNCHANGED <<channel, closed, shared, lock, result, bytes, line>>
  BY DEF Call, At, Goto
<1>3. local[t] = NoLocals
  BY <1>2 DEF StreamInv, ContentInv, Good, At
<1>4. TypeOK'
  <2>1. local' \in [Threads -> Frames]
    BY <1>1 DEF StreamInv, TypeOK, Frames
  <2>2. \A u \in Threads : Len(local'[u].own) <= local'[u].len
    BY <1>1, <1>3, StreamAssumption DEF StreamInv, TypeOK, NoLocals
  <2>3. op' \in [Threads -> Ops \cup {"none"}] /\ pc' \in [Threads -> Labels]
    BY <1>1, <1>2 DEF StreamInv, TypeOK, Labels
  <2>. QED BY <1>2, <2>1, <2>2, <2>3 DEF StreamInv, TypeOK, channel, Frames
<1>5. \A u \in Threads \ {t} : pc'[u] = pc[u] /\ op'[u] = op[u] /\ local'[u] = local[u]
  BY <1>1, <1>2 DEF StreamInv, TypeOK
<1>6. pc'[t] = "tryLock" /\ op'[t] = o /\ local'[t] = [NoLocals EXCEPT !.len = n]
  BY <1>1, <1>2, <1>3 DEF StreamInv, TypeOK
<1>7. LockInv'
  BY <1>2, <1>5, <1>6, LockKept DEF StreamInv, HasBuffer, DirOf
<1>8. OwnerInv'
  BY <1>2, <1>5, <1>6, OwnerKept DEF StreamInv, At, DirOf, channel
<1>9. Good(t)'
  BY <1>1, <1>2, <1>6 DEF StreamInv, ContentInv, Good, At, HasBuffer, NoLocals, Ops, ReadOps
<1>10. ASSUME NEW u \in Threads \ {t} PROVE Good(u)'
  BY <1>2, <1>5, OthersGood DEF StreamInv, ContentInv, TypeOK, channel
<1>. QED BY <1>4, <1>7, <1>8, <1>9, <1>10 DEF StreamInv, ContentInv

\* What Fill makes of a record of locals.
LEMMA Refilled ==
  ASSUME NEW f \in Frames, NEW x \in BOOLEAN, NEW y \in Seq(Byte)
  PROVE  [f EXCEPT !.shares = x, !.own = y] = [len |-> f.len, shares |-> x, own |-> y]
<1>. DEFINE g == [f EXCEPT !.shares = x, !.own = y]
<1>1. g \in Frames
  BY DEF Frames
<1>2. g.len = f.len /\ g.shares = x /\ g.own = y
  BY DEF Frames
<1>. HIDE DEF g
<1>. QED BY <1>1, <1>2 DEF Frames

LEMMA TryLockStep ==
  ASSUME StreamInv, NEW t \in Threads, TryLock(t)
  PROVE  StreamInv'
<1>. DEFINE d == DirOf(t)
            shares == local[t].len <= BufferSize /\ lock[d] = NoThread
            content == IF op[t] = "write" THEN Named(t, local[t].len) ELSE << >>
<1>1. /\ pc[t] = "tryLock" /\ pc' = [pc EXCEPT ![t] = "enter"]
      /\ lock' = IF shares THEN [lock EXCEPT ![d] = t] ELSE lock
      /\ shared' = IF shares THEN [shared EXCEPT ![d] = content] ELSE shared
      /\ local' = [local EXCEPT ![t].shares = shares,
                                ![t].own = IF shares THEN @ ELSE content]
      /\ UNCHANGED <<channel, closed, op, result, bytes, line>>
  BY DEF TryLock, Fill, At, Goto
<1>2. /\ local[t].len \in Nat /\ ~local[t].shares /\ local[t].own = << >>
      /\ d \in Dir /\ shares \in BOOLEAN
  BY <1>1, FrameTyped DEF StreamInv, ContentInv, Good, At, DirOf, Dir
<1>3. content \in Seq(Byte) /\ Len(content) <= local[t].len
  <2>1. Named(t, local[t].len) \in Seq(Byte) /\ Len(Named(t, local[t].len)) = local[t].len
    BY <1>2, NamedBytes
  <2>2. << >> \in Seq(Byte) /\ Len(<< >>) = 0
    OBVIOUS
  <2>. QED BY <1>2, <2>1, <2>2
<1>. HIDE DEF content
<1>. DEFINE frame == [len |-> local[t].len, shares |-> shares,
                      own |-> IF shares THEN << >> ELSE content]
<1>4. local' = [local EXCEPT ![t] = frame]
  <2>1. /\ local \in [Threads -> Frames] /\ local[t] \in Frames /\ << >> \in Seq(Byte)
    BY DEF StreamInv, TypeOK, Frames
  <2>. HIDE DEF shares
  <2>. DEFINE own    == IF shares THEN local[t].own ELSE content
              filled == [local[t] EXCEPT !.shares = shares, !.own = own]
  <2>2. local' = [local EXCEPT ![t] = filled]
    BY <1>1, <2>1
  <2>3. own = (IF shares THEN << >> ELSE content) /\ own \in Seq(Byte)
    BY <1>2, <1>3, <2>1
  <2>. HIDE DEF own
  <2>4. filled = [len |-> local[t].len, shares |-> shares, own |-> own]
    BY <1>2, <2>1, <2>3, Refilled
  <2>. HIDE DEF filled
  <2>5. filled = frame
    BY <2>3, <2>4
  <2>. HIDE DEF frame
  <2>. QED BY <2>2, <2>5
<1>5. frame \in [len : Lengths \cup {0, 1}, shares : BOOLEAN, own : Seq(Byte)]
  <2>1. local[t].len \in Lengths \cup {0, 1} /\ << >> \in Seq(Byte)
    BY DEF StreamInv, TypeOK
  <2>. HIDE DEF shares
  <2>. QED BY <1>2, <1>3, <2>1
<1>6. local'[t] = frame
  BY <1>4 DEF StreamInv, TypeOK
<1>. HIDE DEF shares
<1>7. \A u \in Threads \ {t} : pc'[u] = pc[u] /\ local'[u] = local[u]
  BY <1>1 DEF StreamInv, TypeOK
<1>8. pc'[t] = "enter" /\ DirOf(t)' = d
  BY <1>1 DEF StreamInv, TypeOK, DirOf
<1>9. TypeOK'
  <2>1. shared' \in [Dir -> Seq(Byte)] /\ \A e \in Dir : Len(shared'[e]) <= BufferSize
    BY <1>1, <1>2, <1>3, StreamAssumption DEF StreamInv, TypeOK, shares
  <2>2. local' \in [Threads -> [len : Lengths \cup {0, 1}, shares : BOOLEAN, own : Seq(Byte)]]
    <3>. HIDE DEF frame
    <3>. QED BY <1>4, <1>5 DEF StreamInv, TypeOK
  <2>3. \A u \in Threads : Len(local'[u].own) <= local'[u].len
    <3>1. Len(local'[t].own) <= local'[t].len
      BY <1>2, <1>3, <1>6
    <3>2. \A u \in Threads \ {t} : Len(local'[u].own) <= local'[u].len
      BY <1>7, FrameTyped DEF StreamInv
    <3>. QED BY <3>1, <3>2
  <2>4. lock' \in [Dir -> Threads \cup {NoThread}] /\ pc' \in [Threads -> Labels]
    BY <1>1 DEF StreamInv, TypeOK, Labels
  <2>. QED BY <1>1, <2>1, <2>2, <2>3, <2>4 DEF StreamInv, TypeOK, channel
<1>10. LockInv'
  <2>1. ASSUME NEW u \in Threads, NEW e \in Dir
        PROVE  lock'[e] = u <=> HasBuffer(u)' /\ local'[u].shares /\ DirOf(u)' = e
    <3>1. CASE u = t
      <4>1. lock[e] # t /\ lock[d] # t
        BY <1>1, <1>2 DEF StreamInv, LockInv, HasBuffer
      <4>2. lock'[e] = t <=> shares /\ e = d
        BY <1>1, <1>2, <4>1 DEF StreamInv, TypeOK
      <4>. QED BY <1>6, <1>8, <3>1, <4>2 DEF HasBuffer
    <3>2. CASE u # t
      BY <1>1, <1>7, <3>2, StreamAssumption
         DEF StreamInv, TypeOK, LockInv, HasBuffer, shares, DirOf
    <3>. QED BY <3>1, <3>2
  <2>. QED BY <2>1 DEF LockInv
<1>11. OwnerInv'
  BY <1>1, <1>7, <1>8, OwnerKept DEF StreamInv, At, DirOf, channel
<1>12. Good(t)'
  <2>1. Buffer(t)' = content
    BY <1>1, <1>2, <1>6, <1>8 DEF Buffer, StreamInv, TypeOK
  <2>2. Content(t)' = content
    <3>1. op'[t] = op[t] /\ local'[t].len = local[t].len /\ pc'[t] # "transfer"
      BY <1>1, <1>6, <1>8
    <3>. QED BY <3>1 DEF Content, content, At, Named
  <2>3. shares => local[t].len <= BufferSize
    BY DEF shares
  <2>. QED BY <1>1, <1>6, <1>8, <2>1, <2>2, <2>3 DEF StreamInv, ContentInv, Good, At, HasBuffer
<1>13. ASSUME NEW u \in Threads \ {t} PROVE Good(u)'
  <2>1. HasBuffer(u) /\ local[u].shares => shared'[DirOf(u)] = shared[DirOf(u)]
    BY <1>1, <1>2, StreamAssumption DEF StreamInv, LockInv, TypeOK, shares, DirOf, Dir
  <2>. QED BY <1>1, <1>7, <2>1, OthersGood DEF StreamInv, ContentInv, TypeOK, channel
<1>. QED BY <1>9, <1>10, <1>11, <1>12, <1>13 DEF StreamInv, ContentInv

LEMMA EnterStep ==
  ASSUME StreamInv, NEW t \in Threads, Enter(t)
  PROVE  StreamInv'
<1>. DEFINE d == DirOf(t)
<1>1. /\ pc[t] = "enter" /\ pc' = [pc EXCEPT ![t] = "transfer"]
      /\ owner[d] = NoThread /\ owner' = [owner EXCEPT ![d] = t]
      /\ UNCHANGED <<attached, moved, closed, shared, lock, op, local, result, bytes, line>>
  BY DEF Enter, Channel!Claim, At, Goto
<1>2. d \in Dir
  BY DEF DirOf, Dir
<1>3. \A u \in Threads \ {t} : pc'[u] = pc[u]
  BY <1>1 DEF StreamInv, TypeOK
<1>4. pc'[t] = "transfer" /\ moved[d] = 0
  BY <1>1, <1>2 DEF StreamInv, TypeOK, OwnerInv
<1>5. TypeOK'
  BY <1>1 DEF StreamInv, TypeOK, Labels
<1>6. LockInv'
  BY <1>1, <1>3, <1>4, LockKept DEF StreamInv, HasBuffer, DirOf
<1>7. OwnerInv'
  <2>1. ASSUME NEW u \in Threads, NEW e \in Dir
        PROVE  owner'[e] = u <=> At(u, "transfer")' /\ DirOf(u)' = e
    BY <1>1, <1>2, <1>3, <1>4, StreamAssumption DEF StreamInv, TypeOK, OwnerInv, At, DirOf
  <2>2. \A e \in Dir : owner'[e] = NoThread => moved'[e] = 0
    BY <1>1, <1>2, StreamAssumption DEF StreamInv, TypeOK, OwnerInv
  <2>. QED BY <2>1, <2>2 DEF OwnerInv
<1>8. Good(t)'
  <2>1. Buffer(t)' = Buffer(t) /\ Buffer(t) = Content(t)
    BY <1>1 DEF Buffer, DirOf, StreamInv, ContentInv, Good
  <2>2. Content(t)' = Content(t)
    <3>1. CASE op[t] = "write"
      BY <1>1, <3>1 DEF Content, Named
    <3>2. CASE op[t] # "write"
      <4>1. op[t] \in ReadOps
        BY <1>1, <3>2 DEF StreamInv, TypeOK, ContentInv, Good, Ops, At
      <4>2. moved'["in"] = 0
        BY <1>1, <1>4, <4>1 DEF DirOf
      <4>. QED BY <1>1, <1>4, <3>2, <4>2, NoBytes DEF Content, At, Named
    <3>. QED BY <3>1, <3>2
  <2>3. local[t].len \in Nat
    BY FrameTyped DEF StreamInv
  <2>. QED BY <1>1, <1>4, <2>1, <2>2, <2>3 DEF StreamInv, ContentInv, Good, At, HasBuffer, DirOf
<1>9. ASSUME NEW u \in Threads \ {t} PROVE Good(u)'
  BY <1>1, <1>3, OthersGood DEF StreamInv, ContentInv, TypeOK
<1>. QED BY <1>5, <1>6, <1>7, <1>8, <1>9 DEF StreamInv, ContentInv

\* What a step of the socket needs and leaves of the call it is in.
LEMMA MovesOneStep ==
  ASSUME StreamInv, NEW t \in Threads, MovesOne(t)
  PROVE  /\ pc[t] = "transfer" /\ DirOf(t) \in Dir /\ owner[DirOf(t)] = t
         /\ moved' = [moved EXCEPT ![DirOf(t)] = @ + 1]
         /\ moved[DirOf(t)] \in Nat /\ local[t].len \in Nat
         /\ moved[DirOf(t)] + 1 <= local[t].len
         /\ UNCHANGED <<attached, owner, closed, lock, pc, op, result, bytes>>
         /\ OwnerInv'
<1>1. /\ pc[t] = "transfer" /\ owner[DirOf(t)] = t
      /\ moved' = [moved EXCEPT ![DirOf(t)] = @ + 1]
      /\ moved[DirOf(t)] < local[t].len
      /\ UNCHANGED <<attached, owner, closed, lock, pc, op, result, bytes>>
  BY DEF MovesOne, Channel!Move, At
<1>2. DirOf(t) \in Dir
  BY DEF DirOf, Dir
<1>3. moved[DirOf(t)] \in Nat /\ local[t].len \in Nat
  BY <1>2, FrameTyped DEF StreamInv, TypeOK
<1>4. OwnerInv'
  BY <1>1, <1>2, StreamAssumption DEF StreamInv, TypeOK, OwnerInv, At, DirOf
<1>. QED BY <1>1, <1>2, <1>3, <1>4

LEMMA MoveInStep ==
  ASSUME StreamInv, NEW t \in Threads, MoveIn(t)
  PROVE  StreamInv'
<1>. DEFINE n == moved["in"]
            content == Named(t, n + 1)
<1>1. MovesOne(t) /\ op[t] \in ReadOps /\ DirOf(t) = "in" /\ "in" \in Dir
  BY DEF MoveIn, DirOf, Dir
<1>2. /\ pc[t] = "transfer" /\ owner["in"] = t
      /\ moved' = [moved EXCEPT !["in"] = n + 1]
      /\ n \in Nat /\ local[t].len \in Nat /\ n + 1 <= local[t].len
      /\ UNCHANGED <<attached, owner, closed, lock, pc, op, result, bytes, line>>
  BY <1>1, MovesOneStep DEF MoveIn
<1>3. OwnerInv'
  BY <1>1, MovesOneStep
<1>4. Append(Buffer(t), <<t, n + 1>>) = content
  <2>1. Buffer(t) = Named(t, n)
    BY <1>1, <1>2 DEF StreamInv, ContentInv, Good, Content, At, ReadOps
  <2>. QED BY <1>2, <2>1, NamedBytes
<1>5. content \in Seq(Byte) /\ Len(content) = n + 1
  BY <1>2, NamedBytes
<1>6. /\ shared' = IF local[t].shares THEN [shared EXCEPT !["in"] = content] ELSE shared
      /\ local' = [local EXCEPT ![t].shares = local[t].shares,
                                ![t].own = IF local[t].shares THEN @ ELSE content]
  BY <1>1, <1>4 DEF MoveIn, Fill
<1>. HIDE DEF content
<1>7. local'[t] = [local[t] EXCEPT !.own = IF local[t].shares THEN @ ELSE content]
  <2>1. local[t] \in Frames
    BY FrameTyped DEF StreamInv
  <2>. QED BY <1>6, <2>1 DEF StreamInv, TypeOK, Frames
<1>8. /\ local'[t].len = local[t].len /\ local'[t].shares = local[t].shares
      /\ local'[t].own = IF local[t].shares THEN local[t].own ELSE content
  <2>1. local[t] \in Frames
    BY FrameTyped DEF StreamInv
  <2>. QED BY <1>7, <2>1 DEF Frames
<1>9. \A u \in Threads \ {t} : local'[u] = local[u]
  BY <1>6 DEF StreamInv, TypeOK
<1>10. TypeOK'
  <2>1. local[t].shares => local[t].len <= BufferSize
    BY <1>2 DEF StreamInv, ContentInv, Good, HasBuffer
  <2>2. shared' \in [Dir -> Seq(Byte)] /\ \A e \in Dir : Len(shared'[e]) <= BufferSize
    <3>1. shared \in [Dir -> Seq(Byte)] /\ \A e \in Dir : Len(shared[e]) <= BufferSize
      BY DEF StreamInv, TypeOK
    <3>2. local[t].shares => Len(content) <= BufferSize
      BY <1>2, <1>5, <2>1, StreamAssumption
    <3>. QED BY <1>1, <1>5, <1>6, <3>1, <3>2
  <2>3. local[t] \in Frames
    BY FrameTyped DEF StreamInv
  <2>4. local' \in [Threads -> Frames]
    BY <1>5, <1>6, <2>3 DEF StreamInv, TypeOK, Frames
  <2>5. \A u \in Threads : Len(local'[u].own) <= local'[u].len
    <3>1. Len(local'[t].own) <= local'[t].len
      BY <1>2, <1>5, <1>8, FrameTyped DEF StreamInv
    <3>2. \A u \in Threads \ {t} : Len(local'[u].own) <= local'[u].len
      BY <1>9, FrameTyped DEF StreamInv
    <3>. QED BY <3>1, <3>2
  <2>6. moved' \in [Dir -> Nat]
    <3>1. moved \in [Dir -> Nat] /\ n + 1 \in Nat
      BY <1>2 DEF StreamInv, TypeOK
    <3>. QED BY <1>2, <3>1
  <2>. QED BY <1>2, <2>2, <2>4, <2>5, <2>6 DEF StreamInv, TypeOK, Frames
<1>11. LockInv'
  BY <1>2, <1>8, <1>9, LockKept DEF StreamInv, HasBuffer, DirOf
<1>12. Good(t)'
  <2>1. Buffer(t)' = content
    BY <1>1, <1>2, <1>6, <1>8 DEF Buffer, DirOf, StreamInv, TypeOK
  <2>2. moved'["in"] = n + 1
    BY <1>1, <1>2 DEF StreamInv, TypeOK
  <2>3. Content(t)' = content
    BY <1>1, <1>2, <2>2 DEF Content, content, At, ReadOps, Named
  <2>4. DirOf(t)' = "in"
    BY <1>1, <1>2 DEF DirOf
  <2>. QED BY <1>2, <1>8, <2>1, <2>2, <2>3, <2>4
           DEF StreamInv, ContentInv, Good, At, HasBuffer
<1>13. ASSUME NEW u \in Threads \ {t} PROVE Good(u)'
  <2>1. HasBuffer(u) /\ local[u].shares => shared'[DirOf(u)] = shared[DirOf(u)]
    BY <1>1, <1>2, <1>6 DEF StreamInv, LockInv, TypeOK, HasBuffer, DirOf, Dir
  <2>2. At(u, "transfer") => moved'[DirOf(u)] = moved[DirOf(u)]
    BY <1>1, <1>2 DEF StreamInv, OwnerInv, TypeOK, DirOf, Dir
  <2>. QED BY <1>2, <1>9, <2>1, <2>2, OthersGood DEF StreamInv, ContentInv, TypeOK
<1>. QED BY <1>3, <1>10, <1>11, <1>12, <1>13 DEF StreamInv, ContentInv

\* A write puts on the line the byte of its caller that is next.
LEMMA MoveOutByte ==
  ASSUME StreamInv, NEW t \in Threads, MoveOut(t)
  PROVE  /\ op[t] = "write" /\ DirOf(t) = "out"
         /\ line' = <<t, moved["out"] + 1>>
         /\ UNCHANGED <<shared, local>>
<1>1. op[t] = "write" /\ DirOf(t) = "out" /\ MovesOne(t)
  BY DEF MoveOut, DirOf, ReadOps
<1>2. pc[t] = "transfer" /\ moved["out"] \in Nat /\ local[t].len \in Nat
      /\ moved["out"] + 1 <= local[t].len
  BY <1>1, MovesOneStep
<1>3. Buffer(t) = Named(t, local[t].len)
  BY <1>1, <1>2 DEF StreamInv, ContentInv, Good, Content
<1>4. line' = Named(t, local[t].len)[moved["out"] + 1]
  BY <1>3 DEF MoveOut
<1>5. moved["out"] + 1 \in 1..local[t].len
  BY <1>2
<1>. QED BY <1>1, <1>2, <1>4, <1>5, NamedBytes DEF MoveOut

LEMMA MoveOutStep ==
  ASSUME StreamInv, NEW t \in Threads, MoveOut(t)
  PROVE  StreamInv'
<1>. DEFINE n == moved["out"]
<1>1. MovesOne(t) /\ op[t] = "write" /\ DirOf(t) = "out" /\ "out" \in Dir
      /\ line' = <<t, n + 1>> /\ UNCHANGED <<shared, local>>
  BY MoveOutByte DEF MoveOut, Dir
<1>2. /\ pc[t] = "transfer" /\ owner["out"] = t
      /\ moved' = [moved EXCEPT !["out"] = n + 1]
      /\ n \in Nat /\ local[t].len \in Nat /\ n + 1 <= local[t].len
      /\ UNCHANGED <<attached, owner, closed, lock, pc, op, result, bytes>>
      /\ OwnerInv'
  BY <1>1, MovesOneStep
<1>3. TypeOK'
  <2>1. line' \in Byte
    BY <1>1, <1>2 DEF Byte
  <2>2. moved' \in [Dir -> Nat]
    <3>1. moved \in [Dir -> Nat] /\ n + 1 \in Nat
      BY <1>2 DEF StreamInv, TypeOK
    <3>. QED BY <1>2, <3>1
  <2>. QED BY <1>1, <1>2, <2>1, <2>2 DEF StreamInv, TypeOK
<1>4. LockInv'
  BY <1>1, <1>2, LockKept DEF StreamInv, HasBuffer, DirOf
<1>5. Good(t)'
  <2>1. Buffer(t)' = Buffer(t) /\ Content(t)' = Content(t) /\ DirOf(t)' = "out"
    BY <1>1, <1>2 DEF Buffer, Content, DirOf, Named
  <2>2. moved'["out"] = n + 1
    BY <1>1, <1>2 DEF StreamInv, TypeOK
  <2>. QED BY <1>1, <1>2, <2>1, <2>2 DEF StreamInv, ContentInv, Good, At, HasBuffer
<1>6. ASSUME NEW u \in Threads \ {t} PROVE Good(u)'
  <2>1. At(u, "transfer") => moved'[DirOf(u)] = moved[DirOf(u)]
    BY <1>1, <1>2 DEF StreamInv, OwnerInv, TypeOK, DirOf, Dir
  <2>. QED BY <1>1, <1>2, <2>1, OthersGood DEF StreamInv, ContentInv, TypeOK
<1>. QED BY <1>2, <1>3, <1>4, <1>5, <1>6 DEF StreamInv, ContentInv

\* The answers of the socket, and that a read reports what it has put into the buffer.
LEMMA ResultsGood ==
  ASSUME StreamInv, NEW t \in Threads, At(t, "transfer"), NEW r \in Results(t)
  PROVE  /\ r \in [outcome : Outcomes, count : Nat \cup {-1}]
         /\ r.outcome \in {"ok", "asyncClose", "failed"}
         /\ op[t] \in ReadOps /\ r.outcome = "ok" =>
              \/ r.count = -1
              \/ r.count \in 0..local[t].len /\ Buffer(t) = Named(t, r.count)
<1>. DEFINE n == moved[DirOf(t)]
<1>1. DirOf(t) \in Dir /\ n \in Nat /\ local[t].len \in Nat /\ n <= local[t].len
  BY FrameTyped DEF StreamInv, TypeOK, ContentInv, Good, DirOf, Dir
<1>2. \/ /\ r = [outcome |-> "ok", count |-> n]
      \/ r = [outcome |-> "ok", count |-> -1]
      \/ r = [outcome |-> "asyncClose", count |-> 0]
      \/ r = [outcome |-> "failed", count |-> 0]
  BY DEF Results
<1>. HIDE DEF n
<1>4. op[t] \in ReadOps => Buffer(t) = Named(t, n)
  BY DEF StreamInv, ContentInv, Good, Content, At, ReadOps, DirOf, n
<1>5. CASE r = [outcome |-> "ok", count |-> n]
  BY <1>1, <1>4, <1>5 DEF Outcomes
<1>6. CASE r = [outcome |-> "ok", count |-> -1]
  BY <1>6 DEF Outcomes
<1>7. CASE r = [outcome |-> "asyncClose", count |-> 0] \/ r = [outcome |-> "failed", count |-> 0]
  BY <1>7 DEF Outcomes
<1>. QED BY <1>2, <1>5, <1>6, <1>7

LEMMA LeaveStep ==
  ASSUME StreamInv, NEW t \in Threads, Leave(t)
  PROVE  StreamInv'
<1>. DEFINE d == DirOf(t)
<1>1. /\ pc[t] = "transfer" /\ pc' = [pc EXCEPT ![t] = "finish"]
      /\ owner[d] = t /\ owner' = [owner EXCEPT ![d] = NoThread]
      /\ moved' = [moved EXCEPT ![d] = 0]
      /\ line' \in {<< >>, line}
      /\ UNCHANGED <<attached, closed, shared, lock, op, local, bytes>>
  BY DEF Leave, Channel!Yield, At, Goto
<1>2. PICK r \in Results(t) : result' = [result EXCEPT ![t] = r]
  BY DEF Leave
<1>3. d \in Dir
  BY DEF DirOf, Dir
<1>4. /\ r \in [outcome : Outcomes, count : Nat \cup {-1}]
      /\ r.outcome \in {"ok", "asyncClose", "failed"}
      /\ op[t] \in ReadOps /\ r.outcome = "ok" =>
           \/ r.count = -1
           \/ r.count \in 0..local[t].len /\ Buffer(t) = Named(t, r.count)
  BY <1>1, ResultsGood DEF At
<1>5. \A u \in Threads \ {t} : pc'[u] = pc[u] /\ result'[u] = result[u]
  BY <1>1, <1>2 DEF StreamInv, TypeOK
<1>6. pc'[t] = "finish" /\ result'[t] = r /\ DirOf(t)' = d
  BY <1>1, <1>2 DEF StreamInv, TypeOK, DirOf
<1>7. TypeOK'
  <2>1. owner' \in [Dir -> Threads \cup {NoThread}] /\ moved' \in [Dir -> Nat]
    BY <1>1 DEF StreamInv, TypeOK
  <2>2. result' \in [Threads -> [outcome : Outcomes, count : Nat \cup {-1}]]
    BY <1>2, <1>4 DEF StreamInv, TypeOK
  <2>3. pc' \in [Threads -> Labels]
    BY <1>1 DEF StreamInv, TypeOK, Labels
  <2>4. line' \in Byte \cup {<< >>}
    BY <1>1 DEF StreamInv, TypeOK
  <2>. QED BY <1>1, <2>1, <2>2, <2>3, <2>4 DEF StreamInv, TypeOK
<1>8. LockInv'
  BY <1>1, <1>5, <1>6, LockKept DEF StreamInv, HasBuffer, DirOf
<1>9. OwnerInv'
  <2>1. ASSUME NEW u \in Threads, NEW e \in Dir
        PROVE  owner'[e] = u <=> At(u, "transfer")' /\ DirOf(u)' = e
    BY <1>1, <1>3, <1>5, <1>6, StreamAssumption DEF StreamInv, TypeOK, OwnerInv, At, DirOf
  <2>2. \A e \in Dir : owner'[e] = NoThread => moved'[e] = 0
    BY <1>1, <1>3, StreamAssumption DEF StreamInv, TypeOK, OwnerInv
  <2>. QED BY <2>1, <2>2 DEF OwnerInv
<1>10. Good(t)'
  <2>1. Buffer(t)' = Buffer(t)
    BY <1>1 DEF Buffer, DirOf
  <2>2. op'[t] \in ReadOps => ReadAnswer(t)'
    BY <1>1, <1>4, <1>6, <2>1 DEF ReadAnswer, Named
  <2>. QED BY <1>1, <1>4, <1>6, <2>2 DEF StreamInv, ContentInv, Good, At, HasBuffer
<1>11. ASSUME NEW u \in Threads \ {t} PROVE Good(u)'
  <2>1. At(u, "transfer") => moved'[DirOf(u)] = moved[DirOf(u)]
    BY <1>1, <1>3 DEF StreamInv, OwnerInv, TypeOK, DirOf, Dir
  <2>. QED BY <1>1, <1>5, <2>1, OthersGood DEF StreamInv, ContentInv, TypeOK
<1>. QED BY <1>7, <1>8, <1>9, <1>10, <1>11 DEF StreamInv, ContentInv

LEMMA FinishStep ==
  ASSUME StreamInv, NEW t \in Threads, Finish(t)
  PROVE  StreamInv'
<1>. DEFINE answer == Answered(t)
            taken == IF op[t] \in ReadOps /\ answer = "ok" THEN Taken(t) ELSE << >>
<1>1. /\ pc[t] = "finish" /\ pc' = [pc EXCEPT ![t] = "done"]
      /\ result' = [result EXCEPT ![t].outcome = answer]
      /\ bytes' = [bytes EXCEPT ![t] = taken]
      /\ lock' = [d \in Dir |-> IF lock[d] = t /\ d = DirOf(t) /\ local[t].shares
                                THEN NoThread ELSE lock[d]]
      /\ UNCHANGED <<attached, owner, moved, closed, shared, op, local, line>>
  BY DEF Finish, At, Goto, channel
<1>2. /\ result[t] \in [outcome : Outcomes, count : Nat \cup {-1}]
      /\ result[t].outcome \in {"ok", "asyncClose", "failed"}
      /\ op[t] \in ReadOps => ReadAnswer(t)
      /\ op[t] = "readSingle" => local[t].len = 1
      /\ op[t] \in Ops
  BY <1>1 DEF StreamInv, TypeOK, ContentInv, Good, At
<1>3. local[t].len \in Nat
  BY FrameTyped DEF StreamInv
<1>4. /\ answer \in Outcomes
      /\ answer = "ok" => result[t].outcome = "ok"
      /\ op[t] \in ReadOps /\ answer = "ok" => result[t].count \in 0..local[t].len
  <2>1. CASE result[t].outcome = "ok" /\ op[t] = "readSingle"
    <3>1. result[t].count \in {-1, 0, 1}
      BY <1>2, <1>3, <2>1 DEF ReadAnswer, ReadOps
    <3>. QED BY <1>2, <2>1, <3>1 DEF Answered, Outcomes, ReadOps
  <2>2. CASE result[t].outcome = "ok" /\ op[t] = "read"
    <3>1. \/ result[t].count = -1
          \/ result[t].count \in 0..local[t].len
      BY <1>2, <2>2 DEF ReadAnswer, ReadOps
    <3>. QED BY <1>2, <1>3, <2>2, <3>1 DEF Answered, Outcomes, ReadOps
  <2>3. CASE result[t].outcome = "ok" /\ op[t] = "write"
    BY <2>3 DEF Answered, Outcomes, ReadOps
  <2>4. CASE result[t].outcome \in {"asyncClose", "failed"}
    BY <1>2, <2>4 DEF Answered, Outcomes
  <2>. QED BY <1>2, <2>1, <2>2, <2>3, <2>4 DEF Ops, ReadOps
<1>5. op[t] \in ReadOps /\ answer = "ok" => taken = Named(t, result[t].count)
  <2>1. ASSUME op[t] \in ReadOps, answer = "ok"
        PROVE  taken = Named(t, result[t].count)
    <3>1. result[t].count \in Nat /\ result[t].count # -1
      BY <1>3, <1>4, <2>1
    <3>2. Buffer(t) = Named(t, result[t].count)
      BY <1>2, <1>4, <2>1, <3>1 DEF ReadAnswer
    <3>. QED BY <2>1, <3>1, <3>2, TakesAll
  <2>. QED BY <2>1
<1>6. taken \in Seq(Byte)
  <2>1. CASE op[t] \in ReadOps /\ answer = "ok"
    <3>1. result[t].count \in Nat
      BY <1>3, <1>4, <2>1
    <3>2. taken = Named(t, result[t].count)
      BY <1>5, <2>1
    <3>. HIDE DEF taken
    <3>. QED BY <3>1, <3>2, NamedBytes
  <2>2. CASE ~(op[t] \in ReadOps /\ answer = "ok")
    BY <2>2
  <2>. QED BY <2>1, <2>2
<1>. HIDE DEF answer, taken
<1>7. \A u \in Threads \ {t} : pc'[u] = pc[u] /\ result'[u] = result[u] /\ bytes'[u] = bytes[u]
  BY <1>1 DEF StreamInv, TypeOK
<1>8. /\ pc'[t] = "done" /\ result'[t] = [result[t] EXCEPT !.outcome = answer]
      /\ bytes'[t] = taken
  BY <1>1, <1>2 DEF StreamInv, TypeOK
<1>9. result'[t].outcome = answer /\ result'[t].count = result[t].count
  BY <1>2, <1>8
<1>10. TypeOK'
  <2>1. result' \in [Threads -> [outcome : Outcomes, count : Nat \cup {-1}]]
    BY <1>1, <1>2, <1>4 DEF StreamInv, TypeOK
  <2>2. bytes' \in [Threads -> Seq(Byte)] /\ pc' \in [Threads -> Labels]
    BY <1>1, <1>6 DEF StreamInv, TypeOK, Labels
  <2>3. lock' \in [Dir -> Threads \cup {NoThread}]
    BY <1>1 DEF StreamInv, TypeOK
  <2>. QED BY <1>1, <2>1, <2>2, <2>3 DEF StreamInv, TypeOK
<1>11. LockInv'
  <2>1. ASSUME NEW u \in Threads, NEW e \in Dir
        PROVE  lock'[e] = u <=> HasBuffer(u)' /\ local'[u].shares /\ DirOf(u)' = e
    <3>1. DirOf(u)' = DirOf(u) /\ local'[u] = local[u]
      BY <1>1 DEF DirOf
    <3>2. lock[e] = u <=> HasBuffer(u) /\ local[u].shares /\ DirOf(u) = e
      BY DEF StreamInv, LockInv
    <3>3. lock'[e] = IF lock[e] = t /\ e = DirOf(t) /\ local[t].shares
                     THEN NoThread ELSE lock[e]
      BY <1>1
    <3>4. CASE u = t
      BY <1>1, <1>8, <3>1, <3>2, <3>3, <3>4, StreamAssumption DEF HasBuffer
    <3>5. CASE u # t
      <4>1. HasBuffer(u)' <=> HasBuffer(u)
        BY <1>7, <3>5 DEF HasBuffer
      <4>2. lock'[e] = u <=> lock[e] = u
        BY <3>3, <3>5, StreamAssumption
      <4>. QED BY <3>1, <3>2, <4>1, <4>2
    <3>. QED BY <3>4, <3>5
  <2>. QED BY <2>1 DEF LockInv
<1>12. OwnerInv'
  BY <1>1, <1>7, <1>8, OwnerKept DEF StreamInv, At, DirOf
<1>13. Good(t)'
  BY <1>1, <1>2, <1>4, <1>5, <1>8, <1>9
     DEF StreamInv, ContentInv, Good, At, HasBuffer, Named, Ops
<1>14. ASSUME NEW u \in Threads \ {t} PROVE Good(u)'
  BY <1>1, <1>7, OthersGood DEF StreamInv, ContentInv, TypeOK
<1>. QED BY <1>10, <1>11, <1>12, <1>13, <1>14 DEF StreamInv, ContentInv

LEMMA ReturnStep ==
  ASSUME StreamInv, NEW t \in Threads, Return(t)
  PROVE  StreamInv'
<1>1. /\ pc[t] = "done" /\ pc' = [pc EXCEPT ![t] = "idle"]
      /\ op' = [op EXCEPT ![t] = "none"]
      /\ local' = [local EXCEPT ![t] = NoLocals]
      /\ result' = [result EXCEPT ![t] = NoResult]
      /\ bytes' = [bytes EXCEPT ![t] = << >>]
      /\ UNCHANGED <<attached, owner, moved, closed, shared, lock, line>>
  BY DEF Return, At, Goto, channel
<1>2. \A u \in Threads \ {t} : /\ pc'[u] = pc[u] /\ op'[u] = op[u] /\ local'[u] = local[u]
                              /\ result'[u] = result[u] /\ bytes'[u] = bytes[u]
  BY <1>1 DEF StreamInv, TypeOK
<1>3. /\ pc'[t] = "idle" /\ op'[t] = "none" /\ local'[t] = NoLocals
      /\ result'[t] = NoResult
  BY <1>1 DEF StreamInv, TypeOK
<1>4. TypeOK'
  <2>1. local' \in [Threads -> Frames]
    <3>1. NoLocals \in Frames
      BY DEF NoLocals, Frames
    <3>. QED BY <1>1, <3>1 DEF StreamInv, TypeOK, Frames
  <2>2. \A u \in Threads : Len(local'[u].own) <= local'[u].len
    <3>1. Len(local'[t].own) <= local'[t].len
      BY <1>3 DEF NoLocals
    <3>2. \A u \in Threads \ {t} : Len(local'[u].own) <= local'[u].len
      BY <1>2, FrameTyped DEF StreamInv
    <3>. QED BY <3>1, <3>2
  <2>3. result' \in [Threads -> [outcome : Outcomes, count : Nat \cup {-1}]]
    BY <1>1 DEF StreamInv, TypeOK, NoResult, Outcomes
  <2>4. /\ pc' \in [Threads -> Labels] /\ op' \in [Threads -> Ops \cup {"none"}]
        /\ bytes' \in [Threads -> Seq(Byte)]
    BY <1>1 DEF StreamInv, TypeOK, Labels
  <2>. QED BY <1>1, <2>1, <2>2, <2>3, <2>4 DEF StreamInv, TypeOK, Frames
<1>5. LockInv'
  BY <1>1, <1>2, <1>3, LockKept DEF StreamInv, HasBuffer, DirOf
<1>6. OwnerInv'
  BY <1>1, <1>2, <1>3, OwnerKept DEF StreamInv, At, DirOf
<1>7. Good(t)'
  BY <1>3 DEF Good, At, HasBuffer, NoLocals, NoResult
<1>8. ASSUME NEW u \in Threads \ {t} PROVE Good(u)'
  BY <1>1, <1>2, OthersGood DEF StreamInv, ContentInv, TypeOK
<1>. QED BY <1>4, <1>5, <1>6, <1>7, <1>8 DEF StreamInv, ContentInv

\* Nothing that a call rests on changes: a close, the detaching of the line, a stutter.
LEMMA RestStep ==
  ASSUME StreamInv, attached' \in BOOLEAN, closed' \in BOOLEAN, closed => closed',
         UNCHANGED <<owner, moved, shared, lock, pc, op, local, result, bytes, line>>
  PROVE  StreamInv'
<1>1. TypeOK'
  BY DEF StreamInv, TypeOK
<1>2. LockInv'
  BY LockKept DEF StreamInv, HasBuffer, DirOf
<1>3. OwnerInv'
  BY OwnerKept DEF StreamInv, At, DirOf
<1>4. ASSUME NEW u \in Threads PROVE Good(u)'
  BY OthersGood DEF StreamInv, ContentInv, TypeOK
<1>. QED BY <1>1, <1>2, <1>3, <1>4 DEF StreamInv, ContentInv

LEMMA StreamInvInit == Init => StreamInv
<1>. SUFFICES ASSUME Init PROVE StreamInv
  OBVIOUS
<1>. USE DEF Init, Channel!Init
<1>1. TypeOK
  <2>1. << >> \in Seq(Byte) /\ Len(<< >>) = 0 /\ 0 <= BufferSize
    BY StreamAssumption
  <2>2. NoLocals \in Frames /\ Len(NoLocals.own) <= NoLocals.len
    BY <2>1 DEF NoLocals, Frames
  <2>3. NoResult \in [outcome : Outcomes, count : Nat \cup {-1}]
    BY DEF NoResult, Outcomes
  <2>4. "idle" \in Labels
    BY DEF Labels
  <2>5. owner \in [Dir -> Threads \cup {NoThread}] /\ moved \in [Dir -> Nat]
    BY DEF Dir, Channel!Dir
  <2>6. shared \in [Dir -> Seq(Byte)] /\ \A d \in Dir : Len(shared[d]) <= BufferSize
    BY <2>1
  <2>. QED BY <2>1, <2>2, <2>3, <2>4, <2>5, <2>6 DEF TypeOK, Frames
<1>2. LockInv
  BY StreamAssumption DEF LockInv, HasBuffer
<1>3. OwnerInv
  BY StreamAssumption DEF OwnerInv, At, Dir, Channel!Dir
<1>4. ContentInv
  BY DEF ContentInv, Good, At, HasBuffer, NoLocals, NoResult
<1>. QED BY <1>1, <1>2, <1>3, <1>4 DEF StreamInv

LEMMA StreamInvNext == StreamInv /\ [Next]_vars => StreamInv'
<1>. SUFFICES ASSUME StreamInv, [Next]_vars PROVE StreamInv'
  OBVIOUS
<1>1. CASE \E t \in Threads : \/ Call(t) \/ TryLock(t) \/ Enter(t) \/ MoveIn(t) \/ MoveOut(t)
                             \/ Leave(t) \/ Finish(t) \/ Return(t)
  BY <1>1, CallStep, TryLockStep, EnterStep, MoveInStep, MoveOutStep, LeaveStep, FinishStep,
     ReturnStep
<1>2. CASE Close
  BY <1>2, RestStep DEF Close, channel, StreamInv, TypeOK
<1>3. CASE Detach
  BY <1>3, RestStep DEF Detach, Channel!Detach, StreamInv, TypeOK
<1>4. CASE UNCHANGED vars
  BY <1>4, RestStep DEF vars, channel, StreamInv, TypeOK
<1>. QED BY <1>1, <1>2, <1>3, <1>4 DEF Next

LEMMA StreamInvariance == Spec => []StreamInv
BY StreamInvInit, StreamInvNext, PTL DEF Spec

------------------------------------------------------------------------------
(***************************************************************************)
(* Every variable keeps its type: no buffer of a stream holds more than    *)
(* BUFFER_SIZE bytes, none of a call more than the caller's array.         *)
(***************************************************************************)
THEOREM TypeCorrect == Spec => []TypeOK
BY StreamInvariance, PTL DEF StreamInv

(***************************************************************************)
(* A read that succeeds stores the bytes the socket gave to this very      *)
(* call, all and in order, whatever the other threads do with the buffer   *)
(* that the stream has for all of them.                                    *)
(***************************************************************************)
THEOREM ReadsOwnBytes == Spec => []OwnBytesIn
<1>1. StreamInv => OwnBytesIn
  BY DEF StreamInv, ContentInv, Good, OwnBytesIn
<1>. QED BY <1>1, StreamInvariance, PTL

(***************************************************************************)
(* The bytes on the line are those of the write that owns it: the n-th to  *)
(* go out since it got the line is the n-th its caller passed.             *)
(***************************************************************************)
LEMMA WritesNextByte == StreamInv /\ [Next]_vars =>
        (moved'["out"] > moved["out"] => line' = <<owner["out"], moved'["out"]>>)
<1>. SUFFICES ASSUME StreamInv, [Next]_vars, moved'["out"] > moved["out"]
              PROVE  line' = <<owner["out"], moved'["out"]>>
  OBVIOUS
<1>1. moved \in [Dir -> Nat] /\ "out" \in Dir
  BY DEF StreamInv, TypeOK, Dir
<1>2. moved' # moved
  BY <1>1
<1>3. PICK t \in Threads : MoveIn(t) \/ MoveOut(t) \/ Leave(t)
  BY <1>2 DEF Next, Call, TryLock, Enter, Finish, Return, Close, Detach, vars, channel,
              Channel!Claim, Channel!Detach
<1>4. CASE MoveIn(t)
  <2>1. MovesOne(t) /\ DirOf(t) = "in"
    BY <1>4 DEF MoveIn, DirOf
  <2>. QED BY <1>1, <2>1, MovesOneStep
<1>5. CASE MoveOut(t)
  <2>1. MovesOne(t) /\ DirOf(t) = "out" /\ line' = <<t, moved["out"] + 1>>
    BY <1>5, MoveOutByte DEF MoveOut
  <2>2. owner["out"] = t /\ moved'["out"] = moved["out"] + 1
    BY <1>1, <2>1, MovesOneStep
  <2>. QED BY <2>1, <2>2
<1>6. CASE Leave(t)
  <2>1. moved' = [moved EXCEPT ![DirOf(t)] = 0]
    BY <1>6 DEF Leave, Channel!Yield
  <2>. QED BY <1>1, <2>1
<1>. QED BY <1>3, <1>4, <1>5, <1>6

(***************************************************************************)
(* While a write owns the line the bytes that go out are those its caller  *)
(* passed, each once and in order: no other call writes into its buffer.   *)
(***************************************************************************)
THEOREM WritesOwnBytes == Spec => OwnBytesOut
BY StreamInvariance, WritesNextByte, PTL DEF Spec, OwnBytesOut
==================================================================================
