------------------- MODULE PosixAsyncSerialPortSocketProofs -------------------
(***************************************************************************)
(* Proofs about PosixAsyncSerialPortSocket, for any calls and any pool of  *)
(* threads: the types, the single answer of each call, and where the       *)
(* permits of the two semaphores are.                                      *)
(*                                                                         *)
(* A success callback that throws is called a second time as a failure and *)
(* releases a permit it no longer has, so all but the types is proved for  *)
(* callbacks that do not throw; CallbackThrows is a constant of the model. *)
(***************************************************************************)
EXTENDS PosixAsyncSerialPortSocket, FiniteSetTheorems, SequenceTheorems, TLAPS

Outcomes == {"success", "failure", "cancelled"}

Occurs(r, seq) == \E i \in 1..Len(seq) : seq[i] = r

\* A parked thread is in its semaphore's queue, a submitted task in the executor's.
QueueInv == \A r \in Requests : /\ At(r, "waiting") => Occurs(r, waiters[DirOf(r)])
                                /\ At(r, "queued") => Occurs(r, queue)

SafeTypes == TypeOK /\ QueueInv

\* What is true of a request at each of its statements.
Sound(r) ==
  /\ kind[r] = "none" <=> At(r, "new")
  /\ pc[r] \in {"new", "tryAcquire"} => ~acquired[r]
  /\ At(r, "start") => acquired[r]
  /\ Len(answers[r]) <= 1
  /\ At(r, "done") => answers[r] # << >>
  /\ ~At(r, "done") /\ ~IsFuture(r) => answers[r] = << >>
  /\ IsFuture(r) => pc[r] \notin {"succeed", "fail"}
  /\ pc[r] \in {"new", "tryAcquire", "start", "submit"} => answers[r] = << >>

SoundInv == \A r \in Requests : Sound(r)

\* The future variant of each direction, and the variant that keeps its permit.
Future(d) == IF d = "in" THEN "readFuture" ELSE "writeFuture"
Leaking(d) == d = "out" /\ Used({"writeCallback"})

Total(d) == permits[d] + Cardinality(Holders(d))

\* No permit is made where no future is used; it is lost only by a write callback.
PermitInv ==
  \A d \in Dir : ~Used({Future(d)}) => /\ Total(d) <= 1
                                       /\ Leaking(d) \/ Total(d) = 1

AsyncInv == SafeTypes /\ SoundInv /\ PermitInv

Holds(r) == \/ pc[r] \in {"start", "startTask", "continue"}
            \/ acquired[r] /\ pc[r] \in {"submit", "queued"}

------------------------------------------------------------------------------
(* Sequences of requests. *)

LEMMA OccursAppend ==
  ASSUME NEW S, NEW seq \in Seq(S), NEW s \in S
  PROVE  /\ Append(seq, s) \in Seq(S)
         /\ Occurs(s, Append(seq, s))
         /\ \A r : Occurs(r, seq) => Occurs(r, Append(seq, s))
<1>1. /\ Append(seq, s) \in Seq(S) /\ Len(Append(seq, s)) = Len(seq) + 1
      /\ Append(seq, s)[Len(seq) + 1] = s
      /\ \A i \in 1..Len(seq) : Append(seq, s)[i] = seq[i]
      /\ Len(seq) \in Nat
  OBVIOUS
<1>2. Occurs(s, Append(seq, s))
  BY <1>1 DEF Occurs
<1>3. ASSUME NEW r, Occurs(r, seq) PROVE Occurs(r, Append(seq, s))
  <2>1. PICK i \in 1..Len(seq) : seq[i] = r
    BY <1>3 DEF Occurs
  <2>2. i \in 1..Len(Append(seq, s)) /\ Append(seq, s)[i] = r
    BY <1>1, <2>1
  <2>. QED BY <2>2 DEF Occurs
<1>. QED BY <1>1, <1>2, <1>3

LEMMA OccursTail ==
  ASSUME NEW S, NEW seq \in Seq(S), Occurs(Head(seq), seq)
  PROVE  /\ Tail(seq) \in Seq(S)
         /\ \A r : Occurs(r, seq) /\ r # Head(seq) => Occurs(r, Tail(seq))
<1>1. Len(seq) \in Nat /\ Len(seq) # 0 /\ seq # << >>
  BY DEF Occurs
<1>2. /\ Tail(seq) \in Seq(S) /\ Len(Tail(seq)) = Len(seq) - 1 /\ Head(seq) = seq[1]
      /\ \A i \in 1..Len(Tail(seq)) : Tail(seq)[i] = seq[i + 1]
  BY <1>1
<1>3. ASSUME NEW r, Occurs(r, seq), r # Head(seq) PROVE Occurs(r, Tail(seq))
  <2>1. PICK i \in 1..Len(seq) : seq[i] = r
    BY <1>3 DEF Occurs
  <2>2. i - 1 \in 1..Len(Tail(seq)) /\ Tail(seq)[i - 1] = seq[(i - 1) + 1] /\ (i - 1) + 1 = i
    BY <1>1, <1>2, <1>3, <2>1
  <2>. QED BY <2>1, <2>2 DEF Occurs
<1>. QED BY <1>2, <1>3

------------------------------------------------------------------------------
(* Types, for callbacks that throw as well. *)

\* What every action says of the requests it is not about.
Others(t) ==
  \A u \in Requests \ {t} :
    pc'[u] = pc[u] /\ kind'[u] = kind[u] /\ acquired'[u] = acquired[u] /\ answers'[u] = answers[u]

LEMMA DirOfDir == \A r : DirOf(r) \in Dir
BY DEF DirOf, Dir

LEMMA RunningAdded ==
  ASSUME TypeOK, NEW t \in Requests, Cardinality(running) < PoolSize
  PROVE  running \cup {t} \subseteq Requests /\ Cardinality(running \cup {t}) <= PoolSize
<1>1. IsFiniteSet(running)
  BY AsyncAssumption, FS_Subset DEF TypeOK
<1>2. Cardinality(running) \in Nat
  BY <1>1, FS_CardinalityType
<1>3. Cardinality(running \cup {t}) = IF t \in running THEN Cardinality(running)
                                                      ELSE Cardinality(running) + 1
  BY <1>1, FS_AddElement
<1>. QED BY <1>2, <1>3, AsyncAssumption DEF TypeOK

LEMMA RunningRemoved ==
  ASSUME TypeOK, NEW t
  PROVE  running \ {t} \subseteq Requests /\ Cardinality(running \ {t}) <= PoolSize
<1>1. IsFiniteSet(running)
  BY AsyncAssumption, FS_Subset DEF TypeOK
<1>2. /\ Cardinality(running) \in Nat /\ Cardinality(running \ {t}) \in Nat
      /\ Cardinality(running \ {t}) <= Cardinality(running)
  BY <1>1, FS_Subset, FS_CardinalityType
<1>. QED BY <1>2, AsyncAssumption DEF TypeOK

LEMMA AnswerTyped ==
  ASSUME TypeOK, NEW t \in Requests, NEW a \in Outcomes, Answer(t, a)
  PROVE  answers' \in [Requests -> Seq({"success", "failure", "cancelled"})]
<1>1. Append(answers[t], a) \in Seq(Outcomes)
  BY DEF TypeOK, Outcomes
<1>. QED BY <1>1 DEF TypeOK, Answer, Outcomes

LEMMA ReleaseTyped ==
  ASSUME TypeOK, NEW t \in Requests, Release(t)
  PROVE  permits' \in [Dir -> Nat]
<1>1. permits[DirOf(t)] + 1 \in Nat
  BY DirOfDir DEF TypeOK
<1>. QED BY <1>1 DEF TypeOK, Release

\* Complete leaves the request behind its transfer.
LEMMA CompleteTyped ==
  ASSUME TypeOK, NEW t \in Requests, NEW outcome, Complete(t, outcome)
  PROVE  /\ answers' \in [Requests -> Seq({"success", "failure", "cancelled"})]
         /\ running' \subseteq Requests /\ Cardinality(running') <= PoolSize
         /\ \E l \in {"succeed", "fail", "done"} : pc' = [pc EXCEPT ![t] = l]
<1>1. CASE kind[t] \in {"readCallback", "writeCallback"}
  BY <1>1 DEF Complete, Goto, TypeOK
<1>2. CASE kind[t] \notin {"readCallback", "writeCallback"}
  <2>1. /\ pc' = [pc EXCEPT ![t] = "done"] /\ running' = running \ {t}
        /\ Answer(t, IF outcome = "error" THEN "failure" ELSE "success")
    BY <1>2 DEF Complete, Goto
  <2>. QED BY <2>1, AnswerTyped, RunningRemoved DEF Outcomes
<1>. QED BY <1>1, <1>2

\* A request that goes on with neither queue changed.
LEMMA QueuesKept ==
  ASSUME SafeTypes, NEW t \in Requests, NEW l \in Labels \ {"waiting", "queued"},
         pc' = [pc EXCEPT ![t] = l], UNCHANGED <<waiters, queue>>,
         \A u \in Requests \ {t} : kind'[u] = kind[u]
  PROVE  QueueInv' /\ pc' \in [Requests -> Labels]
<1>1. pc' \in [Requests -> Labels]
  BY DEF SafeTypes, TypeOK
<1>2. ASSUME NEW u \in Requests
      PROVE  /\ At(u, "waiting")' => Occurs(u, waiters'[DirOf(u)'])
             /\ At(u, "queued")' => Occurs(u, queue')
  <2>1. CASE u = t
    BY <2>1 DEF SafeTypes, TypeOK, At
  <2>2. CASE u # t
    <3>1. pc'[u] = pc[u] /\ DirOf(u)' = DirOf(u)
      BY <2>2 DEF SafeTypes, TypeOK, DirOf
    <3>. QED BY <3>1 DEF SafeTypes, QueueInv, At
  <2>. QED BY <2>1, <2>2
<1>. QED BY <1>1, <1>2 DEF QueueInv, Occurs
LEMMA TypesInit == Init => SafeTypes
<1>. SUFFICES ASSUME Init PROVE SafeTypes
  OBVIOUS
<1>1. Cardinality({}) = 0
  BY FS_EmptySet
<1>2. TypeOK
  <2>1. waiters \in [Dir -> Seq(Requests)] /\ queue \in Seq(Requests)
    BY DEF Init
  <2>2. answers \in [Requests -> Seq({"success", "failure", "cancelled"})]
    BY DEF Init
  <2>3. permits \in [Dir -> Nat] /\ pc \in [Requests -> Labels]
    BY DEF Init, Labels
  <2>4. kind \in [Requests -> Kinds \cup {"none"}] /\ acquired \in [Requests -> BOOLEAN]
    BY DEF Init
  <2>5. closed \in BOOLEAN /\ running = {}
    BY DEF Init
  <2>6. Cardinality(running) <= PoolSize
    BY <1>1, <2>5, AsyncAssumption
  <2>. QED BY <2>1, <2>2, <2>3, <2>4, <2>5, <2>6 DEF TypeOK
<1>3. QueueInv
  BY DEF Init, QueueInv, At
<1>. QED BY <1>2, <1>3 DEF SafeTypes

LEMMA CallTypes ==
  ASSUME SafeTypes, NEW t \in Requests, Call(t)
  PROVE  SafeTypes'
<1>1. PICK k \in Offered : /\ kind' = [kind EXCEPT ![t] = k]
                           /\ pc' = [pc EXCEPT ![t] = IF k = "blocking" THEN "acquire"
                                                                       ELSE "tryAcquire"]
  BY DEF Call, Goto
<1>2. UNCHANGED <<closed, permits, waiters, queue, running, acquired, answers>>
  BY DEF Call
<1>3. k \in Kinds
  BY AsyncAssumption
<1>4. kind' \in [Requests -> Kinds \cup {"none"}] /\ \A u \in Requests \ {t} : kind'[u] = kind[u]
  BY <1>1, <1>3 DEF SafeTypes, TypeOK
<1>5. PICK l \in {"acquire", "tryAcquire"} : pc' = [pc EXCEPT ![t] = l]
  BY <1>1
<1>6. QueueInv' /\ pc' \in [Requests -> Labels]
  <2>1. l \in Labels \ {"waiting", "queued"}
    BY DEF Labels
  <2>. QED BY <1>2, <1>4, <1>5, <2>1, QueuesKept
<1>. QED BY <1>2, <1>4, <1>6 DEF SafeTypes, TypeOK

LEMMA TryAcquireTypes ==
  ASSUME SafeTypes, NEW t \in Requests, TryAcquire(t)
  PROVE  SafeTypes'
<1>1. /\ UNCHANGED <<closed, waiters, queue, running, kind, answers>>
      /\ \E l \in {"start", "submit"} : pc' = [pc EXCEPT ![t] = l]
  BY DEF TryAcquire, Goto
<1>2. permits' \in [Dir -> Nat] /\ acquired' \in [Requests -> BOOLEAN]
  <2>1. CASE permits[DirOf(t)] > 0
    <3>1. permits[DirOf(t)] - 1 \in Nat
      BY <2>1, DirOfDir DEF SafeTypes, TypeOK
    <3>. QED BY <2>1, <3>1 DEF TryAcquire, SafeTypes, TypeOK
  <2>2. CASE ~(permits[DirOf(t)] > 0)
    BY <2>2 DEF TryAcquire, SafeTypes, TypeOK
  <2>. QED BY <2>1, <2>2
<1>3. QueueInv' /\ pc' \in [Requests -> Labels]
  BY <1>1, QueuesKept DEF Labels
<1>. QED BY <1>1, <1>2, <1>3 DEF SafeTypes, TypeOK

\* The end of a transfer, or its handing over.
LEMMA TransferTypes ==
  ASSUME SafeTypes, NEW t \in Requests,
         StartInCaller(t) \/ StartInTask(t) \/ Continue(t)
  PROVE  SafeTypes'
<1>1. UNCHANGED <<closed, waiters, queue, kind, acquired>>
  BY DEF StartInCaller, StartInTask, Continue
<1>2. PICK outcome \in {"full", "partial", "ok", "error"} :
        /\ UNCHANGED permits \/ Release(t)
        /\ \/ Complete(t, outcome)
           \/ /\ Goto(t, "submit") \/ Goto(t, "continue")
              /\ UNCHANGED <<running, answers>>
  BY DEF StartInCaller, StartInTask, Continue, StartOutcomes, ContinueOutcomes
<1>3. permits' \in [Dir -> Nat]
  BY <1>2, ReleaseTyped DEF SafeTypes, TypeOK
<1>4. /\ answers' \in [Requests -> Seq({"success", "failure", "cancelled"})]
      /\ running' \subseteq Requests /\ Cardinality(running') <= PoolSize
      /\ \E l \in {"succeed", "fail", "done", "submit", "continue"} : pc' = [pc EXCEPT ![t] = l]
  <2>1. CASE Complete(t, outcome)
    BY <2>1, CompleteTyped DEF SafeTypes
  <2>2. CASE (Goto(t, "submit") \/ Goto(t, "continue")) /\ UNCHANGED <<running, answers>>
    BY <2>2 DEF Goto, SafeTypes, TypeOK
  <2>. QED BY <1>2, <2>1, <2>2
<1>5. QueueInv' /\ pc' \in [Requests -> Labels]
  <2>1. {"succeed", "fail", "done", "submit", "continue"} \subseteq Labels \ {"waiting", "queued"}
    BY DEF Labels
  <2>. QED BY <1>1, <1>4, <2>1, QueuesKept
<1>. QED BY <1>1, <1>3, <1>4, <1>5 DEF SafeTypes, TypeOK

LEMMA SubmitTypes ==
  ASSUME SafeTypes, NEW t \in Requests, Submit(t)
  PROVE  SafeTypes'
<1>1. /\ queue' = Append(queue, t) /\ pc' = [pc EXCEPT ![t] = "queued"]
      /\ UNCHANGED <<closed, permits, waiters, running, kind, acquired, answers>>
  BY DEF Submit, Goto
<1>2. /\ queue' \in Seq(Requests) /\ Occurs(t, queue')
      /\ \A u : Occurs(u, queue) => Occurs(u, queue')
  BY <1>1, OccursAppend DEF SafeTypes, TypeOK
<1>3. pc' \in [Requests -> Labels]
  BY <1>1 DEF SafeTypes, TypeOK, Labels
<1>4. QueueInv'
  <2>. SUFFICES ASSUME NEW u \in Requests
                PROVE  /\ At(u, "waiting")' => Occurs(u, waiters'[DirOf(u)'])
                       /\ At(u, "queued")' => Occurs(u, queue')
    BY DEF QueueInv, Occurs
  <2>1. DirOf(u)' = DirOf(u)
    BY <1>1 DEF DirOf
  <2>2. u # t => pc'[u] = pc[u]
    BY <1>1 DEF SafeTypes, TypeOK
  <2>3. pc'[t] = "queued"
    BY <1>1 DEF SafeTypes, TypeOK
  <2>. QED BY <1>1, <1>2, <2>1, <2>2, <2>3 DEF SafeTypes, QueueInv, At
<1>. QED BY <1>1, <1>2, <1>3, <1>4 DEF SafeTypes, TypeOK

LEMMA RunTaskTypes ==
  ASSUME SafeTypes, NEW t \in Requests, RunTask(t)
  PROVE  SafeTypes'
<1>1. /\ pc[t] = "queued" /\ Head(queue) = t /\ queue' = Tail(queue)
      /\ Cardinality(running) < PoolSize /\ running' \in {running, running \cup {t}}
      /\ UNCHANGED <<closed, permits, waiters, kind, acquired, answers>>
  BY DEF RunTask, At
<1>2. PICK l \in {"done", "continue", "acquire"} : pc' = [pc EXCEPT ![t] = l]
  BY DEF RunTask, Goto
<1>3. /\ queue' \in Seq(Requests)
      /\ \A u : Occurs(u, queue) /\ u # t => Occurs(u, queue')
  <2>1. Occurs(Head(queue), queue) /\ queue \in Seq(Requests)
    BY <1>1 DEF SafeTypes, TypeOK, QueueInv, At
  <2>. QED BY <1>1, <2>1, OccursTail
<1>4. running' \subseteq Requests /\ Cardinality(running') <= PoolSize
  BY <1>1, RunningAdded DEF SafeTypes, TypeOK
<1>5. pc' \in [Requests -> Labels]
  BY <1>2 DEF SafeTypes, TypeOK, Labels
<1>6. QueueInv'
  <2>. SUFFICES ASSUME NEW u \in Requests
                PROVE  /\ At(u, "waiting")' => Occurs(u, waiters'[DirOf(u)'])
                       /\ At(u, "queued")' => Occurs(u, queue')
    BY DEF QueueInv, Occurs
  <2>1. DirOf(u)' = DirOf(u)
    BY <1>1 DEF DirOf
  <2>2. u # t => pc'[u] = pc[u]
    BY <1>2 DEF SafeTypes, TypeOK
  <2>3. pc'[t] = l
    BY <1>2 DEF SafeTypes, TypeOK
  <2>. QED BY <1>1, <1>3, <2>1, <2>2, <2>3 DEF SafeTypes, QueueInv, At
<1>. QED BY <1>1, <1>3, <1>4, <1>5, <1>6 DEF SafeTypes, TypeOK

LEMMA AcquireTypes ==
  ASSUME SafeTypes, NEW t \in Requests, Acquire(t)
  PROVE  SafeTypes'
<1>. DEFINE d == DirOf(t)
<1>1. /\ waiters' = [waiters EXCEPT ![d] = Append(waiters[d], t)]
      /\ pc' = [pc EXCEPT ![t] = "waiting"]
      /\ UNCHANGED <<closed, permits, queue, running, kind, acquired, answers>>
  BY DEF Acquire, Goto
<1>2. d \in Dir /\ waiters \in [Dir -> Seq(Requests)]
  BY DirOfDir DEF SafeTypes, TypeOK
<1>. HIDE DEF d
<1>3. /\ Append(waiters[d], t) \in Seq(Requests) /\ Occurs(t, Append(waiters[d], t))
      /\ \A u : Occurs(u, waiters[d]) => Occurs(u, Append(waiters[d], t))
  BY <1>2, OccursAppend
<1>4. waiters' \in [Dir -> Seq(Requests)]
  BY <1>1, <1>2, <1>3
<1>5. pc' \in [Requests -> Labels]
  BY <1>1 DEF SafeTypes, TypeOK, Labels
<1>6. QueueInv'
  <2>. SUFFICES ASSUME NEW u \in Requests
                PROVE  /\ At(u, "waiting")' => Occurs(u, waiters'[DirOf(u)'])
                       /\ At(u, "queued")' => Occurs(u, queue')
    BY DEF QueueInv, Occurs
  <2>1. DirOf(u)' = DirOf(u) /\ DirOf(u) \in Dir
    BY <1>1, DirOfDir DEF DirOf
  <2>2. u # t => pc'[u] = pc[u]
    BY <1>1 DEF SafeTypes, TypeOK
  <2>3. pc'[t] = "waiting"
    BY <1>1 DEF SafeTypes, TypeOK
  <2>4. Occurs(u, waiters[DirOf(u)]) => Occurs(u, waiters'[DirOf(u)])
    <3>1. CASE DirOf(u) = d
      BY <1>1, <1>2, <1>3, <3>1
    <3>2. CASE DirOf(u) # d
      BY <1>1, <1>2, <2>1, <3>2
    <3>. QED BY <3>1, <3>2
  <2>5. Occurs(t, waiters'[DirOf(t)])
    BY <1>1, <1>2, <1>3 DEF d
  <2>. QED BY <1>1, <2>1, <2>2, <2>3, <2>4, <2>5 DEF SafeTypes, QueueInv, At
<1>. QED BY <1>1, <1>4, <1>5, <1>6 DEF SafeTypes, TypeOK

LEMMA AcquiredTypes ==
  ASSUME SafeTypes, NEW t \in Requests, Acquired(t)
  PROVE  SafeTypes'
<1>. DEFINE d == DirOf(t)
<1>1. /\ pc[t] = "waiting" /\ Head(waiters[d]) = t /\ permits[d] > 0
      /\ waiters' = [waiters EXCEPT ![d] = Tail(waiters[d])]
      /\ permits' = [permits EXCEPT ![d] = permits[d] - 1]
      /\ UNCHANGED <<closed, queue, running, kind, acquired, answers>>
  BY DEF Acquired, At
<1>2. PICK l \in {"continue", "startTask"} : pc' = [pc EXCEPT ![t] = l]
  BY DEF Acquired, Goto
<1>3. d \in Dir /\ waiters \in [Dir -> Seq(Requests)] /\ permits[d] \in Nat
  BY DirOfDir DEF SafeTypes, TypeOK
<1>4. Occurs(t, waiters[d])
  BY <1>1 DEF SafeTypes, QueueInv, At
<1>. HIDE DEF d
<1>5. /\ Tail(waiters[d]) \in Seq(Requests)
      /\ \A u : Occurs(u, waiters[d]) /\ u # t => Occurs(u, Tail(waiters[d]))
  BY <1>1, <1>3, <1>4, OccursTail
<1>6. waiters' \in [Dir -> Seq(Requests)]
  BY <1>1, <1>3, <1>5
<1>7. permits' \in [Dir -> Nat]
  <2>1. permits[d] - 1 \in Nat
    BY <1>1, <1>3
  <2>. QED BY <1>1, <2>1 DEF SafeTypes, TypeOK
<1>8. pc' \in [Requests -> Labels]
  BY <1>2 DEF SafeTypes, TypeOK, Labels
<1>9. QueueInv'
  <2>. SUFFICES ASSUME NEW u \in Requests
                PROVE  /\ At(u, "waiting")' => Occurs(u, waiters'[DirOf(u)'])
                       /\ At(u, "queued")' => Occurs(u, queue')
    BY DEF QueueInv, Occurs
  <2>1. DirOf(u)' = DirOf(u) /\ DirOf(u) \in Dir
    BY <1>1, DirOfDir DEF DirOf
  <2>2. u # t => pc'[u] = pc[u]
    BY <1>2 DEF SafeTypes, TypeOK
  <2>3. pc'[t] = l
    BY <1>2 DEF SafeTypes, TypeOK
  <2>4. Occurs(u, waiters[DirOf(u)]) /\ u # t => Occurs(u, waiters'[DirOf(u)])
    <3>1. CASE DirOf(u) = d
      BY <1>1, <1>3, <1>5, <3>1
    <3>2. CASE DirOf(u) # d
      BY <1>1, <1>3, <2>1, <3>2
    <3>. QED BY <3>1, <3>2
  <2>. QED BY <1>1, <2>1, <2>2, <2>3, <2>4 DEF SafeTypes, QueueInv, At
<1>. QED BY <1>1, <1>6, <1>7, <1>8, <1>9 DEF SafeTypes, TypeOK

\* The callbacks.
LEMMA CallbackTypes ==
  ASSUME SafeTypes, NEW t \in Requests, Succeed(t) \/ Fail(t)
  PROVE  SafeTypes'
<1>1. /\ UNCHANGED <<closed, waiters, queue, kind, acquired>>
      /\ UNCHANGED permits \/ Release(t)
      /\ running' = running \/ running' = running \ {t}
      /\ \E a \in Outcomes : Answer(t, a)
      /\ \E l \in {"fail", "done"} : pc' = [pc EXCEPT ![t] = l]
  BY DEF Succeed, Fail, Goto, Outcomes
<1>2. permits' \in [Dir -> Nat]
  BY <1>1, ReleaseTyped DEF SafeTypes, TypeOK
<1>3. running' \subseteq Requests /\ Cardinality(running') <= PoolSize
  BY <1>1, RunningRemoved DEF SafeTypes, TypeOK
<1>4. answers' \in [Requests -> Seq({"success", "failure", "cancelled"})]
  BY <1>1, AnswerTyped DEF SafeTypes
<1>5. QueueInv' /\ pc' \in [Requests -> Labels]
  <2>1. {"fail", "done"} \subseteq Labels \ {"waiting", "queued"}
    BY DEF Labels
  <2>. QED BY <1>1, <2>1, QueuesKept
<1>. QED BY <1>1, <1>2, <1>3, <1>4, <1>5 DEF SafeTypes, TypeOK

LEMMA CancelTypes ==
  ASSUME SafeTypes, NEW t \in Requests, Cancel(t)
  PROVE  SafeTypes'
<1>1. /\ UNCHANGED <<closed, permits, waiters, queue, running, kind, pc, acquired>>
      /\ Answer(t, "cancelled")
  BY DEF Cancel
<1>2. answers' \in [Requests -> Seq({"success", "failure", "cancelled"})]
  BY <1>1, AnswerTyped DEF SafeTypes, Outcomes
<1>3. QueueInv'
  BY <1>1 DEF SafeTypes, QueueInv, At, DirOf, Occurs
<1>. QED BY <1>1, <1>2, <1>3 DEF SafeTypes, TypeOK

LEMMA TypesNext == SafeTypes /\ [Next]_vars => SafeTypes'
<1>. SUFFICES ASSUME SafeTypes, [Next]_vars PROVE SafeTypes'
  OBVIOUS
<1>1. CASE Close
  BY <1>1 DEF Close, SafeTypes, TypeOK, QueueInv, At, DirOf, Occurs
<1>2. CASE \E t \in Requests : Call(t) \/ Step(t) \/ Continue(t) \/ Cancel(t)
  BY <1>2, CallTypes, TryAcquireTypes, TransferTypes, SubmitTypes, RunTaskTypes, AcquireTypes,
     AcquiredTypes, CallbackTypes, CancelTypes, Zenon DEF Step
<1>3. CASE UNCHANGED vars
  BY <1>3 DEF vars, SafeTypes, TypeOK, QueueInv, At, DirOf, Occurs
<1>. QED BY <1>1, <1>2, <1>3 DEF Next

(***************************************************************************)
(* Every variable keeps its type, whatever the callbacks throw: no permit  *)
(* is taken that is not there, and the executor runs no more tasks at a    *)
(* time than it has threads.                                               *)
(***************************************************************************)
THEOREM TypeCorrect == Spec => []TypeOK
BY TypesInit, TypesNext, PTL DEF Spec, SafeTypes
------------------------------------------------------------------------------
(* One answer. *)

LEMMA OthersSound ==
  ASSUME SafeTypes, SoundInv, NEW t \in Requests, Others(t), Sound(t)'
  PROVE  SoundInv'
<1>1. ASSUME NEW u \in Requests \ {t} PROVE Sound(u)'
  BY DEF SoundInv, Sound, Others, At, IsFuture
<1>. QED BY <1>1 DEF SoundInv

\* What an answer adds to what a request has.
LEMMA Answers ==
  ASSUME SafeTypes, NEW t \in Requests, NEW a \in Outcomes, Answer(t, a)
  PROVE  /\ \A u \in Requests \ {t} : answers'[u] = answers[u]
         /\ answers'[t] # << >>
         /\ IsFuture(t) /\ answers[t] # << >> => answers'[t] = answers[t]
         /\ answers[t] = << >> => Len(answers'[t]) = 1
<1>1. answers[t] \in Seq(Outcomes)
  BY DEF SafeTypes, TypeOK, Outcomes
<1>2. /\ Append(answers[t], a) # << >>
      /\ answers[t] = << >> => Len(Append(answers[t], a)) = 1
  BY <1>1
<1>3. answers' = [answers EXCEPT ![t] = IF IsFuture(t) /\ answers[t] # << >> THEN answers[t]
                                        ELSE Append(answers[t], a)]
  BY DEF Answer
<1>. QED BY <1>2, <1>3 DEF SafeTypes, TypeOK

\* The end of a transfer answers a future or a blocking call, not a callback's.
LEMMA Completes ==
  ASSUME SafeTypes, NEW t \in Requests, Sound(t), NEW outcome, Complete(t, outcome),
         ~At(t, "new"), ~At(t, "done"), UNCHANGED <<kind, acquired>>
  PROVE  Others(t) /\ Sound(t)'
<1>1. CASE kind[t] \in {"readCallback", "writeCallback"}
  <2>1. pc' = [pc EXCEPT ![t] = IF outcome = "error" THEN "fail" ELSE "succeed"]
        /\ UNCHANGED answers
    BY <1>1 DEF Complete, Goto
  <2>2. pc'[t] \in {"fail", "succeed"}
    BY <2>1 DEF SafeTypes, TypeOK
  <2>3. Others(t)
    BY <2>1 DEF SafeTypes, TypeOK, Others
  <2>. QED BY <1>1, <2>1, <2>2, <2>3 DEF Sound, At, IsFuture
<1>2. CASE kind[t] \notin {"readCallback", "writeCallback"}
  <2>1. PICK a \in Outcomes : Answer(t, a) /\ pc' = [pc EXCEPT ![t] = "done"]
    BY <1>2 DEF Complete, Goto, Outcomes
  <2>2. pc'[t] = "done"
    BY <2>1 DEF SafeTypes, TypeOK
  <2>3. Others(t)
    BY <2>1, Answers DEF SafeTypes, TypeOK, Others
  <2>4. /\ answers'[t] # << >>
        /\ IsFuture(t) /\ answers[t] # << >> => answers'[t] = answers[t]
        /\ answers[t] = << >> => Len(answers'[t]) = 1
    BY <2>1, Answers
  <2>5. Len(answers'[t]) <= 1
    <3>1. CASE answers[t] = << >>
      <4>1. Len(answers'[t]) = 1
        BY <2>4, <3>1
      <4>. QED BY <4>1
    <3>2. CASE answers[t] # << >>
      <4>1. answers'[t] = answers[t]
        BY <2>4, <3>2 DEF Sound
      <4>. QED BY <4>1 DEF Sound
    <3>. QED BY <3>1, <3>2
  <2>. QED BY <2>2, <2>3, <2>4, <2>5 DEF Sound, At, IsFuture
<1>. QED BY <1>1, <1>2

\* A step that answers nothing.
LEMMA GoesOn ==
  ASSUME SafeTypes, NEW t \in Requests, Sound(t), NEW l \in Labels \ {"new", "done", "succeed", "fail"},
         pc' = [pc EXCEPT ![t] = l], UNCHANGED <<kind, acquired, answers>>,
         ~At(t, "new"), ~At(t, "done"), l # "tryAcquire", l # "start",
         l = "submit" => answers[t] = << >>
  PROVE  Others(t) /\ Sound(t)'
<1>1. pc'[t] = l /\ Others(t)
  BY DEF SafeTypes, TypeOK, Others
<1>. QED BY <1>1 DEF Sound, At, IsFuture

LEMMA SoundInit == Init => SoundInv
BY DEF Init, SoundInv, Sound, At, IsFuture

LEMMA SoundNext ==
  ASSUME ~CallbackThrows, SafeTypes, SoundInv, [Next]_vars
  PROVE  SoundInv'
<1>. USE DEF At
<1>1. ASSUME NEW t \in Requests, Call(t) PROVE Others(t) /\ Sound(t)'
  <2>1. PICK k \in Offered : /\ kind' = [kind EXCEPT ![t] = k]
                             /\ pc' = [pc EXCEPT ![t] = IF k = "blocking" THEN "acquire"
                                                                         ELSE "tryAcquire"]
    BY <1>1 DEF Call, Goto
  <2>2. pc[t] = "new" /\ UNCHANGED <<acquired, answers>>
    BY <1>1 DEF Call
  <2>3. k # "none"
    BY AsyncAssumption DEF Kinds
  <2>4. kind'[t] = k /\ pc'[t] \in {"acquire", "tryAcquire"} /\ Others(t)
    BY <2>1, <2>2 DEF SafeTypes, TypeOK, Others
  <2>. QED BY <2>2, <2>3, <2>4 DEF SoundInv, Sound, IsFuture
<1>2. ASSUME NEW t \in Requests, TryAcquire(t) PROVE Others(t) /\ Sound(t)'
  <2>1. /\ pc[t] = "tryAcquire" /\ UNCHANGED <<kind, answers>>
        /\ \/ /\ acquired' = [acquired EXCEPT ![t] = TRUE]
              /\ pc' = [pc EXCEPT ![t] = "start"]
           \/ pc' = [pc EXCEPT ![t] = "submit"] /\ UNCHANGED acquired
    BY <1>2 DEF TryAcquire, Goto
  <2>2. Others(t)
    BY <2>1 DEF SafeTypes, TypeOK, Others
  <2>3. (pc'[t] = "start" /\ acquired'[t]) \/ pc'[t] = "submit"
    BY <2>1 DEF SafeTypes, TypeOK
  <2>. QED BY <2>1, <2>2, <2>3 DEF SoundInv, Sound, IsFuture
<1>3. ASSUME NEW t \in Requests, StartInCaller(t) \/ StartInTask(t) \/ Continue(t)
      PROVE  Others(t) /\ Sound(t)'
  <2>1. PICK outcome \in {"full", "partial", "ok", "error"} :
          \/ Complete(t, outcome)
          \/ pc[t] = "start" /\ Goto(t, "submit") /\ UNCHANGED answers
          \/ pc[t] = "startTask" /\ Goto(t, "continue") /\ UNCHANGED answers
    BY <1>3 DEF StartInCaller, StartInTask, Continue, StartOutcomes, ContinueOutcomes
  <2>2. pc[t] \in {"start", "startTask", "continue"} /\ UNCHANGED <<kind, acquired>>
    BY <1>3 DEF StartInCaller, StartInTask, Continue
  <2>3. CASE Complete(t, outcome)
    BY <2>2, <2>3, Completes DEF SoundInv
  <2>4. CASE pc[t] = "start" /\ Goto(t, "submit") /\ UNCHANGED answers
    <3>1. answers[t] = << >>
      BY <2>4 DEF SoundInv, Sound
    <3>. QED BY <2>2, <2>4, <3>1, GoesOn DEF SoundInv, Goto, Labels
  <2>5. CASE pc[t] = "startTask" /\ Goto(t, "continue") /\ UNCHANGED answers
    BY <2>2, <2>5, GoesOn DEF SoundInv, Goto, Labels
  <2>. QED BY <2>1, <2>3, <2>4, <2>5
<1>4. ASSUME NEW t \in Requests, Submit(t) \/ Acquire(t) \/ Acquired(t)
      PROVE  Others(t) /\ Sound(t)'
  <2>1. PICK l \in {"queued", "waiting", "continue", "startTask"} : pc' = [pc EXCEPT ![t] = l]
    BY <1>4 DEF Submit, Acquire, Acquired, Goto
  <2>2. pc[t] \in {"submit", "acquire", "waiting"} /\ UNCHANGED <<kind, acquired, answers>>
    BY <1>4 DEF Submit, Acquire, Acquired
  <2>. QED BY <2>1, <2>2, GoesOn DEF SoundInv, Labels
<1>5. ASSUME NEW t \in Requests, RunTask(t) PROVE Others(t) /\ Sound(t)'
  <2>1. PICK l \in {"done", "continue", "acquire"} :
          pc' = [pc EXCEPT ![t] = l] /\ (l = "done" => answers[t] # << >>)
    BY <1>5 DEF RunTask, Goto
  <2>2. pc[t] = "queued" /\ UNCHANGED <<kind, acquired, answers>>
    BY <1>5 DEF RunTask
  <2>3. pc'[t] = l /\ Others(t)
    BY <2>1, <2>2 DEF SafeTypes, TypeOK, Others
  <2>. QED BY <2>1, <2>2, <2>3 DEF SoundInv, Sound, IsFuture
<1>6. ASSUME NEW t \in Requests, Succeed(t) \/ Fail(t) PROVE Others(t) /\ Sound(t)'
  <2>1. /\ pc[t] \in {"succeed", "fail"} /\ pc' = [pc EXCEPT ![t] = "done"]
        /\ \E a \in Outcomes : Answer(t, a)
        /\ UNCHANGED <<kind, acquired>>
    BY <1>6 DEF Succeed, Fail, Goto, Outcomes
  <2>2. ~IsFuture(t) /\ answers[t] = << >> /\ kind[t] # "none"
    BY <2>1 DEF SoundInv, Sound
  <2>3. pc'[t] = "done" /\ answers'[t] # << >> /\ Len(answers'[t]) = 1
    BY <2>1, <2>2, Answers DEF SafeTypes, TypeOK
  <2>4. Others(t)
    BY <2>1, Answers DEF SafeTypes, TypeOK, Others
  <2>. QED BY <2>1, <2>2, <2>3, <2>4 DEF Sound, IsFuture
<1>7. ASSUME NEW t \in Requests, Cancel(t) PROVE Others(t) /\ Sound(t)'
  <2>1. /\ IsFuture(t) /\ pc[t] \in {"queued", "acquire", "waiting", "startTask", "continue"}
        /\ answers[t] = << >> /\ Answer(t, "cancelled")
        /\ UNCHANGED <<kind, pc, acquired>>
    BY <1>7 DEF Cancel
  <2>2. Len(answers'[t]) = 1 /\ Others(t)
    BY <2>1, Answers DEF Others, Outcomes
  <2>. QED BY <2>1, <2>2 DEF SoundInv, Sound, IsFuture
<1>8. CASE \E t \in Requests : Others(t) /\ Sound(t)'
  BY <1>8, OthersSound
<1>9. CASE Close \/ UNCHANGED vars
  BY <1>9 DEF Close, vars, SoundInv, Sound, IsFuture
<1>. QED BY <1>1, <1>2, <1>3, <1>4, <1>5, <1>6, <1>7, <1>8, <1>9, Zenon DEF Next, Step

LEMMA SoundInvariance ==
  ASSUME ~CallbackThrows
  PROVE  Spec => [](SafeTypes /\ SoundInv)
<1>1. SafeTypes /\ SoundInv /\ [Next]_vars => (SafeTypes /\ SoundInv)'
  BY TypesNext, SoundNext
<1>. QED BY TypesInit, SoundInit, <1>1, PTL DEF Spec

(***************************************************************************)
(* As long as no callback throws, a call is answered once and for all:     *)
(* never both callbacks, never a future that completes after its cancel,   *)
(* and none that is over without an answer.                                *)
(***************************************************************************)
THEOREM EachAnsweredOnce ==
  ASSUME ~CallbackThrows
  PROVE  Spec => []AnsweredOnce
<1>1. SoundInv => AnsweredOnce
  BY DEF SoundInv, Sound, AnsweredOnce
<1>. QED BY <1>1, SoundInvariance, PTL
------------------------------------------------------------------------------
(* The permits. *)

LEMMA HoldersAre ==
  ASSUME NEW d
  PROVE  /\ Holders(d) = {r \in Requests : DirOf(r) = d /\ Holds(r)}
         /\ IsFiniteSet(Holders(d)) /\ Cardinality(Holders(d)) \in Nat
<1>1. Holders(d) = {r \in Requests : DirOf(r) = d /\ Holds(r)}
  BY DEF Holders, Transferring, Holds
<1>2. IsFiniteSet(Holders(d)) /\ Cardinality(Holders(d)) \in Nat
  BY <1>1, AsyncAssumption, FS_Subset, FS_CardinalityType
<1>. QED BY <1>1, <1>2

\* How the sum of a direction follows what a step does to its permits and holders.
LEMMA TotalKept ==
  ASSUME SafeTypes, NEW d \in Dir, permits'[d] = permits[d],
         \A u \in Requests : (DirOf(u)' = d /\ Holds(u)') <=> (DirOf(u) = d /\ Holds(u))
  PROVE  Total(d)' = Total(d)
<1>1. Holders(d)' = {r \in Requests : DirOf(r)' = d /\ Holds(r)'}
  BY DEF Holders, Transferring, Holds
<1>2. Holders(d)' = Holders(d)
  BY <1>1, HoldersAre
<1>. QED BY <1>2 DEF Total

LEMMA TotalTaken ==
  ASSUME SafeTypes, NEW t \in Requests, permits'[DirOf(t)] = permits[DirOf(t)] - 1,
         kind' = kind, ~Holds(t), Holds(t)',
         \A u \in Requests \ {t} : Holds(u)' <=> Holds(u)
  PROVE  Total(DirOf(t))' = Total(DirOf(t))
<1>1. PICK d \in Dir : d = DirOf(t)
  BY DirOfDir
<1>2. \A u : DirOf(u)' = DirOf(u)
  BY DEF DirOf
<1>3. Holders(d)' = {r \in Requests : DirOf(r)' = d /\ Holds(r)'}
  BY DEF Holders, Transferring, Holds
<1>4. Holders(d)' = Holders(d) \cup {t} /\ t \notin Holders(d)
  BY <1>1, <1>2, <1>3, HoldersAre
<1>5. Cardinality(Holders(d)') = Cardinality(Holders(d)) + 1 /\ Cardinality(Holders(d)) \in Nat
  BY <1>4, HoldersAre, FS_AddElement
<1>6. permits[d] \in Nat /\ permits'[d] = permits[d] - 1 /\ DirOf(t)' = d
  BY <1>1, <1>2 DEF SafeTypes, TypeOK
<1>. QED BY <1>1, <1>5, <1>6 DEF Total

LEMMA TotalGiven ==
  ASSUME SafeTypes, NEW t \in Requests,
         permits'[DirOf(t)] \in {permits[DirOf(t)], permits[DirOf(t)] + 1},
         kind' = kind, Holds(t), ~Holds(t)',
         \A u \in Requests \ {t} : Holds(u)' <=> Holds(u)
  PROVE  /\ permits'[DirOf(t)] = permits[DirOf(t)] + 1 => Total(DirOf(t))' = Total(DirOf(t))
         /\ Total(DirOf(t))' <= Total(DirOf(t))
<1>1. PICK d \in Dir : d = DirOf(t)
  BY DirOfDir
<1>2. \A u : DirOf(u)' = DirOf(u)
  BY DEF DirOf
<1>3. Holders(d)' = {r \in Requests : DirOf(r)' = d /\ Holds(r)'}
  BY DEF Holders, Transferring, Holds
<1>4. Holders(d)' = Holders(d) \ {t} /\ t \in Holders(d)
  BY <1>1, <1>2, <1>3, HoldersAre
<1>5. Cardinality(Holders(d)') = Cardinality(Holders(d)) - 1 /\ Cardinality(Holders(d)) \in Nat
  BY <1>4, HoldersAre, FS_RemoveElement
<1>6. permits[d] \in Nat /\ permits'[d] \in {permits[d], permits[d] + 1} /\ DirOf(t)' = d
  BY <1>1, <1>2 DEF SafeTypes, TypeOK
<1>. QED BY <1>1, <1>5, <1>6 DEF Total

\* A sum changes only where a future is used, or shrinks where permits leak.
Balanced ==
  \A d \in Dir : \/ Total(d)' = Total(d)
                 \/ Used({Future(d)})'
                 \/ Leaking(d)' /\ Total(d)' <= Total(d)

LEMMA BalancedPermits ==
  ASSUME SafeTypes, SafeTypes', PermitInv, Balanced,
         \A u \in Requests : kind[u] # "none" => kind'[u] = kind[u]
  PROVE  PermitInv'
<1>. SUFFICES ASSUME NEW d \in Dir, ~Used({Future(d)})'
              PROVE  Total(d)' <= 1 /\ (Leaking(d)' \/ Total(d)' = 1)
  BY DEF PermitInv, Future, Leaking
<1>1. Future(d) # "none"
  BY DEF Future
<1>2. ~Used({Future(d)})
  BY <1>1 DEF Used, Future
<1>3. Leaking(d) => Leaking(d)'
  BY DEF Leaking, Used
<1>4. permits[d] \in Nat /\ permits'[d] \in Nat
  BY DEF SafeTypes, TypeOK
<1>5. Total(d) \in Nat
  BY <1>4, HoldersAre DEF Total
<1>6. Total(d) <= 1 /\ (Leaking(d) \/ Total(d) = 1)
  BY <1>2 DEF PermitInv
<1>7. CASE Total(d)' = Total(d)
  BY <1>3, <1>6, <1>7
<1>8. CASE Leaking(d)' /\ Total(d)' <= Total(d)
  <2>1. IsFiniteSet(Holders(d)') /\ Cardinality(Holders(d)') \in Nat
    <3>1. Holders(d)' \subseteq Requests
      BY DEF Holders, Transferring
    <3>. QED BY <3>1, AsyncAssumption, FS_Subset, FS_CardinalityType
  <2>2. Total(d)' \in Nat
    BY <1>4, <2>1 DEF Total
  <2>. QED BY <1>5, <1>6, <1>8, <2>2
<1>. QED BY <1>7, <1>8 DEF Balanced

\* The direction a step is not about, and a step about neither.
LEMMA OtherTotals ==
  ASSUME SafeTypes, NEW t \in Requests, kind' = kind, Others(t),
         \A d \in Dir : d # DirOf(t) => permits'[d] = permits[d]
  PROVE  \A d \in Dir : d # DirOf(t) => Total(d)' = Total(d)
<1>. SUFFICES ASSUME NEW d \in Dir, d # DirOf(t) PROVE Total(d)' = Total(d)
  OBVIOUS
<1>1. \A u : DirOf(u)' = DirOf(u)
  BY DEF DirOf
<1>2. \A u \in Requests \ {t} : Holds(u)' <=> Holds(u)
  BY DEF Others, Holds
<1>. QED BY <1>1, <1>2, TotalKept

LEMMA NothingMoves ==
  ASSUME SafeTypes, permits' = permits,
         \A u \in Requests : /\ Holds(u)' <=> Holds(u)
                             /\ Holds(u) => DirOf(u)' = DirOf(u)
  PROVE  Balanced
BY TotalKept DEF Balanced
LEMMA PermitsInit == Init => PermitInv
<1>. SUFFICES ASSUME Init, NEW d \in Dir PROVE Total(d) = 1
  BY DEF PermitInv
<1>1. permits[d] = 1
  BY DEF Init
<1>2. Holders(d) = {}
  BY DEF Init, Holders, Transferring
<1>3. Cardinality(Holders(d)) = 0
  BY <1>2, FS_EmptySet
<1>. QED BY <1>1, <1>3 DEF Total

\* The end of a transfer gives the permit back; a write callback's success may keep it.
LEMMA GivesBack ==
  ASSUME SafeTypes, NEW t \in Requests, kind' = kind, Others(t), Holds(t), ~Holds(t)',
         \/ Release(t)
         \/ kind[t] = "writeCallback" /\ permits' = permits
  PROVE  Balanced
<1>1. \A u \in Requests \ {t} : Holds(u)' <=> Holds(u)
  BY DEF Others, Holds
<1>2. DirOf(t) \in Dir /\ permits \in [Dir -> Nat]
  BY DirOfDir DEF SafeTypes, TypeOK
<1>3. CASE Release(t)
  <2>1. permits'[DirOf(t)] = permits[DirOf(t)] + 1
    BY <1>2, <1>3 DEF Release
  <2>2. Total(DirOf(t))' = Total(DirOf(t))
    <3>1. PICK d \in Dir : d = DirOf(t)
      BY <1>2
    <3>2. DirOf(t)' = DirOf(t)
      BY DEF DirOf
    <3>. QED BY <1>1, <2>1, TotalGiven
  <2>3. \A d \in Dir : d # DirOf(t) => permits'[d] = permits[d]
    BY <1>2, <1>3 DEF Release
  <2>4. \A d \in Dir : d # DirOf(t) => Total(d)' = Total(d)
    BY <2>3, OtherTotals
  <2>5. DirOf(t)' = DirOf(t)
    BY DEF DirOf
  <2>6. ASSUME NEW d \in Dir PROVE Total(d)' = Total(d)
    <3>1. CASE d = DirOf(t)
      BY <2>2, <2>5, <3>1 DEF Total, Holders, Transferring, DirOf
    <3>. QED BY <2>4, <3>1
  <2>. QED BY <2>6 DEF Balanced
<1>4. CASE kind[t] = "writeCallback" /\ permits' = permits
  <2>1. DirOf(t) = "out" /\ DirOf(t)' = "out"
    BY <1>4 DEF DirOf
  <2>2. Total("out")' <= Total("out")
    <3>1. Total(DirOf(t))' <= Total(DirOf(t))
      BY <1>1, <1>4, TotalGiven
    <3>. QED BY <2>1, <3>1 DEF Total, Holders, Transferring
  <2>3. Leaking("out")'
    BY <1>4 DEF Leaking, Used
  <2>4. \A d \in Dir : d # "out" => Total(d)' = Total(d)
    BY <1>4, <2>1, OtherTotals
  <2>. QED BY <2>2, <2>3, <2>4 DEF Balanced
<1>. QED BY <1>3, <1>4

\* A permit goes from the semaphore to a request.
LEMMA TakesOne ==
  ASSUME SafeTypes, NEW t \in Requests, kind' = kind, Others(t), ~Holds(t), Holds(t)',
         permits' = [permits EXCEPT ![DirOf(t)] = @ - 1]
  PROVE  Balanced
<1>1. \A u \in Requests \ {t} : Holds(u)' <=> Holds(u)
  BY DEF Others, Holds
<1>2. DirOf(t) \in Dir /\ permits \in [Dir -> Nat] /\ DirOf(t)' = DirOf(t)
  BY DirOfDir DEF SafeTypes, TypeOK, DirOf
<1>3. Total(DirOf(t))' = Total(DirOf(t))
  BY <1>1, <1>2, TotalTaken
<1>4. \A d \in Dir : d # DirOf(t) => Total(d)' = Total(d)
  BY <1>2, OtherTotals
<1>5. ASSUME NEW d \in Dir PROVE Total(d)' = Total(d)
  <2>1. CASE d = DirOf(t)
    BY <1>2, <1>3, <2>1 DEF Total, Holders, Transferring, DirOf
  <2>. QED BY <1>4, <2>1
<1>. QED BY <1>5 DEF Balanced

\* A future of a direction that multiplies its permits: nothing is claimed of it.
LEMMA FutureReleases ==
  ASSUME SafeTypes, NEW t \in Requests, kind' = kind, Others(t), IsFuture(t), Release(t)
  PROVE  Balanced
<1>1. DirOf(t) \in Dir /\ permits \in [Dir -> Nat]
  BY DirOfDir DEF SafeTypes, TypeOK
<1>2. Used({Future(DirOf(t))})' /\ kind[t] = Future(DirOf(t))
  BY DEF Used, Future, DirOf, IsFuture
<1>3. \A d \in Dir : d # DirOf(t) => Total(d)' = Total(d)
  BY <1>1, OtherTotals DEF Release
<1>4. ASSUME NEW d \in Dir, d = DirOf(t) PROVE Used({Future(d)})'
  BY <1>2, <1>4 DEF Used, Future
<1>. QED BY <1>3, <1>4 DEF Balanced
\* After Complete the request moves no bytes and waits for none.
LEMMA CompleteEnds ==
  ASSUME SafeTypes, NEW t \in Requests, NEW outcome, Complete(t, outcome), kind' = kind,
         acquired' = acquired
  PROVE  Others(t) /\ ~Holds(t)'
<1>1. PICK l \in {"succeed", "fail", "done"} : pc' = [pc EXCEPT ![t] = l]
  BY CompleteTyped DEF SafeTypes
<1>2. pc'[t] = l /\ \A u \in Requests \ {t} : pc'[u] = pc[u]
  BY <1>1 DEF SafeTypes, TypeOK
<1>3. \A u \in Requests \ {t} : answers'[u] = answers[u]
  BY Answers DEF Complete, Outcomes
<1>. QED BY <1>2, <1>3 DEF Holds, Others

LEMMA PermitsNext ==
  ASSUME ~CallbackThrows, SafeTypes, SoundInv, PermitInv, [Next]_vars
  PROVE  PermitInv'
<1>. USE DEF At
<1>1. ASSUME NEW t \in Requests, Call(t) PROVE Balanced
  <2>1. PICK l \in {"acquire", "tryAcquire"} : pc' = [pc EXCEPT ![t] = l]
    BY <1>1 DEF Call, Goto
  <2>2. PICK k \in Offered : kind' = [kind EXCEPT ![t] = k]
    BY <1>1 DEF Call
  <2>3. pc[t] = "new" /\ UNCHANGED <<permits, acquired>>
    BY <1>1 DEF Call
  <2>4. ~Holds(t) /\ ~Holds(t)'
    BY <2>1, <2>3 DEF SafeTypes, TypeOK, Holds
  <2>5. ASSUME NEW u \in Requests \ {t}
        PROVE  (Holds(u)' <=> Holds(u)) /\ DirOf(u)' = DirOf(u)
    BY <2>1, <2>2, <2>3 DEF SafeTypes, TypeOK, Holds, DirOf
  <2>. QED BY <2>3, <2>4, <2>5, NothingMoves
<1>2. ASSUME NEW t \in Requests, TryAcquire(t) PROVE Balanced
  <2>1. pc[t] = "tryAcquire" /\ kind' = kind /\ answers' = answers /\ ~acquired[t]
    BY <1>2 DEF TryAcquire, SoundInv, Sound
  <2>2. CASE permits[DirOf(t)] > 0
    <3>1. /\ permits' = [permits EXCEPT ![DirOf(t)] = @ - 1]
          /\ pc' = [pc EXCEPT ![t] = "start"] /\ acquired' = [acquired EXCEPT ![t] = TRUE]
      BY <1>2, <2>2 DEF TryAcquire, Goto
    <3>2. Others(t) /\ ~Holds(t) /\ Holds(t)'
      BY <2>1, <3>1 DEF SafeTypes, TypeOK, Others, Holds
    <3>. QED BY <2>1, <3>1, <3>2, TakesOne
  <2>3. CASE ~(permits[DirOf(t)] > 0)
    <3>1. UNCHANGED <<permits, acquired>> /\ pc' = [pc EXCEPT ![t] = "submit"]
      BY <1>2, <2>3 DEF TryAcquire, Goto
    <3>2. \A u \in Requests : (Holds(u)' <=> Holds(u)) /\ DirOf(u)' = DirOf(u)
      BY <2>1, <3>1 DEF SafeTypes, TypeOK, Holds, DirOf
    <3>. QED BY <3>1, <3>2, NothingMoves
  <2>. QED BY <2>2, <2>3
<1>3. ASSUME NEW t \in Requests, StartInCaller(t) PROVE Balanced
  <2>1. pc[t] = "start" /\ acquired[t] /\ Holds(t) /\ UNCHANGED <<kind, acquired>>
    BY <1>3 DEF StartInCaller, SoundInv, Sound, Holds
  <2>2. PICK outcome \in StartOutcomes :
          \/ /\ outcome = "partial" /\ ~IsFuture(t) /\ UNCHANGED <<permits, answers>>
             /\ Goto(t, "submit")
          \/ IsFuture(t) /\ Release(t) /\ Goto(t, "submit") /\ UNCHANGED answers
          \/ Release(t) /\ Complete(t, outcome)
    BY <1>3 DEF StartInCaller
  <2>3. CASE UNCHANGED <<permits, answers>> /\ Goto(t, "submit")
    <3>1. \A u \in Requests : (Holds(u)' <=> Holds(u)) /\ DirOf(u)' = DirOf(u)
      BY <2>1, <2>3 DEF SafeTypes, TypeOK, Holds, DirOf, Goto
    <3>. QED BY <2>3, <3>1, NothingMoves
  <2>4. CASE IsFuture(t) /\ Release(t) /\ Goto(t, "submit") /\ UNCHANGED answers
    <3>1. Others(t)
      BY <2>1, <2>4 DEF SafeTypes, TypeOK, Others, Goto
    <3>. QED BY <2>1, <2>4, <3>1, FutureReleases
  <2>5. CASE Release(t) /\ Complete(t, outcome)
    BY <2>1, <2>5, CompleteEnds, GivesBack
  <2>. QED BY <2>2, <2>3, <2>4, <2>5
<1>4. ASSUME NEW t \in Requests, StartInTask(t) PROVE Balanced
  <2>1. pc[t] = "startTask" /\ Holds(t) /\ UNCHANGED <<kind, acquired>>
    BY <1>4 DEF StartInTask, Holds
  <2>2. PICK outcome \in StartOutcomes :
          \/ Goto(t, "continue") /\ UNCHANGED permits
          \/ Release(t) /\ Complete(t, outcome)
    BY <1>4 DEF StartInTask
  <2>3. CASE Goto(t, "continue") /\ UNCHANGED permits
    <3>1. \A u \in Requests : (Holds(u)' <=> Holds(u)) /\ DirOf(u)' = DirOf(u)
      BY <2>1, <2>3 DEF SafeTypes, TypeOK, Holds, DirOf, Goto
    <3>. QED BY <2>3, <3>1, NothingMoves
  <2>4. CASE Release(t) /\ Complete(t, outcome)
    BY <2>1, <2>4, CompleteEnds, GivesBack
  <2>. QED BY <2>2, <2>3, <2>4
<1>5. ASSUME NEW t \in Requests, Continue(t) PROVE Balanced
  <2>1. pc[t] = "continue" /\ Holds(t) /\ UNCHANGED <<kind, acquired>>
    BY <1>5 DEF Continue, Holds
  <2>2. PICK outcome \in ContinueOutcomes :
          /\ (kind[t] = "writeCallback" /\ permits' = permits) \/ Release(t)
          /\ Complete(t, outcome)
    BY <1>5 DEF Continue
  <2>. QED BY <2>1, <2>2, CompleteEnds, GivesBack
<1>6. ASSUME NEW t \in Requests, Acquired(t) PROVE Balanced
  <2>1. /\ pc[t] = "waiting" /\ UNCHANGED <<kind, acquired, answers>>
        /\ permits' = [permits EXCEPT ![DirOf(t)] = @ - 1]
    BY <1>6 DEF Acquired
  <2>2. PICK l \in {"continue", "startTask"} : pc' = [pc EXCEPT ![t] = l]
    BY <1>6 DEF Acquired, Goto
  <2>3. Others(t) /\ ~Holds(t) /\ Holds(t)'
    BY <2>1, <2>2 DEF SafeTypes, TypeOK, Others, Holds
  <2>. QED BY <2>1, <2>3, TakesOne
<1>7. ASSUME NEW t \in Requests, Submit(t) \/ Acquire(t) PROVE Balanced
  <2>1. /\ UNCHANGED <<permits, kind, acquired>>
        /\ \/ pc[t] = "submit" /\ pc' = [pc EXCEPT ![t] = "queued"]
           \/ pc[t] = "acquire" /\ pc' = [pc EXCEPT ![t] = "waiting"]
    BY <1>7 DEF Submit, Acquire, Goto
  <2>2. \A u \in Requests : (Holds(u)' <=> Holds(u)) /\ DirOf(u)' = DirOf(u)
    BY <2>1 DEF SafeTypes, TypeOK, Holds, DirOf
  <2>. QED BY <2>1, <2>2, NothingMoves
<1>8. ASSUME NEW t \in Requests, RunTask(t) PROVE PermitInv'
  <2>1. /\ pc[t] = "queued" /\ UNCHANGED <<permits, kind, acquired, answers>>
        /\ \/ answers[t] # << >> /\ pc' = [pc EXCEPT ![t] = "done"]
           \/ pc' = [pc EXCEPT ![t] = IF acquired[t] THEN "continue" ELSE "acquire"]
    BY <1>8 DEF RunTask, Goto
  <2>2. CASE answers[t] # << >> /\ pc' = [pc EXCEPT ![t] = "done"]
    <3>1. IsFuture(t)
      BY <2>1, <2>2 DEF SoundInv, Sound
    <3>2. Others(t)
      BY <2>1, <2>2 DEF SafeTypes, TypeOK, Others
    <3>3. ASSUME NEW d \in Dir, d = DirOf(t) PROVE Used({Future(d)})'
      BY <2>1, <3>1, <3>3 DEF Used, Future, DirOf, IsFuture
    <3>4. \A d \in Dir : d # DirOf(t) => Total(d)' = Total(d)
      BY <2>1, <3>2, OtherTotals
    <3>5. Balanced
      BY <3>3, <3>4 DEF Balanced
    <3>. QED BY <2>1, <3>5, TypesNext, BalancedPermits
  <2>3. CASE pc' = [pc EXCEPT ![t] = IF acquired[t] THEN "continue" ELSE "acquire"]
    <3>1. \A u \in Requests : (Holds(u)' <=> Holds(u)) /\ DirOf(u)' = DirOf(u)
      BY <2>1, <2>3 DEF SafeTypes, TypeOK, Holds, DirOf
    <3>. QED BY <2>1, <3>1, NothingMoves, TypesNext, BalancedPermits
  <2>. QED BY <2>1, <2>2, <2>3
<1>9. ASSUME NEW t \in Requests, Succeed(t) \/ Fail(t) PROVE Balanced
  <2>1. /\ pc[t] \in {"succeed", "fail"} /\ pc' = [pc EXCEPT ![t] = "done"]
        /\ UNCHANGED <<permits, kind, acquired>>
    BY <1>9 DEF Succeed, Fail, Goto
  <2>2. \A u \in Requests : (Holds(u)' <=> Holds(u)) /\ DirOf(u)' = DirOf(u)
    BY <2>1 DEF SafeTypes, TypeOK, Holds, DirOf
  <2>. QED BY <2>1, <2>2, NothingMoves
<1>10. ASSUME UNCHANGED <<permits, kind, pc, acquired>> PROVE Balanced
  BY <1>10, NothingMoves DEF Holds, DirOf
<1>11. \A u \in Requests : kind[u] # "none" => kind'[u] = kind[u]
  <2>1. ASSUME NEW t \in Requests, Call(t), NEW u \in Requests, kind[u] # "none"
        PROVE  kind'[u] = kind[u]
    <3>1. kind[t] = "none"
      BY <2>1 DEF Call, SoundInv, Sound
    <3>. QED BY <2>1, <3>1 DEF Call, SafeTypes, TypeOK
  <2>2. kind' = kind \/ \E t \in Requests : Call(t)
    BY DEF Next, Step, vars, Close, TryAcquire, StartInCaller, Submit, RunTask, Acquire, Acquired,
           StartInTask, Continue, Succeed, Fail, Cancel
  <2>. QED BY <2>1, <2>2
<1>12. Balanced => PermitInv'
  BY <1>11, TypesNext, BalancedPermits
<1>13. CASE UNCHANGED <<permits, kind, pc, acquired>>
  BY <1>10, <1>12, <1>13
<1>. QED BY <1>1, <1>2, <1>3, <1>4, <1>5, <1>6, <1>7, <1>8, <1>9, <1>12, <1>13
         DEF Next, Step, Close, Cancel, vars

LEMMA AsyncInvariance ==
  ASSUME ~CallbackThrows
  PROVE  Spec => []AsyncInv
<1>1. Init => AsyncInv
  BY TypesInit, SoundInit, PermitsInit DEF AsyncInv
<1>2. AsyncInv /\ [Next]_vars => AsyncInv'
  BY TypesNext, SoundNext, PermitsNext DEF AsyncInv
<1>. QED BY <1>1, <1>2, PTL DEF Spec

(***************************************************************************)
(* The permit of a direction is in the semaphore or with one request, who  *)
(* moves bytes or hands its transfer to a task, unless a future is used on *)
(* the direction or a write callback, which loses it.                      *)
(***************************************************************************)
THEOREM PermitsConserved ==
  ASSUME ~CallbackThrows
  PROVE  Spec => []PermitConserved
<1>1. AsyncInv => PermitConserved
  <2>1. PermitInv /\ ~Used({"readFuture"}) => Total("in") = 1
    BY DEF PermitInv, Future, Leaking, Dir
  <2>2. PermitInv /\ ~Used({"writeFuture", "writeCallback"}) => Total("out") = 1
    BY DEF PermitInv, Future, Leaking, Dir, Used
  <2>. QED BY <2>1, <2>2 DEF AsyncInv, PermitConserved, Total
<1>. QED BY <1>1, AsyncInvariance, PTL

(***************************************************************************)
(* At most one request of a direction moves bytes at a time, in the        *)
(* caller's thread or in a task, unless a future is used on the direction. *)
(***************************************************************************)
THEOREM CallbacksApart ==
  ASSUME ~CallbackThrows
  PROVE  Spec => []CallbacksSynchronized
<1>1. ASSUME AsyncInv, NEW d \in Dir, ~Used({Future(d)})
      PROVE  Cardinality(Transferring(d)) <= 1
  <2>1. Total(d) <= 1 /\ permits[d] \in Nat
    BY <1>1 DEF AsyncInv, PermitInv, SafeTypes, TypeOK
  <2>2. Transferring(d) \subseteq Holders(d)
    BY DEF Holders
  <2>3. /\ Cardinality(Transferring(d)) <= Cardinality(Holders(d))
        /\ Cardinality(Holders(d)) \in Nat /\ Cardinality(Transferring(d)) \in Nat
    BY <2>2, HoldersAre, FS_Subset, FS_CardinalityType
  <2>. QED BY <2>1, <2>3 DEF Total
<1>2. AsyncInv => CallbacksSynchronized
  BY <1>1 DEF CallbacksSynchronized, Future, Dir
<1>. QED BY <1>2, AsyncInvariance, PTL
===============================================================================
