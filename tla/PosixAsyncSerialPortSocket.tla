--------------------- MODULE PosixAsyncSerialPortSocket ---------------------
(***************************************************************************)
(* The asynchronous POSIX socket.  A call first tries to do its transfer   *)
(* in the calling thread; what is left is handed to an executor as a task. *)
(* A semaphore of one permit per direction keeps the transfers apart, and  *)
(* is also what drainOutputBuffer, sendBreak and setBreak wait for.        *)
(*                                                                         *)
(* The module is about the permits, the tasks and the answers.  How a      *)
(* transfer goes on the file descriptor is PosixSerialPortSocket's matter: *)
(* startRead and continueRead are its read cut in two.                     *)
(***************************************************************************)
EXTENDS Naturals, FiniteSets, Sequences

CONSTANTS Requests,       \* the calls made on the socket, one answer each
          Offered,        \* the kinds of call that are made
          PoolSize,       \* the threads of the executor
          CallbackThrows  \* a success callback may throw a RuntimeException

\* The BiConsumer variants only wrap the callback ones; "blocking" stands for
\* drainOutputBuffer, sendBreak and setBreak.
Kinds == {"readCallback", "readFuture", "writeCallback", "writeFuture", "blocking"}

ASSUME AsyncAssumption == /\ IsFiniteSet(Requests)
                          /\ Offered \subseteq Kinds
                          /\ PoolSize \in Nat \ {0}
                          /\ CallbackThrows \in BOOLEAN

VARIABLES closed,    \* the socket was closed: fd is invalid, the polls are woken
          permits,   \* of readSemaphore and writeSemaphore
          waiters,   \* the threads parked in acquire(), in the order of arrival
          queue,     \* the tasks the executor has not started
          running,   \* the tasks that occupy a thread of the executor
          kind,      \* what each request is
          pc,        \* where the request is
          acquired,  \* readSemaphoreAquired, writeSemaphoreAquired
          answers    \* the handlers called, or what the future holds

vars == <<closed, permits, waiters, queue, running, kind, pc, acquired, answers>>

Dir == {"in", "out"}

DirOf(r)    == IF kind[r] \in {"readCallback", "readFuture"} THEN "in" ELSE "out"
IsFuture(r) == kind[r] \in {"readFuture", "writeFuture"}

Labels == {"new", "tryAcquire", "start", "submit", "queued", "acquire", "waiting",
           "startTask", "continue", "succeed", "fail", "done"}

TypeOK ==
  /\ closed \in BOOLEAN
  /\ permits \in [Dir -> Nat]
  /\ waiters \in [Dir -> Seq(Requests)]
  /\ queue \in Seq(Requests)
  /\ running \subseteq Requests
  /\ Cardinality(running) <= PoolSize
  /\ kind \in [Requests -> Kinds \cup {"none"}]
  /\ pc \in [Requests -> Labels]
  /\ acquired \in [Requests -> BOOLEAN]
  /\ answers \in [Requests -> Seq({"success", "failure", "cancelled"})]

Init ==
  /\ closed = FALSE
  /\ permits = [d \in Dir |-> 1]
  /\ waiters = [d \in Dir |-> << >>]
  /\ queue = << >>
  /\ running = {}
  /\ kind = [r \in Requests |-> "none"]
  /\ pc = [r \in Requests |-> "new"]
  /\ acquired = [r \in Requests |-> FALSE]
  /\ answers = [r \in Requests |-> << >>]

------------------------------------------------------------------------------
At(r, label)   == pc[r] = label
Goto(r, label) == pc' = [pc EXCEPT ![r] = label]
Release(r)     == permits' = [permits EXCEPT ![DirOf(r)] = @ + 1]

\* A FutureTask keeps its first outcome.
Answer(r, a) == answers' = [answers EXCEPT ![r] =
                              IF IsFuture(r) /\ @ # << >> THEN @ ELSE Append(@, a)]

\* The transfer is over: a callback is about to be called, a future is set.
Complete(r, outcome) ==
  IF kind[r] \in {"readCallback", "writeCallback"}
    THEN /\ Goto(r, IF outcome = "error" THEN "fail" ELSE "succeed")
         /\ UNCHANGED <<running, answers>>
    ELSE /\ Goto(r, "done")
         /\ running' = running \ {r}
         /\ Answer(r, IF outcome = "error" THEN "failure" ELSE "success")

\* startRead and startWrite fill the buffer, leave something of it, or throw.
StartOutcomes == IF closed THEN {"error"} ELSE {"full", "partial", "error"}

\* continueRead and continueWrite return, or throw: a timeout, a lost device, the
\* close.  A read that the close wakes after its first bytes returns, with -1.
ContinueOutcomes == {"ok", "error"}

Call(r) ==
  /\ At(r, "new")
  /\ \E k \in Offered :
       /\ kind' = [kind EXCEPT ![r] = k]
       /\ Goto(r, IF k = "blocking" THEN "acquire" ELSE "tryAcquire")
  /\ UNCHANGED <<closed, permits, waiters, queue, running, acquired, answers>>

\* tryAcquire() takes a permit that is there even when other threads wait for it.
TryAcquire(r) ==
  /\ At(r, "tryAcquire")
  /\ IF permits[DirOf(r)] > 0
       THEN /\ acquired' = [acquired EXCEPT ![r] = TRUE]
            /\ permits' = [permits EXCEPT ![DirOf(r)] = @ - 1]
            /\ Goto(r, "start")
       ELSE Goto(r, "submit") /\ UNCHANGED <<acquired, permits>>
  /\ UNCHANGED <<closed, waiters, queue, running, kind, answers>>

\* Faulty: the callback variants release in a finally, too.
StartInCallerFinally(r) ==
  /\ At(r, "start")
  /\ \E outcome \in StartOutcomes :
       /\ Release(r)
       /\ IF outcome = "partial" THEN Goto(r, "submit") /\ UNCHANGED <<running, answers>>
                                 ELSE Complete(r, outcome)
  /\ UNCHANGED <<closed, waiters, queue, kind, acquired>>

\* The transfer in the calling thread.  The callback variants keep the permit
\* for the task; the future variants release it in their finally.
StartInCaller(r) ==
  /\ At(r, "start")
  /\ \E outcome \in StartOutcomes :
       /\ IF outcome = "partial" /\ ~IsFuture(r) THEN UNCHANGED permits ELSE Release(r)
       /\ IF outcome = "partial" THEN Goto(r, "submit") /\ UNCHANGED <<running, answers>>
                                 ELSE Complete(r, outcome)
  /\ UNCHANGED <<closed, waiters, queue, kind, acquired>>

\* executor.execute(runnable), executor.submit(result).
Submit(r) ==
  /\ At(r, "submit")
  /\ queue' = Append(queue, r)
  /\ Goto(r, "queued")
  /\ UNCHANGED <<closed, permits, waiters, running, kind, acquired, answers>>

\* A free thread of the executor takes the oldest task; a cancelled one does nothing.
RunTask(r) ==
  /\ At(r, "queued")
  /\ Head(queue) = r
  /\ Cardinality(running) < PoolSize
  /\ queue' = Tail(queue)
  /\ IF answers[r] # << >>
       THEN Goto(r, "done") /\ UNCHANGED running
       ELSE /\ Goto(r, IF acquired[r] THEN "continue" ELSE "acquire")
            /\ running' = running \cup {r}
  /\ UNCHANGED <<closed, permits, waiters, kind, acquired, answers>>

\* acquire() of a fair semaphore.
Acquire(r) ==
  /\ At(r, "acquire")
  /\ waiters' = [waiters EXCEPT ![DirOf(r)] = Append(@, r)]
  /\ Goto(r, "waiting")
  /\ UNCHANGED <<closed, permits, queue, running, kind, acquired, answers>>

Acquired(r) ==
  /\ At(r, "waiting")
  /\ Head(waiters[DirOf(r)]) = r
  /\ permits[DirOf(r)] > 0
  /\ waiters' = [waiters EXCEPT ![DirOf(r)] = Tail(@)]
  /\ permits' = [permits EXCEPT ![DirOf(r)] = @ - 1]
  /\ Goto(r, IF kind[r] = "blocking" THEN "continue" ELSE "startTask")
  /\ UNCHANGED <<closed, queue, running, kind, acquired, answers>>

\* The transfer in the thread of a task that had to wait for its permit.
StartInTask(r) ==
  /\ At(r, "startTask")
  /\ \E outcome \in StartOutcomes :
       IF outcome = "partial" THEN Goto(r, "continue") /\ UNCHANGED <<permits, running, answers>>
                              ELSE Release(r) /\ Complete(r, outcome)
  /\ UNCHANGED <<closed, waiters, queue, kind, acquired>>

\* Faulty: no permit comes back after a transfer that succeeds.
ContinueLeaking(r) ==
  /\ At(r, "continue")
  /\ \E outcome \in ContinueOutcomes :
       /\ IF outcome = "ok" THEN UNCHANGED permits ELSE Release(r)
       /\ Complete(r, outcome)
  /\ UNCHANGED <<closed, waiters, queue, kind, acquired>>

\* continueRead, continueWrite and the body of the blocking operations wait for the
\* device.  writeAsync with callbacks does not release after a successful one.
Continue(r) ==
  /\ At(r, "continue")
  /\ \E outcome \in ContinueOutcomes :
       /\ IF kind[r] = "writeCallback" /\ outcome = "ok" THEN UNCHANGED permits ELSE Release(r)
       /\ Complete(r, outcome)
  /\ UNCHANGED <<closed, waiters, queue, kind, acquired>>

\* Faulty: no return after the callback.
SucceedAndGoOn(r) ==
  /\ At(r, "succeed")
  /\ Answer(r, "success")
  /\ Goto(r, "fail")
  /\ UNCHANGED <<closed, permits, waiters, queue, running, kind, acquired>>

\* callbackOnSuccess, called inside the try: an exception it throws makes the
\* handler release once more and call callbackOnFailure.
Succeed(r) ==
  /\ At(r, "succeed")
  /\ Answer(r, "success")
  /\ \E throws \in {FALSE, CallbackThrows} :
       IF throws THEN Release(r) /\ Goto(r, "fail") /\ UNCHANGED running
                 ELSE Goto(r, "done") /\ running' = running \ {r} /\ UNCHANGED permits
  /\ UNCHANGED <<closed, waiters, queue, kind, acquired>>

\* callbackOnFailure.
Fail(r) ==
  /\ At(r, "fail")
  /\ Answer(r, "failure")
  /\ Goto(r, "done")
  /\ running' = running \ {r}
  /\ UNCHANGED <<closed, permits, waiters, queue, kind, acquired>>

\* Future.cancel never interrupts: the task goes on and its result is dropped.
Cancel(r) ==
  /\ IsFuture(r)
  /\ pc[r] \in {"queued", "acquire", "waiting", "startTask", "continue"}
  /\ answers[r] = << >>
  /\ Answer(r, "cancelled")
  /\ UNCHANGED <<closed, permits, waiters, queue, running, kind, pc, acquired>>

\* implCloseChannel.
Close ==
  /\ ~closed
  /\ closed' = TRUE
  /\ UNCHANGED <<permits, waiters, queue, running, kind, pc, acquired, answers>>

Step(r) == \/ TryAcquire(r) \/ StartInCaller(r) \/ Submit(r)
           \/ RunTask(r) \/ Acquire(r) \/ Acquired(r) \/ StartInTask(r)
           \/ Succeed(r) \/ Fail(r)

Next == \/ Close
        \/ \E r \in Requests : Call(r) \/ Step(r) \/ Continue(r) \/ Cancel(r)

(***************************************************************************)
(* Threads run, the executor serves its queue, and a transfer that waits   *)
(* for the device is woken by the close.  Until then it may wait forever.  *)
(***************************************************************************)
Spec     == Init /\ [][Next]_vars
FairSpec == /\ Spec
            /\ \A r \in Requests : WF_vars(Step(r)) /\ WF_vars(closed /\ Continue(r))

------------------------------------------------------------------------------
Used(kinds) == \E r \in Requests : kind[r] \in kinds

\* The requests that move bytes, or wait on the device to do so.
Transferring(d) == {r \in Requests : DirOf(r) = d /\ pc[r] \in {"start", "startTask", "continue"}}

\* The requests that hold a permit of the callback variants and the blocking calls.
Holders(d) == Transferring(d) \cup
              {r \in Requests : DirOf(r) = d /\ acquired[r] /\ pc[r] \in {"submit", "queued"}}

(***************************************************************************)
(* As long as no callback throws, a request is answered once: one of its   *)
(* two callbacks is called, or its future is set.                          *)
(***************************************************************************)
AnsweredOnce == \A r \in Requests : /\ Len(answers[r]) <= 1
                                    /\ At(r, "done") => answers[r] # << >>

(***************************************************************************)
(* The callback variants and the blocking operations keep the transfers of *)
(* a direction apart, whichever threads they run in.                       *)
(***************************************************************************)
CallbacksSynchronized ==
  /\ ~Used({"readFuture"}) => Cardinality(Transferring("in")) <= 1
  /\ ~Used({"writeFuture"}) => Cardinality(Transferring("out")) <= 1

(***************************************************************************)
(* The permit of a direction is in the semaphore or with one request: read *)
(* callbacks and the blocking calls neither lose nor multiply it.          *)
(***************************************************************************)
PermitConserved ==
  /\ ~Used({"readFuture"}) => permits["in"] + Cardinality(Holders("in")) = 1
  /\ ~Used({"writeFuture", "writeCallback"}) =>
       permits["out"] + Cardinality(Holders("out")) = 1

(***************************************************************************)
(* Closing answers every request that was made, the queued ones and those  *)
(* waiting for a permit included, if no write callback is used and the     *)
(* executor has a thread for every request.                                *)
(***************************************************************************)
CloseAnswersReads ==
  \A r \in Requests :
    closed /\ ~At(r, "new") ~> At(r, "done") \/ Used({"writeCallback"})

\* "Closing an socket with pending IO operations will unblock said operations".
CloseAnswersAll == \A r \in Requests : closed /\ ~At(r, "new") ~> At(r, "done")
=============================================================================
