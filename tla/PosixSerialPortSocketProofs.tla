--------------------- MODULE PosixSerialPortSocketProofs ---------------------
(*****************************************************************************)
(* Proofs about PosixSerialPortSocket, for any set of threads, any capacity  *)
(* of the driver's queues and any length of the buffers:                     *)
(*                                                                           *)
(*   TypeCorrect            the type invariant                               *)
(*   LockAndCloseOrder      who holds the locks; what each statement of      *)
(*                          implCloseChannel has done                        *)
(*   ImplementsChannel      the socket implements SerialChannel              *)
(*   CloseIsNotMisreported  no call woken by a close reports anything else   *)
(*   TransfersReported      what read and write return is what they moved    *)
(*   OneStrayCall           one system call at most misses the port          *)
(*   DrainWaits             a drain that returns has emptied the queue       *)
(*   BreakHeld              sendBreak has the line to itself                 *)
(*                                                                           *)
(* Each part has one lemma per action; what an action does to its own frame  *)
(* and leaves of the others is stated once (GotoStep, FinishStep,            *)
(* TransferStep, InsideSteps, StepReaches).  Leaves that instantiate a lemma *)
(* at a Boolean or at a chosen label name Zenon, the others use SMT.         *)
(*****************************************************************************)
EXTENDS PosixSerialPortSocket, TLAPS

(*****************************************************************************)
(* Types.                                                                    *)
(*****************************************************************************)
\* The frame's locals and result, as TypeOK types them.
LocalType == [number : {PORT_FD, INVALID_FD}, rem : 0..MaxLength,
              count : Nat, initial : Nat, deadline : BOOLEAN,
              looping : BOOLEAN, finite : BOOLEAN,
              named : {"port", "free", "other"}, got : Nat, strays : Nat]

ResultType == [outcome : Outcomes, reported : Nat, completed : BOOLEAN]

\* read(2) gives at most what was asked for and, from the port, at most what is queued.
LEMMA ReadResultsRange ==
  ASSUME PortTypeOK, NEW number \in {PORT_FD, INVALID_FD}, NEW room \in Nat,
         NEW r \in ReadResults(number, room)
  PROVE  /\ r \in Int
         /\ Bytes(r) \in 0..room
         /\ file = "port" /\ number = PORT_FD => Bytes(r) <= inQueue
BY PortAssumption DEF ReadResults, Bytes, Least, PortTypeOK, EIO, EBADF, EAGAIN, Unopened, PORT_FD, INVALID_FD

\* write(2) takes at most what was offered and, on the port, at most the room in the queue.
LEMMA WriteResultsRange ==
  ASSUME PortTypeOK, NEW number \in {PORT_FD, INVALID_FD}, NEW length \in Nat,
         NEW r \in WriteResults(number, length)
  PROVE  /\ r \in Int
         /\ Bytes(r) \in 0..length
         /\ file = "port" /\ number = PORT_FD => outQueue + Bytes(r) <= OutCapacity
BY PortAssumption DEF WriteResults, Bytes, Least, PortTypeOK, EIO, EBADF, EAGAIN, Unopened, PORT_FD, INVALID_FD

\* The close, the interrupts and the environment keep the types.
LEMMA PortStepType ==
  ASSUME PortTypeOK, PortStep
  PROVE  PortTypeOK'
<1> USE DEF PortTypeOK
<1>1. CASE ImplCloseChannel
  <2>1. CASE Mark          BY <2>1 DEF Mark, deviceVars, PORT_FD, INVALID_FD
  <2>2. CASE WakeWriters   BY <2>2 DEF WakeWriters, deviceVars
  <2>3. CASE WakeReaders   BY <2>3 DEF WakeReaders, deviceVars
  <2>4. CASE Flush         BY <2>4, PortAssumption DEF Flush, fileVars
  <2>5. CASE Release       BY <2>5 DEF Release, deviceVars
  <2> QED BY <1>1, <2>1, <2>2, <2>3, <2>4, <2>5 DEF ImplCloseChannel
<1>2. CASE Close
  BY <1>2 DEF Close, StartClosing, fileVars, deviceVars
<1>3. CASE Environment
  <2>1. CASE Receive       BY <2>1, PortAssumption DEF Receive, fileVars, closeVars
  <2>2. CASE Transmit      BY <2>2, PortAssumption DEF Transmit, fileVars, closeVars
  <2>3. CASE Unplug        BY <2>3 DEF Unplug, fileVars, closeVars
  <2>4. CASE ReuseNumber   BY <2>4 DEF ReuseNumber, deviceVars, closeVars
  <2> QED BY <1>3, <2>1, <2>2, <2>3, <2>4 DEF Environment
<1>4. ASSUME NEW t \in Threads, Interrupt(t) PROVE PortTypeOK'
  BY <1>4 DEF Interrupt, StartClosing, fileVars, deviceVars
<1> QED BY <1>1, <1>2, <1>3, <1>4 DEF PortStep

\* A transfer keeps the types.
LEMMA TransferType ==
  ASSUME TypeOK, NEW t \in Threads, NEW r \in Int,
         Bytes(r) \in 0..local[t].rem,
         file = "port" /\ local[t].number = PORT_FD =>
           IF op[t] \in ReadOps THEN Bytes(r) <= inQueue ELSE outQueue + Bytes(r) <= OutCapacity,
         NEW count \in Nat, NEW looping \in BOOLEAN, NEW deadline \in BOOLEAN,
         Transfer(t, r, count, looping, deadline)
  PROVE  /\ PortTypeOK'
         /\ local' \in [Threads -> LocalType]
         /\ UNCHANGED <<lock, timeouts, op>>
<1>1. local[t] \in LocalType  BY DEF TypeOK, LocalType
<1>2. Bytes(r) \in Nat  BY <1>1 DEF LocalType
<1>3. local[t].rem - Bytes(r) \in 0..MaxLength  BY <1>1, CallAssumption DEF LocalType
<1>4. PortTypeOK'
  <2>1. UNCHANGED <<fileVars, break, hungUp, closeVars>>  BY DEF Transfer
  <2>2. inQueue' \in 0..InCapacity /\ outQueue' \in 0..OutCapacity
    <3>1. CASE op[t] \in ReadOps
      BY <1>2, <3>1, PortAssumption DEF TypeOK, PortTypeOK, Transfer, Touches
    <3>2. CASE op[t] \notin ReadOps
      BY <1>2, <3>2, PortAssumption DEF TypeOK, PortTypeOK, Transfer, Touches
    <3> QED BY <3>1, <3>2
  <2> QED BY <2>1, <2>2 DEF TypeOK, PortTypeOK, fileVars, closeVars
<1>5. local' \in [Threads -> LocalType]
  <2> DEFINE new == [local[t] EXCEPT !.rem = @ - Bytes(r),
                                     !.count = count,
                                     !.initial = IF At(t, "first") THEN Bytes(r) ELSE @,
                                     !.looping = looping,
                                     !.deadline = deadline,
                                     !.got = IF Touches(t) THEN @ + Bytes(r) ELSE @,
                                     !.strays = @ + Strays(t)]
  <2>1. local' = [local EXCEPT ![t] = new]
    BY DEF Transfer
  <2>2. Strays(t) \in Nat  BY DEF Strays
  <2>3. new \in LocalType
    <3>1. (IF At(t, "first") THEN Bytes(r) ELSE local[t].initial) \in Nat
      BY <1>1, <1>2 DEF LocalType
    <3>2. (IF Touches(t) THEN local[t].got + Bytes(r) ELSE local[t].got) \in Nat
      BY <1>1, <1>2 DEF LocalType
    <3>3. local[t].strays + Strays(t) \in Nat  BY <1>1, <2>2 DEF LocalType
    <3> QED BY <1>1, <1>3, <3>1, <3>2, <3>3 DEF LocalType
  <2> HIDE DEF new
  <2> QED BY <2>1, <2>3 DEF TypeOK, LocalType
<1> QED BY <1>4, <1>5 DEF Transfer

\* So does the decision of a call ...
LEMMA FinishType ==
  ASSUME TypeOK, NEW t \in Threads, NEW label \in Labels, NEW outcome \in Outcomes,
         NEW reported \in Nat, NEW completed \in BOOLEAN,
         Finish(t, label, outcome, reported, completed)
  PROVE  /\ pc' \in [Threads -> Labels]
         /\ result' \in [Threads -> ResultType]
BY DEF TypeOK, Finish, Goto, ResultType

\* ... and a jump.
LEMMA GotoType ==
  ASSUME TypeOK, NEW t \in Threads, NEW label \in Labels, Goto(t, label)
  PROVE  pc' \in [Threads -> Labels]
BY DEF TypeOK, Goto

\* Types of the port when an action leaves it alone.
LEMMA PortUnchangedType ==
  ASSUME PortTypeOK, UNCHANGED portVars
  PROVE  PortTypeOK'
BY DEF PortTypeOK, portVars, fileVars, deviceVars, closeVars

\* begin() and end() keep the types of the port.
LEMMA BeginBlockingType ==
  ASSUME PortTypeOK, NEW t \in Threads, BeginBlocking(t)
  PROVE  PortTypeOK'
BY DEF PortTypeOK, BeginBlocking, StartClosing, fileVars, deviceVars

LEMMA EndBlockingType ==
  ASSUME PortTypeOK, NEW t \in Threads, EndBlocking(t)
  PROVE  PortTypeOK'
BY DEF PortTypeOK, EndBlocking, fileVars, deviceVars

\* The outcomes the handlers choose are outcomes.
LEMMA OutcomesTyped ==
  /\ \A errno \in Int : ErrnoOutcome(errno) \in Outcomes
  /\ CancelOutcome \in Outcomes
  /\ formatMsg \in Outcomes
BY DEF ErrnoOutcome, CancelOutcome, formatMsg, Outcomes

\* The read or write after a poll keeps the types.
LEMMA AgainType ==
  ASSUME TypeOK, NEW t \in Threads, NEW r \in Int,
         Bytes(r) \in 0..local[t].rem,
         file = "port" /\ local[t].number = PORT_FD =>
           IF op[t] \in ReadOps THEN Bytes(r) <= inQueue ELSE outQueue + Bytes(r) <= OutCapacity,
         Again(t, r)
  PROVE  TypeOK'
<1>1. local[t] \in LocalType  BY DEF TypeOK, LocalType
<1>2. (IF local[t].looping THEN local[t].count + Bytes(r) ELSE Bytes(r)) \in Nat
  BY <1>1 DEF LocalType
<1>3. /\ PortTypeOK'
      /\ local' \in [Threads -> LocalType]
      /\ UNCHANGED <<lock, timeouts, op>>
  <2>1. Transfer(t, r, IF local[t].looping THEN local[t].count + Bytes(r) ELSE Bytes(r),
                 op[t] \in {"read", "write"}, local[t].deadline)
    BY DEF Again
  <2>2. local[t].deadline \in BOOLEAN  BY <1>1 DEF LocalType
  <2>3. (op[t] \in {"read", "write"}) \in BOOLEAN  OBVIOUS
  <2> QED BY <1>2, <2>1, <2>2, <2>3, TransferType, Zenon
<1>4. /\ pc' \in [Threads -> Labels]
      /\ result' \in [Threads -> ResultType]
  <2>1. "end" \in Labels /\ "arm" \in Labels  BY DEF Labels
  <2>2. ErrnoOutcome(r) \in Outcomes /\ "ok" \in Outcomes /\ "runtime" \in Outcomes
    BY OutcomesTyped DEF Outcomes
  <2>3. local'[t].count \in Nat  BY <1>3 DEF LocalType
  <2>4. 0 \in Nat /\ TRUE \in BOOLEAN  OBVIOUS
  <2>5. CASE r < 0
    <3>1. Finish(t, "end", ErrnoOutcome(r), ErrorReported(t, ErrnoOutcome(r)), TRUE)
      BY <2>5, Zenon DEF Again
    <3>2. ErrorReported(t, ErrnoOutcome(r)) \in Nat  BY <1>1 DEF ErrorReported, LocalType
    <3> QED BY <2>1, <2>2, <2>4, <3>1, <3>2, FinishType, Zenon
  <2>6. CASE ~(r < 0) /\ r = local[t].rem
    <3>1. Finish(t, "end", "ok", local'[t].count, TRUE)  BY <2>6, Zenon DEF Again
    <3> QED BY <2>1, <2>2, <2>3, <2>4, <3>1, FinishType, Zenon
  <2>7. CASE ~(r < 0) /\ r # local[t].rem /\ op[t] \in {"read", "write"}
    BY <2>1, <2>7, GotoType DEF Again, TypeOK, ResultType
  <2>8. CASE ~(r < 0) /\ r # local[t].rem /\ op[t] \notin {"read", "write"}
    <3>1. Finish(t, "end", "runtime", 0, TRUE)  BY <2>8, Zenon DEF Again
    <3> QED BY <2>1, <2>2, <2>4, <3>1, FinishType, Zenon
  <2> QED BY <2>5, <2>6, <2>7, <2>8
<1> QED BY <1>3, <1>4 DEF TypeOK, LocalType, ResultType

\* Labels, outcomes and constants of the records, as facts to cite.
LEMMA ConstantsTyped ==
  /\ \A label \in {"idle", "enter", "load", "first", "begin", "selfClose", "arm", "poll",
                   "reload", "again", "sleep", "end", "leave"} : label \in Labels
  /\ \A outcome \in {"none", "ok", "eof", "timeout", "asyncClose", "asyncCancel",
                     "closedByInterrupt", "fdInvalid", "portClosed", "ioError",
                     "runtime", "nullPointer", "illegalArgument"} : outcome \in Outcomes
  /\ 0 \in Nat /\ TRUE \in BOOLEAN /\ FALSE \in BOOLEAN
BY DEF Labels, Outcomes

\* A well-typed record may replace the locals of a thread.
LEMMA LocalUpdate ==
  ASSUME TypeOK, NEW t \in Threads, NEW l \in LocalType, local' = [local EXCEPT ![t] = l]
  PROVE  local' \in [Threads -> LocalType]
BY DEF TypeOK, LocalType

\* Counting a stray call keeps the type of the locals.
LEMMA StraysCounted ==
  ASSUME TypeOK, NEW t \in Threads
  PROVE  [local[t] EXCEPT !.strays = @ + Strays(t)] \in LocalType
<1>1. local[t] \in LocalType  BY DEF TypeOK, LocalType
<1>2. local[t].strays + Strays(t) \in Nat  BY <1>1 DEF Strays, LocalType
<1> QED BY <1>1, <1>2 DEF LocalType

\* The initial records are well typed.
LEMMA RecordsTyped ==
  /\ NoLocals \in LocalType
  /\ NoResult \in ResultType
<1>1. 0 \in 0..MaxLength  BY CallAssumption
<1>2. NoLocals \in LocalType
  BY <1>1, ConstantsTyped DEF NoLocals, LocalType, PORT_FD, INVALID_FD
<1>3. NoResult \in ResultType
  BY ConstantsTyped DEF NoResult, ResultType
<1> QED BY <1>2, <1>3

\* One lemma per action: it keeps the types.
LEMMA CallType ==
  ASSUME TypeOK, NEW t \in Threads, Call(t)
  PROVE  TypeOK'
<1>1. PICK o \in Offered : \E n \in Lengths(o) :
        /\ op' = [op EXCEPT ![t] = o]
        /\ local' = [local EXCEPT ![t] = [NoLocals EXCEPT !.rem = n]]
  BY DEF Call
<1>2. PICK n \in Lengths(o) : local' = [local EXCEPT ![t] = [NoLocals EXCEPT !.rem = n]]
  BY <1>1
<1>3. o \in Ops /\ n \in 0..MaxLength
  BY CallAssumption DEF Lengths, Ops
<1>4. [NoLocals EXCEPT !.rem = n] \in LocalType
  BY <1>3 DEF NoLocals, LocalType, INVALID_FD, PORT_FD
<1>5. local' \in [Threads -> LocalType]
  BY <1>2, <1>4 DEF TypeOK, LocalType
<1>6. op' \in [Threads -> Ops \cup {"none"}]
  BY <1>1, <1>3 DEF TypeOK
<1>7. pc' \in [Threads -> Labels]
  BY GotoType, ConstantsTyped DEF Call
<1>8. PortTypeOK'  BY PortUnchangedType DEF Call, TypeOK
<1> QED BY <1>5, <1>6, <1>7, <1>8 DEF Call, TypeOK, LocalType

LEMMA EnterType ==
  ASSUME TypeOK, NEW t \in Threads, Enter(t)
  PROVE  TypeOK'
<1>1. /\ pc' \in [Threads -> Labels]
      /\ result' \in [Threads -> ResultType]
  <2>1. CASE local[t].rem = 0
    <3>1. PICK outcome \in Outcomes : Finish(t, "leave", outcome, 0, TRUE)
      BY <2>1, ConstantsTyped, Zenon DEF Enter
    <3> QED BY <3>1, FinishType, ConstantsTyped, Zenon
  <2>2. CASE local[t].rem # 0
    BY <2>2, GotoType, ConstantsTyped DEF Enter, TypeOK, ResultType
  <2> QED BY <2>1, <2>2
<1>2. PortTypeOK'  BY PortUnchangedType DEF Enter, TypeOK
<1>3. DirOf(op[t]) \in Dir  BY DEF DirOf, Dir
<1>4. lock' \in [Dir -> Threads \cup {NoThread}]  BY <1>3 DEF Enter, TypeOK
<1> QED BY <1>1, <1>2, <1>4 DEF Enter, TypeOK, ResultType

LEMMA LoadFdType ==
  ASSUME TypeOK, NEW t \in Threads, LoadFd(t)
  PROVE  TypeOK'
<1>1. PortTypeOK'  BY PortUnchangedType DEF LoadFd, TypeOK
<1>2. pc' \in [Threads -> Labels]  BY GotoType, ConstantsTyped DEF LoadFd
<1>a. local[t] \in LocalType  BY DEF TypeOK, LocalType
<1>b. fd \in {PORT_FD, INVALID_FD}  BY DEF TypeOK, PortTypeOK
<1>3. [local[t] EXCEPT !.number = fd] \in LocalType
  BY <1>a, <1>b DEF LocalType
<1>4. local' \in [Threads -> LocalType]
  BY <1>3, LocalUpdate DEF LoadFd
<1> QED BY <1>1, <1>2, <1>4 DEF LoadFd, TypeOK, LocalType

LEMMA FirstReadType ==
  ASSUME TypeOK, NEW t \in Threads, FirstRead(t)
  PROVE  TypeOK'
<1>1. local[t] \in LocalType /\ PortTypeOK  BY DEF TypeOK, LocalType
<1>2. PICK r \in ReadResults(local[t].number, local[t].rem) :
       /\ Transfer(t, r, Bytes(r), op[t] = "read" /\ r > 0, op[t] = "read" /\ timeouts["in"])
       /\ IF r < 0 /\ (fd = INVALID_FD \/ r # EAGAIN)
            THEN Finish(t, "leave", ErrnoOutcome(r), 0, TRUE)
            ELSE IF r = local[t].rem
                   THEN Finish(t, "leave", "ok", r, TRUE)
                   ELSE Goto(t, "begin") /\ UNCHANGED result
  BY Zenon DEF FirstRead
<1>3. /\ r \in Int
      /\ Bytes(r) \in 0..local[t].rem
      /\ file = "port" /\ local[t].number = PORT_FD => Bytes(r) <= inQueue
  BY <1>1, ReadResultsRange DEF LocalType
<1>4. op[t] \in ReadOps  BY DEF FirstRead
<1>5. /\ PortTypeOK'
      /\ local' \in [Threads -> LocalType]
      /\ UNCHANGED <<lock, timeouts, op>>
  <2>1. /\ (op[t] = "read" /\ r > 0) \in BOOLEAN
        /\ (op[t] = "read" /\ timeouts["in"]) \in BOOLEAN
        /\ Bytes(r) \in Nat
    BY <1>1, <1>3 DEF LocalType
  <2> QED BY <1>2, <1>3, <1>4, <2>1, TransferType, Zenon
<1>6. /\ pc' \in [Threads -> Labels]
      /\ result' \in [Threads -> ResultType]
  <2>1. CASE r < 0 /\ (fd = INVALID_FD \/ r # EAGAIN)
    <3>1. Finish(t, "leave", ErrnoOutcome(r), 0, TRUE)  BY <1>2, <2>1, Zenon
    <3> QED BY <1>3, <3>1, OutcomesTyped, ConstantsTyped, FinishType, Zenon
  <2>2. CASE ~(r < 0 /\ (fd = INVALID_FD \/ r # EAGAIN)) /\ r = local[t].rem
    <3>1. Finish(t, "leave", "ok", r, TRUE)  BY <1>2, <2>2, Zenon
    <3>2. r \in Nat  BY <1>1, <2>2 DEF LocalType
    <3> QED BY <3>1, <3>2, ConstantsTyped, FinishType, Zenon
  <2>3. CASE ~(r < 0 /\ (fd = INVALID_FD \/ r # EAGAIN)) /\ r # local[t].rem
    <3>1. Goto(t, "begin") /\ UNCHANGED result  BY <1>2, <2>3, Zenon
    <3> QED BY <3>1, GotoType, ConstantsTyped DEF TypeOK, ResultType
  <2> QED BY <2>1, <2>2, <2>3
<1> QED BY <1>5, <1>6 DEF TypeOK, LocalType, ResultType

LEMMA FirstWriteType ==
  ASSUME TypeOK, NEW t \in Threads, FirstWrite(t)
  PROVE  TypeOK'
<1>1. local[t] \in LocalType /\ PortTypeOK  BY DEF TypeOK, LocalType
<1>2. PICK r \in WriteResults(local[t].number, local[t].rem) :
       /\ Transfer(t, r, Bytes(r), op[t] = "write", op[t] = "write" /\ timeouts["out"])
       /\ IF r < 0 /\ r # EAGAIN
            THEN Finish(t, "leave", ErrnoOutcome(r), 0, TRUE)
            ELSE IF r = local[t].rem
                   THEN Finish(t, "leave", "ok", r, TRUE)
                   ELSE Goto(t, "begin") /\ UNCHANGED result
  BY Zenon DEF FirstWrite
<1>3. /\ r \in Int
      /\ Bytes(r) \in 0..local[t].rem
      /\ file = "port" /\ local[t].number = PORT_FD => outQueue + Bytes(r) <= OutCapacity
  BY <1>1, WriteResultsRange DEF LocalType
<1>4. op[t] \notin ReadOps  BY DEF FirstWrite, ReadOps
<1>5. /\ PortTypeOK'
      /\ local' \in [Threads -> LocalType]
      /\ UNCHANGED <<lock, timeouts, op>>
  <2>1. /\ (op[t] = "write") \in BOOLEAN
        /\ (op[t] = "write" /\ timeouts["out"]) \in BOOLEAN
        /\ Bytes(r) \in Nat
    BY <1>1, <1>3 DEF LocalType
  <2> QED BY <1>2, <1>3, <1>4, <2>1, TransferType, Zenon
<1>6. /\ pc' \in [Threads -> Labels]
      /\ result' \in [Threads -> ResultType]
  <2>1. CASE r < 0 /\ r # EAGAIN
    <3>1. Finish(t, "leave", ErrnoOutcome(r), 0, TRUE)  BY <1>2, <2>1, Zenon
    <3> QED BY <1>3, <3>1, OutcomesTyped, ConstantsTyped, FinishType, Zenon
  <2>2. CASE ~(r < 0 /\ r # EAGAIN) /\ r = local[t].rem
    <3>1. Finish(t, "leave", "ok", r, TRUE)  BY <1>2, <2>2, Zenon
    <3>2. r \in Nat  BY <1>1, <2>2 DEF LocalType
    <3> QED BY <3>1, <3>2, ConstantsTyped, FinishType, Zenon
  <2>3. CASE ~(r < 0 /\ r # EAGAIN) /\ r # local[t].rem
    <3>1. Goto(t, "begin") /\ UNCHANGED result  BY <1>2, <2>3, Zenon
    <3> QED BY <3>1, GotoType, ConstantsTyped DEF TypeOK, ResultType
  <2> QED BY <2>1, <2>2, <2>3
<1> QED BY <1>5, <1>6 DEF TypeOK, LocalType, ResultType

LEMMA IoctlBreakType ==
  ASSUME TypeOK, NEW t \in Threads, NEW on \in BOOLEAN, NEW r, IoctlBreak(t, on, r)
  PROVE  /\ PortTypeOK'
         /\ local' \in [Threads -> LocalType]
         /\ UNCHANGED <<lock, timeouts, op>>
<1>1. [local[t] EXCEPT !.strays = @ + Strays(t)] \in LocalType
  BY StraysCounted
<1>2. local' \in [Threads -> LocalType]
  BY <1>1, LocalUpdate DEF IoctlBreak
<1>3. PortTypeOK'
  BY DEF TypeOK, PortTypeOK, IoctlBreak, fileVars, closeVars
<1> QED BY <1>2, <1>3 DEF IoctlBreak

LEMMA SetBreakType ==
  ASSUME TypeOK, NEW t \in Threads, SetBreak(t)
  PROVE  TypeOK'
<1>1. PICK r \in IoctlResults(local[t].number) :
       /\ IoctlBreak(t, op[t] # "clearBreak", r)
       /\ IF op[t] = "sendBreak"
            THEN IF r = 0 THEN Goto(t, "sleep") /\ UNCHANGED result
                          ELSE Finish(t, "end", formatMsg, 0, TRUE)
            ELSE Finish(t, "leave", IF r = 0 THEN "ok" ELSE formatMsg, 0, TRUE)
  BY Zenon DEF SetBreak
<1>2. /\ PortTypeOK'
      /\ local' \in [Threads -> LocalType]
      /\ UNCHANGED <<lock, timeouts, op>>
  <2>1. (op[t] # "clearBreak") \in BOOLEAN  OBVIOUS
  <2> QED BY <1>1, <2>1, IoctlBreakType, Zenon
<1>3. /\ pc' \in [Threads -> Labels]
      /\ result' \in [Threads -> ResultType]
  <2>1. CASE op[t] = "sendBreak" /\ r = 0
    BY <1>1, <2>1, GotoType, ConstantsTyped DEF TypeOK, ResultType
  <2>2. CASE op[t] = "sendBreak" /\ r # 0
    <3>1. Finish(t, "end", formatMsg, 0, TRUE)  BY <1>1, <2>2, Zenon
    <3> QED BY <3>1, OutcomesTyped, ConstantsTyped, FinishType, Zenon
  <2>3. CASE op[t] # "sendBreak"
    <3>1. PICK outcome \in Outcomes : Finish(t, "leave", outcome, 0, TRUE)
      BY <1>1, <2>3, OutcomesTyped, ConstantsTyped, Zenon
    <3> QED BY <3>1, ConstantsTyped, FinishType, Zenon
  <2> QED BY <2>1, <2>2, <2>3
<1> QED BY <1>2, <1>3 DEF TypeOK, LocalType, ResultType

LEMMA BeginType ==
  ASSUME TypeOK, NEW t \in Threads, Begin(t)
  PROVE  TypeOK'
<1>1. PortTypeOK'  BY BeginBlockingType DEF Begin, TypeOK
<1>2. pc' \in [Threads -> Labels]  BY GotoType, ConstantsTyped DEF Begin, AfterBegin
<1> QED BY <1>1, <1>2 DEF Begin, TypeOK

LEMMA SelfClosedType ==
  ASSUME TypeOK, NEW t \in Threads, SelfClosed(t)
  PROVE  TypeOK'
<1>1. PortTypeOK'  BY PortUnchangedType DEF SelfClosed, TypeOK
<1>2. pc' \in [Threads -> Labels]  BY GotoType, ConstantsTyped DEF SelfClosed, AfterBegin
<1> QED BY <1>1, <1>2 DEF SelfClosed, TypeOK

LEMMA ArmType ==
  ASSUME TypeOK, NEW t \in Threads, Arm(t)
  PROVE  TypeOK'
<1> DEFINE d == DirOf(op[t])
           late == local[t].looping /\ timeouts[d]
<1>1. PortTypeOK'  BY PortUnchangedType DEF Arm, TypeOK
<1>2. d \in Dir  BY DEF DirOf, Dir
<1>3. CASE /\ local' = [local EXCEPT
                ![t].finite = timeouts[d] \/ (op[t] = "read" /\ local[t].looping),
                ![t].named  = file]
           /\ Goto(t, "poll")
           /\ UNCHANGED result
  <2>1. PICK finite \in BOOLEAN :
          local' = [local EXCEPT ![t].finite = finite, ![t].named = file]
    BY <1>3, Zenon
  <2>a. local[t] \in LocalType  BY DEF TypeOK, LocalType
  <2>b. file \in {"port", "free", "other"}  BY DEF TypeOK, PortTypeOK
  <2>c. [local[t] EXCEPT !.finite = finite] \in LocalType
    BY <2>a DEF LocalType
  <2>2. [local[t] EXCEPT !.finite = finite, !.named = file] \in LocalType
    BY <2>b, <2>c DEF LocalType
  <2>d. local' = [local EXCEPT ![t] = [local[t] EXCEPT !.finite = finite, !.named = file]]
    BY <2>1
  <2>3. local' \in [Threads -> LocalType]
    BY <2>2, <2>d, LocalUpdate, Zenon
  <2>4. pc' \in [Threads -> Labels]  BY <1>3, GotoType, ConstantsTyped
  <2> QED BY <1>1, <1>3, <2>3, <2>4 DEF Arm, TypeOK, LocalType
<1>4. CASE /\ late
           /\ IF ~local[t].deadline THEN Finish(t, "end", "nullPointer", 0, FALSE)
              ELSE IF op[t] = "read" THEN Finish(t, "end", "ok", local[t].count, TRUE)
              ELSE Finish(t, "end", "timeout", 0, FALSE)
           /\ UNCHANGED local
  <2>1. local[t].count \in Nat  BY DEF TypeOK
  <2>2. PICK outcome \in Outcomes, reported \in Nat, completed \in BOOLEAN :
          Finish(t, "end", outcome, reported, completed)
    BY <1>4, <2>1, ConstantsTyped, Zenon
  <2>3. /\ pc' \in [Threads -> Labels]
        /\ result' \in [Threads -> ResultType]
    BY <2>2, ConstantsTyped, FinishType, Zenon
  <2> QED BY <1>1, <1>4, <2>3 DEF Arm, TypeOK, ResultType
<1> QED BY <1>3, <1>4, Zenon DEF Arm

\* What a poll may report.
Events == {"cancel", "invalid", "ready", "timeout", "hangUp", "unexpected"}

LEMMA PollPortType ==
  ASSUME TypeOK, NEW t \in Threads, PollPort(t)
  PROVE  TypeOK'
<1>1. PortTypeOK'  BY PortUnchangedType DEF PollPort, TypeOK
<1>2. PICK event \in PollReports(DirOf(op[t]), local[t].named, local[t].finite) :
       IF event = "ready"
         THEN Goto(t, "reload") /\ UNCHANGED result
         ELSE Finish(t, "end", PollOutcome(t, event), PollReported(t, event),
                     op[t] # "drain" \/ event = "invalid")
  BY Zenon DEF PollPort
<1>3. event \in Events  BY DEF PollReports, PortReports, Events
<1>4. CASE event = "ready"
  <2>1. pc' \in [Threads -> Labels]  BY <1>2, <1>4, GotoType, ConstantsTyped
  <2> QED BY <1>1, <1>2, <1>4, <2>1 DEF PollPort, TypeOK
<1>5. CASE event # "ready"
  <2>1. PollOutcome(t, event) \in Outcomes
    BY <1>3, <1>5, OutcomesTyped, ConstantsTyped DEF PollOutcome, Events
  <2>2. PollReported(t, event) \in Nat  BY DEF PollReported, ErrorReported, TypeOK
  <2>3. (op[t] # "drain" \/ event = "invalid") \in BOOLEAN  OBVIOUS
  <2>4. Finish(t, "end", PollOutcome(t, event), PollReported(t, event),
               op[t] # "drain" \/ event = "invalid")
    BY <1>2, <1>5, Zenon
  <2>5. /\ pc' \in [Threads -> Labels]
        /\ result' \in [Threads -> ResultType]
    BY <2>1, <2>2, <2>3, <2>4, ConstantsTyped, FinishType, Zenon
  <2> QED BY <1>1, <2>5 DEF PollPort, TypeOK, ResultType
<1> QED BY <1>4, <1>5

LEMMA ReadAgainType ==
  ASSUME TypeOK, NEW t \in Threads, ReadAgain(t)
  PROVE  TypeOK'
<1>1. local[t] \in LocalType /\ PortTypeOK  BY DEF TypeOK, LocalType
<1>2. PICK r \in ReadResults(local[t].number, local[t].rem) : Again(t, r)
  BY Zenon DEF ReadAgain
<1>3. /\ r \in Int
      /\ Bytes(r) \in 0..local[t].rem
      /\ file = "port" /\ local[t].number = PORT_FD => Bytes(r) <= inQueue
  BY <1>1, ReadResultsRange DEF LocalType
<1> QED BY <1>2, <1>3, AgainType, Zenon DEF ReadAgain

LEMMA WriteAgainType ==
  ASSUME TypeOK, NEW t \in Threads, WriteAgain(t)
  PROVE  TypeOK'
<1>1. local[t] \in LocalType /\ PortTypeOK  BY DEF TypeOK, LocalType
<1>2. PICK r \in WriteResults(local[t].number, local[t].rem) : Again(t, r)
  BY Zenon DEF WriteAgain
<1>3. /\ r \in Int
      /\ Bytes(r) \in 0..local[t].rem
      /\ file = "port" /\ local[t].number = PORT_FD => outQueue + Bytes(r) <= OutCapacity
  BY <1>1, WriteResultsRange DEF LocalType
<1>4. op[t] \notin ReadOps  BY DEF WriteAgain, ReadOps
<1> QED BY <1>2, <1>3, <1>4, AgainType, Zenon

LEMMA DrainType ==
  ASSUME TypeOK, NEW t \in Threads, Drain(t)
  PROVE  TypeOK'
<1>1. PortTypeOK'  BY PortUnchangedType DEF Drain, TypeOK
<1>2. [local[t] EXCEPT !.strays = @ + Strays(t)] \in LocalType
  BY StraysCounted
<1>3. local' \in [Threads -> LocalType]  BY <1>2, LocalUpdate DEF Drain
<1>4. PICK outcome \in Outcomes : Finish(t, "end", outcome, 0, TRUE)
  BY OutcomesTyped, ConstantsTyped, Zenon DEF Drain
<1>5. /\ pc' \in [Threads -> Labels]
      /\ result' \in [Threads -> ResultType]
  BY <1>4, ConstantsTyped, FinishType, Zenon
<1> QED BY <1>1, <1>3, <1>5 DEF Drain, TypeOK, LocalType, ResultType

LEMMA WaitFailsType ==
  ASSUME TypeOK, NEW t \in Threads, WaitFails(t)
  PROVE  TypeOK'
<1>1. PortTypeOK'  BY PortUnchangedType DEF WaitFails, TypeOK
<1>2. PICK strays \in {local[t].strays, local[t].strays + Strays(t)} :
        local' = [local EXCEPT ![t].strays = strays]
  BY DEF WaitFails
<1>3. [local[t] EXCEPT !.strays = strays] \in LocalType
  BY DEF LocalType, TypeOK, Strays
<1>4. local' \in [Threads -> LocalType]  BY <1>2, <1>3, LocalUpdate
<1>5. PICK outcome \in {"portClosed", "waitFailed"}, completed \in BOOLEAN :
        Finish(t, "end", outcome, ErrorReported(t, outcome), completed)
  BY Zenon DEF WaitFails
<1>6. outcome \in Outcomes /\ ErrorReported(t, outcome) \in Nat
  BY DEF Outcomes, ErrorReported, TypeOK
<1>7. /\ pc' \in [Threads -> Labels]
      /\ result' \in [Threads -> ResultType]
  BY <1>5, <1>6, ConstantsTyped, FinishType, Zenon
<1> QED BY <1>1, <1>4, <1>7 DEF WaitFails, TypeOK, LocalType, ResultType

LEMMA SleepType ==
  ASSUME TypeOK, NEW t \in Threads, Sleep(t)
  PROVE  TypeOK'
<1>1. PortTypeOK'  BY DEF Sleep, TypeOK, PortTypeOK, fileVars, deviceVars
<1>2. pc' \in [Threads -> Labels]  BY GotoType, ConstantsTyped DEF Sleep
<1>3. result' \in [Threads -> ResultType]
  BY ConstantsTyped DEF Sleep, TypeOK, ResultType
<1> QED BY <1>1, <1>2, <1>3 DEF Sleep, TypeOK, ResultType

LEMMA ClearBreakType ==
  ASSUME TypeOK, NEW t \in Threads, ClearBreak(t)
  PROVE  TypeOK'
<1>1. PICK r \in IoctlResults(local[t].number) :
       /\ IoctlBreak(t, FALSE, r)
       /\ Finish(t, "end", IF r = 0 THEN result[t].outcome ELSE formatMsg, 0, TRUE)
  BY Zenon DEF ClearBreak
<1>2. /\ PortTypeOK'
      /\ local' \in [Threads -> LocalType]
      /\ UNCHANGED <<lock, timeouts, op>>
  BY <1>1, ConstantsTyped, IoctlBreakType, Zenon
<1>3. result[t].outcome \in Outcomes  BY DEF TypeOK
<1>4. PICK outcome \in Outcomes : Finish(t, "end", outcome, 0, TRUE)
  BY <1>1, <1>3, OutcomesTyped, Zenon
<1>5. /\ pc' \in [Threads -> Labels]
      /\ result' \in [Threads -> ResultType]
  BY <1>4, ConstantsTyped, FinishType, Zenon
<1> QED BY <1>2, <1>5 DEF TypeOK, LocalType, ResultType

LEMMA ReturnType ==
  ASSUME TypeOK, NEW t \in Threads, Return(t), PortTypeOK'
  PROVE  TypeOK'
<1>1. NoLocals \in LocalType  BY RecordsTyped
<1>2. NoResult \in ResultType  BY RecordsTyped
<1>3. pc' \in [Threads -> Labels]  BY GotoType, ConstantsTyped DEF Return
<1>4. local' \in [Threads -> LocalType]  BY <1>1, LocalUpdate DEF Return
<1>5. result' \in [Threads -> ResultType]  BY <1>2 DEF Return, TypeOK, ResultType
<1>6. lock' \in [Dir -> Threads \cup {NoThread}] /\ op' \in [Threads -> Ops \cup {"none"}]
  BY DEF Return, TypeOK
<1> QED BY <1>3, <1>4, <1>5, <1>6 DEF Return, TypeOK, LocalType, ResultType

\* Every step of an operation keeps the types.
LEMMA StepType ==
  ASSUME TypeOK, NEW t \in Threads, Step(t)
  PROVE  TypeOK'
<1>1. CASE End(t)
  BY <1>1, EndBlockingType, ReturnType DEF End, TypeOK
<1>2. CASE Leave(t)
  BY <1>2, PortUnchangedType, ReturnType DEF Leave, TypeOK
<1> QED
  BY <1>1, <1>2, EnterType, LoadFdType, FirstReadType, FirstWriteType, SetBreakType,
     BeginType, SelfClosedType, ArmType, PollPortType, ReadAgainType, WriteAgainType,
     DrainType, WaitFailsType, SleepType, ClearBreakType, Zenon DEF Step, Run

\* Every step of the system keeps the types.
LEMMA NextType ==
  ASSUME TypeOK, [Next]_vars
  PROVE  TypeOK'
<1>1. ASSUME NEW t \in Threads, Call(t) PROVE TypeOK'  BY <1>1, CallType
<1>2. ASSUME NEW t \in Threads, Step(t) PROVE TypeOK'  BY <1>2, StepType
<1>3. CASE SetTimeouts
  <2>1. PortTypeOK'  BY <1>3, PortUnchangedType DEF SetTimeouts, TypeOK
  <2> QED BY <1>3, <2>1 DEF SetTimeouts, TypeOK
<1>4. CASE PortStep /\ UNCHANGED callVars
  BY <1>4, PortStepType DEF TypeOK, callVars
<1>5. CASE UNCHANGED vars
  BY <1>5, PortUnchangedType DEF TypeOK, vars, callVars
<1> QED BY <1>1, <1>2, <1>3, <1>4, <1>5, Zenon DEF Next

\* The variables keep their types, in particular the driver's queues their
\* capacities and the buffers their lengths, whatever the threads call.
THEOREM TypeCorrect == Spec => []TypeOK
<1>1. Init => TypeOK
  <2> SUFFICES ASSUME Init PROVE TypeOK  OBVIOUS
  <2>1. PortTypeOK
    <3>1. fd \in {PORT_FD, INVALID_FD} /\ cancel \in [Dir -> BOOLEAN]
      BY DEF Init, PortInit
    <3>2. inQueue \in 0..InCapacity /\ outQueue \in 0..OutCapacity
      BY PortAssumption DEF Init, PortInit
    <3> QED BY <3>1, <3>2 DEF Init, PortInit, PortTypeOK
  <2> QED BY <2>1, RecordsTyped, ConstantsTyped DEF Init, TypeOK, LocalType, ResultType
<1>2. TypeOK /\ [Next]_vars => TypeOK'  BY NextType
<1> QED BY <1>1, <1>2, PTL DEF Spec

------------------------------------------------------------------------------
(*****************************************************************************)
(* The locks and the order of the close.  A thread is inside its operation   *)
(* from the synchronized statement to the return.                            *)
(*****************************************************************************)
\* A thread in no operation, or waiting for its lock.
Outside == {"idle", "enter"}

\* Being inside an operation and holding its lock are the same thing.
MutexInv ==
  /\ \A t \in Threads : pc[t] \notin Outside => lock[DirOf(op[t])] = t
  /\ \A t \in Threads, d \in Dir : lock[d] = t => pc[t] \notin Outside /\ DirOf(op[t]) = d
  /\ \A t \in Threads : pc[t] = "enter" => local[t].got = 0

\* fd, the cancel events and the file, by the next statement of implCloseChannel.
CloseInv ==
  /\ closed <=> closing # "open"
  /\ fd = PORT_FD <=> closing \in {"open", "mark"}
  /\ \A d \in Dir : cancel[d] => fd = INVALID_FD
  /\ closing \in {"wakeReaders", "flush", "release", "done"} => cancel["out"]
  /\ closing \in {"flush", "release", "done"} => cancel["in"]
  /\ file = "port" <=> closing # "done"

\* A step of t between Enter and Return: t keeps its lock, and moves bytes only on the port.
InsideStep(t) ==
  /\ pc[t] \notin Outside /\ pc'[t] \notin Outside
  /\ \A u \in Threads \ {t} : pc'[u] = pc[u] /\ local'[u] = local[u]
  /\ local'[t].got >= local[t].got
  /\ local'[t].got > local[t].got => file = "port"
  /\ UNCHANGED <<lock, op, file>>

\* A jump moves one thread.
LEMMA GotoStep ==
  ASSUME TypeOK, NEW t \in Threads, NEW label, Goto(t, label)
  PROVE  pc'[t] = label /\ \A u \in Threads \ {t} : pc'[u] = pc[u]
BY DEF TypeOK, Goto

\* A decision moves one thread and sets its result.
LEMMA FinishStep ==
  ASSUME TypeOK, NEW t \in Threads, NEW label, NEW outcome, NEW reported, NEW completed,
         Finish(t, label, outcome, reported, completed)
  PROVE  /\ pc'[t] = label
         /\ result'[t] = [outcome |-> outcome, reported |-> reported, completed |-> completed]
         /\ \A u \in Threads \ {t} : pc'[u] = pc[u] /\ result'[u] = result[u]
BY DEF TypeOK, Finish, Goto

\* A transfer counts in got what it moves on the port, and nothing else.
LEMMA TransferStep ==
  ASSUME TypeOK, NEW t \in Threads, NEW r \in Int, NEW count, NEW looping, NEW deadline,
         Transfer(t, r, count, looping, deadline)
  PROVE  /\ local'[t].got = IF Touches(t) THEN local[t].got + Bytes(r) ELSE local[t].got
         /\ local'[t].got >= local[t].got
         /\ local'[t].got > local[t].got => file = "port"
         /\ \A u \in Threads \ {t} : local'[u] = local[u]
         /\ UNCHANGED <<lock, op, file>>
<1> DEFINE new == [local[t] EXCEPT !.rem = @ - Bytes(r),
                                   !.count = count,
                                   !.initial = IF At(t, "first") THEN Bytes(r) ELSE @,
                                   !.looping = looping,
                                   !.deadline = deadline,
                                   !.got = IF Touches(t) THEN @ + Bytes(r) ELSE @,
                                   !.strays = @ + Strays(t)]
<1>1. local' = [local EXCEPT ![t] = new]  BY DEF Transfer
<1>2. new.got = IF Touches(t) THEN local[t].got + Bytes(r) ELSE local[t].got
  BY DEF TypeOK
<1> HIDE DEF new
<1>3. local'[t] = new /\ \A u \in Threads \ {t} : local'[u] = local[u]
  BY <1>1 DEF TypeOK
<1>4. Bytes(r) \in Nat /\ local[t].got \in Nat  BY DEF Bytes, TypeOK
<1>5. UNCHANGED <<lock, op, file>>  BY DEF Transfer, fileVars
<1> QED BY <1>2, <1>3, <1>4, <1>5 DEF Touches

\* Counting a stray call moves no bytes.
LEMMA StraysStep ==
  ASSUME TypeOK, NEW t \in Threads, local' = [local EXCEPT ![t].strays = @ + Strays(t)]
  PROVE  /\ local'[t].got = local[t].got
         /\ \A u \in Threads \ {t} : local'[u] = local[u]
BY DEF TypeOK

\* The read or write after a poll is a step inside the operation.
LEMMA AgainInside ==
  ASSUME TypeOK, NEW t \in Threads, NEW r \in Int, At(t, "again"), Again(t, r)
  PROVE  InsideStep(t)
<1>1. /\ local'[t].got >= local[t].got
      /\ local'[t].got > local[t].got => file = "port"
      /\ \A u \in Threads \ {t} : local'[u] = local[u]
      /\ UNCHANGED <<lock, op, file>>
  BY TransferStep, Zenon DEF Again
<1>2. pc'[t] \in {"end", "arm"} /\ \A u \in Threads \ {t} : pc'[u] = pc[u]
  <2>1. (\E label \in {"end", "arm"} : Goto(t, label))
    BY Zenon DEF Again, Finish
  <2> QED BY <2>1, GotoStep
<1> QED BY <1>1, <1>2 DEF InsideStep, Outside, At

\* Results are integers.
LEMMA ReadRange ==
  ASSUME TypeOK, NEW t \in Threads, NEW r \in ReadResults(local[t].number, local[t].rem)
  PROVE  r \in Int
BY ReadResultsRange DEF TypeOK

LEMMA WriteRange ==
  ASSUME TypeOK, NEW t \in Threads, NEW r \in WriteResults(local[t].number, local[t].rem)
  PROVE  r \in Int
BY WriteResultsRange DEF TypeOK

\* Every step of an operation but its first and its last is a step inside it.
LEMMA InsideSteps ==
  ASSUME TypeOK, TypeOK', NEW t \in Threads, Step(t)
  PROVE  Enter(t) \/ End(t) \/ Leave(t) \/ InsideStep(t)
<1> USE DEF At
<1>1. CASE LoadFd(t)
  <2>1. local'[t].got = local[t].got /\ \A u \in Threads \ {t} : local'[u] = local[u]
    BY <1>1 DEF LoadFd, TypeOK
  <2>2. pc'[t] \in {"first", "again"} /\ \A u \in Threads \ {t} : pc'[u] = pc[u]
    BY <1>1, GotoStep DEF LoadFd
  <2> QED BY <1>1, <2>1, <2>2 DEF LoadFd, InsideStep, Outside, portVars, fileVars, TypeOK
<1>2. CASE FirstRead(t)
  <2>1. PICK r \in ReadResults(local[t].number, local[t].rem) :
          /\ Transfer(t, r, Bytes(r), op[t] = "read" /\ r > 0, op[t] = "read" /\ timeouts["in"])
          /\ \E label \in {"leave", "begin"} : Goto(t, label)
    BY <1>2, Zenon DEF FirstRead, Finish
  <2>2. r \in Int  BY ReadRange
  <2>3. /\ local'[t].got >= local[t].got
        /\ local'[t].got > local[t].got => file = "port"
        /\ \A u \in Threads \ {t} : local'[u] = local[u]
        /\ UNCHANGED <<lock, op, file>>
    BY <2>1, <2>2, TransferStep, Zenon
  <2>4. pc'[t] \in {"leave", "begin"} /\ \A u \in Threads \ {t} : pc'[u] = pc[u]
    BY <2>1, GotoStep
  <2> QED BY <1>2, <2>3, <2>4 DEF FirstRead, InsideStep, Outside
<1>3. CASE FirstWrite(t)
  <2>1. PICK r \in WriteResults(local[t].number, local[t].rem) :
          /\ Transfer(t, r, Bytes(r), op[t] = "write", op[t] = "write" /\ timeouts["out"])
          /\ \E label \in {"leave", "begin"} : Goto(t, label)
    BY <1>3, Zenon DEF FirstWrite, Finish
  <2>2. r \in Int  BY WriteRange
  <2>3. /\ local'[t].got >= local[t].got
        /\ local'[t].got > local[t].got => file = "port"
        /\ \A u \in Threads \ {t} : local'[u] = local[u]
        /\ UNCHANGED <<lock, op, file>>
    BY <2>1, <2>2, TransferStep, Zenon
  <2>4. pc'[t] \in {"leave", "begin"} /\ \A u \in Threads \ {t} : pc'[u] = pc[u]
    BY <2>1, GotoStep
  <2> QED BY <1>3, <2>3, <2>4 DEF FirstWrite, InsideStep, Outside
<1>4. CASE SetBreak(t)
  <2>1. PICK r : IoctlBreak(t, op[t] # "clearBreak", r)
    BY <1>4, Zenon DEF SetBreak
  <2>2. \E label \in {"sleep", "end", "leave"} : Goto(t, label)
    BY <1>4, Zenon DEF SetBreak, Finish
  <2>3. local'[t].got = local[t].got /\ \A u \in Threads \ {t} : local'[u] = local[u]
    BY <2>1, StraysStep DEF IoctlBreak
  <2>4. pc'[t] \in {"sleep", "end", "leave"} /\ \A u \in Threads \ {t} : pc'[u] = pc[u]
    BY <2>2, GotoStep
  <2>5. UNCHANGED <<lock, op, file>>  BY <2>1 DEF IoctlBreak, fileVars
  <2> QED BY <1>4, <2>3, <2>4, <2>5 DEF SetBreak, InsideStep, Outside, TypeOK
<1>5. CASE Begin(t)
  <2>1. \E label \in {"selfClose", "load", "arm"} : Goto(t, label)
    BY <1>5 DEF Begin, AfterBegin
  <2>2. pc'[t] \in {"selfClose", "load", "arm"} /\ \A u \in Threads \ {t} : pc'[u] = pc[u]
    BY <2>1, GotoStep
  <2>3. UNCHANGED <<lock, op, local, file>>  BY <1>5 DEF Begin, BeginBlocking, fileVars
  <2> QED BY <1>5, <2>2, <2>3 DEF Begin, InsideStep, Outside, TypeOK
<1>6. CASE SelfClosed(t)
  <2>1. \E label \in {"load", "arm"} : Goto(t, label)
    BY <1>6 DEF SelfClosed, AfterBegin
  <2>2. pc'[t] \in {"load", "arm"} /\ \A u \in Threads \ {t} : pc'[u] = pc[u]
    BY <2>1, GotoStep
  <2>3. UNCHANGED <<lock, op, local, file>>  BY <1>6 DEF SelfClosed, portVars, fileVars
  <2> QED BY <1>6, <2>2, <2>3 DEF SelfClosed, InsideStep, Outside, TypeOK
<1>7. CASE Arm(t)
  <2>1. \E label \in {"poll", "end"} : Goto(t, label)
    BY <1>7, Zenon DEF Arm, Finish
  <2>2. pc'[t] \in {"poll", "end"} /\ \A u \in Threads \ {t} : pc'[u] = pc[u]
    BY <2>1, GotoStep
  <2>3. local'[t].got = local[t].got /\ \A u \in Threads \ {t} : local'[u] = local[u]
    <3>1. \/ \E finite : local' = [local EXCEPT ![t].finite = finite, ![t].named = file]
          \/ UNCHANGED local
      BY <1>7, Zenon DEF Arm
    <3>2. ASSUME NEW finite, local' = [local EXCEPT ![t].finite = finite, ![t].named = file]
          PROVE  local'[t].got = local[t].got /\ \A u \in Threads \ {t} : local'[u] = local[u]
      BY <3>2 DEF TypeOK
    <3> QED BY <3>1, <3>2
  <2> QED BY <1>7, <2>2, <2>3 DEF Arm, InsideStep, Outside, TypeOK, portVars, fileVars
<1>8. CASE PollPort(t)
  <2>1. \E label \in {"reload", "end"} : Goto(t, label)
    BY <1>8, Zenon DEF PollPort, Finish
  <2>2. pc'[t] \in {"reload", "end"} /\ \A u \in Threads \ {t} : pc'[u] = pc[u]
    BY <2>1, GotoStep
  <2> QED BY <1>8, <2>2 DEF PollPort, InsideStep, Outside, TypeOK, portVars, fileVars
<1>9. CASE ReadAgain(t)
  BY <1>9, ReadRange, AgainInside, Zenon DEF ReadAgain
<1>10. CASE WriteAgain(t)
  BY <1>10, WriteRange, AgainInside, Zenon DEF WriteAgain
<1>11. CASE Drain(t)
  <2>1. Goto(t, "end")  BY <1>11, Zenon DEF Drain, Finish
  <2>2. pc'[t] = "end" /\ \A u \in Threads \ {t} : pc'[u] = pc[u]
    BY <2>1, GotoStep
  <2>3. local'[t].got = local[t].got /\ \A u \in Threads \ {t} : local'[u] = local[u]
    BY <1>11, StraysStep DEF Drain
  <2> QED BY <1>11, <2>2, <2>3 DEF Drain, InsideStep, Outside, TypeOK, portVars, fileVars
<1>12. CASE Sleep(t)
  <2>1. pc'[t] = "reload" /\ \A u \in Threads \ {t} : pc'[u] = pc[u]
    BY <1>12, GotoStep DEF Sleep
  <2> QED BY <1>12, <2>1 DEF Sleep, InsideStep, Outside, TypeOK, fileVars
<1>13. CASE ClearBreak(t)
  <2>1. PICK r : IoctlBreak(t, FALSE, r)  BY <1>13, Zenon DEF ClearBreak
  <2>2. Goto(t, "end")  BY <1>13, Zenon DEF ClearBreak, Finish
  <2>3. pc'[t] = "end" /\ \A u \in Threads \ {t} : pc'[u] = pc[u]
    BY <2>2, GotoStep
  <2>4. local'[t].got = local[t].got /\ \A u \in Threads \ {t} : local'[u] = local[u]
    BY <2>1, StraysStep DEF IoctlBreak
  <2>5. UNCHANGED <<lock, op, file>>  BY <2>1 DEF IoctlBreak, fileVars
  <2> QED BY <1>13, <2>3, <2>4, <2>5 DEF ClearBreak, InsideStep, Outside, TypeOK
<1>14. CASE WaitFails(t)
  <2>1. Goto(t, "end")  BY <1>14, Zenon DEF WaitFails, Finish
  <2>2. pc'[t] = "end" /\ \A u \in Threads \ {t} : pc'[u] = pc[u]
    BY <2>1, GotoStep
  <2>3. local'[t].got = local[t].got /\ \A u \in Threads \ {t} : local'[u] = local[u]
    BY <1>14 DEF WaitFails, TypeOK
  <2> QED BY <1>14, <2>2, <2>3 DEF WaitFails, InsideStep, Outside, TypeOK, portVars, fileVars
<1> QED
  BY <1>1, <1>2, <1>3, <1>4, <1>5, <1>6, <1>7, <1>8, <1>9, <1>10, <1>11, <1>12, <1>13, <1>14, Zenon
  DEF Step, Run

\* MutexInv is kept inside an operation, by its first and last step, and by a new call.
LEMMA MutexInside ==
  ASSUME TypeOK, TypeOK', MutexInv, NEW t \in Threads, InsideStep(t)
  PROVE  MutexInv'
BY DEF MutexInv, InsideStep, Outside

LEMMA MutexEnter ==
  ASSUME TypeOK, TypeOK', MutexInv, NEW t \in Threads, Enter(t)
  PROVE  MutexInv'
<1>1. \E label \in {"leave", "begin", "load"} : Goto(t, label)
  BY DEF Enter, Finish
<1>2. pc'[t] \in {"leave", "begin", "load"} /\ \A u \in Threads \ {t} : pc'[u] = pc[u]
  BY <1>1, GotoStep
<1>3. UNCHANGED <<op, local>>  BY DEF Enter
<1>4. DirOf(op[t]) \in Dir /\ lock[DirOf(op[t])] = NoThread /\ NoThread \notin Threads
  BY PortAssumption DEF Enter, DirOf, Dir
<1>5. lock' = [lock EXCEPT ![DirOf(op[t])] = t]  BY DEF Enter
<1>6. \A u \in Threads : DirOf(op'[u]) = DirOf(op[u])  BY <1>3
<1>7. \A u \in Threads : pc'[u] \notin Outside => lock'[DirOf(op[u])] = u
  BY <1>2, <1>4, <1>5 DEF MutexInv, Outside, TypeOK
<1>8. \A u \in Threads, d \in Dir : lock'[d] = u => pc'[u] \notin Outside /\ DirOf(op[u]) = d
  BY <1>2, <1>4, <1>5 DEF MutexInv, Outside, TypeOK
<1>9. \A u \in Threads : pc'[u] = "enter" => local'[u].got = 0
  BY <1>2, <1>3 DEF MutexInv
<1> QED BY <1>6, <1>7, <1>8, <1>9 DEF MutexInv

LEMMA MutexReturn ==
  ASSUME TypeOK, TypeOK', MutexInv, NEW t \in Threads, pc[t] \notin Outside, Return(t)
  PROVE  MutexInv'
<1>1. pc'[t] = "idle" /\ \A u \in Threads \ {t} : pc'[u] = pc[u]
  BY GotoStep DEF Return
<1>2. \A u \in Threads \ {t} : op'[u] = op[u] /\ local'[u] = local[u]
  BY DEF Return, TypeOK
<1>3. lock' = [lock EXCEPT ![DirOf(op[t])] = NoThread]  BY DEF Return
<1>4. lock[DirOf(op[t])] = t /\ NoThread \notin Threads  BY PortAssumption DEF MutexInv
<1>5. \A u \in Threads \ {t} : DirOf(op'[u]) = DirOf(op[u])  BY <1>2 DEF DirOf
<1>6. \A u \in Threads : DirOf(op[u]) \in Dir  BY DEF DirOf, Dir
<1>7. ASSUME NEW u \in Threads, pc'[u] \notin Outside PROVE lock'[DirOf(op'[u])] = u
  <2>1. u # t /\ pc[u] \notin Outside  BY <1>1, <1>7 DEF Outside
  <2>2. lock[DirOf(op[u])] = u  BY <2>1 DEF MutexInv
  <2>3. DirOf(op[u]) # DirOf(op[t])  BY <1>4, <2>1, <2>2
  <2>4. lock'[DirOf(op[u])] = u  BY <1>3, <1>6, <2>2, <2>3 DEF TypeOK
  <2> QED BY <1>5, <2>1, <2>4
<1>8. \A u \in Threads, d \in Dir : lock'[d] = u => pc'[u] \notin Outside /\ DirOf(op'[u]) = d
  BY <1>1, <1>3, <1>4, <1>5, <1>6 DEF MutexInv, Outside, TypeOK
<1>9. \A u \in Threads : pc'[u] = "enter" => local'[u].got = 0
  BY <1>1, <1>2 DEF MutexInv
<1> QED BY <1>7, <1>8, <1>9 DEF MutexInv

LEMMA MutexCall ==
  ASSUME TypeOK, TypeOK', MutexInv, NEW t \in Threads, Call(t)
  PROVE  MutexInv'
<1>1. pc'[t] = "enter" /\ \A u \in Threads \ {t} : pc'[u] = pc[u]
  BY GotoStep DEF Call
<1>2. PICK o, n : op' = [op EXCEPT ![t] = o] /\ local' = [local EXCEPT ![t] = [NoLocals EXCEPT !.rem = n]]
  BY DEF Call
<1>3. [NoLocals EXCEPT !.rem = n].got = 0  BY DEF NoLocals
<1>4. local'[t].got = 0  BY <1>2, <1>3 DEF TypeOK
<1>5. \A u \in Threads \ {t} : op'[u] = op[u] /\ local'[u] = local[u]
  BY <1>2 DEF TypeOK
<1>6. lock' = lock /\ pc[t] = "idle"  BY DEF Call, At
<1>7. \A u \in Threads \ {t} : DirOf(op'[u]) = DirOf(op[u])  BY <1>5 DEF DirOf
<1>8. \A d \in Dir : lock[d] # t  BY <1>6 DEF MutexInv, Outside
<1> QED BY <1>1, <1>4, <1>5, <1>6, <1>7, <1>8 DEF MutexInv, Outside

\* MutexInv depends on the frames and the locks only.
LEMMA MutexUnchanged ==
  ASSUME MutexInv, UNCHANGED callVars
  PROVE  MutexInv'
<1>1. UNCHANGED <<lock, pc, op, local>>  BY DEF callVars
<1>2. \A t \in Threads : DirOf(op'[t]) = DirOf(op[t])  BY <1>1
<1> QED BY <1>1, <1>2 DEF MutexInv, callVars

\* Every step keeps MutexInv.
LEMMA MutexNext ==
  ASSUME TypeOK, TypeOK', MutexInv, [Next]_vars
  PROVE  MutexInv'
<1>1. ASSUME NEW t \in Threads, Call(t) PROVE MutexInv'
  BY <1>1, MutexCall
<1>2. ASSUME NEW t \in Threads, Step(t) PROVE MutexInv'
  <2>1. CASE End(t)
    BY <2>1, MutexReturn DEF End, At, Outside
  <2>2. CASE Leave(t)
    BY <2>2, MutexReturn DEF Leave, At, Outside
  <2> QED BY <1>2, <2>1, <2>2, InsideSteps, MutexEnter, MutexInside, Zenon
<1>3. CASE SetTimeouts
  <2>1. UNCHANGED <<lock, pc, op, local>>  BY <1>3 DEF SetTimeouts
  <2>2. \A t \in Threads : DirOf(op'[t]) = DirOf(op[t])  BY <2>1
  <2> QED BY <2>1, <2>2 DEF MutexInv
<1>4. CASE PortStep /\ UNCHANGED callVars
  BY <1>4, MutexUnchanged
<1>5. CASE UNCHANGED vars
  BY <1>5, MutexUnchanged DEF vars
<1> QED BY <1>1, <1>2, <1>3, <1>4, <1>5, Zenon DEF Next

\* No operation touches fd, the events or the file; it may start the close.
LEMMA CloseSteps ==
  ASSUME NEW t \in Threads, Step(t)
  PROVE  /\ UNCHANGED fileVars
         /\ UNCHANGED <<closed, closing>> \/ StartClosing
<1> USE DEF portVars, fileVars, closeVars
<1>1. CASE FirstRead(t)    BY <1>1 DEF FirstRead, Transfer
<1>2. CASE FirstWrite(t)   BY <1>2 DEF FirstWrite, Transfer
<1>3. CASE SetBreak(t)     BY <1>3 DEF SetBreak, IoctlBreak
<1>4. CASE Begin(t)        BY <1>4 DEF Begin, BeginBlocking
<1>5. CASE ReadAgain(t)    BY <1>5 DEF ReadAgain, Again, Transfer
<1>6. CASE WriteAgain(t)   BY <1>6 DEF WriteAgain, Again, Transfer
<1>7. CASE ClearBreak(t)   BY <1>7 DEF ClearBreak, IoctlBreak
<1>8. CASE End(t)          BY <1>8 DEF End, EndBlocking
<1>9. CASE \/ Enter(t) \/ LoadFd(t) \/ SelfClosed(t) \/ Arm(t) \/ PollPort(t) \/ Drain(t)
           \/ WaitFails(t) \/ Leave(t)
  BY <1>9 DEF Enter, LoadFd, SelfClosed, Arm, PollPort, Drain, WaitFails, Leave
<1>10. CASE Sleep(t)       BY <1>10 DEF Sleep
<1> QED BY <1>1, <1>2, <1>3, <1>4, <1>5, <1>6, <1>7, <1>8, <1>9, <1>10 DEF Step, Run

\* Every step keeps CloseInv.
LEMMA CloseNext ==
  ASSUME TypeOK, CloseInv, [Next]_vars
  PROVE  CloseInv'
<1> USE DEF CloseInv
<1>1. ASSUME UNCHANGED fileVars, UNCHANGED <<closed, closing>> \/ StartClosing
      PROVE  CloseInv'
  BY <1>1 DEF StartClosing, fileVars
<1>2. ASSUME NEW t \in Threads, Call(t) PROVE CloseInv'
  BY <1>1, <1>2 DEF Call, portVars, closeVars
<1>3. ASSUME NEW t \in Threads, Step(t) PROVE CloseInv'
  BY <1>1, <1>3, CloseSteps
<1>4. CASE SetTimeouts \/ UNCHANGED vars
  BY <1>1, <1>4 DEF SetTimeouts, vars, portVars, closeVars
<1>5. CASE PortStep
  <2>1. CASE Mark          BY <2>1 DEF Mark, PORT_FD, INVALID_FD
  <2>2. CASE WakeWriters   BY <2>2 DEF WakeWriters, TypeOK, PortTypeOK, Dir, PORT_FD, INVALID_FD
  <2>3. CASE WakeReaders   BY <2>3 DEF WakeReaders, TypeOK, PortTypeOK, Dir, PORT_FD, INVALID_FD
  <2>4. CASE Flush         BY <2>4 DEF Flush, fileVars
  <2>5. CASE Release       BY <2>5 DEF Release
  <2>6. CASE Close         BY <1>1, <2>6 DEF Close
  <2>7. CASE Receive \/ Transmit \/ Unplug
    BY <1>1, <2>7 DEF Receive, Transmit, Unplug, closeVars
  <2>8. CASE ReuseNumber   BY <2>8 DEF ReuseNumber, closeVars
  <2>9. ASSUME NEW t \in Threads, Interrupt(t) PROVE CloseInv'
    BY <1>1, <2>9 DEF Interrupt
  <2> QED
    BY <1>5, <2>1, <2>2, <2>3, <2>4, <2>5, <2>6, <2>7, <2>8, <2>9
    DEF PortStep, ImplCloseChannel, Environment
<1> QED BY <1>2, <1>3, <1>4, <1>5, Zenon DEF Next

\* "Any read operations are synchronized as well as all write operations": a thread
\* is inside an operation exactly when it holds the lock of its direction; and
\* implCloseChannel invalidates fd before it wakes anybody and frees the number last.
THEOREM LockAndCloseOrder == Spec => [](MutexInv /\ CloseInv)
<1>1. Init => MutexInv /\ CloseInv
  BY PortAssumption DEF Init, PortInit, MutexInv, CloseInv, Outside, PORT_FD, INVALID_FD
<1>2. TypeOK /\ TypeOK' /\ MutexInv /\ CloseInv /\ [Next]_vars => MutexInv' /\ CloseInv'
  BY MutexNext, CloseNext
<1> QED BY <1>1, <1>2, TypeCorrect, PTL DEF Spec

------------------------------------------------------------------------------
(*****************************************************************************)
(* The socket implements SerialChannel.  Steps inside an operation move bytes*)
(* or change nothing the channel sees; Enter claims a direction, Return yields*)
(* it, Release detaches.                                                     *)
(*****************************************************************************)
\* What SerialChannel calls moved.
Moved == [d \in Dir |-> IF lock[d] = NoThread THEN 0 ELSE local[lock[d]].got]

\* A step of one thread is a step of the channel.
LEMMA ChannelStep ==
  ASSUME NEW t \in Threads, NEW d \in Channel!Dir,
         Channel!Claim(t, d) \/ Channel!Move(t, d) \/ Channel!Yield(t, d)
  PROVE  [Channel!Next]_(Channel!vars)
BY DEF Channel!Next

\* A step inside an operation is a Move or a stutter.
LEMMA RefineInside ==
  ASSUME TypeOK, TypeOK', MutexInv, NEW t \in Threads, InsideStep(t)
  PROVE  [Channel!Next]_(Channel!vars)
<1>1. PICK d \in Dir : d = DirOf(op[t])  BY DEF DirOf, Dir
<1>2. lock[d] = t /\ t # NoThread  BY <1>1, PortAssumption DEF MutexInv, InsideStep
<1>3. \A e \in Dir \ {d} : lock[e] # t  BY <1>1 DEF MutexInv
<1>4. lock' = lock /\ (file' = "port") = (file = "port")  BY DEF InsideStep
<1>5. \A e \in Dir \ {d} : Moved'[e] = Moved[e]
  BY <1>3, <1>4 DEF Moved, InsideStep, TypeOK
<1>6. Moved[d] = local[t].got /\ Moved'[d] = local'[t].got
  BY <1>1, <1>2, <1>4 DEF Moved
<1>7. CASE local'[t].got = local[t].got
  <2>1. Moved' = Moved  BY <1>5, <1>6, <1>7 DEF Moved
  <2> QED BY <1>4, <2>1 DEF Moved, Channel!vars
<1>8. CASE local'[t].got # local[t].got
  <2>1. local'[t].got > local[t].got /\ file = "port"
    <3>1. local'[t].got \in Nat /\ local[t].got \in Nat  BY DEF TypeOK
    <3> QED BY <1>8, <3>1 DEF InsideStep
  <2>2. Moved' = [Moved EXCEPT ![d] = Moved'[d]]  BY <1>1, <1>5 DEF Moved
  <2>3. Channel!Move(t, d)
    BY <1>2, <1>4, <1>6, <2>1, <2>2 DEF Channel!Move, Moved
  <2>4. d \in Channel!Dir  BY <1>1 DEF Channel!Dir, Dir
  <2> QED BY <2>3, <2>4, ChannelStep
<1> QED BY <1>7, <1>8

\* A step the channel does not see.
LEMMA RefineStutter ==
  ASSUME (file' = "port") = (file = "port"), UNCHANGED lock, Moved' = Moved
  PROVE  [Channel!Next]_(Channel!vars)
BY DEF Channel!vars, Moved

\* Taking the lock is a Claim.
LEMMA RefineEnter ==
  ASSUME TypeOK, TypeOK', MutexInv, NEW t \in Threads, Enter(t)
  PROVE  [Channel!Next]_(Channel!vars)
<1>1. PICK d \in Dir : d = DirOf(op[t]) /\ d \in Channel!Dir
  BY DEF DirOf, Dir, Channel!Dir
<1>2. lock[d] = NoThread /\ lock' = [lock EXCEPT ![d] = t] /\ local' = local /\ file' = file
  BY <1>1 DEF Enter, portVars, fileVars
<1>3. local[t].got = 0  BY DEF Enter, At, MutexInv
<1>4. Moved' = Moved
  BY <1>1, <1>2, <1>3 DEF Moved, TypeOK
<1>5. Channel!Claim(t, d)
  BY <1>2, <1>4 DEF Channel!Claim, Moved
<1> QED BY <1>1, <1>5, ChannelStep

\* Returning is a Yield.
LEMMA RefineReturn ==
  ASSUME TypeOK, TypeOK', MutexInv, NEW t \in Threads, pc[t] \notin Outside, Return(t),
         UNCHANGED file
  PROVE  [Channel!Next]_(Channel!vars)
<1>1. PICK d \in Dir : d = DirOf(op[t]) /\ d \in Channel!Dir
  BY DEF DirOf, Dir, Channel!Dir
<1>2. lock[d] = t /\ lock' = [lock EXCEPT ![d] = NoThread]
  BY <1>1 DEF Return, MutexInv
<1>3. \A e \in Dir \ {d} : lock[e] # t /\ lock'[e] = lock[e]
  BY <1>1, <1>2 DEF MutexInv, TypeOK
<1>4. \A u \in Threads \ {t} : local'[u] = local[u]  BY DEF Return, TypeOK
<1>5. Moved' = [Moved EXCEPT ![d] = 0]
  BY <1>1, <1>2, <1>3, <1>4 DEF Moved, TypeOK
<1>6. Channel!Yield(t, d)
  BY <1>2, <1>5 DEF Channel!Yield, Moved
<1> QED BY <1>1, <1>6, ChannelStep

\* A call that has not taken its lock is not seen.
LEMMA RefineCall ==
  ASSUME TypeOK, TypeOK', MutexInv, NEW t \in Threads, Call(t)
  PROVE  [Channel!Next]_(Channel!vars)
<1>1. \A d \in Dir : lock[d] # t  BY DEF MutexInv, Call, At, Outside
<1>2. \A u \in Threads \ {t} : local'[u] = local[u]
  BY DEF Call, TypeOK
<1>3. UNCHANGED <<lock, file>>  BY DEF Call, portVars, fileVars
<1>4. Moved' = Moved  BY <1>1, <1>2, <1>3 DEF Moved, TypeOK
<1> QED BY <1>3, <1>4, RefineStutter

\* Freeing the number is the Detach, the rest of the close is not seen.
LEMMA RefinePort ==
  ASSUME CloseInv, PortStep, UNCHANGED callVars
  PROVE  [Channel!Next]_(Channel!vars)
<1>1. UNCHANGED <<lock, local>> /\ Moved' = Moved  BY DEF callVars, Moved
<1>2. CASE Release
  <2>1. file = "port" /\ file' # "port"  BY <1>2 DEF Release, CloseInv
  <2>2. Channel!Detach  BY <1>1, <2>1 DEF Channel!Detach, Moved
  <2> QED BY <2>2 DEF Channel!Next
<1>3. CASE ~Release
  <2>1. (file' = "port") = (file = "port")
    <3>1. CASE Mark \/ WakeWriters \/ WakeReaders \/ Flush
      BY <3>1 DEF Mark, WakeWriters, WakeReaders, Flush, fileVars
    <3>2. CASE Close  BY <3>2 DEF Close, fileVars
    <3>3. CASE Environment
      BY <3>3 DEF Environment, Receive, Transmit, Unplug, ReuseNumber, fileVars
    <3>4. ASSUME NEW t \in Threads, Interrupt(t) PROVE file' = file
      BY <3>4 DEF Interrupt, fileVars
    <3> QED BY <1>3, <3>1, <3>2, <3>3, <3>4 DEF PortStep, ImplCloseChannel
  <2> QED BY <1>1, <2>1, RefineStutter
<1> QED BY <1>2, <1>3

\* Every step of the socket is a step of the channel or a stutter.
LEMMA RefineNext ==
  ASSUME TypeOK, TypeOK', MutexInv, CloseInv, [Next]_vars
  PROVE  [Channel!Next]_(Channel!vars)
<1>1. ASSUME NEW t \in Threads, Call(t) PROVE [Channel!Next]_(Channel!vars)
  BY <1>1, RefineCall
<1>2. ASSUME NEW t \in Threads, Step(t) PROVE [Channel!Next]_(Channel!vars)
  <2>1. UNCHANGED file  BY <1>2, CloseSteps DEF fileVars
  <2>2. CASE End(t)    BY <2>1, <2>2, RefineReturn DEF End, At, Outside
  <2>3. CASE Leave(t)  BY <2>1, <2>3, RefineReturn DEF Leave, At, Outside
  <2> QED BY <1>2, <2>2, <2>3, InsideSteps, RefineEnter, RefineInside, Zenon
<1>3. CASE SetTimeouts \/ UNCHANGED vars
  <2>1. UNCHANGED <<lock, local, file>>
    BY <1>3 DEF SetTimeouts, vars, portVars, fileVars, callVars
  <2>2. Moved' = Moved  BY <2>1 DEF Moved
  <2> QED BY <2>1, <2>2, RefineStutter
<1>4. CASE PortStep /\ UNCHANGED callVars
  BY <1>4, RefinePort
<1> QED BY <1>1, <1>2, <1>3, <1>4, Zenon DEF Next

\* The blocking socket implements the safety part of SerialChannel: the operations of
\* a direction exclude each other, and bytes move only for the owner of the direction
\* and only while the number names the port.
THEOREM ImplementsChannel == Spec => ChannelSafeSpec
<1>1. Init => Channel!Init
  BY PortAssumption DEF Init, PortInit, Channel!Init, Channel!Dir, Dir
<1>2. /\ TypeOK /\ TypeOK' /\ MutexInv /\ CloseInv
      /\ [Next]_vars
      => [Channel!Next]_(Channel!vars)
  BY RefineNext
<1> QED
  BY <1>1, <1>2, TypeCorrect, LockAndCloseOrder, PTL
  DEF Spec, ChannelSafeSpec, Channel!SafeSpec

------------------------------------------------------------------------------
(*****************************************************************************)
(* What a call reports.  The handlers tell a close, a cancellation and a lost*)
(* device apart by reading fd; what they conclude is right because           *)
(*   - a number loaded as INVALID_FD was loaded after Mark   (NumberInv)     *)
(*   - a poll sees the number freed only after Release       (NamedInv)      *)
(*   - what poll found ready stays so until the close: only the holder of the*)
(*     lock takes bytes from the queue, or room              (ReadyInv)      *)
(* OutcomeInv is the conclusion for every frame.                             *)
(*****************************************************************************)
\* A number that was loaded invalid was loaded after the close had begun.
NumberInv ==
  \A t \in Threads :
    pc[t] \in {"first", "again"} /\ local[t].number = INVALID_FD => fd = INVALID_FD

\* A poll that began on anything but the port began after the number was closed.
NamedInv ==
  \A t \in Threads : pc[t] = "poll" /\ local[t].named # "port" => file # "port"

\* The labels between a poll that found the port ready and the call that uses it.
Polled == {"reload", "again"}

\* What the poll found is still there unless the close has begun or the device is gone.
ReadyInv ==
  \A t \in Threads : pc[t] \in Polled /\ fd = PORT_FD =>
    /\ op[t] \in ReadOps => inQueue > 0 \/ hungUp
    /\ op[t] \in {"write", "writeByte"} => outQueue < OutCapacity \/ hungUp

\* Only sendBreak sleeps.
SleepInv == \A t \in Threads : pc[t] = "sleep" => op[t] = "sendBreak"

\* An outcome that blames a cancellation or the device does so rightly.
Honest(outcome) == /\ outcome # "asyncCancel"
                   /\ outcome \in {"fdInvalid", "ioError"} => hungUp

\* Every outcome recorded so far is honest.
OutcomeInv == \A t \in Threads : Honest(result[t].outcome)

\* The invariant behind CloseNotMisreported.
TellInv == NumberInv /\ NamedInv /\ ReadyInv /\ SleepInv /\ OutcomeInv

\* The handlers of read, write and ioctl conclude honestly.
LEMMA ReadErrno ==
  ASSUME TypeOK, CloseInv, NEW number \in {PORT_FD, INVALID_FD}, NEW room \in Nat,
         number = INVALID_FD => fd = INVALID_FD,
         NEW r \in ReadResults(number, room), r < 0,
         fd = INVALID_FD \/ r # EAGAIN \/ inQueue > 0 \/ hungUp
  PROVE  Honest(ErrnoOutcome(r))
<1>1. CASE fd = INVALID_FD
  BY <1>1 DEF Honest, ErrnoOutcome
<1>2. CASE fd = PORT_FD
  <2>1. number = PORT_FD /\ file = "port"
    BY <1>2 DEF CloseInv, PORT_FD, INVALID_FD
  <2>2. hungUp
    BY <1>2, <2>1 DEF ReadResults, Unopened, Least, EAGAIN, EIO, PORT_FD, INVALID_FD,
       TypeOK, PortTypeOK
  <2>3. ErrnoOutcome(r) # "asyncCancel"  BY DEF ErrnoOutcome
  <2> QED BY <2>2, <2>3 DEF Honest
<1> QED BY <1>1, <1>2 DEF TypeOK, PortTypeOK

LEMMA WriteErrno ==
  ASSUME TypeOK, CloseInv, NEW number \in {PORT_FD, INVALID_FD}, NEW length \in Nat,
         number = INVALID_FD => fd = INVALID_FD,
         NEW r \in WriteResults(number, length), r < 0,
         fd = INVALID_FD \/ r # EAGAIN \/ outQueue < OutCapacity \/ hungUp
  PROVE  Honest(ErrnoOutcome(r))
<1>1. CASE fd = INVALID_FD
  BY <1>1 DEF Honest, ErrnoOutcome
<1>2. CASE fd = PORT_FD
  <2>1. number = PORT_FD /\ file = "port"
    BY <1>2 DEF CloseInv, PORT_FD, INVALID_FD
  <2>2. hungUp
    BY <1>2, <2>1, PortAssumption
    DEF WriteResults, Unopened, Least, EAGAIN, EIO, PORT_FD, INVALID_FD, TypeOK, PortTypeOK
  <2>3. ErrnoOutcome(r) # "asyncCancel"  BY DEF ErrnoOutcome
  <2> QED BY <2>2, <2>3 DEF Honest
<1> QED BY <1>1, <1>2 DEF TypeOK, PortTypeOK

LEMMA IoctlErrno ==
  ASSUME TypeOK, CloseInv, NEW number \in {PORT_FD, INVALID_FD},
         number = INVALID_FD => fd = INVALID_FD,
         NEW r \in IoctlResults(number), r # 0
  PROVE  Honest(formatMsg)
<1>1. CASE fd = INVALID_FD
  BY <1>1 DEF Honest, formatMsg
<1>2. CASE fd = PORT_FD
  <2>1. number = PORT_FD /\ file = "port"
    BY <1>2 DEF CloseInv, PORT_FD, INVALID_FD
  <2>2. hungUp
    BY <1>2, <2>1 DEF IoctlResults, Unopened, PORT_FD, INVALID_FD
  <2>3. formatMsg # "asyncCancel"  BY DEF formatMsg
  <2> QED BY <2>2, <2>3 DEF Honest
<1> QED BY <1>1, <1>2 DEF TypeOK, PortTypeOK

\* So do those of a poll that did not find the port ready.
LEMMA PollHonest ==
  ASSUME TypeOK, CloseInv, NamedInv, NEW t \in Threads, At(t, "poll"),
         NEW event \in PollReports(DirOf(op[t]), local[t].named, local[t].finite),
         event # "ready"
  PROVE  Honest(PollOutcome(t, event))
<1>1. DirOf(op[t]) \in Dir  BY DEF DirOf, Dir
<1>2. event \in {"cancel", "invalid"} => fd = INVALID_FD
  BY <1>1 DEF PollReports, PortReports, CloseInv, NamedInv, At, TypeOK, PortTypeOK
<1>3. event \in {"hangUp", "unexpected"} => hungUp
  <2>1. file # "port" => cancel[DirOf(op[t])]  BY <1>1 DEF CloseInv, Dir
  <2>2. ~cancel[DirOf(op[t])] => local[t].named = "port"
    BY <2>1 DEF NamedInv, At
  <2> QED BY <2>2 DEF PollReports, PortReports
<1>4. event \in Events  BY DEF PollReports, PortReports, Events
<1>5. fd = INVALID_FD => CancelOutcome = "asyncClose"  BY DEF CancelOutcome
<1>6. formatMsg \in {"portClosed", "ioError"}  BY DEF formatMsg
<1> QED BY <1>2, <1>3, <1>4, <1>5, <1>6 DEF Honest, PollOutcome, Events

\* A poll that found the port ready before the close found bytes, or room.
LEMMA PollReady ==
  ASSUME TypeOK, CloseInv, NamedInv, NEW t \in Threads, At(t, "poll"), fd = PORT_FD,
         "ready" \in PollReports(DirOf(op[t]), local[t].named, local[t].finite)
  PROVE  IF op[t] \in ReadOps THEN inQueue > 0 ELSE outQueue < OutCapacity
<1>1. file = "port"  BY DEF CloseInv
<1>2. local[t].named = "port"  BY <1>1 DEF NamedInv, At
<1>3. IF DirOf(op[t]) = "in" THEN inQueue > 0 ELSE outQueue < OutCapacity
  BY <1>1, <1>2 DEF PollReports, PortReports
<1> QED BY <1>3 DEF DirOf

\* The step of t ends at one of these labels and touches no other frame.
Reaches(t, labels) ==
  /\ pc'[t] \in labels
  /\ \A u \in Threads \ {t} : pc'[u] = pc[u] /\ result'[u] = result[u]

\* Which labels an action leads to, and that it leaves the other frames alone.
LEMMA GotoReaches ==
  ASSUME TypeOK, NEW t \in Threads, NEW labels, NEW label \in labels, Goto(t, label),
         UNCHANGED result \/ \E x : result' = [result EXCEPT ![t] = x]
  PROVE  Reaches(t, labels)
<1>1. pc'[t] \in labels /\ \A u \in Threads \ {t} : pc'[u] = pc[u]  BY GotoStep
<1>2. \A u \in Threads \ {t} : result'[u] = result[u]
  <2>1. CASE UNCHANGED result  BY <2>1
  <2>2. ASSUME NEW x, result' = [result EXCEPT ![t] = x]
        PROVE  \A u \in Threads \ {t} : result'[u] = result[u]
    BY <2>2 DEF TypeOK
  <2> QED BY <2>1, <2>2
<1> QED BY <1>1, <1>2 DEF Reaches

LEMMA FinishReaches ==
  ASSUME TypeOK, NEW t \in Threads, NEW labels, NEW label \in labels, NEW outcome,
         NEW reported, NEW completed, Finish(t, label, outcome, reported, completed)
  PROVE  Reaches(t, labels)
BY FinishStep DEF Reaches

LEMMA AgainReaches ==
  ASSUME TypeOK, NEW t \in Threads, NEW r, Again(t, r)
  PROVE  Reaches(t, {"end", "arm"})
<1>1. \/ Goto(t, "arm") /\ UNCHANGED result
      \/ \E outcome, reported : Finish(t, "end", outcome, reported, TRUE)
  BY Zenon DEF Again
<1>2. "end" \in {"end", "arm"} /\ "arm" \in {"end", "arm"}  OBVIOUS
<1> QED BY <1>1, <1>2, GotoReaches, FinishReaches, Zenon

\* The labels that several actions lead to.
Elsewhere == Labels \ {"first", "again", "poll", "reload", "sleep"}

\* The actions that lead to the labels the invariants speak of.
LEMMA StepReaches ==
  ASSUME TypeOK, NEW t \in Threads, Step(t)
  PROVE  \/ LoadFd(t) /\ Reaches(t, {"first", "again"})
         \/ Arm(t) /\ Reaches(t, {"poll", "end"})
         \/ (PollPort(t) \/ Sleep(t)) /\ Reaches(t, {"reload", "end"})
         \/ SetBreak(t) /\ Reaches(t, {"sleep", "end", "leave"})
         \/ Reaches(t, Elsewhere)
<1>1. \A label \in {"idle", "load", "begin", "selfClose", "arm", "end", "leave"} : label \in Elsewhere
  BY DEF Labels, Elsewhere
<1>2. CASE LoadFd(t)
  <2>1. PICK label \in {"first", "again"} : Goto(t, label)  BY <1>2 DEF LoadFd
  <2> QED BY <1>2, <2>1, GotoReaches DEF LoadFd
<1>3. CASE Arm(t)
  <2>1. \/ Goto(t, "poll") /\ UNCHANGED result
        \/ \E outcome, reported, completed : Finish(t, "end", outcome, reported, completed)
    BY <1>3, Zenon DEF Arm
  <2>2. "poll" \in {"poll", "end"} /\ "end" \in {"poll", "end"}  OBVIOUS
  <2> QED BY <1>3, <2>1, <2>2, GotoReaches, FinishReaches
<1>4. CASE PollPort(t)
  <2>1. \/ Goto(t, "reload") /\ UNCHANGED result
        \/ \E outcome, reported, completed : Finish(t, "end", outcome, reported, completed)
    BY <1>4, Zenon DEF PollPort
  <2>2. "reload" \in {"reload", "end"} /\ "end" \in {"reload", "end"}  OBVIOUS
  <2> QED BY <1>4, <2>1, <2>2, GotoReaches, FinishReaches
<1>5. CASE Sleep(t)
  <2>1. pc'[t] = "reload" /\ \A u \in Threads \ {t} : pc'[u] = pc[u]
    BY <1>5, GotoStep DEF Sleep
  <2>2. \A u \in Threads \ {t} : result'[u] = result[u]  BY <1>5 DEF Sleep, TypeOK
  <2> QED BY <1>5, <2>1, <2>2 DEF Reaches
<1>6. CASE SetBreak(t)
  <2>1. \/ Goto(t, "sleep") /\ UNCHANGED result
        \/ \E label \in {"end", "leave"} : \E outcome : Finish(t, label, outcome, 0, TRUE)
    BY <1>6, Zenon DEF SetBreak
  <2>2. CASE Goto(t, "sleep") /\ UNCHANGED result
    BY <1>6, <2>2, GotoReaches
  <2>3. ASSUME NEW label \in {"end", "leave"}, NEW outcome, Finish(t, label, outcome, 0, TRUE)
        PROVE  Reaches(t, {"sleep", "end", "leave"})
    BY <2>3, FinishReaches
  <2> QED BY <1>6, <2>1, <2>2, <2>3, Zenon
<1>7. CASE Enter(t)
  <2>1. \/ \E outcome : Finish(t, "leave", outcome, 0, TRUE)
        \/ \E label \in {"begin", "load"} : Goto(t, label) /\ UNCHANGED result
    BY <1>7 DEF Enter
  <2> QED BY <1>1, <2>1, GotoReaches, FinishReaches
<1>8. CASE FirstRead(t) \/ FirstWrite(t)
  <2>1. \/ \E outcome, reported : Finish(t, "leave", outcome, reported, TRUE)
        \/ Goto(t, "begin") /\ UNCHANGED result
    BY <1>8, Zenon DEF FirstRead, FirstWrite
  <2> QED BY <1>1, <2>1, GotoReaches, FinishReaches
<1>9. CASE Begin(t) \/ SelfClosed(t)
  <2>1. PICK label \in {"selfClose", "load", "arm"} : Goto(t, label)
    BY <1>9 DEF Begin, SelfClosed, AfterBegin
  <2>2. UNCHANGED result  BY <1>9 DEF Begin, SelfClosed
  <2> QED BY <1>1, <2>1, <2>2, GotoReaches
<1>10. CASE ReadAgain(t) \/ WriteAgain(t)
  <2>1. Reaches(t, {"end", "arm"})
    BY <1>10, AgainReaches, Zenon DEF ReadAgain, WriteAgain
  <2> QED BY <1>1, <2>1 DEF Reaches
<1>11. CASE Drain(t) \/ WaitFails(t)
  <2>1. \E outcome, reported, completed : Finish(t, "end", outcome, reported, completed)
    BY <1>11, Zenon DEF Drain, WaitFails
  <2> QED BY <1>1, <2>1, FinishReaches
<1>12. CASE ClearBreak(t)
  <2>1. \E outcome : Finish(t, "end", outcome, 0, TRUE)  BY <1>12, Zenon DEF ClearBreak
  <2> QED BY <1>1, <2>1, FinishReaches
<1>13. CASE End(t) \/ Leave(t)
  <2>1. Goto(t, "idle") /\ \E x : result' = [result EXCEPT ![t] = x]
    BY <1>13, Zenon DEF End, Leave, Return
  <2> QED BY <1>1, <2>1, GotoReaches
<1> QED
  BY <1>2, <1>3, <1>4, <1>5, <1>6, <1>7, <1>8, <1>9, <1>10, <1>11, <1>12, <1>13, Zenon
  DEF Step, Run

\* A step leaves the locals and the operation of the other threads alone.
LEMMA FrameOthers ==
  ASSUME TypeOK, TypeOK', NEW t \in Threads, Step(t)
  PROVE  \A u \in Threads \ {t} : local'[u] = local[u] /\ op'[u] = op[u]
<1>1. CASE Enter(t)             BY <1>1 DEF Enter
<1>2. CASE End(t) \/ Leave(t)   BY <1>2 DEF End, Leave, Return, TypeOK
<1>3. CASE InsideStep(t)        BY <1>3 DEF InsideStep
<1> QED BY <1>1, <1>2, <1>3, InsideSteps

\* Only a reader inside its operation takes input, only a writer inside its own adds output.
LEMMA FrameQueues ==
  ASSUME NEW t \in Threads, Step(t)
  PROVE  /\ inQueue' = inQueue \/ (pc[t] \notin Outside /\ op[t] \in ReadOps)
         /\ outQueue' = outQueue \/ (pc[t] \notin Outside /\ op[t] \in {"write", "writeByte"})
         /\ hungUp' = hungUp
<1> USE DEF portVars, deviceVars
<1>1. CASE FirstRead(t)    BY <1>1 DEF FirstRead, Transfer, At, Outside
<1>2. CASE FirstWrite(t)   BY <1>2 DEF FirstWrite, Transfer, At, Outside, ReadOps
<1>3. CASE SetBreak(t)     BY <1>3 DEF SetBreak, IoctlBreak
<1>4. CASE Begin(t)        BY <1>4 DEF Begin, BeginBlocking
<1>5. CASE ReadAgain(t)    BY <1>5 DEF ReadAgain, Again, Transfer, At, Outside
<1>6. CASE WriteAgain(t)   BY <1>6 DEF WriteAgain, Again, Transfer, At, Outside, ReadOps
<1>7. CASE ClearBreak(t)   BY <1>7 DEF ClearBreak, IoctlBreak
<1>8. CASE End(t)          BY <1>8 DEF End, EndBlocking
<1>9. CASE \/ Enter(t) \/ LoadFd(t) \/ SelfClosed(t) \/ Arm(t) \/ PollPort(t) \/ Drain(t)
           \/ WaitFails(t) \/ Leave(t)
  BY <1>9 DEF Enter, LoadFd, SelfClosed, Arm, PollPort, Drain, WaitFails, Leave
<1>10. CASE Sleep(t)       BY <1>10 DEF Sleep
<1> QED BY <1>1, <1>2, <1>3, <1>4, <1>5, <1>6, <1>7, <1>8, <1>9, <1>10 DEF Step, Run

\* Every step of an operation keeps each part of TellInv.
LEMMA NumberStep ==
  ASSUME TypeOK, TypeOK', NumberInv, NEW t \in Threads, Step(t)
  PROVE  NumberInv'
<1>1. \A u \in Threads \ {t} : pc'[u] = pc[u] /\ local'[u] = local[u]
  BY StepReaches, FrameOthers DEF Reaches
<1>2. fd' = fd  BY CloseSteps DEF fileVars
<1>3. pc'[t] \in {"first", "again"} => local'[t].number = fd
  <2>1. pc'[t] \in {"first", "again"} => LoadFd(t)
    BY StepReaches DEF Reaches, Elsewhere
  <2> QED BY <2>1 DEF LoadFd, TypeOK
<1> QED BY <1>1, <1>2, <1>3 DEF NumberInv

LEMMA NamedStep ==
  ASSUME TypeOK, TypeOK', NamedInv, NEW t \in Threads, Step(t)
  PROVE  NamedInv'
<1>1. \A u \in Threads \ {t} : pc'[u] = pc[u] /\ local'[u] = local[u]
  BY StepReaches, FrameOthers DEF Reaches
<1>2. file' = file  BY CloseSteps DEF fileVars
<1>3. ASSUME pc'[t] = "poll" PROVE local'[t].named = file
  <2>1. Arm(t)  BY <1>3, StepReaches DEF Reaches, Elsewhere
  <2>2. \/ \E finite : local' = [local EXCEPT ![t].finite = finite, ![t].named = file]
        \/ \E outcome, reported, completed : Finish(t, "end", outcome, reported, completed)
    BY <2>1, Zenon DEF Arm
  <2>3. ASSUME NEW outcome, NEW reported, NEW completed,
               Finish(t, "end", outcome, reported, completed)
        PROVE  FALSE
    <3>1. pc'[t] = "end"  BY <2>3, FinishStep, Zenon
    <3> QED BY <1>3, <3>1
  <2>4. PICK finite : local' = [local EXCEPT ![t].finite = finite, ![t].named = file]
    BY <2>2, <2>3, Zenon
  <2> QED BY <2>4 DEF TypeOK
<1> QED BY <1>1, <1>2, <1>3 DEF NamedInv

LEMMA ReadyStep ==
  ASSUME TypeOK, TypeOK', MutexInv, CloseInv, NamedInv, ReadyInv, SleepInv,
         NEW t \in Threads, Step(t)
  PROVE  ReadyInv'
<1> DEFINE Ready(u) == /\ op[u] \in ReadOps => inQueue > 0 \/ hungUp
                       /\ op[u] \in {"write", "writeByte"} => outQueue < OutCapacity \/ hungUp
<1>1. fd' = fd /\ hungUp' = hungUp  BY CloseSteps, FrameQueues DEF fileVars
<1>2. ASSUME NEW u \in Threads \ {t}, pc'[u] \in Polled, fd = PORT_FD PROVE Ready(u)'
  <2>1. pc[u] \in Polled /\ op'[u] = op[u]
    BY <1>2, StepReaches, FrameOthers DEF Reaches
  <2>2. Ready(u)  BY <1>2, <2>1 DEF ReadyInv
  <2>3. pc[u] \notin Outside  BY <2>1 DEF Polled, Outside
  <2>4. pc[t] \notin Outside => DirOf(op[t]) # DirOf(op[u])
    BY <1>2, <2>3 DEF MutexInv
  <2>5. op[u] \in ReadOps => inQueue' = inQueue
    BY <2>4, FrameQueues DEF DirOf
  <2>6. op[u] \in {"write", "writeByte"} => outQueue' = outQueue
    BY <2>4, FrameQueues DEF DirOf, ReadOps
  <2> QED BY <1>1, <2>1, <2>2, <2>5, <2>6
<1>3. ASSUME pc'[t] \in Polled, fd = PORT_FD PROVE Ready(t)'
  <2>1. LoadFd(t) \/ PollPort(t) \/ Sleep(t)
    BY <1>3, StepReaches DEF Reaches, Elsewhere, Polled
  <2>2. CASE LoadFd(t)
    <3>1. pc'[t] = IF At(t, "load") THEN "first" ELSE "again"
      BY <2>2, GotoStep DEF LoadFd
    <3>2. pc[t] = "reload"  BY <1>3, <2>2, <3>1 DEF LoadFd, At, Polled
    <3>3. Ready(t)  BY <1>3, <3>2 DEF ReadyInv, Polled
    <3> QED BY <1>1, <2>2, <3>3 DEF LoadFd, portVars, deviceVars
  <2>3. CASE PollPort(t)
    <3>1. PICK event \in PollReports(DirOf(op[t]), local[t].named, local[t].finite) :
            IF event = "ready"
              THEN Goto(t, "reload") /\ UNCHANGED result
              ELSE \E outcome, reported, completed : Finish(t, "end", outcome, reported, completed)
      BY <2>3, Zenon DEF PollPort
    <3>2. event = "ready"
      <4>1. event # "ready" => pc'[t] = "end"  BY <3>1, FinishStep
      <4> QED BY <1>3, <4>1 DEF Polled
    <3>3. IF op[t] \in ReadOps THEN inQueue > 0 ELSE outQueue < OutCapacity
      BY <1>3, <2>3, <3>2, PollReady DEF PollPort
    <3>4. UNCHANGED <<op, inQueue, outQueue>>  BY <2>3 DEF PollPort, portVars, deviceVars
    <3> QED BY <3>3, <3>4 DEF ReadOps
  <2>4. CASE Sleep(t)
    <3>1. op[t] = "sendBreak" /\ op' = op  BY <2>4 DEF Sleep, At, SleepInv
    <3> QED BY <3>1 DEF ReadOps
  <2> QED BY <2>1, <2>2, <2>3, <2>4
<1>4. ASSUME NEW u \in Threads, pc'[u] \in Polled, fd' = PORT_FD PROVE Ready(u)'
  BY <1>1, <1>2, <1>3, <1>4
<1> QED BY <1>4 DEF ReadyInv

LEMMA SleepStep ==
  ASSUME TypeOK, TypeOK', SleepInv, NEW t \in Threads, Step(t)
  PROVE  SleepInv'
<1>1. \A u \in Threads \ {t} : pc'[u] = pc[u] /\ op'[u] = op[u]
  BY StepReaches, FrameOthers DEF Reaches
<1>2. ASSUME pc'[t] = "sleep" PROVE op'[t] = "sendBreak"
  <2>1. SetBreak(t)  BY <1>2, StepReaches DEF Reaches, Elsewhere
  <2>2. op' = op  BY <2>1, Zenon DEF SetBreak, IoctlBreak
  <2>3. \/ op[t] = "sendBreak"
        \/ \E label \in {"leave"} : \E outcome : Finish(t, label, outcome, 0, TRUE)
    BY <2>1, Zenon DEF SetBreak
  <2>4. ~ \E label \in {"leave"} : \E outcome : Finish(t, label, outcome, 0, TRUE)
    BY <1>2, FinishStep
  <2> QED BY <2>2, <2>3, <2>4
<1> QED BY <1>1, <1>2 DEF SleepInv

\* An honest decision keeps all outcomes honest.
LEMMA FinishHonest ==
  ASSUME TypeOK, OutcomeInv, NEW t \in Threads, NEW label, NEW outcome, NEW reported,
         NEW completed, Finish(t, label, outcome, reported, completed), Honest(outcome)
  PROVE  \A u \in Threads : Honest(result'[u].outcome)
<1>1. result'[t].outcome = outcome
  <2>1. result'[t] = [outcome |-> outcome, reported |-> reported, completed |-> completed]
    BY DEF TypeOK, Finish
  <2> QED BY <2>1
<1>2. \A u \in Threads \ {t} : result'[u] = result[u]  BY FinishStep
<1> QED BY <1>1, <1>2 DEF OutcomeInv

\* Most outcomes blame nobody.
LEMMA PlainHonest ==
  \A outcome \in {"none", "ok", "eof", "timeout", "asyncClose", "portClosed", "waitFailed",
                  "runtime", "nullPointer", "illegalArgument"} : Honest(outcome)
BY DEF Honest

\* The read or write after a poll decides honestly.
LEMMA AgainHonest ==
  ASSUME TypeOK, OutcomeInv, NEW t \in Threads, NEW r, Again(t, r),
         r < 0 => Honest(ErrnoOutcome(r))
  PROVE  \A u \in Threads : Honest(result'[u].outcome)
<1>1. \/ UNCHANGED result
      \/ \E outcome, reported : Finish(t, "end", outcome, reported, TRUE) /\ Honest(outcome)
  BY PlainHonest, Zenon DEF Again
<1> QED BY <1>1, FinishHonest DEF OutcomeInv

\* Every step of an operation decides honestly.
LEMMA OutcomeKept ==
  ASSUME TypeOK, CloseInv, TellInv, NEW t \in Threads, Step(t)
  PROVE  \A u \in Threads : Honest(result'[u].outcome)
<1> DEFINE Kept == \A u \in Threads : Honest(result'[u].outcome)
<1>1. OutcomeInv  BY DEF TellInv
<1>2. ASSUME UNCHANGED result PROVE Kept  BY <1>1, <1>2 DEF OutcomeInv
<1>3. /\ local[t].number \in {PORT_FD, INVALID_FD}
      /\ local[t].rem \in Nat
      /\ pc[t] \in {"first", "again"} /\ local[t].number = INVALID_FD => fd = INVALID_FD
  BY CallAssumption DEF TypeOK, TellInv, NumberInv
<1>4. ASSUME pc[t] \in {"first", "again"}, NEW r \in IoctlResults(local[t].number), r # 0
      PROVE  Honest(formatMsg)
  BY <1>3, <1>4, IoctlErrno
<1>5. CASE Enter(t)
  <2>1. \/ UNCHANGED result
        \/ \E outcome \in {"ok", "illegalArgument"} : Finish(t, "leave", outcome, 0, TRUE)
    BY <1>5, Zenon DEF Enter
  <2> QED BY <1>1, <1>2, <2>1, PlainHonest, FinishHonest
<1>6. CASE FirstRead(t)
  <2>1. PICK r \in ReadResults(local[t].number, local[t].rem) :
          \/ UNCHANGED result
          \/ \E reported : Finish(t, "leave", "ok", reported, TRUE)
          \/ /\ r < 0 /\ (fd = INVALID_FD \/ r # EAGAIN)
             /\ Finish(t, "leave", ErrnoOutcome(r), 0, TRUE)
    BY <1>6, Zenon DEF FirstRead
  <2>2. r < 0 /\ (fd = INVALID_FD \/ r # EAGAIN) => Honest(ErrnoOutcome(r))
    BY <1>3, <1>6, ReadErrno DEF FirstRead, At
  <2> QED BY <1>1, <1>2, <2>1, <2>2, PlainHonest, FinishHonest
<1>7. CASE FirstWrite(t)
  <2>1. PICK r \in WriteResults(local[t].number, local[t].rem) :
          \/ UNCHANGED result
          \/ \E reported : Finish(t, "leave", "ok", reported, TRUE)
          \/ /\ r < 0 /\ r # EAGAIN
             /\ Finish(t, "leave", ErrnoOutcome(r), 0, TRUE)
    BY <1>7, Zenon DEF FirstWrite
  <2>2. r < 0 /\ r # EAGAIN => Honest(ErrnoOutcome(r))
    BY <1>3, <1>7, WriteErrno DEF FirstWrite, At
  <2> QED BY <1>1, <1>2, <2>1, <2>2, PlainHonest, FinishHonest
<1>8. CASE SetBreak(t)
  <2>1. PICK r \in IoctlResults(local[t].number) :
          \/ UNCHANGED result
          \/ \E label : r = 0 /\ Finish(t, label, "ok", 0, TRUE)
          \/ \E label : r # 0 /\ Finish(t, label, formatMsg, 0, TRUE)
    BY <1>8, Zenon DEF SetBreak
  <2>2. r # 0 => Honest(formatMsg)  BY <1>4, <1>8 DEF SetBreak, At
  <2> QED BY <1>1, <1>2, <2>1, <2>2, PlainHonest, FinishHonest
<1>9. CASE Arm(t)
  <2>1. \/ UNCHANGED result
        \/ \E outcome \in {"ok", "timeout", "nullPointer"} : \E reported, completed :
             Finish(t, "end", outcome, reported, completed)
    BY <1>9, Zenon DEF Arm
  <2> QED BY <1>1, <1>2, <2>1, PlainHonest, FinishHonest
<1>10. CASE PollPort(t)
  <2>1. PICK event \in PollReports(DirOf(op[t]), local[t].named, local[t].finite) :
          IF event = "ready" THEN UNCHANGED result
          ELSE \E reported, completed :
                 Finish(t, "end", PollOutcome(t, event), reported, completed)
    BY <1>10, Zenon DEF PollPort
  <2>2. event # "ready" => Honest(PollOutcome(t, event))
    BY <1>10, PollHonest DEF PollPort, TellInv
  <2> QED BY <1>1, <1>2, <2>1, <2>2, FinishHonest
<1>11. CASE ReadAgain(t)
  <2>1. PICK r \in ReadResults(local[t].number, local[t].rem) : Again(t, r)
    BY <1>11, Zenon DEF ReadAgain
  <2>2. pc[t] = "again" /\ op[t] \in ReadOps  BY <1>11 DEF ReadAgain, At
  <2>3. fd = INVALID_FD \/ inQueue > 0 \/ hungUp
    BY <2>2 DEF TellInv, ReadyInv, Polled, TypeOK, PortTypeOK
  <2>4. r < 0 => Honest(ErrnoOutcome(r))
    BY <1>3, <2>2, <2>3, ReadErrno
  <2> QED BY <1>1, <2>1, <2>4, AgainHonest
<1>12. CASE WriteAgain(t)
  <2>1. PICK r \in WriteResults(local[t].number, local[t].rem) : Again(t, r)
    BY <1>12, Zenon DEF WriteAgain
  <2>2. pc[t] = "again" /\ op[t] \in {"write", "writeByte"}  BY <1>12 DEF WriteAgain, At
  <2>3. fd = INVALID_FD \/ outQueue < OutCapacity \/ hungUp
    BY <2>2 DEF TellInv, ReadyInv, Polled, TypeOK, PortTypeOK
  <2>4. r < 0 => Honest(ErrnoOutcome(r))
    BY <1>3, <2>2, <2>3, WriteErrno
  <2> QED BY <1>1, <2>1, <2>4, AgainHonest
<1>13. CASE Drain(t)
  <2>1. PICK r \in IoctlResults(local[t].number) :
          Finish(t, "end", IF r = 0 THEN "ok" ELSE formatMsg, 0, TRUE)
    BY <1>13, Zenon DEF Drain
  <2>2. r # 0 => Honest(formatMsg)  BY <1>4, <1>13 DEF Drain, At
  <2> QED BY <1>1, <2>1, <2>2, PlainHonest, FinishHonest
<1>14. CASE Sleep(t)
  <2>1. PICK outcome \in {"runtime", "ok"} : result' = [result EXCEPT ![t].outcome = outcome]
    BY <1>14, Zenon DEF Sleep
  <2>2. result'[t].outcome = outcome /\ \A u \in Threads \ {t} : result'[u] = result[u]
    BY <2>1 DEF TypeOK
  <2> QED BY <1>1, <2>2, PlainHonest DEF OutcomeInv
<1>15. CASE ClearBreak(t)
  <2>1. PICK r \in IoctlResults(local[t].number) :
          Finish(t, "end", IF r = 0 THEN result[t].outcome ELSE formatMsg, 0, TRUE)
    BY <1>15, Zenon DEF ClearBreak
  <2>2. r # 0 => Honest(formatMsg)  BY <1>4, <1>15 DEF ClearBreak, At
  <2>3. Honest(result[t].outcome)  BY <1>1 DEF OutcomeInv
  <2> QED BY <1>1, <2>1, <2>2, <2>3, FinishHonest
<1>16. CASE End(t) \/ Leave(t)
  <2>1. result' = [result EXCEPT ![t] = NoResult]  BY <1>16 DEF End, Leave, Return
  <2>2. result'[t].outcome = "none" /\ \A u \in Threads \ {t} : result'[u] = result[u]
    BY <2>1 DEF TypeOK, NoResult
  <2> QED BY <1>1, <2>2, PlainHonest DEF OutcomeInv
<1>17. CASE LoadFd(t) \/ Begin(t) \/ SelfClosed(t)
  BY <1>2, <1>17 DEF LoadFd, Begin, SelfClosed
<1>18. CASE WaitFails(t)
  <2>1. \E outcome \in {"portClosed", "waitFailed"} : \E reported, completed :
          Finish(t, "end", outcome, reported, completed)
    BY <1>18, Zenon DEF WaitFails
  <2> QED BY <1>1, <2>1, PlainHonest, FinishHonest
<1> QED
  BY <1>5, <1>6, <1>7, <1>8, <1>9, <1>10, <1>11, <1>12, <1>13, <1>14, <1>15, <1>16, <1>17, <1>18,
     Zenon
  DEF Step, Run

\* TellInv is kept by the operations, a new call and the rest of the system.
LEMMA TellStep ==
  ASSUME TypeOK, TypeOK', MutexInv, CloseInv, TellInv, NEW t \in Threads, Step(t)
  PROVE  TellInv'
<1>1. NumberInv' /\ NamedInv' /\ ReadyInv' /\ SleepInv'
  BY NumberStep, NamedStep, ReadyStep, SleepStep DEF TellInv
<1>2. OutcomeInv'
  <2>1. hungUp' = hungUp  BY FrameQueues
  <2> QED BY <2>1, OutcomeKept DEF OutcomeInv, Honest
<1> QED BY <1>1, <1>2 DEF TellInv

LEMMA TellCall ==
  ASSUME TypeOK, TellInv, NEW t \in Threads, Call(t)
  PROVE  TellInv'
<1>1. pc'[t] = "enter" /\ \A u \in Threads \ {t} : pc'[u] = pc[u]
  BY GotoStep DEF Call
<1>2. \A u \in Threads \ {t} : local'[u] = local[u] /\ op'[u] = op[u]
  BY DEF Call, TypeOK
<1>3. UNCHANGED <<fd, file, inQueue, outQueue, hungUp, result>>
  BY DEF Call, portVars, fileVars, deviceVars
<1> QED
  BY <1>1, <1>2, <1>3
  DEF TellInv, NumberInv, NamedInv, ReadyInv, SleepInv, OutcomeInv, Honest, Polled

LEMMA TellPort ==
  ASSUME TypeOK, CloseInv, TellInv, PortStep, UNCHANGED callVars
  PROVE  TellInv'
<1>1. UNCHANGED <<pc, op, local, result>>  BY DEF callVars
<1>2. ASSUME UNCHANGED <<fd, inQueue, outQueue>>, hungUp => hungUp', file' # "port" \/ file' = file
      PROVE  TellInv'
  BY <1>1, <1>2
  DEF TellInv, NumberInv, NamedInv, ReadyInv, SleepInv, OutcomeInv, Honest
<1>3. ASSUME fd' = INVALID_FD, UNCHANGED <<hungUp, file>> PROVE TellInv'
  BY <1>1, <1>3
  DEF TellInv, NumberInv, NamedInv, ReadyInv, SleepInv, OutcomeInv, Honest, PORT_FD, INVALID_FD
<1>4. CASE Mark
  BY <1>3, <1>4 DEF Mark, deviceVars
<1>5. CASE WakeWriters \/ WakeReaders \/ Release
  BY <1>2, <1>5 DEF WakeWriters, WakeReaders, Release, deviceVars
<1>6. CASE Flush
  <2>1. fd = INVALID_FD  BY <1>6 DEF Flush, CloseInv, TypeOK, PortTypeOK
  <2> QED BY <1>3, <1>6, <2>1 DEF Flush, fileVars
<1>7. CASE Close
  BY <1>2, <1>7 DEF Close, fileVars, deviceVars
<1>8. CASE Receive
  <2>1. fd' = fd /\ outQueue' = outQueue /\ inQueue' > 0 /\ UNCHANGED <<hungUp, file>>
    BY <1>8 DEF Receive, fileVars, TypeOK, PortTypeOK
  <2> QED
    BY <1>1, <2>1
    DEF TellInv, NumberInv, NamedInv, ReadyInv, SleepInv, OutcomeInv, Honest, TypeOK, PortTypeOK
<1>9. CASE Transmit
  <2>1. fd' = fd /\ inQueue' = inQueue /\ outQueue' < outQueue /\ UNCHANGED <<hungUp, file>>
    BY <1>9, PortAssumption DEF Transmit, fileVars, TypeOK, PortTypeOK
  <2>2. outQueue < OutCapacity => outQueue' < OutCapacity
    BY <1>9, PortAssumption DEF Transmit, TypeOK, PortTypeOK
  <2> QED
    BY <1>1, <2>1, <2>2
    DEF TellInv, NumberInv, NamedInv, ReadyInv, SleepInv, OutcomeInv, Honest
<1>10. CASE Unplug
  BY <1>2, <1>10 DEF Unplug, fileVars
<1>11. CASE ReuseNumber
  BY <1>2, <1>11 DEF ReuseNumber, deviceVars
<1>12. ASSUME NEW t \in Threads, Interrupt(t) PROVE TellInv'
  BY <1>2, <1>12 DEF Interrupt, fileVars, deviceVars
<1> QED
  BY <1>4, <1>5, <1>6, <1>7, <1>8, <1>9, <1>10, <1>11, <1>12
  DEF PortStep, ImplCloseChannel, Environment

\* Every step keeps TellInv.
LEMMA TellNext ==
  ASSUME TypeOK, TypeOK', MutexInv, CloseInv, TellInv, [Next]_vars
  PROVE  TellInv'
<1>1. ASSUME NEW t \in Threads, Call(t) PROVE TellInv'  BY <1>1, TellCall
<1>2. ASSUME NEW t \in Threads, Step(t) PROVE TellInv'  BY <1>2, TellStep
<1>3. CASE SetTimeouts \/ UNCHANGED vars
  <2>1. UNCHANGED <<fd, file, inQueue, outQueue, hungUp, pc, op, local, result>>
    BY <1>3 DEF SetTimeouts, vars, portVars, fileVars, deviceVars, callVars
  <2> QED
    BY <2>1 DEF TellInv, NumberInv, NamedInv, ReadyInv, SleepInv, OutcomeInv, Honest
<1>4. CASE PortStep /\ UNCHANGED callVars
  BY <1>4, TellPort
<1> QED BY <1>1, <1>2, <1>3, <1>4, Zenon DEF Next

\* Closing the socket is never reported as a cancellation or as a lost device: a call
\* that throws PORT_FD_INVALID or an I/O error does so because the adapter is gone.
THEOREM CloseIsNotMisreported == Spec => []CloseNotMisreported
<1>1. Init => TellInv
  BY DEF Init, TellInv, NumberInv, NamedInv, ReadyInv, SleepInv, OutcomeInv, Honest, NoResult, Polled
<1>2. TypeOK /\ TypeOK' /\ MutexInv /\ CloseInv /\ TellInv /\ [Next]_vars => TellInv'
  BY TellNext
<1>3. TellInv => CloseNotMisreported
  BY DEF TellInv, OutcomeInv, Honest, CloseNotMisreported, Decided, Answer, EndOutcome
<1> QED BY <1>1, <1>2, <1>3, TypeCorrect, LockAndCloseOrder, PTL DEF Spec

------------------------------------------------------------------------------
(*****************************************************************************)
(* What a call counts, and what it leaves on the line.  GoodInv is about each*)
(* frame by itself: that the count of the code and the bytes really moved    *)
(* agree as long as no system call went astray, and that a stray call is the *)
(* last one that is made on an open number.  LineInv is about a frame and    *)
(* the port: nobody writes behind a drain that is over, or sets or ends a    *)
(* break during another's, because that needs the same lock.                 *)
(*****************************************************************************)
\* The body of the operation is over.
Ended(t) == pc[t] \in {"end", "leave"}

\* The labels behind the first, non-blocking transfer.
Looped == {"begin", "selfClose", "arm", "poll", "reload", "again", "sleep"}

\* The operations without a loop do not enter one, a write is in its own after the first try, and those on single bytes have one.
Placed(t) ==
  /\ op[t] \in {"readByte", "writeByte"} => local[t].rem <= 1
  /\ op[t] = "drain" => local[t].rem = 1 /\ pc[t] # "leave"
  /\ op[t] = "sendBreak" => pc[t] \notin {"arm", "poll"}
  /\ pc[t] \in {"idle", "enter", "load", "first"} \/ op[t] \notin {"read", "write"}
       => ~local[t].looping
  /\ op[t] = "write" /\ pc[t] \in Looped => local[t].looping

\* Before its loop a call has moved nothing; in it the count is the number of bytes moved.
Counted(t) == local[t].strays = 0 =>
  /\ ~Ended(t) => local[t].got = IF local[t].looping THEN local[t].count ELSE 0
  /\ Ended(t) =>
       /\ result[t].outcome = "ok" => result[t].reported = local[t].got
       /\ result[t].outcome = "timeout" /\ op[t] = "read" => local[t].got = 0
       /\ result[t].outcome \in {"ioError", "waitFailed"} /\ op[t] = "write" =>
            result[t].reported = local[t].got

\* A call goes astray after the close, and with the next load it knows.
Strayed(t) == local[t].strays # 0 =>
  /\ local[t].strays = 1
  /\ fd = INVALID_FD
  /\ pc[t] \in {"first", "again"} => local[t].number = INVALID_FD

Good(t) == Placed(t) /\ Counted(t) /\ Strayed(t)
GoodInv == \A t \in Threads : Good(t)

\* What drain and sendBreak found or left on the line is still so.
Lined(t) ==
  /\ op[t] = "drain" /\ pc[t] = "end" /\ result[t].outcome = "ok" /\ file = "port" => outQueue = 0
  /\ op[t] = "sendBreak" =>
       /\ pc[t] = "sleep" /\ local[t].strays = 0 /\ file = "port" => break
       /\ pc[t] = "end" /\ result[t].outcome = "ok" /\ file = "port" => ~break
       /\ pc[t] = "leave" => result[t].outcome # "ok"

LineInv == \A t \in Threads : Lined(t)

\* A frame that no step touches stays good: fd does not become valid again.
LEMMA GoodKept ==
  ASSUME NEW u \in Threads, Good(u), fd = INVALID_FD => fd' = INVALID_FD,
         pc'[u] = pc[u], op'[u] = op[u], local'[u] = local[u], result'[u] = result[u]
  PROVE  Good(u)'
BY DEF Good, Placed, Looped, Counted, Strayed, Ended

\* A system call that may go astray, before the next load of fd.
LEMMA StrayOnce ==
  ASSUME TypeOK, CloseInv, NEW t \in Threads, Strayed(t), pc[t] \in {"first", "again"},
         local'[t].strays = local[t].strays + Strays(t), fd' = fd,
         pc'[t] \notin {"first", "again"}
  PROVE  Strayed(t)'
<1>1. Strays(t) \in {0, 1} /\ local[t].strays \in Nat  BY DEF Strays, TypeOK
<1>2. CASE Strays(t) = 0
  <2>1. local'[t].strays = local[t].strays  BY <1>1, <1>2
  <2> QED BY <2>1 DEF Strayed
<1>3. CASE Strays(t) = 1
  <2>1. local[t].number = PORT_FD /\ file = "other"  BY <1>3 DEF Strays
  <2>2. fd = INVALID_FD  BY <2>1 DEF CloseInv, TypeOK, PortTypeOK
  <2>3. local[t].strays = 0  BY <2>1 DEF Strayed, PORT_FD, INVALID_FD
  <2>4. local'[t].strays = 1  BY <1>3, <2>3
  <2> QED BY <2>2, <2>4 DEF Strayed
<1> QED BY <1>1, <1>2, <1>3

\* What a transfer with the result r does to the frame of its thread.
Moves(t, r, count, looping) ==
  /\ local'[t].rem = local[t].rem - Bytes(r)
  /\ local'[t].count = count
  /\ local'[t].looping = looping
  /\ local'[t].strays = local[t].strays + Strays(t)
  /\ local'[t].strays = 0 => local[t].strays = 0 /\ local'[t].got = local[t].got + Bytes(r)

LEMMA TransferMoves ==
  ASSUME TypeOK, NEW t \in Threads,
         NEW r \in ReadResults(local[t].number, local[t].rem)
                     \cup WriteResults(local[t].number, local[t].rem),
         NEW count, NEW looping, NEW deadline,
         Transfer(t, r, count, looping, deadline)
  PROVE  Moves(t, r, count, looping) /\ UNCHANGED <<fd, file, break, op>>
<1> DEFINE new == [local[t] EXCEPT !.rem = @ - Bytes(r),
                                   !.count = count,
                                   !.initial = IF At(t, "first") THEN Bytes(r) ELSE @,
                                   !.looping = looping,
                                   !.deadline = deadline,
                                   !.got = IF Touches(t) THEN @ + Bytes(r) ELSE @,
                                   !.strays = @ + Strays(t)]
<1>1. local' = [local EXCEPT ![t] = new]  BY DEF Transfer
<1>2. /\ new.rem = local[t].rem - Bytes(r)
      /\ new.count = count
      /\ new.looping = looping
      /\ new.strays = local[t].strays + Strays(t)
      /\ new.got = IF Touches(t) THEN local[t].got + Bytes(r) ELSE local[t].got
  BY DEF TypeOK
<1> HIDE DEF new
<1>3. local'[t] = new  BY <1>1 DEF TypeOK
<1>4. local[t].strays \in Nat /\ local[t].got \in Nat /\ Strays(t) \in {0, 1}
      /\ local[t].number \in {PORT_FD, INVALID_FD} /\ file \in {"port", "free", "other"}
  BY DEF TypeOK, PortTypeOK, Strays
<1>5. ASSUME local'[t].strays = 0
      PROVE  local[t].strays = 0 /\ local'[t].got = local[t].got + Bytes(r)
  <2>1. local[t].strays = 0 /\ Strays(t) = 0  BY <1>2, <1>3, <1>4, <1>5
  <2>2. ~Touches(t) => Unopened(local[t].number)
    BY <1>4, <2>1 DEF Touches, Strays, Unopened
  <2>3. ~Touches(t) => r = EBADF  BY <2>2 DEF ReadResults, WriteResults
  <2>4. ~Touches(t) => Bytes(r) = 0  BY <2>3 DEF EBADF, Bytes
  <2>5. local[t].got + 0 = local[t].got  BY <1>4
  <2> QED BY <1>2, <1>3, <2>1, <2>4, <2>5
<1> QED BY <1>2, <1>3, <1>5 DEF Moves, Transfer, fileVars

\* A call that is decided keeps what it has counted.
LEMMA FinishCounts ==
  ASSUME TypeOK, NEW t \in Threads, NEW label \in {"end", "leave"}, NEW outcome, NEW reported,
         NEW completed, Finish(t, label, outcome, reported, completed),
         local'[t].strays = 0 =>
           /\ outcome = "ok" => reported = local'[t].got
           /\ outcome = "timeout" /\ op'[t] = "read" => local'[t].got = 0
           /\ outcome \in {"ioError", "waitFailed"} /\ op'[t] = "write" =>
                reported = local'[t].got
  PROVE  Counted(t)' /\ Ended(t)'
<1>1. /\ pc'[t] = label
      /\ result'[t] = [outcome |-> outcome, reported |-> reported, completed |-> completed]
  BY FinishStep
<1> QED BY <1>1 DEF Counted, Ended

\* One lemma per action: its own frame stays good.
LEMMA EnterGood ==
  ASSUME TypeOK, NEW t \in Threads, Good(t), Enter(t)
  PROVE  Good(t)'
<1>1. pc[t] = "enter" /\ UNCHANGED <<local, op, fd>>
  BY DEF Enter, At, portVars, fileVars
<1>2. ~local[t].looping  BY <1>1 DEF Good, Placed, Looped
<1>3. CASE local[t].rem = 0
  <2>1. PICK outcome \in {"ok", "illegalArgument"} : Finish(t, "leave", outcome, 0, TRUE)
    BY <1>3, Zenon DEF Enter
  <2>2. local'[t].strays = 0 => local'[t].got = 0
    BY <1>1, <1>2 DEF Good, Counted, Ended
  <2>3. Counted(t)'  BY <2>1, <2>2, FinishCounts
  <2>4. pc'[t] = "leave"  BY <2>1, FinishStep
  <2>5. op[t] # "drain"  BY <1>3 DEF Good, Placed, Looped
  <2> QED BY <1>1, <1>2, <2>3, <2>4, <2>5 DEF Good, Placed, Looped, Strayed
<1>4. CASE local[t].rem # 0
  <2>1. PICK label \in {"begin", "load"} :
          Goto(t, label) /\ UNCHANGED result /\ (label = "begin" => op[t] \in {"drain", "sendBreak"})
    BY <1>4 DEF Enter
  <2>2. pc'[t] = label  BY <2>1, GotoStep
  <2> QED BY <1>1, <1>2, <2>1, <2>2 DEF Good, Placed, Looped, Counted, Strayed, Ended
<1> QED BY <1>3, <1>4

LEMMA LoadFdGood ==
  ASSUME TypeOK, NEW t \in Threads, Good(t), LoadFd(t)
  PROVE  Good(t)'
<1>1. /\ pc[t] \in {"load", "reload"}
      /\ pc'[t] = IF pc[t] = "load" THEN "first" ELSE "again"
  BY GotoStep DEF LoadFd, At
<1>2. UNCHANGED <<op, fd, result>>  BY DEF LoadFd, portVars, fileVars
<1>3. local'[t] = [local[t] EXCEPT !.number = fd]  BY DEF LoadFd, TypeOK
<1>4. /\ local'[t].number = fd /\ local'[t].rem = local[t].rem
      /\ local'[t].count = local[t].count /\ local'[t].looping = local[t].looping
      /\ local'[t].got = local[t].got /\ local'[t].strays = local[t].strays
  BY <1>3 DEF TypeOK
<1> QED BY <1>1, <1>2, <1>4 DEF Good, Placed, Looped, Counted, Strayed, Ended

\* The first read and the first write have the same shape.
LEMMA FirstGood ==
  ASSUME TypeOK, CloseInv, NEW t \in Threads, Good(t), At(t, "first"),
         op[t] \in {"read", "readByte", "write", "writeByte"},
         NEW r \in ReadResults(local[t].number, local[t].rem)
                     \cup WriteResults(local[t].number, local[t].rem),
         r \in Int, Bytes(r) \in 0..local[t].rem,
         NEW looping \in BOOLEAN, NEW deadline,
         Transfer(t, r, Bytes(r), looping, deadline),
         looping => op[t] \in {"read", "write"},
         ~looping => Bytes(r) = 0 \/ r = local[t].rem,
         op[t] = "write" => looping,
         \/ r < 0 /\ \E errno : Finish(t, "leave", ErrnoOutcome(errno), 0, TRUE)
         \/ r = local[t].rem /\ Finish(t, "leave", "ok", r, TRUE)
         \/ r # local[t].rem /\ Goto(t, "begin") /\ UNCHANGED result
  PROVE  Good(t)'
<1>1. Moves(t, r, Bytes(r), looping) /\ UNCHANGED <<fd, op>>  BY TransferMoves
<1>2. pc'[t] \in {"leave", "begin"}  BY FinishStep, GotoStep
<1>3. Strayed(t)'
  BY <1>1, <1>2, StrayOnce DEF Good, At, Moves
<1>4. local[t].rem \in Nat /\ Bytes(r) \in Nat /\ local[t].rem - Bytes(r) <= local[t].rem
  BY CallAssumption DEF TypeOK
<1>5. Placed(t)'
  BY <1>1, <1>2, <1>4 DEF Moves, Good, Placed
<1>6. local'[t].strays = 0 => local'[t].got = Bytes(r)
  <2>1. ~local[t].looping  BY DEF Good, Placed, Looped, At
  <2>2. local[t].strays = 0 => local[t].got = 0  BY <2>1 DEF Good, Counted, Ended, At
  <2> QED BY <1>1, <1>4, <2>2 DEF Moves
<1>7. Counted(t)'
  <2>1. ASSUME r < 0, NEW errno, Finish(t, "leave", ErrnoOutcome(errno), 0, TRUE)
        PROVE  Counted(t)'
    <3>1. ErrnoOutcome(errno) \notin {"ok", "timeout"}  BY DEF ErrnoOutcome
    <3>2. Bytes(r) = 0  BY <2>1 DEF Bytes
    <3> QED BY <1>6, <2>1, <3>1, <3>2, FinishCounts
  <2>2. CASE r = local[t].rem /\ Finish(t, "leave", "ok", r, TRUE)
    <3>1. Bytes(r) = r  BY <1>4, <2>2 DEF Bytes
    <3> QED BY <1>6, <2>2, <3>1, FinishCounts
  <2>3. CASE r # local[t].rem /\ Goto(t, "begin") /\ UNCHANGED result
    <3>1. pc'[t] = "begin"  BY <2>3, GotoStep
    <3>2. local'[t].looping = looping /\ local'[t].count = Bytes(r)  BY <1>1 DEF Moves
    <3> QED BY <1>6, <2>3, <3>1, <3>2 DEF Counted, Ended
  <2> QED BY <2>1, <2>2, <2>3
<1> QED BY <1>3, <1>5, <1>7 DEF Good

LEMMA FirstReadGood ==
  ASSUME TypeOK, CloseInv, NEW t \in Threads, Good(t), FirstRead(t)
  PROVE  Good(t)'
<1>1. PICK r \in ReadResults(local[t].number, local[t].rem) :
       /\ Transfer(t, r, Bytes(r), op[t] = "read" /\ r > 0, op[t] = "read" /\ timeouts["in"])
       /\ IF r < 0 /\ (fd = INVALID_FD \/ r # EAGAIN)
            THEN Finish(t, "leave", ErrnoOutcome(r), 0, TRUE)
            ELSE IF r = local[t].rem
                   THEN Finish(t, "leave", "ok", r, TRUE)
                   ELSE Goto(t, "begin") /\ UNCHANGED result
  BY Zenon DEF FirstRead
<1>2. r \in Int /\ Bytes(r) \in 0..local[t].rem  BY ReadResultsRange DEF TypeOK
<1>3. At(t, "first") /\ op[t] \in {"read", "readByte"}  BY DEF FirstRead, ReadOps
<1>4. \/ r < 0 /\ \E errno : Finish(t, "leave", ErrnoOutcome(errno), 0, TRUE)
      \/ r = local[t].rem /\ Finish(t, "leave", "ok", r, TRUE)
      \/ r # local[t].rem /\ Goto(t, "begin") /\ UNCHANGED result
  BY <1>1, Zenon
<1>5. ~(op[t] = "read" /\ r > 0) => Bytes(r) = 0 \/ r = local[t].rem
  <2>1. CASE r > 0 /\ op[t] = "readByte"
    <3>1. local[t].rem <= 1 /\ local[t].rem \in Nat  BY <2>1, CallAssumption DEF Good, Placed, Looped, TypeOK
    <3> QED BY <1>2, <2>1, <3>1 DEF Bytes
  <2>2. CASE ~(r > 0)  BY <2>2 DEF Bytes
  <2> QED BY <1>3, <2>1, <2>2
<1>6. (op[t] = "read" /\ r > 0) \in BOOLEAN  OBVIOUS
<1> QED BY <1>1, <1>2, <1>3, <1>4, <1>5, <1>6, FirstGood

LEMMA FirstWriteGood ==
  ASSUME TypeOK, CloseInv, NEW t \in Threads, Good(t), FirstWrite(t)
  PROVE  Good(t)'
<1>1. PICK r \in WriteResults(local[t].number, local[t].rem) :
       /\ Transfer(t, r, Bytes(r), op[t] = "write", op[t] = "write" /\ timeouts["out"])
       /\ IF r < 0 /\ r # EAGAIN
            THEN Finish(t, "leave", ErrnoOutcome(r), 0, TRUE)
            ELSE IF r = local[t].rem
                   THEN Finish(t, "leave", "ok", r, TRUE)
                   ELSE Goto(t, "begin") /\ UNCHANGED result
  BY Zenon DEF FirstWrite
<1>2. r \in Int /\ Bytes(r) \in 0..local[t].rem  BY WriteResultsRange DEF TypeOK
<1>3. At(t, "first") /\ op[t] \in {"write", "writeByte"}  BY DEF FirstWrite
<1>4. \/ r < 0 /\ \E errno : Finish(t, "leave", ErrnoOutcome(errno), 0, TRUE)
      \/ r = local[t].rem /\ Finish(t, "leave", "ok", r, TRUE)
      \/ r # local[t].rem /\ Goto(t, "begin") /\ UNCHANGED result
  BY <1>1, Zenon
<1>5. op[t] # "write" => Bytes(r) = 0 \/ r = local[t].rem
  <2>1. CASE r > 0 /\ op[t] = "writeByte"
    <3>1. local[t].rem <= 1 /\ local[t].rem \in Nat  BY <2>1, CallAssumption DEF Good, Placed, Looped, TypeOK
    <3> QED BY <1>2, <2>1, <3>1 DEF Bytes
  <2>2. CASE ~(r > 0)  BY <2>2 DEF Bytes
  <2> QED BY <1>3, <2>1, <2>2
<1>6. (op[t] = "write") \in BOOLEAN  OBVIOUS
<1> QED BY <1>1, <1>2, <1>3, <1>4, <1>5, <1>6, FirstGood

\* A system call that moves no bytes only counts whether it went astray.
LEMMA StraysMoves ==
  ASSUME TypeOK, NEW t \in Threads, local' = [local EXCEPT ![t].strays = @ + Strays(t)]
  PROVE  /\ local'[t].number = local[t].number /\ local'[t].rem = local[t].rem
         /\ local'[t].count = local[t].count /\ local'[t].looping = local[t].looping
         /\ local'[t].got = local[t].got /\ local'[t].strays = local[t].strays + Strays(t)
         /\ local'[t].strays = 0 => local[t].strays = 0 /\ Strays(t) = 0
BY DEF TypeOK, Strays

\* setBreak, clearBreak, sendBreak and drain: no bytes, whatever they report.
LEMMA IdleGood ==
  ASSUME TypeOK, CloseInv, NEW t \in Threads, Good(t), pc[t] \in {"first", "again"},
         op[t] \in {"setBreak", "clearBreak", "sendBreak", "drain"},
         local' = [local EXCEPT ![t].strays = @ + Strays(t)], UNCHANGED <<fd, op>>,
         \/ Goto(t, "sleep") /\ UNCHANGED result
         \/ \E outcome : Finish(t, "end", outcome, 0, TRUE)
         \/ op[t] # "drain" /\ \E outcome : Finish(t, "leave", outcome, 0, TRUE)
  PROVE  Good(t)'
<1>1. pc'[t] \in {"sleep", "end", "leave"} /\ (op[t] = "drain" => pc'[t] # "leave")
  <2>1. ASSUME NEW label \in {"end", "leave"}, NEW outcome, Finish(t, label, outcome, 0, TRUE)
        PROVE  pc'[t] = label
    BY <2>1, FinishStep, Zenon
  <2>2. CASE Goto(t, "sleep")
    BY <2>2, GotoStep
  <2>3. CASE \E outcome : Finish(t, "end", outcome, 0, TRUE)
    BY <2>1, <2>3
  <2>4. CASE op[t] # "drain" /\ \E outcome : Finish(t, "leave", outcome, 0, TRUE)
    BY <2>1, <2>4
  <2> QED BY <2>2, <2>3, <2>4
<1>2. Strayed(t)'
  BY <1>1, StraysMoves, StrayOnce DEF Good
<1>3. Placed(t)'
  BY <1>1, StraysMoves DEF Good, Placed, Looped
<1>4. local'[t].strays = 0 => local'[t].got = 0 /\ ~local'[t].looping
  BY StraysMoves DEF Good, Placed, Looped, Counted, Ended
<1>5. Counted(t)'
  <2>1. CASE Goto(t, "sleep")
    <3>1. pc'[t] = "sleep"  BY <2>1, GotoStep
    <3> QED BY <1>4, <3>1 DEF Counted, Ended
  <2>2. ASSUME NEW label \in {"end", "leave"}, NEW outcome, Finish(t, label, outcome, 0, TRUE)
        PROVE  Counted(t)'
    BY <1>4, <2>2, FinishCounts
  <2> QED BY <2>1, <2>2
<1> QED BY <1>2, <1>3, <1>5 DEF Good

LEMMA SetBreakGood ==
  ASSUME TypeOK, CloseInv, NEW t \in Threads, Good(t), SetBreak(t)
  PROVE  Good(t)'
<1>1. local' = [local EXCEPT ![t].strays = @ + Strays(t)] /\ UNCHANGED <<fd, op>>
  BY DEF SetBreak, IoctlBreak, fileVars
<1>2. \/ Goto(t, "sleep") /\ UNCHANGED result
      \/ \E outcome : Finish(t, "end", outcome, 0, TRUE)
      \/ \E outcome : Finish(t, "leave", outcome, 0, TRUE)
  BY Zenon DEF SetBreak
<1>3. pc[t] = "first" /\ op[t] \in {"setBreak", "clearBreak", "sendBreak"}
  BY DEF SetBreak, At
<1> QED BY <1>1, <1>2, <1>3, IdleGood

LEMMA DrainGood ==
  ASSUME TypeOK, CloseInv, NEW t \in Threads, Good(t), Drain(t)
  PROVE  Good(t)'
<1>1. local' = [local EXCEPT ![t].strays = @ + Strays(t)] /\ UNCHANGED <<fd, op>>
  BY DEF Drain, portVars, fileVars
<1>2. \E outcome : Finish(t, "end", outcome, 0, TRUE)  BY Zenon DEF Drain
<1>3. pc[t] = "again" /\ op[t] = "drain"  BY DEF Drain, At
<1> QED BY <1>1, <1>2, <1>3, IdleGood

LEMMA ClearBreakGood ==
  ASSUME TypeOK, CloseInv, NEW t \in Threads, Good(t), ClearBreak(t)
  PROVE  Good(t)'
<1>1. local' = [local EXCEPT ![t].strays = @ + Strays(t)] /\ UNCHANGED <<fd, op>>
  BY DEF ClearBreak, IoctlBreak, fileVars
<1>2. \E outcome : Finish(t, "end", outcome, 0, TRUE)  BY Zenon DEF ClearBreak
<1>3. pc[t] = "again" /\ op[t] = "sendBreak"  BY DEF ClearBreak, At
<1> QED BY <1>1, <1>2, <1>3, IdleGood

\* begin(), the return from it, and the sleep: only the label changes, and sendBreak goes
\* from begin() to its own system call.
LEMMA WalkGood ==
  ASSUME TypeOK, NEW t \in Threads, Good(t), Begin(t) \/ SelfClosed(t) \/ Sleep(t)
  PROVE  Good(t)'
<1>1. UNCHANGED <<fd, op, local>>
  BY DEF Begin, BeginBlocking, SelfClosed, Sleep, portVars, fileVars
<1>2. PICK label \in {"selfClose", "load", "arm", "reload"} :
        Goto(t, label) /\ (label = "arm" => op[t] # "sendBreak")
                       /\ (label = "load" => op[t] = "sendBreak")
  BY DEF Begin, SelfClosed, Sleep, AfterBegin
<1>3. pc'[t] = label  BY <1>2, GotoStep
<1>4. pc[t] \in {"begin", "selfClose", "sleep"}  BY DEF Begin, SelfClosed, Sleep, At
<1> QED BY <1>1, <1>2, <1>3, <1>4 DEF Good, Placed, Looped, Counted, Strayed, Ended

\* The choice of the timeout: a read that is late returns what it has counted.
LEMMA ArmGood ==
  ASSUME TypeOK, NEW t \in Threads, Good(t), Arm(t)
  PROVE  Good(t)'
<1>1. pc[t] = "arm" /\ UNCHANGED <<fd, op>>  BY DEF Arm, At, portVars, fileVars
<1>2. ASSUME NEW finite, Goto(t, "poll"), UNCHANGED result,
             local' = [local EXCEPT ![t].finite = finite, ![t].named = file]
      PROVE  Good(t)'
  <2>1. pc'[t] = "poll"  BY <1>2, GotoStep
  <2>2. /\ local'[t].rem = local[t].rem /\ local'[t].count = local[t].count
        /\ local'[t].looping = local[t].looping /\ local'[t].got = local[t].got
        /\ local'[t].strays = local[t].strays
    BY <1>2 DEF TypeOK
  <2> QED BY <1>1, <1>2, <2>1, <2>2 DEF Good, Placed, Looped, Counted, Strayed, Ended
<1>3. ASSUME local[t].looping, UNCHANGED local, NEW outcome, NEW reported, NEW completed,
             Finish(t, "end", outcome, reported, completed),
             outcome \in {"nullPointer", "ok", "timeout"},
             outcome = "ok" => reported = local[t].count,
             outcome = "timeout" => op[t] # "read"
      PROVE  Good(t)'
  <2>1. pc'[t] = "end"  BY <1>3, FinishStep
  <2>2. local[t].strays = 0 => local[t].got = local[t].count
    BY <1>1, <1>3 DEF Good, Counted, Ended
  <2>3. Counted(t)'  BY <1>1, <1>3, <2>2, FinishCounts
  <2> QED BY <1>1, <1>3, <2>1, <2>3 DEF Good, Placed, Looped, Strayed
<1>4. \/ \E finite : /\ Goto(t, "poll") /\ UNCHANGED result
                     /\ local' = [local EXCEPT ![t].finite = finite, ![t].named = file]
      \/ /\ local[t].looping /\ UNCHANGED local
         /\ \/ Finish(t, "end", "nullPointer", 0, FALSE)
            \/ Finish(t, "end", "ok", local[t].count, TRUE)
            \/ op[t] # "read" /\ Finish(t, "end", "timeout", 0, FALSE)
  BY Zenon DEF Arm
<1>5. CASE /\ local[t].looping /\ UNCHANGED local
           /\ \/ Finish(t, "end", "nullPointer", 0, FALSE)
              \/ Finish(t, "end", "ok", local[t].count, TRUE)
              \/ op[t] # "read" /\ Finish(t, "end", "timeout", 0, FALSE)
  BY <1>3, <1>5
<1> QED BY <1>2, <1>4, <1>5

\* The poll: what a read that times out in its loop reports is its count.
LEMMA PollGood ==
  ASSUME TypeOK, NEW t \in Threads, Good(t), PollPort(t)
  PROVE  Good(t)'
<1>1. pc[t] = "poll" /\ UNCHANGED <<fd, op, local>>
  BY DEF PollPort, At, portVars, fileVars
<1>2. PICK event \in PollReports(DirOf(op[t]), local[t].named, local[t].finite) :
       IF event = "ready"
         THEN Goto(t, "reload") /\ UNCHANGED result
         ELSE Finish(t, "end", PollOutcome(t, event), PollReported(t, event),
                     op[t] # "drain" \/ event = "invalid")
  BY Zenon DEF PollPort
<1>3. CASE event = "ready"
  <2>1. pc'[t] = "reload" /\ UNCHANGED result  BY <1>2, <1>3, GotoStep
  <2> QED BY <1>1, <2>1 DEF Good, Placed, Looped, Counted, Strayed, Ended
<1>4. CASE event # "ready"
  <2>1. Finish(t, "end", PollOutcome(t, event), PollReported(t, event),
               op[t] # "drain" \/ event = "invalid")
    BY <1>2, <1>4, Zenon
  <2>2. event \in Events  BY DEF PollReports, PortReports, Events
  <2>3. PollOutcome(t, event) = "ok" =>
          op[t] = "read" /\ local[t].looping /\ PollReported(t, event) = local[t].count
    BY <1>4, <2>2 DEF PollOutcome, PollReported, Events, CancelOutcome, formatMsg
  <2>4. PollOutcome(t, event) = "timeout" => op[t] # "read" \/ ~local[t].looping
    BY <1>4, <2>2 DEF PollOutcome, Events, CancelOutcome, formatMsg
  <2>a. PollOutcome(t, event) \in {"ioError", "waitFailed"} /\ op[t] = "write" =>
          PollReported(t, event) = local[t].count /\ local[t].looping
    BY <1>1, <1>4, <2>2
    DEF PollOutcome, PollReported, ErrorReported, Events, CancelOutcome, formatMsg, Good, Placed, Looped
  <2>5. local[t].strays = 0 => local[t].got = IF local[t].looping THEN local[t].count ELSE 0
    BY <1>1 DEF Good, Counted, Ended
  <2>6. Counted(t)'
    <3> DEFINE outcome == PollOutcome(t, event)
               reported == PollReported(t, event)
               completed == op[t] # "drain" \/ event = "invalid"
    <3>1. Finish(t, "end", outcome, reported, completed)  BY <2>1
    <3>2. local'[t].strays = 0 =>
            /\ outcome = "ok" => reported = local'[t].got
            /\ outcome = "timeout" /\ op'[t] = "read" => local'[t].got = 0
            /\ outcome \in {"ioError", "waitFailed"} /\ op'[t] = "write" =>
                 reported = local'[t].got
      BY <1>1, <2>3, <2>4, <2>5, <2>a
    <3> HIDE DEF outcome, reported, completed
    <3> QED BY <3>1, <3>2, FinishCounts
  <2>7. pc'[t] = "end"  BY <2>1, FinishStep, Zenon
  <2> QED BY <1>1, <2>6, <2>7 DEF Good, Placed, Looped, Strayed
<1> QED BY <1>3, <1>4

\* The transfer after a poll: the count and the bytes moved grow alike.
LEMMA AgainGood ==
  ASSUME TypeOK, CloseInv, NEW t \in Threads, Good(t), At(t, "again"),
         op[t] \in {"read", "readByte", "write", "writeByte"},
         NEW r \in ReadResults(local[t].number, local[t].rem)
                     \cup WriteResults(local[t].number, local[t].rem),
         r \in Int, Bytes(r) \in 0..local[t].rem, Again(t, r)
  PROVE  Good(t)'
<1> DEFINE count == IF local[t].looping THEN local[t].count + Bytes(r) ELSE Bytes(r)
           looping == op[t] \in {"read", "write"}
<1>1. Moves(t, r, count, looping) /\ UNCHANGED <<fd, op>>
  <2>1. Transfer(t, r, count, looping, local[t].deadline)  BY DEF Again
  <2> HIDE DEF count, looping
  <2> QED BY <2>1, TransferMoves
<1>2. local[t].rem \in Nat /\ Bytes(r) \in Nat /\ local[t].rem - Bytes(r) <= local[t].rem
  BY CallAssumption DEF TypeOK
<1>3. local'[t].strays = 0 => local'[t].got = local'[t].count
  <2>1. local[t].strays = 0 => local[t].got = IF local[t].looping THEN local[t].count ELSE 0
    BY DEF Good, Counted, Ended, At
  <2> QED BY <1>1, <1>2, <2>1 DEF Moves
<1>4. \/ /\ r < 0
         /\ \E errno : Finish(t, "end", ErrnoOutcome(errno), ErrorReported(t, ErrnoOutcome(errno)), TRUE)
      \/ Finish(t, "end", "ok", local'[t].count, TRUE)
      \/ looping /\ Goto(t, "arm") /\ UNCHANGED result
      \/ Finish(t, "end", "runtime", 0, TRUE)
  BY Zenon DEF Again
<1>5. pc'[t] \in {"end", "arm"}
  <2>1. ASSUME NEW outcome, NEW reported, Finish(t, "end", outcome, reported, TRUE)
        PROVE  pc'[t] = "end"
    BY <2>1, FinishStep, Zenon
  <2>2. CASE Goto(t, "arm")  BY <2>2, GotoStep
  <2> QED BY <1>4, <2>1, <2>2, Zenon
<1>6. Strayed(t)'
  BY <1>1, <1>5, StrayOnce DEF Good, At, Moves
<1>7. Placed(t)'
  <2>1. op' = op /\ local'[t].rem <= local[t].rem /\ (op[t] \notin {"read", "write"} => ~local'[t].looping)
    BY <1>1, <1>2 DEF Moves
  <2>2. local'[t].rem \in Int  BY <1>1, <1>2 DEF Moves
  <2>3. op[t] \in {"readByte", "writeByte"} => local'[t].rem <= 1
    BY <1>2, <2>1, <2>2 DEF Good, Placed, Looped
  <2>4. op[t] = "write" => local'[t].looping  BY <1>1 DEF Moves
  <2> QED BY <1>5, <2>1, <2>3, <2>4 DEF Placed, Looped
<1>8. Counted(t)'
  <2>1. ASSUME NEW outcome, NEW reported, Finish(t, "end", outcome, reported, TRUE),
               outcome # "timeout", outcome = "ok" => reported = local'[t].count,
               outcome \in {"ioError", "waitFailed"} /\ op[t] = "write" =>
                 reported = local'[t].count
        PROVE  Counted(t)'
    BY <1>1, <1>3, <2>1, FinishCounts
  <2>2. CASE looping /\ Goto(t, "arm") /\ UNCHANGED result
    <3>1. pc'[t] = "arm"  BY <2>2, GotoStep
    <3> QED BY <1>1, <1>3, <2>2, <3>1 DEF Moves, Counted, Ended
  <2>3. \A errno : ErrnoOutcome(errno) \notin {"ok", "timeout"}  BY DEF ErrnoOutcome
  <2>4. ASSUME r < 0, op[t] = "write"
        PROVE  \A errno : ErrnoOutcome(errno) \in {"ioError", "waitFailed"} =>
                 ErrorReported(t, ErrnoOutcome(errno)) = local'[t].count
    <3>1. local[t].looping  BY <2>4 DEF Good, Placed, Looped, At
    <3>2. local'[t].count = local[t].count
      BY <1>1, <2>4, <3>1 DEF Moves, Bytes, TypeOK
    <3> QED BY <2>4, <3>2 DEF ErrorReported
  <2>5. CASE r < 0 /\ \E errno : Finish(t, "end", ErrnoOutcome(errno), ErrorReported(t, ErrnoOutcome(errno)), TRUE)
    <3>1. PICK errno : Finish(t, "end", ErrnoOutcome(errno), ErrorReported(t, ErrnoOutcome(errno)), TRUE)
      BY <2>5
    <3>2. ErrnoOutcome(errno) \notin {"ok", "timeout"}  BY <2>3
    <3>3. ErrnoOutcome(errno) \in {"ioError", "waitFailed"} /\ op[t] = "write" =>
            ErrorReported(t, ErrnoOutcome(errno)) = local'[t].count
      BY <2>4, <2>5
    <3> QED BY <2>1, <3>1, <3>2, <3>3
  <2>6. CASE \/ Finish(t, "end", "ok", local'[t].count, TRUE)
             \/ Finish(t, "end", "runtime", 0, TRUE)
    BY <2>1, <2>6
  <2> QED BY <1>4, <2>2, <2>5, <2>6
<1> QED BY <1>6, <1>7, <1>8 DEF Good

LEMMA ReadAgainGood ==
  ASSUME TypeOK, CloseInv, NEW t \in Threads, Good(t), ReadAgain(t)
  PROVE  Good(t)'
<1>1. PICK r \in ReadResults(local[t].number, local[t].rem) : Again(t, r)
  BY Zenon DEF ReadAgain
<1>2. r \in Int /\ Bytes(r) \in 0..local[t].rem  BY ReadResultsRange DEF TypeOK
<1> QED BY <1>1, <1>2, AgainGood DEF ReadAgain, ReadOps

LEMMA WriteAgainGood ==
  ASSUME TypeOK, CloseInv, NEW t \in Threads, Good(t), WriteAgain(t)
  PROVE  Good(t)'
<1>1. PICK r \in WriteResults(local[t].number, local[t].rem) : Again(t, r)
  BY Zenon DEF WriteAgain
<1>2. r \in Int /\ Bytes(r) \in 0..local[t].rem  BY WriteResultsRange DEF TypeOK
<1> QED BY <1>1, <1>2, AgainGood DEF WriteAgain

\* A new frame, and one that is gone.
LEMMA FreshGood ==
  ASSUME TypeOK, NEW t \in Threads, NEW n \in 0..MaxLength,
         pc'[t] \in {"idle", "enter"}, local'[t] = [NoLocals EXCEPT !.rem = n],
         op'[t] \in {"readByte", "writeByte", "drain"} => n = 1
  PROVE  Good(t)'
<1>1. /\ local'[t].rem = n /\ local'[t].count = 0 /\ local'[t].looping = FALSE
      /\ local'[t].got = 0 /\ local'[t].strays = 0
  BY DEF NoLocals
<1> QED BY <1>1 DEF Good, Placed, Looped, Counted, Strayed, Ended

LEMMA ReturnGood ==
  ASSUME TypeOK, NEW t \in Threads, Return(t)
  PROVE  Good(t)'
<1>1. pc'[t] = "idle" /\ op'[t] = "none"
  BY GotoStep DEF Return, TypeOK
<1>2. local'[t] = NoLocals  BY DEF Return, TypeOK
<1>3. local'[t].looping = FALSE /\ local'[t].got = 0 /\ local'[t].strays = 0
  BY <1>2 DEF NoLocals
<1> QED BY <1>1, <1>3 DEF Good, Placed, Looped, Counted, Strayed, Ended

\* The failure of the wait itself: a write reports its offset.
LEMMA WaitFailsGood ==
  ASSUME TypeOK, CloseInv, NEW t \in Threads, Good(t), WaitFails(t)
  PROVE  Good(t)'
<1>1. PICK outcome \in {"portClosed", "waitFailed"}, completed \in BOOLEAN :
        Finish(t, "end", outcome, ErrorReported(t, outcome), completed)
  BY Zenon DEF WaitFails
<1>2. pc'[t] = "end"  BY <1>1, FinishStep, Zenon
<1>3. UNCHANGED <<fd, op>>  BY DEF WaitFails, portVars, fileVars
<1>4. CASE pc[t] = "poll"
  <2>1. /\ local'[t].rem = local[t].rem /\ local'[t].looping = local[t].looping
        /\ local'[t].got = local[t].got /\ local'[t].strays = local[t].strays
    BY <1>4 DEF WaitFails, At, TypeOK
  <2>2. local[t].strays = 0 => local[t].got = IF local[t].looping THEN local[t].count ELSE 0
    BY <1>4 DEF Good, Counted, Ended
  <2>3. op[t] = "write" => local[t].looping /\ ErrorReported(t, "waitFailed") = local[t].count
    BY <1>4 DEF Good, Placed, Looped, ErrorReported
  <2>4. Counted(t)'  BY <1>1, <1>3, <2>1, <2>2, <2>3, FinishCounts
  <2> QED BY <1>2, <1>3, <1>4, <2>1, <2>4 DEF Good, Placed, Looped, Strayed
<1>5. CASE pc[t] = "again" /\ op[t] = "drain"
  <2>1. local' = [local EXCEPT ![t].strays = @ + Strays(t)]  BY <1>5 DEF WaitFails, At
  <2>2. ErrorReported(t, "portClosed") = 0 /\ ErrorReported(t, "waitFailed") = 0
    BY <1>5 DEF ErrorReported
  <2>3. \E other : Finish(t, "end", other, 0, TRUE)
    BY <1>5, <2>2, Zenon DEF WaitFails, At
  <2> QED BY <1>3, <1>5, <2>1, <2>3, IdleGood
<1> QED BY <1>4, <1>5 DEF WaitFails, At

\* The frame of the thread that makes a step stays good.
LEMMA StepGood ==
  ASSUME TypeOK, CloseInv, NEW t \in Threads, Good(t), Step(t)
  PROVE  Good(t)'
<1>1. CASE End(t) \/ Leave(t)
  BY <1>1, ReturnGood DEF End, Leave
<1> QED
  BY <1>1, EnterGood, LoadFdGood, FirstReadGood, FirstWriteGood, SetBreakGood, WalkGood,
     ArmGood, PollGood, ReadAgainGood, WriteAgainGood, DrainGood, WaitFailsGood, ClearBreakGood,
     Zenon
  DEF Step, Run

\* Every step keeps every frame good.
LEMMA GoodNext ==
  ASSUME TypeOK, TypeOK', CloseInv, GoodInv, [Next]_vars
  PROVE  GoodInv'
<1>1. fd = INVALID_FD => fd' = INVALID_FD
  <2>1. ASSUME NEW t \in Threads, Call(t) PROVE fd' = fd
    BY <2>1 DEF Call, portVars, fileVars
  <2>2. ASSUME NEW t \in Threads, Step(t) PROVE fd' = fd
    BY <2>2, CloseSteps DEF fileVars
  <2>3. CASE SetTimeouts \/ UNCHANGED vars
    BY <2>3 DEF SetTimeouts, vars, portVars, fileVars
  <2>4. CASE PortStep
    BY <2>4 DEF PortStep, ImplCloseChannel, Environment, Mark, WakeWriters, WakeReaders, Flush,
       Release, Close, Receive, Transmit, Unplug, ReuseNumber, Interrupt, fileVars
  <2> QED BY <2>1, <2>2, <2>3, <2>4, Zenon DEF Next
<1>2. ASSUME NEW t \in Threads, Call(t) PROVE GoodInv'
  <2>a. PICK o \in Offered : \E n \in Lengths(o) :
          /\ op' = [op EXCEPT ![t] = o]
          /\ local' = [local EXCEPT ![t] = [NoLocals EXCEPT !.rem = n]]
    BY <1>2 DEF Call
  <2>1. PICK n \in Lengths(o) :
          /\ op' = [op EXCEPT ![t] = o]
          /\ local' = [local EXCEPT ![t] = [NoLocals EXCEPT !.rem = n]]
    BY <2>a
  <2>2. /\ n \in 0..MaxLength
        /\ o \in {"readByte", "writeByte", "drain"} => n = 1
    BY CallAssumption DEF Lengths, Ops
  <2>3. pc'[t] = "enter" /\ \A u \in Threads \ {t} : pc'[u] = pc[u]
    BY <1>2, GotoStep DEF Call
  <2>4. /\ op'[t] = o /\ local'[t] = [NoLocals EXCEPT !.rem = n]
        /\ \A u \in Threads \ {t} : op'[u] = op[u] /\ local'[u] = local[u]
    BY <2>1 DEF TypeOK
  <2>5. Good(t)'  BY <2>2, <2>3, <2>4, FreshGood
  <2>6. result' = result  BY <1>2 DEF Call
  <2>7. ASSUME NEW u \in Threads \ {t} PROVE Good(u)'
    BY <1>1, <2>3, <2>4, <2>6, GoodKept DEF GoodInv
  <2> QED BY <2>5, <2>7 DEF GoodInv
<1>3. ASSUME NEW t \in Threads, Step(t) PROVE GoodInv'
  <2>1. Good(t)'  BY <1>3, StepGood DEF GoodInv
  <2>2. ASSUME NEW u \in Threads \ {t} PROVE Good(u)'
    <3>1. pc'[u] = pc[u] /\ result'[u] = result[u]
      BY <1>3, StepReaches DEF Reaches
    <3>2. local'[u] = local[u] /\ op'[u] = op[u]
      BY <1>3, FrameOthers
    <3> QED BY <1>1, <3>1, <3>2, GoodKept DEF GoodInv
  <2> QED BY <2>1, <2>2 DEF GoodInv
<1>4. CASE UNCHANGED <<pc, op, local, result>>
  BY <1>1, <1>4, GoodKept DEF GoodInv
<1> QED BY <1>2, <1>3, <1>4, Zenon DEF Next, SetTimeouts, vars, callVars

\* Only three labels promise something of the line, and only for two operations.
LEMMA LinedElse ==
  ASSUME NEW t \in Threads,
         \/ pc'[t] \notin {"sleep", "end", "leave"}
         \/ op'[t] \notin {"drain", "sendBreak"}
         \/ pc'[t] # "sleep" /\ result'[t].outcome # "ok"
  PROVE  Lined(t)'
BY DEF Lined

\* A decision, by its label and its outcome.
LEMMA FinishOutcome ==
  ASSUME TypeOK, NEW t \in Threads, NEW label, NEW outcome, NEW reported, NEW completed,
         Finish(t, label, outcome, reported, completed)
  PROVE  pc'[t] = label /\ result'[t].outcome = outcome
<1>1. result'[t] = [outcome |-> outcome, reported |-> reported, completed |-> completed]
  BY FinishStep
<1> QED BY <1>1, FinishStep

\* A system call on the line that succeeds while the port is there was made on the port.
LEMMA IoctlOnPort ==
  ASSUME TypeOK, NEW t \in Threads, 0 \in IoctlResults(local[t].number), file = "port"
  PROVE  Touches(t) /\ ~hungUp
BY DEF IoctlResults, Touches, Unopened, TypeOK, EBADF, EIO

\* What the frame of the thread that makes a step promises.
LEMMA SetBreakLined ==
  ASSUME TypeOK, NEW t \in Threads, SetBreak(t)
  PROVE  Lined(t)'
<1>1. PICK r \in IoctlResults(local[t].number) :
       /\ IoctlBreak(t, op[t] # "clearBreak", r)
       /\ IF op[t] = "sendBreak"
            THEN IF r = 0 THEN Goto(t, "sleep") /\ UNCHANGED result
                          ELSE Finish(t, "end", formatMsg, 0, TRUE)
            ELSE Finish(t, "leave", IF r = 0 THEN "ok" ELSE formatMsg, 0, TRUE)
  BY Zenon DEF SetBreak
<1>2. UNCHANGED <<op, file>>  BY <1>1 DEF IoctlBreak, fileVars
<1>3. CASE op[t] # "sendBreak"
  <2>1. op[t] # "drain"  BY DEF SetBreak
  <2> QED BY <1>2, <1>3, <2>1, LinedElse
<1>4. CASE op[t] = "sendBreak" /\ r # 0
  <2>1. Finish(t, "end", formatMsg, 0, TRUE)  BY <1>1, <1>4, Zenon
  <2>2. formatMsg # "ok"  BY DEF formatMsg
  <2>3. pc'[t] = "end" /\ result'[t].outcome = formatMsg  BY <2>1, FinishOutcome, Zenon
  <2> QED BY <2>2, <2>3, LinedElse
<1>5. CASE op[t] = "sendBreak" /\ r = 0
  <2>1. pc'[t] = "sleep"  BY <1>1, <1>5, GotoStep
  <2>2. IoctlBreak(t, op[t] # "clearBreak", 0) /\ 0 \in IoctlResults(local[t].number)
    BY <1>1, <1>5
  <2>3. op[t] # "clearBreak"  BY <1>5
  <2>4. file = "port" => break'
    BY <2>2, <2>3, IoctlOnPort, Zenon DEF IoctlBreak
  <2> QED BY <1>2, <1>5, <2>1, <2>4 DEF Lined
<1> QED BY <1>3, <1>4, <1>5

LEMMA ClearBreakLined ==
  ASSUME TypeOK, NEW t \in Threads, ClearBreak(t)
  PROVE  Lined(t)'
<1>1. PICK r \in IoctlResults(local[t].number) :
       /\ IoctlBreak(t, FALSE, r)
       /\ Finish(t, "end", IF r = 0 THEN result[t].outcome ELSE formatMsg, 0, TRUE)
  BY Zenon DEF ClearBreak
<1>2. op[t] = "sendBreak" /\ UNCHANGED <<op, file>>
  BY <1>1 DEF ClearBreak, IoctlBreak, fileVars
<1>3. pc'[t] = "end"  BY <1>1, FinishStep
<1>4. CASE r = 0
  <2>1. file = "port" => ~break'  BY <1>1, <1>4, IoctlOnPort DEF IoctlBreak
  <2> QED BY <1>2, <1>3, <2>1 DEF Lined
<1>5. CASE r # 0
  <2>1. result'[t].outcome = formatMsg
    <3>1. Finish(t, "end", formatMsg, 0, TRUE)  BY <1>1, <1>5, Zenon
    <3> QED BY <3>1, FinishOutcome, Zenon
  <2>2. formatMsg # "ok"  BY DEF formatMsg
  <2> QED BY <1>3, <2>1, <2>2, LinedElse
<1> QED BY <1>4, <1>5

LEMMA DrainLined ==
  ASSUME TypeOK, NEW t \in Threads, Drain(t)
  PROVE  Lined(t)'
<1>1. PICK r \in IoctlResults(local[t].number) :
       Finish(t, "end", IF r = 0 THEN "ok" ELSE formatMsg, 0, TRUE)
  BY Zenon DEF Drain
<1>2. op[t] = "drain" /\ UNCHANGED <<op, file, outQueue>>
  BY DEF Drain, portVars, fileVars, deviceVars
<1>3. pc'[t] = "end"  BY <1>1, FinishStep
<1>4. CASE r = 0
  <2>1. file = "port" => outQueue = 0  BY <1>4, IoctlOnPort DEF Drain
  <2> QED BY <1>2, <1>3, <2>1 DEF Lined
<1>5. CASE r # 0
  <2>1. result'[t].outcome = formatMsg
    <3>1. Finish(t, "end", formatMsg, 0, TRUE)  BY <1>1, <1>5, Zenon
    <3> QED BY <3>1, FinishOutcome, Zenon
  <2>2. formatMsg # "ok"  BY DEF formatMsg
  <2> QED BY <1>3, <2>1, <2>2, LinedElse
<1> QED BY <1>4, <1>5

LEMMA StepLined ==
  ASSUME TypeOK, NEW t \in Threads, Good(t), Step(t)
  PROVE  Lined(t)'
<1>1. CASE LoadFd(t) \/ Begin(t) \/ SelfClosed(t) \/ Sleep(t) \/ End(t) \/ Leave(t)
  <2>1. PICK label \in {"first", "again", "selfClose", "load", "arm", "reload", "idle"} : Goto(t, label)
    BY <1>1 DEF LoadFd, Begin, SelfClosed, AfterBegin, Sleep, End, Leave, Return
  <2> QED BY <2>1, GotoStep, LinedElse
<1>2. CASE FirstRead(t) \/ FirstWrite(t) \/ ReadAgain(t) \/ WriteAgain(t)
  <2>1. op[t] \in {"read", "readByte", "write", "writeByte"}
    BY <1>2 DEF FirstRead, FirstWrite, ReadAgain, WriteAgain, ReadOps
  <2>2. op' = op
    <3>1. CASE FirstRead(t)   BY <3>1, Zenon DEF FirstRead, Transfer
    <3>2. CASE FirstWrite(t)  BY <3>2, Zenon DEF FirstWrite, Transfer
    <3>3. CASE ReadAgain(t)   BY <3>3, Zenon DEF ReadAgain, Again, Transfer
    <3>4. CASE WriteAgain(t)  BY <3>4, Zenon DEF WriteAgain, Again, Transfer
    <3> QED BY <1>2, <3>1, <3>2, <3>3, <3>4
  <2> QED BY <2>1, <2>2, LinedElse
<1>3. CASE Enter(t)
  <2>1. op' = op  BY <1>3 DEF Enter
  <2>2. CASE local[t].rem = 0
    <3>1. Finish(t, "leave", IF op[t] = "sendBreak" THEN "illegalArgument" ELSE "ok", 0, TRUE)
      BY <1>3, <2>2, Zenon DEF Enter
    <3>2. pc'[t] = "leave"  BY <3>1, FinishOutcome, Zenon
    <3>3. op[t] = "sendBreak" => result'[t].outcome = "illegalArgument"
      BY <3>1, FinishOutcome, Zenon
    <3> QED BY <2>1, <3>2, <3>3 DEF Lined
  <2>3. CASE local[t].rem # 0
    <3>1. PICK label \in {"begin", "load"} : Goto(t, label)  BY <1>3, <2>3, Zenon DEF Enter
    <3> QED BY <3>1, GotoStep, LinedElse
  <2> QED BY <2>2, <2>3
<1>4. CASE Arm(t)
  <2>1. op' = op /\ pc[t] = "arm"  BY <1>4 DEF Arm, At
  <2>2. CASE op[t] \notin {"drain", "sendBreak"}  BY <2>1, <2>2, LinedElse
  <2>3. CASE op[t] \in {"drain", "sendBreak"}
    <3>1. ~local[t].looping  BY <2>3 DEF Good, Placed, Looped
    <3>2. Goto(t, "poll")  BY <1>4, <3>1, Zenon DEF Arm
    <3> QED BY <3>2, GotoStep, LinedElse
  <2> QED BY <2>2, <2>3
<1>5. CASE PollPort(t)
  <2>1. op' = op /\ pc[t] = "poll"  BY <1>5 DEF PollPort, At
  <2>2. PICK event \in PollReports(DirOf(op[t]), local[t].named, local[t].finite) :
         \/ Goto(t, "reload")
         \/ /\ event # "ready"
            /\ \E reported, completed : Finish(t, "end", PollOutcome(t, event), reported, completed)
    BY <1>5, Zenon DEF PollPort
  <2>3. CASE Goto(t, "reload")  BY <2>3, GotoStep, LinedElse
  <2>4. CASE /\ event # "ready"
             /\ \E reported, completed : Finish(t, "end", PollOutcome(t, event), reported, completed)
    <3>1. event \in Events  BY DEF PollReports, PortReports, Events
    <3>2. op[t] # "read" => PollOutcome(t, event) # "ok"
      BY <2>4, <3>1 DEF PollOutcome, Events, CancelOutcome, formatMsg
    <3>3. pc'[t] = "end" /\ result'[t].outcome = PollOutcome(t, event)
      BY <2>4, FinishOutcome, Zenon
    <3> QED BY <2>1, <3>2, <3>3, LinedElse
  <2> QED BY <2>2, <2>3, <2>4
<1>6. CASE WaitFails(t)
  <2>1. \E outcome \in {"portClosed", "waitFailed"} : \E reported, completed :
          Finish(t, "end", outcome, reported, completed)
    BY <1>6, Zenon DEF WaitFails
  <2>2. pc'[t] = "end" /\ result'[t].outcome # "ok"  BY <2>1, FinishOutcome
  <2> QED BY <2>2, LinedElse
<1> QED
  BY <1>1, <1>2, <1>3, <1>4, <1>5, <1>6, SetBreakLined, ClearBreakLined, DrainLined, Zenon
  DEF Step, Run

\* Only a thread inside an operation on the output sets or ends a break.
LEMMA FrameBreak ==
  ASSUME NEW t \in Threads, Step(t)
  PROVE  break' = break \/ (pc[t] \notin Outside /\ op[t] \in {"setBreak", "clearBreak", "sendBreak"})
<1> USE DEF portVars, deviceVars
<1>1. CASE FirstRead(t) \/ FirstWrite(t)
  <2>1. CASE FirstRead(t)   BY <2>1, Zenon DEF FirstRead, Transfer
  <2>2. CASE FirstWrite(t)  BY <2>2, Zenon DEF FirstWrite, Transfer
  <2> QED BY <1>1, <2>1, <2>2
<1>2. CASE ReadAgain(t) \/ WriteAgain(t)
  <2>1. CASE ReadAgain(t)   BY <2>1, Zenon DEF ReadAgain, Again, Transfer
  <2>2. CASE WriteAgain(t)  BY <2>2, Zenon DEF WriteAgain, Again, Transfer
  <2> QED BY <1>2, <2>1, <2>2
<1>3. CASE SetBreak(t) \/ ClearBreak(t)     BY <1>3 DEF SetBreak, ClearBreak, At, Outside
<1>4. CASE Begin(t) \/ End(t) \/ Sleep(t)
  BY <1>4 DEF Begin, BeginBlocking, End, EndBlocking, Sleep
<1>5. CASE \/ Enter(t) \/ LoadFd(t) \/ SelfClosed(t) \/ Arm(t) \/ PollPort(t) \/ Drain(t)
           \/ WaitFails(t) \/ Leave(t)
  BY <1>5 DEF Enter, LoadFd, SelfClosed, Arm, PollPort, Drain, WaitFails, Leave
<1> QED BY <1>1, <1>2, <1>3, <1>4, <1>5 DEF Step, Run

\* What the other threads promise of the line stays so: the one that moves has the lock.
LEMMA OthersLined ==
  ASSUME TypeOK, TypeOK', MutexInv, LineInv, NEW t \in Threads, Step(t), NEW u \in Threads \ {t}
  PROVE  Lined(u)'
<1>1. pc'[u] = pc[u] /\ result'[u] = result[u]  BY StepReaches DEF Reaches
<1>2. local'[u] = local[u] /\ op'[u] = op[u]  BY FrameOthers
<1>3. file' = file  BY CloseSteps DEF fileVars
<1>4. CASE pc[u] \in {"sleep", "end", "leave"} /\ op[u] \in {"drain", "sendBreak"}
  <2>1. lock["out"] = u  BY <1>4 DEF MutexInv, Outside, DirOf, ReadOps
  <2>2. pc[t] \in Outside \/ DirOf(op[t]) # "out"  BY <2>1 DEF MutexInv
  <2>3. outQueue' = outQueue /\ break' = break
    BY <2>2, FrameQueues, FrameBreak DEF DirOf, ReadOps
  <2>4. Lined(u)  BY DEF LineInv
  <2> QED BY <1>1, <1>2, <1>3, <2>3, <2>4 DEF Lined
<1>5. CASE ~(pc[u] \in {"sleep", "end", "leave"} /\ op[u] \in {"drain", "sendBreak"})
  BY <1>1, <1>2, <1>5, LinedElse
<1> QED BY <1>4, <1>5

\* Every step keeps what all the frames promise of the line.
LEMMA LineNext ==
  ASSUME TypeOK, TypeOK', MutexInv, GoodInv, LineInv, [Next]_vars
  PROVE  LineInv'
<1>1. ASSUME NEW t \in Threads, Call(t) PROVE LineInv'
  <2>1. pc'[t] = "enter" /\ \A u \in Threads \ {t} : pc'[u] = pc[u]
    BY <1>1, GotoStep DEF Call
  <2>2. \A u \in Threads \ {t} : local'[u] = local[u] /\ op'[u] = op[u]
    BY <1>1 DEF Call, TypeOK
  <2>3. UNCHANGED <<file, outQueue, break, result>>
    BY <1>1 DEF Call, portVars, fileVars, deviceVars
  <2> QED BY <2>1, <2>2, <2>3 DEF LineInv, Lined
<1>2. ASSUME NEW t \in Threads, Step(t) PROVE LineInv'
  BY <1>2, StepLined, OthersLined DEF GoodInv, LineInv
<1>3. CASE SetTimeouts \/ UNCHANGED vars
  <2>1. UNCHANGED <<file, outQueue, break, pc, op, local, result>>
    BY <1>3 DEF SetTimeouts, vars, portVars, fileVars, deviceVars, callVars
  <2> QED BY <2>1 DEF LineInv, Lined
<1>4. CASE PortStep /\ UNCHANGED callVars
  <2>1. UNCHANGED <<pc, op, local, result>>  BY <1>4 DEF callVars
  <2>2. file' = "port" => file = "port"
    BY <1>4 DEF PortStep, ImplCloseChannel, Environment, Mark, WakeWriters, WakeReaders, Flush,
       Release, Close, Receive, Transmit, Unplug, ReuseNumber, Interrupt, fileVars
  <2>3. break' = break
    BY <1>4 DEF PortStep, ImplCloseChannel, Environment, Mark, WakeWriters, WakeReaders, Flush,
       Release, Close, Receive, Transmit, Unplug, ReuseNumber, Interrupt, deviceVars
  <2>4. outQueue = 0 => outQueue' = 0
    BY <1>4 DEF PortStep, ImplCloseChannel, Environment, Mark, WakeWriters, WakeReaders, Flush,
       Release, Close, Receive, Transmit, Unplug, ReuseNumber, Interrupt, deviceVars
  <2> QED BY <2>1, <2>2, <2>3, <2>4 DEF LineInv, Lined
<1> QED BY <1>1, <1>2, <1>3, <1>4, Zenon DEF Next

LEMMA SpecGood == Spec => [](GoodInv /\ LineInv)
<1>1. Init => GoodInv /\ LineInv
  <2> SUFFICES ASSUME Init, NEW t \in Threads PROVE Good(t) /\ Lined(t)
    BY DEF GoodInv, LineInv
  <2>1. pc[t] = "idle" /\ op[t] = "none" /\ local[t] = NoLocals  BY DEF Init
  <2>2. local[t].looping = FALSE /\ local[t].got = 0 /\ local[t].strays = 0
    BY <2>1 DEF NoLocals
  <2> QED BY <2>1, <2>2 DEF Good, Placed, Looped, Counted, Strayed, Ended, Lined
<1>2. TypeOK /\ TypeOK' /\ MutexInv /\ CloseInv /\ GoodInv /\ LineInv /\ [Next]_vars
        => GoodInv' /\ LineInv'
  BY GoodNext, LineNext
<1> QED BY <1>1, <1>2, TypeCorrect, LockAndCloseOrder, PTL DEF Spec

\* A read or a write that succeeds, in one piece or in several, returns the number of bytes
\* it moved; a read that times out has moved none, and a write that fails reports what it had
\* moved before.
THEOREM TransfersReported == Spec => []ReportedBytes
<1>1. GoodInv => ReportedBytes
  BY DEF GoodInv, Good, Counted, Ended, ReportedBytes, Decided, Answer, EndOutcome, At
<1> QED BY <1>1, SpecGood, PTL

\* An operation makes at most one system call on a number that the rest of the process has
\* been given after the close.
THEOREM OneStrayCall == Spec => []AtMostOneStrayCall
<1>1. GoodInv => AtMostOneStrayCall
  <2> SUFFICES ASSUME GoodInv, NEW t \in Threads PROVE local[t].strays <= 1
    BY DEF AtMostOneStrayCall
  <2>1. local[t].strays \in {0, 1}  BY DEF GoodInv, Good, Strayed
  <2> QED BY <2>1
<1> QED BY <1>1, SpecGood, PTL

\* drainOutputBuffer returns normally only when nothing is left to transmit, whoever wrote
\* it and whatever other writers are waiting.
THEOREM DrainWaits == Spec => []DrainedWhenReturned
<1>1. GoodInv /\ LineInv => DrainedWhenReturned
  BY DEF GoodInv, Good, Placed, LineInv, Lined, DrainedWhenReturned, Decided, Answer, EndOutcome, At
<1> QED BY <1>1, SpecGood, PTL

\* While sendBreak sleeps the line is in the break state, and when it returns normally the
\* break is over, whoever else sets or ends a break.
THEOREM BreakHeld == Spec => []BreakHeldAndEnded
<1>1. LineInv => BreakHeldAndEnded
  BY DEF LineInv, Lined, BreakHeldAndEnded, Decided, Answer, EndOutcome, At
<1> QED BY <1>1, SpecGood, PTL
==============================================================================
