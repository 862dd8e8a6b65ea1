# A TLA+ model of spsw

spsw is a Java library for serial ports. An application opens a `SerialPortSocket` and several of its
threads read, write, drain, send breaks, change settings and finally close it, in any order and at any
time. The library has two providers: one written in Java on top of jnhw (`PosixSerialPortSocket`,
`PosixAsyncSerialPortSocket`), one with a native library in C (POSIX and Windows). This directory holds
TLA+ modules of the parts of both where that matters, the TLC configurations that check them on small
instances, and proofs that TLAPS checks for every instance.

    tlc -workers 2 -config posix_read.cfg MCPosixSerialPortSocket
    tlc -workers 2 -config native_io.cfg MCTermiosSerialPortSocket
    tlc -workers 2 -config win_io.cfg WinSerialPortSocket
    tlapm PosixSerialPortSocketProofs.tla
    tlapm NativeConfigurationProofs.tla

`PROJECT.json` lists the runs with their modules and configurations, maps every definition to the source
lines it stands for, and lists mutants, findings, hazards and theorems.

## Inventory

Abbreviations: *Posix* = `PosixSerialPortSocket.java`, *Async* = `PosixAsyncSerialPortSocket.java`, *Conf* =
`PosixConfiguration.java`, all in `src/de.ibapl.spsw.jnhwprovider/src/main/java/de/ibapl/spsw/jnhwprovider/`;
`*.c` = `src/de.ibapl.spsw.jniprovider/src/main/native/*.c`; *Abstract* = `AbstractSerialPortSocket.java` of the
JNI provider.

| Component | State it keeps | Operations | What makes it hard | What makes it correct |
|---|---|---|---|---|
| Blocking POSIX socket (*Posix*) | volatile `fd`, two cancel events, two pollfd arrays, `readLock`, `writeLock`, timeouts | read, write, drain, sendBreak, setBreak, setTimeouts, close | `fd` is loaded, then used; partial transfers; timeouts changed during a call; close and interrupt at any point | operations of a direction exclude each other; a close unblocks all and is reported as a close; byte counts are true |
| Close protocol (`implCloseChannel`, `close0`, `AbstractInterruptibleChannel`) | `closed`, `interrupted`, interrupter, closeLock | close, begin, end, interrupt | the closer may be the interrupted caller itself, or an interrupter whose victim waits in `end()` | fd invalid before anybody is woken, number freed last; no deadlock |
| Asynchronous POSIX socket (*Async*) | the same plus `readSemaphore`, `writeSemaphore`, tasks in an executor | readAsync, writeAsync (callbacks, BiConsumer, Future), drain, breaks | a permit taken in one thread and given back in another; tasks that block pool threads; callbacks that throw | a permit is in the semaphore or with one request; each request is answered once, also after a close |
| POSIX line settings (*Conf*) | a plain `fd`; the termios structure and the modem lines, both in the kernel | open, set and get speed, data and stop bits, parity, flow control, XON, XOFF, RTS, DTR | read, change, write back without a lock; a driver that ignores settings; a number that is stale or somebody else's | a setting reported set is set; the others are left alone; the data stay raw; a closed port is reported closed; a failed open leaves nothing open |
| JNI provider, POSIX native code (`TermiosIO.c`, `TermiosCommon.c`, `TermiosSettings.c`) | fields `fd`, `closeEventReadFd`, `closeEventWriteFd`, timeouts, cleaner | the same operations in C | copies of fields taken one after the other; one event for both directions; exceptions that stay pending; signals; error paths of open | as for the blocking socket; the port is released once by close and cleaner together |
| JNI provider, Java side (*Abstract*, `Generic*SerialPortSocket.java`) | monitors, cleaner | locks, `begin()`, `end()`, streams, `FdCleaner` | drain and the counts hold no monitor; the cleaner runs after everybody | as above |
| Windows socket (`WinApiIO.c`, `WinApiCommon.c`, `WinApiSettings.c`) | a HANDLE; a DCB and COMMTIMEOUTS in the driver; OVERLAPPED structures and event objects on the stack | the same | only the driver wakes a waiter; a wait that fails leaves its request behind; CancelIo of another thread; a close that fails half way; 32 bit fields read back as signed | byte counts are true; events are closed on every path; a close is reported as a close; the handle is closed once; timeouts read back as set |
| Streams over a socket (`SerialInputStream`, `SerialOutputStream`) | a shared buffer and its lock per direction | read, write | `tryLock` decides who shares; results -1 and 0 of the channel | nobody sees or sends the bytes of another call |
| Thread pool wrapper | two executors | readAsync, writeAsync | callbacks that throw are taken for failures of the read | one answer per request |
| ser2net provider | data and control socket, streams, channel | read, write, close | unfinished | |
| Mock socket, logging, factories, enumerations | little | | sequential | |

How they interact: an application thread calls an operation, which takes the lock (or permit) of its
direction, transfers without blocking, and if that was not enough polls the port and a cancel event,
transfers again, and leaves through `end()`. A closer makes `fd` invalid (in *Posix* also in its
configuration), writes the cancel events, flushes, and closes the number. `Thread.interrupt()` on a thread
between `begin()` and `end()` runs that same close in the interrupter. The streams call the socket's read
and write with a buffer of their own; the settings share `fd` with the transfers and no lock with anybody.

The hazards of this code are listed, each at its line, in `PROJECT.json`.

## Modules

| Module | Models |
|---|---|
| `SerialChannel` | abstract specification: what a socket promises the threads that share it |
| `InterruptiblePort` | file number, cancel events, device, `implCloseChannel`, `AbstractInterruptibleChannel`, and what the kernel may answer |
| `PosixSerialPortSocket`, `MCPosixSerialPortSocket` | the blocking operations of the jnhw provider on that port |
| `PosixSerialPortSocketProofs` | theorems about it |
| `PosixAsyncSerialPortSocket` | permits, tasks, callbacks and futures of the asynchronous socket |
| `PosixAsyncSerialPortSocketProofs` | theorems about it |
| `LineSettings`, `TermiosSettings`, `WinApiSettings` | the line settings, and what setParams and the getters compute on a termios, a DCB and COMMTIMEOUTS |
| `PosixConfiguration`, `MCPosixConfiguration` | opening the port, and its line settings, in the jnhw provider |
| `PosixConfigurationProofs` | theorems about it |
| `AbstractSerialPortSocket` | what the two sockets of the JNI provider share: the Java side, the breaks and the counts, the cleaner |
| `AbstractSerialPortSocketProofs` | lemmas about these steps, which the proofs of both sockets use |
| `TermiosSerialPortSocket`, `MCTermiosSerialPortSocket` | the POSIX library: readBuffer, writeBuffer, drainOutputBuffer, close0 |
| `TermiosSerialPortSocketProofs` | theorems about it |
| `WinSerialPortSocket` | the Windows library: overlapped requests, CancelIo, CloseHandle |
| `WinSerialPortSocketProofs` | theorems about it |
| `NativeConfiguration`, `MCNativeConfiguration` | open0, close0, setters and getters of both native libraries |
| `NativeConfigurationProofs` | theorems about it |
| `SerialStreams`, `MCSerialStreams` | the two streams of the interface package on top of `SerialChannel` |
| `SerialStreamsProofs` | theorems about them |

`TermiosSettings` is used by both `PosixConfiguration` and `NativeConfiguration`: the Java code is a statement by
statement translation of the C code. `PosixSerialPortSocket`, `TermiosSerialPortSocket` and `WinSerialPortSocket` are
shown to implement `SerialChannel`, and `SerialStreams` uses nothing of a socket but `SerialChannel` and its answers, so
that what holds of the streams holds over each of them.

An MC module only adds the symmetry of the threads and the sets of arguments. Operators named `Faulty` in
their comment stand next to the definition of which they are a wrong variant; the mutants use them.

### InterruptiblePort

`fd` is the field; `file` is what its number names in the kernel's table: the port, nothing (`free`) once
`Release` has closed it, or a file the rest of the process opened under the same number (`other`).
`closing` is the program counter of `implCloseChannel`: `Mark`, `WakeWriters`, `WakeReaders`, `Flush`,
`Release`, in the order of *Posix* lines 234-281. The JDK class is external and modelled from its use:
`Close`, `Interrupt`, `BeginBlocking`, `EndBlocking`, `EndOutcome`; `held` are the threads whose interrupter
is still in the close and whose `end()` therefore waits. `ReadResults`, `WriteResults`, `IoctlResults` and
`PortReports` are the answers of the kernel: a non-negative number is a number of bytes, a negative one an
errno. `Receive`, `Transmit`, `Unplug` and `ReuseNumber` are the device and the rest of the process.

### PosixSerialPortSocket

A call is a frame: operation, program counter, locals, result. The actions are the statements another thread
can tell apart:

| Action | Code |
|---|---|
| `Enter` | `synchronized (readLock)` or `(writeLock)` and the checks of the arguments |
| `LoadFd` | the volatile load of `fd` that is an argument of a system call |
| `FirstRead`, `FirstWrite`, `SetBreak` | the system call made with the loaded number before any poll |
| `Begin`, `SelfClosed` | `begin()`, and its return when an interrupted caller had to close the channel |
| `Arm` | choice of the poll timeout from `timeouts`, `endTime` and the loop, with the deadline tests |
| `PollPort` | `poll` and the chain of tests on its result, the branch for any other event included |
| `WaitFails` | `poll` or `tcdrain` fails with an errno of its own (EINTR): the NativeErrorException handlers around them |
| `ReadAgain`, `WriteAgain`, `Drain`, `ClearBreak` | the system call after the poll (or the sleep) |
| `Sleep` | `Thread.sleep` of sendBreak |
| `End`, `Leave` | `end()` in the finally, or a return before `begin()`; the lock is free |

`number`, `count` (`nread`, `overallRead`, `offset`), `initial` (`written`) and `deadline` (`endTime` is not
null) are locals of the code. `got` and `strays` are history: bytes really moved on the port, and system
calls made on a number that had come to name another file.

Not every handler looks at `fd`. The reads throw an InterruptedIOException for an errno of poll and for an unexpected
event without reading the field again (*Posix* 957-964, 1011-1018), `write` does so for the event (684-690); for an errno
`write` and drain ask `formatMsg`. An errno of the wait itself is an outcome of its own, `waitFailed`, of which
`CloseNotMisreported` claims nothing: EINTR says the same of an open and of a closed socket. The unexpected event is an
`ioError`, and harmless: the code tests the cancel event first, which is written before the number is free, so that only
the port itself can show such an event, when its adapter is gone.

Simplifications: the two reads of a timeout field in one statement and the two tests of `fd` in a row in a handler are one
step; so are the test of `fd` in `formatMsg` and its `isFdValid()` (842-851). A close between those two makes `formatMsg` answer
PORT_FD_INVALID. It is asked with a valid `fd` only when the adapter is gone, where that text is right, or after an
errno of the wait, which is `waitFailed` under either text. Times are not numbers, a deadline may be past at any
`Arm` and a finite poll may time out whenever it finds nothing. `poll` sees the state at its return, except
for the identity of the file, which it takes at its start. close(2), the write to a cancel event and fcntl do
not fail.

### PosixAsyncSerialPortSocket

A request goes through `TryAcquire` (fast path in the caller, may barge past waiters as
`Semaphore.tryAcquire()` does), `StartInCaller`, `Submit`, `RunTask`, `Acquire`/`Acquired` (fair queue),
`StartInTask`, `Continue`, and its answer `Succeed`, `Fail` or a set future. What happens on the file number is
reduced to the outcomes of `startRead`, `continueRead` and their write counterparts. `PoolSize` is the number
of threads of the application's executor, `CallbackThrows` lets success callbacks throw.

### PosixConfiguration

`termios` and `lines` are the port's settings in the kernel, `draft` and `lineStatus` what a thread has read,
changed and not yet written back. A call is its system calls, in order, and anything may happen between them:

| Action | Code |
|---|---|
| `Open`, `Attributes`, `FlushDevice` | `Fcntl.open`; tcgetattr, TIOCEXCL, the raw mode and the settings up to tcsetattr; `tcflush` (*Conf* 78-158) |
| `CreateEvents` | the rest of the socket's open (*Posix* 393-426) |
| `ReadParams`, `ReadChars`, `ReadLines` | `getTermios` or TIOCMGET, and the changes made to the copy |
| `Write`, `WriteFails` | tcsetattr or TIOCMSET |
| `Verify`, `VerifyFails` | `getTermios` again and the comparison with the arguments |
| `ReadOnly` | the getters, and `setInSpeed` and `setOutSpeed`, which write nothing back |
| `Close`, `Release` | `setFd` and `close(2)` of `implCloseChannel`; `Detaches` is FALSE for *Async*, which has no `setFd` |

A structure is a record: `size`, the two speeds, two characters (bytes) and the set of its `flags`, a member
for each bit that setParams changes by itself. All bits that make the terminal echo, edit or translate data,
with non-zero VMIN and VTIME, are one flag `COOKED`, because open clears them together and nothing sets them.
An argument is a set with at most one value, empty for `null`. `NotDefined` stands for the table of
`speed2speed_t`: speeds are names, `SpeedsOfOS` those the platform has a constant for.

`Accepted` is tcsetattr: the values in `Stuck` are ignored by the driver without an error, which is what
setParams reads the settings back for. As `fd` is a plain field, a thread sees the new value for certain only
if the close happened before its load: `knows` are those threads (the closer, and who synchronizes with one
that knows, `Learn`); any other may load the old number (`Loads`), and find nothing, its port, or another
terminal (`Terminals`). In `before` the model remembers the settings at the start of a call, until it ends or
another begins. close(2) in a failing open does not fail, the event files are not modelled, and the
kernel does not move RTS on its own under CRTSCTS.

### AbstractSerialPortSocket, TermiosSerialPortSocket, WinSerialPortSocket

`AbstractSerialPortSocket` holds the frame of a call and the steps that do not depend on the library:
`Enter` (the monitor, the test for an empty buffer, `begin()`), `SetBreak`, `Sleep`, `ClearBreak`,
`CountBytes`, `End` and `Leave`, `closeFds` (the cleaner, once nobody holds the socket: it closes the
number that its field still has), and the close and interrupt of `InterruptiblePort`. `drainOutputBuffer()`
and the counts are native methods without a monitor, so `LocksOf` gives them none.

In `TermiosSerialPortSocket` a native function copies `fd` (`LoadFd`) and `closeEventReadFd` (`LoadCloseEvent`) in two
steps, in the order of the code: the readers before their first read, the writers after their first write.
`readBuffer` and `writeBuffer` are then `FirstRead`/`FirstWrite`, `Arm` (the deadline), `PollPort`,
`ReadAgain`/`WriteAgain`. `pending` is the exception that a read of nothing throws while the loop goes on:
to throw another while it is pending is undefined in JNI, so either may arrive. `close0` is
`Mark`, `WakePolls`, `FlushQueues`, `ForgetEvent`, `CloseFd`; there is one event for both directions.
`Signals` allows EINTR in poll and usleep, `CloseFails` an error of close(2), which has freed the number all the
same. The runs have `CloseFails = FALSE`: with an error the cleaner closes the same number again, which is listed
below. The copies of the poll timeouts are taken at any value `TimedDirs` allows.
A poll that has no close event to look at (the window of finding 1) may meet whatever file has got the number: a hang-up
there, of a pipe whose writer is gone, ends a read or drain with PORT_FD_INVALID, although the port was closed and not lost.
`CloseNotMisreported` names this case and excludes no other. A read that the close ends inside its loop throws,
and what it had read is lost to its caller; `ReportedBytes` claims nothing of it.

In `WinSerialPortSocket` a transfer is `Issue` (CreateEvent, ReadFile or WriteFile), the driver's `Move` and
`Complete`, and `Await` (WaitForSingleObject, GetOverlappedResult, CloseHandle of the event). The driver may complete a
read from its first byte on, any request of a direction with timeouts, and owes nothing to the others. A wait that fails
(`WaitFails`) closes the event and returns while the driver still has the request: `abandoned` are the directions in which
there is one, and `MoveAbandoned` goes on moving their bytes, for nobody. (What the driver then writes into memory that
belongs to another frame is undefined and not modelled. Nor is a CreateEvent that fails, which nobody checks: the wait for no
event then fails, as in `WaitFails`.) A write that is cut short is a `timeout` or, if a system call in between has
changed GetLastError, `tooFew`.

`CancelIo` cancels only what the calling thread has issued, that is nothing, or fails and puts the handle back into the field,
with the channel closed for good. `CloseHandle` may fail if `CloseFails`, whether it has closed the handle or not; the exception
skips `fdCleaner.fd = ...` of `GenericWinSerialPortSocket.java`, and the cleaner closes the handle again. It does not end the
requests that other threads have pending: the driver may fail them or keep them (`Complete`). The repository contradicts itself
here: README.md:7 says that a close unblocks pending operations, the comment of `WinApiCommon.c` 110 that a read with only
an inter-byte timeout hangs forever. So there is no liveness property of this socket.

### NativeConfiguration

`platform` selects the library, so that one module has both: `device` is a termios or a DCB. The actions are
the system calls, as in `PosixConfiguration`: `Open`, `Attributes`, `FlushDevice`, `CreateEvents` for open0;
`Call`, `Load`, `Read...`, `Write`, `Verify` and their failures for setters and getters; `Mark`, `Release` and
`CancelFails` for close0. Two differences matter: `fd` is volatile, but setParams and getParams each copy it again
(`Load`), and error handlers read the field, not the copy (`throw_ClosedOrNativeException`). A char is cut to 8
bits (`ToByte`). getParams throws an IOException of its own for a terminal with two speeds, without a look at `fd`
(`Misread`, `Mismatch`). The RTS line follows its control when that changes (`RtsAfter`): setParams writes
RTS_CONTROL_DISABLE or _HANDSHAKE with every request for flow control, which clears the line or leaves it to the driver; a
terminal's driver may move it when CRTSCTS is switched. A control that stays as it was leaves the line as it was: that a
driver moves RTS by itself while a handshake goes on, and that the speed B0 drops the modem lines, is not modelled.
The timeouts of Windows are numbers of the width of a DWORD: `MaxInt` stands for 2^31 - 1, so that an interval of
`MAXDWORD` and its cast to a jint are computed, not assumed.

### SerialStreams

A call makes `tryLock` decide whether it uses the stream's buffer or one of its own (`TryLock`), is given its
direction of the line by `Claim` of `SerialChannel`, moves bytes into or out of that buffer one by one (`MoveIn`,
`MoveOut`), and takes its answer (`Leave`, `Finish`). A byte is named after the call that moves it, so that a
byte in a wrong array is seen. `Results` are the answers of the blocking socket: a number of bytes, 0 when the read after a
poll found nothing and the next poll timed out (*Posix* 925, 989-992), and after the close the -1 of *Posix* 997, with bytes
or, when the close has flushed the queue in between, with none. Two unchecked exceptions answer them, "Should never
happen" of read() and the IndexOutOfBoundsException of read(byte[]); both are reached (`Answered`, `Taken`). No document
says what should be thrown instead, so no property is about them.

## Properties and runs

| Run | Bounds | Shows |
|---|---|---|
| `posix_read` | 2 threads, 2 bytes of queue, buffers of 0 to 2 bytes, read timeouts change at any time | `CloseNotMisreported`, `ReportedBytes`, `ChannelSafeSpec` for read |
| `posix_write` | 2 threads, 1 byte of queue, buffers of 0 to 2 bytes, write timeouts change | `CloseNotMisreported`, `AtMostOneStrayCall`, `ReportedBytes`, `DrainedWhenReturned`, `BreakHeldAndEnded` |
| `posix_live` | 2 threads, 1 byte | `ChannelSpec`: the liveness part of `SerialChannel` under fair threads |
| `async` | 3 requests of 4 kinds, 3 pool threads | `AnsweredOnce`, `CallbacksSynchronized`, `PermitConserved`, `CloseAnswersReads` |
| `config` | 2 threads, 15 calls that touch each group of bits, 2 ways to open, 3 speeds | `ReportedInForce`, `OthersUntouched`, `RawMode`, `ClosedIsReported`, `FailedOpenClosesPort` |
| `native_io` | 2 threads, 1 byte of queue, buffers of 0 or 2 bytes, signals, one interrupt at a time, read timeouts change | `CloseNotMisreported`, `ReportedBytes`, `AtMostOneStrayCall`, `BreakHeldAndEnded`, `WatchersWoken`, `ReleasedOnce`, `ChannelSafeSpec` |
| `native_config` | both platforms, 2 threads, 13 calls, 2 ways to open, 3 speeds, a jint of 8 bits | `StopBitsFit`, `ReportedInForce`, `OthersUntouched`, `ClosedIsReported`, `FailedOpenClosesPort` |
| `win_io` | 2 threads, 1 byte of queue, buffers of 2 bytes, one interrupt at a time, timeouts of both directions, `CancelIo` and `CloseHandle` that may fail | `CloseNotMisreported`, `ReportedBytes`, `EventsClosed`, `ChannelSafeSpec` |
| `streams` | 2 threads, a shared buffer of 2 bytes, arrays of 0 to 3 bytes | `OwnBytesIn`, `OwnBytesOut` |
| `native_close_window`, `native_write_count`, `async_write_leak` | 1 thread, 1 thread, 2 requests | violated: see Findings |

- `CloseNotMisreported`: after a close nobody sees a cancellation or a lost device. (The native writes test a
  copy of `fd` and are not among those of which it is claimed; nor are a wait that fails by itself, and the native poll
  that watches no event.)
- `AtMostOneStrayCall`: the race between loading `fd` and the close costs at most one system call on a foreign file.
- `ReportedBytes`: the number returned is the number of bytes moved, over all pieces; of the Windows writes also that of one cut short.
- `DrainedWhenReturned`: a drain that returns leaves nothing to transmit.
- `BreakHeldAndEnded`: a break lasts as long as its sendBreak sleeps, and is over when it returns.
- `ChannelSafeSpec`, `ChannelSpec`: refinement of `SerialChannel`.
- `WatchersWoken`: the one event of close0 ends every poll that watches it, whoever else polls.
- `ReleasedOnce`: close0 and the cleaner close the number once, and never when it names another file.
- `EventsClosed`: the event objects are those of the calls that wait, on every path.
- `CloseUnblocks` (violated, finding 1): a native call that polls ends once the socket is closed.
- `ReportedInForce`: a setter that returns has what it was asked for in force, whatever the driver ignored.
- `OthersUntouched`: a setter that no other overlaps changes nothing it was not asked for, and nothing if it rejects its arguments.
  The line RTS belongs to what is asked for when flow control is.
- `RawMode`: from the return of open on the terminal never interprets the data, under any setters.
- `StopBitsFit`: overlapping setters never leave stop bits that the data bits do not allow.
- `ClosedIsReported`: who knows of the close is told PORT_IS_CLOSED, also when its number is another file's. In the native
  libraries: once close0 has reset the field a native error is reported only for two speeds that getParams did read, and a call
  that copied the field after the reset is told PORT_IS_CLOSED and nothing else.
- `FailedOpenClosesPort`: an open that fails leaves neither the file nor its number behind.
- `OwnBytesIn`, `OwnBytesOut`: no call of a stream delivers or sends the bytes of another, although they share a buffer.

`TypeOK` is checked where the instance is small; in `native_io`, `async`, `streams`, `posix_write` and
`posix_live` TLC does not evaluate it, but it is proved of each of their modules.

Why the bounds are enough. Two threads give every pair of operations of one direction, a waiter for the lock
included, with any number of closers and interrupters beside them; the proofs cover the rest for any number.
Two bytes give a partial transfer, a second piece and a full buffer; a queue of one byte makes every write of
two bytes partial and blocks it. Reads and writes of the blocking socket are checked in separate runs because they
share nothing but the close protocol (different lock, queue and event), and `posix_live` has both; in `native_io`,
where one event serves both, they are together. In `config` and `native_config` two threads give
every overlap of two setters and of one with the close; the calls are one per group of bits, with both of the data bits
that rename the stop bits, values that the driver ignores (mark parity, in `native_config` also the XON/XOFF of the
input), one the platform lacks, one that does not fit a byte (XON 456), and one that is rejected half way; the device is found with parity and different speeds. A jint
of 8 bits has the same boundary cases as one of 32: 0, `MaxInt`, and a DWORD above it. A shared buffer of two bytes
is filled, not filled and exceeded. Three requests are a holder, a waiter and a barger. Deadlock is not checked:
after a close with no more calls the system really stops.

Fairness. Weak fairness of each thread's next step and of `implCloseChannel`: the JVM schedules threads that
can run. A thread blocked in a poll, at a monitor or in `end()` has no enabled step and is owed nothing; that a wait fails
by itself (`WaitFails`) is never owed.
Nothing is assumed of callers, of the device (it may never send or transmit), of the cleaner, or of who gets a
contended monitor. The Windows driver owes nothing to a request, and `win_io` assumes no fairness. In
`PosixAsyncSerialPortSocket` the executor serves its queue and a transfer ends once the
socket is closed; `ChannelSpec` of `posix_live` is what justifies that.

## Theorems

Every invariant and safety property of the runs above that TLC finds true is also proved, for all values of the constants
that the assumptions of the modules allow. The proofs have one shape. What a thread may have to say of itself at
each label is a predicate on one thread (`Good(t)`, `Frame(t)`, `Quiet(t)`, ...); a step of a thread keeps its own
predicate, one lemma per kind of step, and every other thread's, because it leaves their frames alone and changes what
they share only as the protocol of the close and the lock allows.

`PosixSerialPortSocketProofs` proves, for any set of threads and any capacities and lengths:

1. `TypeCorrect`: `Spec => []TypeOK`. `TypeOK` is inductive; one lemma per action.
2. `LockAndCloseOrder`: `Spec => [](MutexInv /\ CloseInv)`. `MutexInv` ties program counters to `lock`,
   `CloseInv` ties `fd`, the cancel events and `file` to the next statement of the close.
3. `ImplementsChannel`: `Spec => ChannelSafeSpec`. Mutual exclusion alone does not say that bytes move only
   before the detachment; the refinement does. `Enter` maps to `Claim`, a transfer on the port to `Move`,
   the return to `Yield`, `Release` to `Detach`, all else to stuttering. It needs `MutexInv` for the owner and
   `CloseInv` for `Release`.
4. `CloseIsNotMisreported`: `Spec => []CloseNotMisreported`, which claims nothing of an errno of poll itself. The property is not inductive: whether a
   handler's test of `fd` is right depends on when the number was loaded (`NumberInv`), when the poll began
   (`NamedInv`), and on nobody having emptied the queue a poll found readable (`ReadyInv`), which holds only
   because of the lock and because `implCloseChannel` invalidates `fd` before it flushes.
5. `TransfersReported` and `OneStrayCall`: `ReportedBytes` and `AtMostOneStrayCall`, from `GoodInv`: the locals that add up the
   pieces are the bytes moved on the port (`Counted`), and a call that strayed did so after the close began, so that the
   next number it loads is invalid (`Strayed`).
6. `DrainWaits` and `BreakHeld`: `DrainedWhenReturned` and `BreakHeldAndEnded`, from `LineInv`. Between the tcdrain or the
   TIOCCBRK of a call and its return nobody may write or start a break, and nobody can: all of them need the lock.

`PosixConfigurationProofs` proves, for any threads, calls, drivers, platforms and settings found:

1. `SettingsTypeCorrect`: `Spec => []TypeOK`.
2. `PhasesInOrder`: `Spec => []PhaseInv`, the inductive invariant under the others: which calls are possible at
   which stage of the socket, that the thread in open is alone with it, and that a thread that knows of the close gets no
   further than its first system call.
3. `FailedOpenIsClosed` and `KnownCloseIsReported`: `FailedOpenClosesPort` and `ClosedIsReported`, if `Detaches`. The
   second is about steps: with `PhaseInv` a call of such a thread can only end in `ReadFails`, and `formatMsg` loads an invalid number.
4. `StaysRaw`: `Spec => []RawMode`. Not inductive: the drafts of all threads in the middle of a setter
   must be raw too (`RawInv`), which for open holds from the first write on and needs that it is alone.
5. `SettingsReadBack`: what `Modified` writes, the getters read back as the settings that were asked for, and the
   other groups read back as before, for every combination of arguments that `Rejects` lets through.
6. `ReportedIsInForce`: `Spec => ReportedInForce`. Setters of parameters compare at their end; those of a char or a line
   do not, so what they are about to write must carry what was asked for, although it is a copy of an old state of the port,
   and what open has compared must stay in force over its remaining steps (`PromiseInv`).
7. `OthersAreUntouched`: `Spec => OthersUntouched`. As long as no other call overlaps, the port is as it was when the call began
   until it writes, and what it is about to write, taken by any driver, differs from that only where it may (`QuietInv`).

`TermiosSerialPortSocketProofs` proves, for any threads, buffers and timeouts:

1. `CloseWakesWatchers`: `Spec => []WatchersWoken`. From the write to the event on it stays readable (`WokenInv`),
   because nobody reads it; the order of the tests after poll does the rest.
2. `PortReleasedOnce`: `Spec => ReleasedOnce` if `~CloseFails`. `ReleaseInv`: the cleaner holds the number exactly as long as
   it names the port, and it cannot run between two statements of close0.
3. `NativeImplementsChannel`: `Spec => ChannelSafeSpec`, as for the Java socket. `MonitorInv`: a call past `Enter` has the
   monitor of its direction, if its operation has one, and a call before it has moved nothing. `Enter` maps to `Claim`, a
   transfer on the port to `Move`, the return to `Yield`, close0 and the cleaner to `Detach`, all else to stuttering.
4. `TypeCorrect`, `ReadsReported`, `CloseReported` and `OneStrayCall`: `TypeOK`, `ReportedBytes`, `CloseNotMisreported` and
   `AtMostOneStrayCall`, all four from `NativeInv`. `CloseNotMisreported` has the exception described above. It says of a call which copies of the two fields it may hold at each
   label (`Placed`, `Watched`), what it has counted (`Counted`), and which excuse each of its possible errors has
   (`Excused`): a read that was polled readable finds bytes, unless the field is invalid or the adapter is gone. A number goes astray only
   once close0 is done; whoever polls then sees the event.
5. `BreakHeld`: `Spec => []BreakHeldAndEnded`. `BreakInv` needs `MonitorInv`: setBreak, clearBreak and sendBreak exclude each
   other and the writers.

`WinSerialPortSocketProofs` proves, for any threads, buffers and timeouts:

1. `TypeCorrect` and `EventsAreClosed`: `TypeOK` and `EventsClosed`. The number of event objects is the cardinality of the set
   of waiting calls, which is finite although `Threads` need not be (`EventsInv`).
2. `TransfersReported` and `CloseReported`: `ReportedBytes` and `CloseNotMisreported`, from `CallsInv`: a request counts from zero
   and fails only for an unplugged adapter or a handle that has been given away. As CancelIo may fail and put the handle
   back, the field `fd` is not invalid for ever: the excuse is the number's file or the failed close, not the field.
3. `PortReleasedOnce`: `Spec => ReleasedOnce` from the same `ReleaseInv`, if `~CloseFails`. With an error of CloseHandle it is false:
   the cleaner closes the handle a second time.
4. `BreakHeld`: `Spec => []BreakHeldAndEnded`.
5. `WinImplementsChannel`: `Spec => ChannelSafeSpec`, whatever CloseHandle reports. It is the driver that moves the bytes,
   while the call sleeps, and it does so only on a handle that is open. A request left behind by a failed wait has no
   thread, and its bytes are no `Move` of `SerialChannel`. 3 and 4 are listed by no run of this module: `native_io`
   checks the same two.

`NativeConfigurationProofs` proves, for both platforms, any threads, calls, drivers and settings found:

1. `NativeFailedOpenIsClosed`: `Spec => []FailedOpenClosesPort`.
2. `NativePhases`: `Spec => []PhaseInv`: as above, and while the socket is closing its field stays invalid, whatever
   a failing CancelIo does.
3. `NativeCloseIsReported`: `Spec => ClosedIsReported`. A call that copied an invalid number finds no device
   (`DetachedFindsNothing`), so that only the failures are left. They read the field, but for the two speeds of getParams, which the
   statement names (`ReadsTwoSpeeds`).
4. `StopBitsAlwaysFit`: `Spec => []StopBitsFit`, if the driver takes the data and stop bits it is given and the port was found with
   a DCB that fits. Not inductive: a setter may write a DCB that it read before another changed the device, so every draft must
   fit by itself (`FitInv`).
5. `TimeoutsReadBack`: every three timeouts are accepted by `COMMTIMEOUTS` and read back as set, for any `MaxInt`
   of at least 100.
6. `NativeSettingsTypeCorrect`: `Spec => []TypeOK`. `TypeInv` adds that every draft is of the kind its call writes: a termios or a
   DCB, the modem lines or the timeouts.
7. `NativeReportedIsInForce`: `Spec => ReportedInForce`. `PromiseInv` as for the Java code. The setters that end with the
   write rely on the casts: a char of at most 255 survives `ToByte`, and timeouts survive `CommTimeouts`. `Promised` leaves out what the code
   breaks: greater chars, and setOutSpeed0.
8. `NativeOthersAreUntouched`: `Spec => OthersUntouched`. `QuietInv` has one more stage than that of the Java code, because setParams
   copies `fd` again before it writes, and two more cases: the driver of Windows changes a modem line by itself, and RTS follows its control.

`PosixAsyncSerialPortSocketProofs` proves, for any finite set of requests, any pool and any mix of kinds:

1. `TypeCorrect`: `Spec => []TypeOK`, whatever the callbacks do.
2. `EachAnsweredOnce`: `Spec => []AnsweredOnce`, if success callbacks do not throw. With one that does, the request is answered
   again, by its failure callback: the assumption is where the code needs it. `SoundInv` counts the answers by label.
3. `PermitsConserved` and `CallbacksApart`: `PermitConserved` and `CallbacksSynchronized`, under the same assumption. In a direction
   without a Future variant, permits and the requests that hold one add up to at most 1, and to 1 unless a write with callbacks has
   kept its permit (`PermitInv`): the exceptions are the two leaks listed below.

`SerialStreamsProofs` proves, for any threads, buffer size and arrays:

1. `TypeCorrect` and `ReadsOwnBytes`: `TypeOK` and `OwnBytesIn`, from `StreamInv`:
   the lock is with the call that shares the buffer (`LockInv`), the line with the call inside the socket (`OwnerInv`), and
   the array of a call holds its own bytes as far as they have been moved (`ContentInv`).
2. `WritesOwnBytes`: `Spec => OwnBytesOut`: every byte that is moved out of a buffer was put there by the call that moves it.

The assumptions are those the modules name: `PortAssumption`, `CallAssumption`, `ConfigurationAssumption`,
`TermiosAssumption`, `WinAssumption`, `WidthAssumption`, `NativeAssumption`, `AsyncAssumption`, `StreamAssumption`: `NoThread` is no thread, capacities are
positive, operations, arguments and settings found are of their types, the driver does not ignore the raw mode, and a setter of one
item has an argument for that item and no other. The signatures of the methods and the types of the structures give
all of it but the raw mode. TLC evaluates them in every run.

Only model-checked is liveness, which is outside the prover's reach: `ChannelSpec` of `posix_live`
and `CloseAnswersReads` of `async`.

## Findings

Each is a run that TLC shows violated, with the sentence of the repository it contradicts in `PROJECT.json`.

1. `native_close_window`: a native read that copies `fd` before close0 resets it and `closeEventReadFd` after close0 has
   reset that too polls neither the port nor the event, and nothing wakes it (`TermiosIO.c` 44-46; the writes
   at 282 and drainOutputBuffer have the same window).
2. `native_write_count`: a native write in several pieces returns the size of its last one, and the position of the
   caller's buffer moves by that (`TermiosIO.c` 346).
3. `async_write_leak`: writeAsync with callbacks never gives its permit back after a successful queued write
   (*Async* 313).

### Divergences read in the code

Met while the modules were written and in them where the module reaches that far; no run is about them.

- *Posix* 997: a read that is woken by the close inside its loop returns -1, also when it has bytes, and read() of the stream makes a
  RuntimeException of it (`SerialInputStream.java` 79-80); *Posix* 962, 1016: an errno of poll is thrown without a test of `fd`; *Posix* 651, 659: a write that
  times out after several pieces reports the bytes of its first one in `bytesTransferred`, or 0.
- *Async* 220, 248, 354, 382: the Future variants give their permit back before the task runs, and again after it.
  *Async* 164: a task that waits for the permit on a bounded executor blocks the task that holds it.
  *Async* 607: `implCloseChannel` does not tell its configuration (*Posix* 239 does).
- *Conf* 160-186: setInSpeed and setOutSpeed change a copy of the settings, check that copy and never write it.
- *Posix* 276 and `GenericTermiosSerialPortSocket.java` 106: an error of close(2) leaves the number with the cleaner, which closes it
  again when it may name another file; the order of the arguments of closeFds differs between Java (line 49) and C.
- `TermiosIO.c` 122, 177, `TermiosCommon.c` 279: a hang-up is taken for the loss of the port without reading the field;
  171: a close inside the loop loses what was read. `TermiosSettings.c` 304: two speeds are a native error.
- `TermiosIO.c` 335: after an error the write loop tests its copy of `fd`, which a close never changes.
- `TermiosSettings.c` 771: setOutSpeed0 compares with the speed of the input; 1004: chars are cut to 8 bits and not read back.
- `WinApiCommon.c` 111: CancelIo concerns only the calling thread's requests, and its failure puts the handle back; 110 says that a
  read may hang for ever after the close, README.md:7 that a close unblocks it; 119: an error of CloseHandle leaves the handle with
  the cleaner; 293-312: an error of RegEnumValueW repeats the loop for ever. `WinApiIO.c` 56, 151: a failing wait leaves the
  request, with the OVERLAPPED on the stack, to the driver; 168: a write that fails after it has sent something reports 0.
  `Exceptions.c` 198: GetIntField on a field that is a long on Windows.
- *Abstract* 135, 355: `writeBytes_ParamsOK` has no definition in C, which has `writeBytes_ArgsOK`.
- `SerialPortSocketFactoryImpl.java` 118: a `case` without `break`.

## Not modelled

- Thread pool wrapper: each call is one task of a reader or a writer executor that calls the blocking socket. It has no state
  besides; a success callback that throws is answered a second time by the failure callback, which `PosixAsyncSerialPortSocket`
  has for the asynchronous socket (`CallbackThrows`).
- ser2net provider: unfinished. read(ByteBuffer) and write(ByteBuffer) use the channel of a socket that has none and end in a
  NullPointerException, the settings are kept and never sent. A model would be about a plan.
- The Windows socket of the jnhw provider (`GenericWinSerialPortSocket`), sendXON and sendXOFF, the getters and
  stream variants of *Posix* that only forward.
- The loading of the native library and its cached field numbers (`spsw-jni.c`), the copying between arrays and buffers
  (`AbstractSerialPortSocketIO.c`), the formatting of exceptions, and the enumeration of ports in the registry.
- Mock socket (a sequential script), logging (text around each call), factories, port names and enumerations
  (pure functions and directory reads), conformance tests and demos.

On the C side the modules stand for some 2850 lines. The directory `jni-includes` holds copies of the JDK's headers, 11000 of the
16000 lines of C, which are no code of this project; of the rest what is missing is listed above.

## Plan

Done: every component above has its module, its runs and its proofs, but for what "Not modelled" lists. Left:

1. Proofs: `RawMode` of the native open on POSIX, which `NativeConfiguration` does not state; that the streams, over any socket
   that implements `SerialChannel`, deliver the bytes in the order in which the port received them.
2. Runs: `CloseUnblocks` of the native POSIX socket for the calls that do not fall into the window of finding 1.
