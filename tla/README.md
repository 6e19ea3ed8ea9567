# A TLA+ model of kucomms

kucomms carries messages between a user-space process and a Linux kernel
module, through memory that both have mapped. This directory holds TLA+
modules that model it, TLC configurations that check small instances of them,
and proofs, checked by TLAPS, that hold for every instance. Every definition is
written from the code in `src/`; `PROJECT.json` names the lines each one stands
for.

## 1. The system

| Component | State | Operations | Talks to |
|---|---|---|---|
| Message queue (`common/message_queue.c`) | a ring of bytes and two positions, `m_rd` and `m_wr`, in shared memory | add, add_begin/add_complete, add_callback; get, get_begin/get_complete, next_length | one sending and one receiving endpoint, no lock between them |
| Locked sending (`MessageQueueWriter.cpp`, `kucomms_register.c`) | one mutex | add_locked, message_queue_add_tx0_locked | several threads of one endpoint share the sending side |
| Message manager (`common/message_manager.c`) | counter, time of last timer call, `avail`, a copy buffer | init, add_msgq, message_manager_run: one pass over the receiving queues, then work, timer, sleep | calls the three handlers, reads the stop flag |
| Registry (`kucomms_register.c`) | `cblist` (16 handler registrations), `devlist` (16 device names), `cblist_mutex` | create, remove, register, unregister, unregister_wait, find_and_open, find_and_close | sysfs writers, kernel modules, file operations |
| File operations (`kucomms_fops.c`) | one `pfd` per open file, one kernel thread per file, references on the module | open, mmap, release | registry, message manager, kthread API |
| Loading (`kucomms_mod.c`) | the sysfs files | init_kucomms, exit_kucomms | registry |
| User-space endpoint (`MessageManager.cpp`) | worker thread, `m_stopped` | start, stop, run (open, mmap, work, close, munmap) | file operations, message manager |
| Handlers' modules (`kucomms_test_mod.c` and the like) | none of its own | register in init, unregister_wait in exit | registry |
| Long test (`kucomms_lib_longtest.cpp`, `kucomms_longtest_mod.c`) | at each end: the number of the next message, the number expected next, counts of errors | message, work and timer handler at each end; main and its signals | a manager at each end, two queues between them |
| DataMessage, other test programs, tutorial, makefiles | private | - | - |

What is hard to test in it, and so what the properties are about:

* **The ring.** Sender and receiver run at any relative speed; messages of mixed
  lengths wrap around the end at any offset, in two different ways (a message is
  written as one piece split at the end of the ring, and read as a header
  byte by byte and data split at the end); a full ring must not look empty; a
  handler may read a message in the ring while the sender goes on; free space
  is checked once and relied on later.
* **Locks that can fail.** Every kernel mutex is taken with
  `mutex_lock_interruptible`, and `-EINTR` is ignored.
* **The registry.** The open flag, the registration behind it, the pointer that
  open keeps into `cblist` after unlocking, devices created and removed under
  the same name, lists that are full, and six operations with several ways out
  of the critical section each.
* **Life of a file.** Clearing the open flag, stopping the thread, freeing the
  memory and dropping the reference happen in an order in which other opens,
  unregistrations and unloads can interleave.
* **The loop.** Work and timer handlers run on multiples of a counter that
  messages and idle passes both advance; a busy queue could starve the others,
  the handlers, or a stop; the decision to sleep is made on what was seen
  earlier in the pass.
* **Two ends.** Each end drops what does not fit and only counts it; a program
  can be killed with messages on their way and be run again, while the kernel
  module keeps its numbers; one end's thread must not outlive the mapping, nor
  the other's the memory.
* **Waiting.** `kthread_stop` for a thread that may never have run,
  `kucomms_unregister_wait` for a device that has to be closed.

`PROJECT.json` lists each of these under "hazards" with its line and the
properties that cover it, or the reason why none does yet.

## 2. Modules

| Module | What it is |
|---|---|
| `MessageFifo` | what a queue promises: accepted messages come out whole, once, in order |
| `MessageQueue` | the byte ring and everything both sides do to it |
| `MCMessageQueue` | four messages for TLC: no data, one byte, three bytes, and one that never fits |
| `Induction` | induction over an interval, and that recursion over one defines a function |
| `MessageQueueProofs` | the inductive invariant and the safety theorems |
| `MessageQueueRefinement` | the ring implements `MessageFifo` |
| `DeviceRegistry` | what the registry promises its callers: six atomic operations |
| `KucommsDevice` | registry, file operations, kernel threads, loading and unloading |
| `MCKucommsDevice` | its constants for TLC |
| `KucommsDeviceProofs` | its inductive invariant, every safety theorem, and that it implements `DeviceRegistry` |
| `MessageManager` | the loop over FIFOs of whole messages, its start and its stop |
| `MCMessageManager` | its constants for TLC: the hub of `MessageManagerTest.cpp`, smaller |
| `MessageManagerProofs` | its inductive invariant and every safety theorem |
| `EchoService` | what one end of the long test may see of the other |
| `EchoServiceProofs` | wrong answers only follow losses; a loss is for ever |
| `LongTest` | program and kernel module at work: two `MessageManager`s, the device file between them |
| `LongTestProofs` | its inductive invariant; no thread runs on queues that are not mapped |
| `LongTestRefinement` | to each end, the other implements `EchoService`, and what follows |

How they build on one another: `MessageQueueRefinement` shows that the byte
ring behaves like the FIFO of `MessageFifo`; `MessageManager` uses such FIFOs as
its queues; `LongTest` instantiates `MessageManager` for both ends, and each end
of it implements `EchoService`. `KucommsDevice` implements `DeviceRegistry`; it
looks at many files and modules and takes a pass of a thread as one step; `LongTest` looks at one file, and has
every step of the passes.

### MessageQueue

`ring`, `rd` and `wr` are `m_queue`, `m_rd` and `m_wr`. A byte of the ring is a
pair (message, index), so that a torn or overwritten message can be told from a
whole one; `m_length` is read back only if all the bytes of a header belong to
one message, and is otherwise any number (`LengthsAt`). `spc`, `smsg`, `swr`
and `stores` are where each sender is, the message it adds, its local `wr` and
the stores it has still to make visible; `rpc`, `rlen` and `rbuf` are the
receiver's place, the length it read and the buffer it copies into. `inflight`
and `peeked` are history variables: what is published and not yet consumed, and
what `next_length` last answered.

An operation of the code is split where the other side can see or change
something between two accesses: an add loads both positions (`AddRefused`,
`AddAccepted`), copies up to the end of the ring (`CopyHead`), copies the rest
(`CopyRest`), and stores `m_wr` (`Publish`). A get loads the positions (`Load`),
reads the header (`GetHeader`), copies the data (`GetData`) and stores `m_rd`
(`GetConsume`). The in-place variants are `AddBeginInPlace`, `CopyHead`,
`AddComplete` and `GetBegin`, `GetComplete`; an InitMessage handler that
declines is `HandlerDeclines`; the copying fallback of add_callback is
`AddCallbackBuffered`.

A load of both positions is one step. The two loads are not atomic in the code,
but each side changes only one of the positions: its own is the one it stored
last, and an older value of the other's is what it would have seen by running
earlier.

The constant `Locking` says how the sending side is shared: by nobody
("unlocked"), behind `std::mutex` ("mutex"), or behind the kernel mutex with its
ignored `-EINTR` ("interruptible"). `StrongOrder` says whether stores become
visible in program order, which the code relies on and x86 provides.

### KucommsDevice

`cblist` and `devlist` are the lists, `chrdevs` the character devices that exist
in the kernel, `mutex` is `cblist_mutex`, `refs` the references taken with
try_module_get. A *caller* is an administrator writing to sysfs, a kernel module
in its init or exit function, or a process opening or releasing a file. Each
operation on the lists is a *call*: `Lock`, `Look` (search and decide), `Write`
(change the lists) and `Unlock`, with one `Look...` and one `Write...` operator
for each operation. Looking and writing are separate steps because a caller
whose lock was interrupted does them while another caller is doing its own.

What surrounds the calls is an action for each stretch of code between two
points where others matter. `OpenFailed` covers the two error paths of open
(vmalloc and kthread_create), `MmapFails` those of mmap. `CloseReturned` for a
release includes the stop request of kthread_stop; `Released` is what follows
once the thread has exited. A thread is created, running (at the top of its
loop), in a pass (`handler`), or exited. `DevName` is the name fixed in the text
of each kernel module.

To its callers this is a `DeviceRegistry`, whose state is the devices there are,
whose handlers each name has (`Handlers`: those in the slot that the search finds),
which file has it open (`Holders`), and what each caller asks and is answered (`Calls`: the
answer is there from the step that decides it, the last `Look` or `Write`, and
before the unlock). Slots, searches, flags and the mutex do not appear in it.

`Env` says what the surroundings may do: "signals" lets a lock be interrupted,
"early" lets an administrator write to sysfs before init_kucomms has initialised
the lists.

### MessageManager

`queue` holds the messages of each queue. `Rx` and `Tx` are `rx_msgq_array` and
`tx_msgq_array`: a queue has one receiving manager, and may have no manager at
its other end, where a peer adds or takes whenever it likes (`PeerSends`,
`PeerTakes`). `life` is the state of the C++ `m_thread` (or of the kernel
thread), `stopped` is `m_stopped` (or what `kthread_should_stop` returns).
`loop` has the locals of `message_manager_run`: `at` is the index of the `for`
loop, `backlog` is `avail > 0`, `hand` and `inPlace` are the message in the
handler and whether it still lies in the ring. Of `counter` only what the code
looks at is kept, its remainders modulo the work interval (`works`) and modulo
`timer_mod` (`ticks`). `due` is: a second has passed since `last_timer_time`.

The actions are the places where another thread can get in: the look at a queue
(`LookEmpty`, `TakeInPlace`, `TakeCopy`: whether a message lies in one piece
depends on where it happens to be, so either may be tried), the handlers
(`HandlerSends` any number of times, then one of the returns), the counting
after a message (`Count`), the end of a pass (`PassEnds`), the sleep. What the
idle work handler answers, whether it knows of more work, is open.

`seen`, `waits`, `sinceWork`, `late` and `afterStop` are history: when the loop
last saw messages in a queue, how many of other queues it has handled since
then, and what has happened since the last work call, since a second passed and
since a stop. They stop counting one above the value that would refute the
property they serve (`UpTo`), which keeps the state space finite and hides
nothing.

### EchoService and LongTest

`LongTest` has one manager at each end. `main` is how far the program's `run`
has come, from open to the last close, and then what `kucomms_fops_release` does;
`done` counts what the handler that is running has seen to; `seqWr`, `seqRd`,
`error` and `first` are the globals of the two sources (`first` only of the
kernel module). `Echo` and `Compare` are the two branches of the message
handlers, `SendNext` the work handlers, `HandlerReturns` and `LoopStep` the
manager's own steps. `InitQueues` and `Mmap` are `kucomms_fops_mmap`,
which may fail before either (`MmapFails`). `Killed` ends the program where it is: SIGTERM is
caught, SIGINT, which the manual's control-c sends, is not. `Released` forgets the
program's globals and keeps the kernel module's; `Reload` resets those.

To each end the other is an `EchoService`. `outstanding` is mapped to `Flow`: the
end's own messages (`Own` selects their numbers) on their way back or in the end's own
hand (`Unhandled`, of its receiving queue), then those in the peer's hand or its
receiving queue, in order. `Waiting` is the queue without the message a handler has in
hand in place; `Unhandled` puts the message in hand in front while its handler is not done.
`Refuse` is an add that fails, `Lose` an answer that does not
fit or a process that takes a message down with it, `Cut` the end of a session.

## 3. What TLC checks

| Run | Instance | What it shows |
|---|---|---|
| `mq_spsc` | ring of 7 bytes, headers of 2, 4 messages, 1 sender, unlocked | `InFlightIntact`, `DeliveredIntact`, `FullIsNotEmpty`, `RoomIsExact`, `SpaceReserved`, `PeekStaysValid`, the inductive invariant `IInv`, `ChecksStayValid`; and `ImplementsFifo`, the refinement |
| `mq_mutex` | ring of 6, 2 messages, 2 senders | `SpaceReserved` and `ImplementsFifo` behind a lock that holds |
| `mq_interrupted` | as `mq_mutex`, lock interruptible | *violated*: two adds at once |
| `mq_weak` | as `mq_spsc`, stores in any order | *violated*: `m_wr` overtakes the message |
| `device` | 1 name, 2 modules that both want it, 2 files, 1 administrator, 2 slots | the inductive invariant `IInv`; `OneOpenPerDevice`, `OpenFlagIsHeld`, `HandlersStay`, `ListsConsistent`, `ThreadHasMemory`; and `CallsAreAtomic`, the refinement |
| `device_lists` | 2 names, 2 modules, 1 file, lists of 1 slot, with fairness | `RegistrationFits`, `DevicesListed` at the limit of the lists; `CallsReturn`, `ReleaseReturns`, `UnregisterReturns` |
| `device_signals` | 1 name, 2 files, signals | *violated*: two opens succeed |
| `device_forked` | one file shared by 2 processes | *violated*: mapped twice |
| `device_early` | sysfs used during init | *violated*: a device is forgotten |
| `device_reopened` | 2 files | *violated*: two threads in the same handlers |
| `manager` | 1 manager, receiving queues of 5 and 3 bytes, messages of 4 and 2, work interval 3, timer_mod 2, with fairness | `WorkNotStarved`, `TimerNotStarved`, `QueuesTakeTurns`, `NoSleepOnBacklog`, `StopIsPrompt`, `EndsOnlyWhenStopped`, the inductive invariant; `StopReturns`, `MessagesHandled`, `TimersCalled` |
| `longtest` | 2 managers, queues of 2 messages, bursts of 2, 2 numbers a side, with fairness | the inductive invariant `IInv` (both managers', the session's, the handlers'), `ErrorsExplained`, `QueuesMapped`; `UserEcho` and `KernelEcho`, the refinements; `AnswersArrive`, `RunEnds` |

Each violated run is a finding in `PROJECT.json`, with the statement of the
manual, comment or test that it contradicts. Each property of a passing run has
a mutant: a plausible bug (an operator defined beside the one it would replace)
under which TLC finds the property violated.

**Bounds.** A ring of 7 bytes with messages of 2, 3 and 5 bytes reaches every
alignment of header and data with the end of the ring (7 is coprime to each), a
ring filled to the last usable byte (3 + 3 and 2 + 2 + 2 are 6), an
empty ring at every position, and a message in flight before and behind the one
being handled. The fourth message never fits. Two senders are enough for a lock
to fail. Two files and two modules are the fewest with which an open, a
registration or a release can get in the way of another; a second administrator
would add only a second holder of the mutex. One slot with two names is the
limit of the lists, two slots with one name is where a duplicate would show.
For the manager, the long queue holds a big message or two small ones, the short
one a single small one, so that the buffer's length (that of the longest queue)
matters; intervals of 3 and 2 are coprime, so every combination of the two
remainders occurs; both receiving queues send to one queue that is full after
one message. The same was checked once with three receiving queues (483
thousand states), where turns are longer than a swap.
For the long test, a queue of two with bursts of two overflows when the answers
are slow, and does not when they are not; two numbers a side are the fewest of
which one can be lost and the other arrive. `MaxId` bounds how many numbers
a side uses before it falls silent: the work handler then sends nothing, as
in the time before its first message. `WorkInterval` is 1, which has the work
handler called in as many places as possible; the interval itself is the
business of `manager`. An interval of 2 was checked once (470 thousand states,
liveness included), and with three numbers a side (4 million, safety and
refinement).
Bounds that are in the model itself: a file is mapped by each process at most
once at a time, and nobody unloads kucomms in the middle of an open or a
release (the code does not hold a reference there; see the hazards).

Nothing bounds the length of a run: all state spaces are finite, as a ring
holds finitely many messages and all other variables range over finite sets.

**Deadlock** is checked in every run: there is always something that can happen.

**Fairness** (`FairSpec` of `KucommsDevice`). Steps of a call, the returns, the
end of a mapping and the steps of a thread that was told to stop are weakly
fair: the kernel schedules every task that can run, and handlers return, as the
manual demands of them. `Lock` is strongly fair, since a kernel mutex hands over
to its first waiter. Opening, closing, mapping, loading and unloading are not
fair: nobody has to. For that reason `UnregisterReturns` assumes that files have
stopped opening the device; without it a module may wait for ever, rightly.

In `MessageManager` the steps of a thread and the join that waits for it are
weakly fair: threads are scheduled, handlers return, `usleep` ends. Starting and
stopping are not, nor is a peer, nor the passing of a second: `TimersCalled` begins
when one has passed. In `LongTest` the threads and the program's own way
through `run` and release are weakly fair: system calls return. Opening,
SIGTERM, a kill and a reload are not.

## 4. What is proved

All theorems of `MessageQueueProofs` and `MessageQueueRefinement` are for any
`QueueLength` and `HeaderSize` greater than zero, any set of messages with any
lengths, any sets of buffer sizes, and any number of senders. They assume
`Disciplined`: stores become visible in order, and the sending side is one
thread, or is behind a lock that holds. The two runs `mq_interrupted` and
`mq_weak` show that neither half can be dropped.

* `Invariance`: `Spec => []IInv`. None of the safety properties is inductive
  alone. `IInv` adds to the types
  - `ChainInv`: the unconsumed messages lie end to end from `m_rd` to `m_wr`;
  - `InFlightIntact`: their bytes are what was sent;
  - `LockInv`: a sender at work holds the lock or is alone;
  - `WriteInv`: an add in progress has the space it checked, and has written
    there exactly what it has not still to store;
  - `ReadInv`: what the receiver has read so far is the head of the oldest
    message.

  The argument is one lemma for each action, with one step for each part that
  the action can disturb. Under them are lemmas on the arithmetic of
  positions: that advancing, available and free bytes agree modulo the length
  of the ring (`AdvanceFact`, `AvailFact` and the like), and that copying into
  the free part leaves the unconsumed part alone.
* `TypeCorrect`, `InFlightStaysIntact`, `DeliveredStaysIntact`,
  `EmptyIffEqual`, `SpaceStaysReserved`, `PeekIsValid`: each safety property,
  from `IInv`.
* `RoomStaysExact`: what `message_queue_get_free_l` computes from two positions
  is the ring's length less one, less the bytes of the messages not yet consumed: no
  space is lost however often the ring has been gone round and adds have been given up. It
  takes an induction over the messages in flight (`BytesFact`), which lie end to end
  by `ChainInv`. This is also what entitles `MessageManager` to queues of whole
  messages, with room for as many as their sizes say (`Room`).
* `ChecksAreValid`: the action property: neither side's step makes worse what
  the other has seen.
* `Refinement`: `Spec => Fifo!Spec`, where the queue is the messages published
  and not yet given to a handler, and the handler holds what the bytes in front
  of it spell. `Publish` and `AddComplete` are Put; `GetConsume` and
  `GetBegin` are Take; `CopyHandled` and `GetComplete` are Release; everything
  else is a stutter.

`KucommsDeviceProofs` is for any numbers of slots, names, administrators and
modules, and any finite set of files. Its theorems assume `Orderly`: no lock is
interrupted by a signal, and sysfs is not used before init_kucomms has
initialised the lists. The runs `device_signals` and `device_early` show that
neither can be dropped.

* `DeviceInvariance`: `Orderly => (Spec => []IInv)`. To the properties it adds
  that the mutex excludes (`MutexInv`), that a caller is in the call its place in
  its own life asks for (`AdminPlace`, `ModulePlace`, `FilePlace`), that what a
  call found when it looked is still there when it writes (`Found`), that
  a registration belongs to a module that is in the kernel (`Owned`), that an
  open file's registration is in the list and is the one whose handlers it
  copied (`Kept`), and that references count the files with a thread
  (`ThreadInv`). The argument: steps that touch neither lists nor mutex
  (`QuietStep`) are apart from the six writes (`WriteFrame`), and from
  loading and unloading, when nobody uses kucomms (`UnusedStep`).
* `DeviceIsOpenOnce`, `OpenFlagIsRight`, `HandlersDoStay`,
  `ListsStayConsistent`, `DevicesStayListed`, `ThreadsHaveMemory` follow from it.
* `RegistrationsFit`: a registration that passes the checks finds a free slot. Every
  registered name has a device, and the lists are of the same length: the names of
  a full `cblist` would be as many as the devices, the new name's among them,
  and so the name would be registered already (`FitsFact`). It is the one argument
  that counts.
* `CallsTakeEffectAtOnce`: `Orderly => (Spec => CallsAreAtomic)`, that is,
  `Registry!Spec`. With `IInv` before and after every step, `Handlers` is what is in
  the slots and `Holders` who has opened (`ViewFact`). A begin is Invoke, a return
  is Return, `Lock`, `Unlock` and a `Look` that has found its slot are stutters, a `Look`
  that has not is Refuse (or, for an unregister of nothing, Unregister), and the six
  writes are the six operations: that what was found still holds when it is written (`Found`)
  makes the answer right at that moment. A registration is never refused for lack of a
  slot, by `FitsFact`; an open that loses the race is a write and a Refuse. So whoever
  reasons about callers may forget slots and mutex.

`MessageManagerProofs` is for any managers and queues, lengths, sizes, intervals
and `timer_mod`s that meet the assumptions named in the module: a queue has one
receiving end, every interval is positive.

* `ManagerInvariance`: `Spec => []IInv`. Beside the types and `FitInv` (no
  message in a queue is longer than its ring) there is a part per manager:
  `PlaceInv` says where the loop can be, given who has started and stopped it;
  `CountInv` relates what has happened since the last work and timer calls to the
  remainders of the counter; `TurnInv` bounds how long a queue has waited by its
  distance from the next look; `SeenInv` says that `avail` knows of everything
  seen in this pass; `HaltInv` that what was taken after a stop was taken in the
  pass that was being made. There is one lemma for each action, about the manager
  that acts; that the others are not disturbed is one lemma (`UntouchedHolds`)
  and rests on queues having one receiver.
* `WorkIsNotStarved`, `TimerIsNotStarved`, `QueuesDoTakeTurns`,
  `NeverSleepsOnBacklog`, `StopsPromptly`, `RunsUntilStopped` follow from it.

`EchoServiceProofs`: `EchoInvariance`, with `RunInv`: until something is lost,
the numbers on their way are a run from the expected one to the last one sent.
From it `ErrorsAreExplained` and `NeverResynced`: after a loss the number the end
expects never comes, or a later one never will, so the compare errors of the long
test do not heal.

`LongTestProofs` is for any burst, capacity, interval and `MaxId`.

* `LongTestInvariance`: `Spec => []IInv`. That both managers keep the invariant of
  `MessageManager` is taken from `MessageManagerProofs`, action by action, as their
  steps are its own; only what has no counterpart there (a process killed, a queue freed or
  initialised) is shown anew. `SessionInv` relates the program's stage to the lives of
  the two managers, `HandlerInv` says that the message a handler has is one of the
  queue's, and the first in it if it is handled in place.
* `QueuesStayMapped` follows from it.

`LongTestRefinement` is the refinement `Spec => UserEcho` and `Spec => KernelEcho`
(`UserRefinement`, `KernelRefinement`), with one argument (`NextSeen`) for both sides.
Its first half is about `Own`, the selection of an end's own numbers from a sequence: that it
commutes with appending and concatenating (`OwnAppend`, `OwnConcat`) takes induction, which the
module `Induction` states for sets of numbers, not predicates. The second half goes
through the actions: a message moved from queue to hand to queue leaves `Flow` as
it is; the end's own `SendNext` is Send or Refuse, its `Compare` is Answer; the peer's
`Echo` is a stutter, or Lose if the answer does not fit; a thread that ends in the
middle of a message, and a session's end, are Cut; `Released` for the program and `Reload` for
the kernel module are Restart. `LongTestErrorsExplained` and
`LongTestNeverResyncs` carry the two theorems of `EchoServiceProofs` over
to the program and the module.

Model-checked only: liveness (`CallsReturn`, `ReleaseReturns`, `UnregisterReturns`,
`StopReturns`, `MessagesHandled`, `TimersCalled`, `AnswersArrive`, `RunEnds`), since
fairness speaks of what is enabled, which the provers do not reason about. Every safety
property and every refinement that a passing run checks is also a theorem.

## 5. What is not modelled

* A peer that writes nonsense into the shared memory. Both ends are taken to be
  this code.
* Two ways of `MessageManager::run` that no program of the repository uses: with
  `init` true, where the user-space end initialises the queues, and on two pairs of
  queues.
* The timer handlers of the long test, which print; so no second passes in
  `LongTest`. The times of sleeps and polls: a sleep ends when it ends.
* `MessageManagerTest.cpp` as such: its hub and leaves are the shape of the run
  `manager`, but what it asserts, that all messages have come after 16 seconds, is
  about how long `usleep` takes.
* Memory running out inside a message handler or a user-space constructor, whose
  allocations are not checked.
* The spelling of device names; the contents of messages beyond which message
  they belong to; `DataMessage`, a private buffer of one thread; logging; the
  tutorial, a shorter long test; the other tests, which are clients in one thread
  (what they expect is used in the findings).
* Failures of class_create and device_create, whose results the code ignores.
* 64-bit overflow of positions and lengths: a mapping is at most 1 GB.

## 6. Plan

Done, in order of importance:

1. `MessageQueue` with its abstract specification, its invariants, their proofs
   and the refinement proof.
2. `KucommsDevice`: safety, liveness, and the runs that show where its
   assumptions fail; then its inductive invariant and the proofs.
3. `MessageManager`: the loop, its start and stop, with proofs.
4. `LongTest` and `EchoService`: both ends, sessions that are ended or killed and
   begun again, and the refinement, with proofs.
5. `DeviceRegistry`: the registry's calls are atomic, with proof.

Left:

6. Unloading kucomms in the middle of an open or a release: it takes a model of
   what the kernel does with a file whose operations have gone.
