------------------------------- MODULE LongTest --------------------------------
(******************************************************************************)
(* The two ends of kucomms at work: the long test, in which a user-space      *)
(* program (kucomms_lib_longtest.cpp) and a kernel module                     *)
(* (kucomms_longtest_mod.c) send each other numbered messages, send back the  *)
(* ones they receive, and compare what comes back. Each end is a manager of   *)
(* MessageManager; the handlers are those of the long test.                   *)
(*                                                                            *)
(* The program's MessageManager::run opens the device, maps the memory, works *)
(* until told to terminate, and gives everything back; it may also be killed. *)
(* The file operations initialise the queues and run the kernel's thread.     *)
(* The program may be run again and again. KucommsDevice has what happens     *)
(* when several processes use the device.                                     *)
(******************************************************************************)
EXTENDS Naturals, Sequences, SequencesExt

CONSTANTS
  Burst,         \* messages the program sends in one call of its work handler: 4
  Capacity,      \* messages a queue holds; here they are all of one size
  WorkInterval,  \* MSGMGR_WORK_INTERVAL
  MaxId          \* bound: numbers a side uses before it falls silent

ASSUME BoundsAssumption == {Burst, Capacity, WorkInterval, MaxId} \subseteq Nat \ {0}

Sides == {"user", "kernel"}
Peer(m) == IF m = "user" THEN "kernel" ELSE "user"

(* The tx_msgq of one side is the rx_msgq of the other. *)
RxQueue == [user |-> "down", kernel |-> "up"]
TxQueue == [user |-> "up", kernel |-> "down"]

(* m_type says who sent a message first, m_id is its number. *)
Type == [user |-> 0, kernel |-> 1]
Ids == 0 .. MaxId - 1
Messages == [type : {0, 1}, id : Ids]
Nothing == [type |-> 2, id |-> 0]

VARIABLES
  queue, life, stopped, loop, due,                \* of MessageManager
  seen, waits, sinceWork, late, afterStop,        \* its history
  main,      \* how far the program's run has come; "none" while there is no process
  done,      \* messages the handler that is running has seen to
  seqWr,     \* g_sequence_wr of each side
  seqRd,     \* g_sequence_rd
  error,     \* g_message_compare_error_count > 0
  first,     \* g_first_message_received
  lossy      \* history: a message of this side's, or its answer, was lost

managerVars == <<queue, life, stopped, loop, due, seen, waits, sinceWork, late, afterStop>>
vars == <<managerVars, main, done, seqWr, seqRd, error, first, lossy>>

(* The timer handlers only print, so no second passes here. *)
M == INSTANCE MessageManager WITH
       Managers <- Sides,
       Queues <- {"up", "down"},
       Rx <- [m \in Sides |-> <<RxQueue[m]>>],
       Tx <- [m \in Sides |-> <<TxQueue[m]>>],
       Size <- [msg \in Messages |-> 1],
       QueueLength <- [q \in {"up", "down"} |-> Capacity + 1],
       ArraySize <- 64,
       TimerMod <- [m \in Sides |-> 1]

Init ==
  /\ M!Init
  /\ main = "none"
  /\ done = [m \in Sides |-> 0]
  /\ seqWr = [m \in Sides |-> 0]
  /\ seqRd = [m \in Sides |-> 0]
  /\ error = [m \in Sides |-> FALSE]
  /\ first = FALSE
  /\ lossy = [m \in Sides |-> FALSE]

--------------------------------------------------------------------------------
(* What is on its way.                                                        *)

(* Mapped: the program has queues in its address space. *)
Mapped == main \in {"mapped", "running", "stopping", "joined", "closed"}

(* The side will still look at what is in its receiving queue. *)
Reading(m) ==
  IF m = "user" THEN main \in {"mapped", "running", "stopping"} ELSE life[m] # "idle"

(* The messages sent to m that no handler has in hand. *)
Waiting(m) ==
  IF loop[m].inPlace THEN Tail(queue[RxQueue[m]]) ELSE queue[RxQueue[m]]

(* The messages sent to m that its handler has not seen to. *)
Unhandled(m) ==
  IF ~Reading(m) THEN <<>>
  ELSE IF M!At(m, "message") /\ done[m] = 0 THEN <<loop[m].hand>> \o Waiting(m)
  ELSE Waiting(m)

(* The numbers of m's own messages among some messages, in their order. *)
Own(m, msgs) ==
  LET own[k \in 0 .. Len(msgs)] ==
        IF k = 0 THEN <<>>
        ELSE IF msgs[k].type = Type[m] THEN Append(own[k - 1], msgs[k].id)
        ELSE own[k - 1]
  IN  own[Len(msgs)]

(* The numbers of m's own messages on their way to the peer and back, the     *)
(* first one sent first; none once m is not there to compare them.            *)
Flow(m) ==
  IF Reading(m) THEN Own(m, Unhandled(m)) \o Own(m, Unhandled(Peer(m))) ELSE <<>>

(* What was on its way and is no more, in a step that only loses messages. *)
LossSeen == lossy' = [m \in Sides |-> lossy[m] \/ Len(Flow(m)') < Len(Flow(m))]

--------------------------------------------------------------------------------
(* The handlers.                                                              *)

(* One more message seen to by the handler that m is running. *)
SeenTo(m) == done' = [done EXCEPT ![m] = @ + 1]

(* The result of message_queue_add is only counted. *)
Add(m, msg) ==
  IF M!Room(TxQueue[m], msg) THEN M!HandlerSends(m, TxQueue[m], msg) ELSE UNCHANGED managerVars

Lost(m, msg) == ~M!Room(TxQueue[m], msg) \/ ~Reading(Peer(m))

(* Mutant of Echo: a handler that has sent the answer may send it again. *)
EchoTwice(m) ==
  LET msg == loop[m].hand IN
  /\ M!At(m, "message") /\ done[m] < 2
  /\ msg.type = Type[Peer(m)]
  /\ Add(m, msg)
  /\ SeenTo(m)
  /\ lossy' = [lossy EXCEPT ![Peer(m)] = @ \/ (Reading(Peer(m)) /\ ~M!Room(TxQueue[m], msg))]
  /\ first' = (first \/ m = "kernel")
  /\ UNCHANGED <<main, seqWr, seqRd, error>>

(* Mutant of Echo: with no room for the answer the handler tries again. *)
EchoRetries(m) ==
  LET msg == loop[m].hand IN
  /\ M!At(m, "message") /\ done[m] = 0
  /\ msg.type = Type[Peer(m)]
  /\ IF M!Room(TxQueue[m], msg)
     THEN /\ Add(m, msg)
          /\ SeenTo(m)
          /\ first' = (first \/ m = "kernel")
          /\ UNCHANGED <<main, seqWr, seqRd, error, lossy>>
     ELSE UNCHANGED vars

(* The message handler sends back a message of the peer's. *)
Echo(m) ==
  LET msg == loop[m].hand IN
  /\ M!At(m, "message") /\ done[m] = 0
  /\ msg.type = Type[Peer(m)]
  /\ Add(m, msg)
  /\ SeenTo(m)
  /\ lossy' = [lossy EXCEPT ![Peer(m)] = @ \/ (Reading(Peer(m)) /\ ~M!Room(TxQueue[m], msg))]
  /\ first' = (first \/ m = "kernel")
  /\ UNCHANGED <<main, seqWr, seqRd, error>>

(* Mutant of Compare: a wrong answer is taken as the one that was expected. *)
CompareResyncs(m) ==
  LET msg == loop[m].hand IN
  /\ M!At(m, "message") /\ done[m] = 0
  /\ msg.type = Type[m]
  /\ seqRd' = [seqRd EXCEPT ![m] = msg.id + 1]
  /\ error' = [error EXCEPT ![m] = @ \/ msg.id # seqRd[m]]
  /\ SeenTo(m)
  /\ first' = (first \/ m = "kernel")
  /\ UNCHANGED <<managerVars, main, seqWr, lossy>>

(* It compares the answer to one of its own with the number it expects.       *)
Compare(m) ==
  LET msg == loop[m].hand IN
  /\ M!At(m, "message") /\ done[m] = 0
  /\ msg.type = Type[m]
  /\ IF msg.id = seqRd[m]
     THEN seqRd' = [seqRd EXCEPT ![m] = @ + 1] /\ UNCHANGED error
     ELSE error' = [error EXCEPT ![m] = TRUE] /\ UNCHANGED seqRd
  /\ SeenTo(m)
  /\ first' = (first \/ m = "kernel")
  /\ UNCHANGED <<managerVars, main, seqWr, lossy>>

(* The work handlers: the program's sends Burst messages whenever called, the *)
(* kernel module's one, once it has received something.                       *)
Quota(m) == IF m = "user" THEN Burst ELSE IF first THEN 1 ELSE 0

ToSend(m) == done[m] < Quota(m) /\ seqWr[m] < MaxId

Working(m) == loop[m].pc \in {"work", "idle"}

SendNext(m) ==
  LET msg == [type |-> Type[m], id |-> seqWr[m]] IN
  /\ Working(m)
  /\ ToSend(m)
  /\ Add(m, msg)
  /\ SeenTo(m)
  /\ seqWr' = [seqWr EXCEPT ![m] = @ + 1]
  /\ lossy' = [lossy EXCEPT ![m] = @ \/ Lost(m, msg)]
  /\ UNCHANGED <<main, seqRd, error, first>>

(* A handler returns when it has done all that; neither knows of more work.   *)
HandlerReturns(m) ==
  /\ \/ done[m] > 0 /\ M!MessageReturns(m)
     \/ ~ToSend(m) /\ M!WorkReturns(m)
     \/ ~ToSend(m) /\ M!IdleWorkReturns(m, FALSE)
  /\ done' = [done EXCEPT ![m] = 0]
  /\ UNCHANGED <<main, seqWr, seqRd, error, first, lossy>>

(* The loop of message_manager_run between the handlers. *)
LoopStep(m) ==
  /\ \/ M!LoopEnds(m)
     \/ M!PassBegins(m)
     \/ M!LookEmpty(m)
     \/ M!TakeInPlace(m)
     \/ M!TakeCopy(m)
     \/ M!Count(m)
     \/ M!PassEnds(m)
     \/ M!Wake(m)
  /\ UNCHANGED <<main, done, seqWr, seqRd, error, first, lossy>>

Thread(m) == Echo(m) \/ Compare(m) \/ SendNext(m) \/ HandlerReturns(m) \/ LoopStep(m)

--------------------------------------------------------------------------------
(* The program and the file.                                                  *)

counters == <<seqWr, seqRd, error, first>>

Goto(stage) == main' = stage

(* A process is started, and MessageManager::run opens the device. *)
Open ==
  /\ main = "none"
  /\ Goto("opened")
  /\ UNCHANGED <<managerVars, done, counters, lossy>>

(* Mutant of InitQueues: they are left as they were. *)
InitQueuesNot ==
  /\ main = "opened"
  /\ Goto("ready")
  /\ UNCHANGED <<managerVars, done, counters, lossy>>

(* kucomms_fops_mmap: there is memory, and two queues are initialised in it.  *)
InitQueues ==
  /\ main = "opened"
  /\ Goto("ready")
  /\ queue' = [q \in DOMAIN queue |-> <<>>]
  /\ UNCHANGED <<life, stopped, loop, due, seen, waits, sinceWork, late, afterStop>>
  /\ UNCHANGED <<done, counters, lossy>>

(* Last, it sets up the kernel's manager and wakes its thread. *)
Mmap ==
  /\ main = "ready"
  /\ Goto("mapped")
  /\ M!Start("kernel")
  /\ UNCHANGED <<done, counters, lossy>>

(* mmap fails, and run closes the file: the thread has never run. *)
MmapFails ==
  /\ main \in {"opened", "ready"}
  /\ Goto("releasing")
  /\ UNCHANGED <<managerVars, done, counters, lossy>>

(* The run on both queues makes a manager and starts it. *)
StartUser ==
  /\ main = "mapped"
  /\ Goto("running")
  /\ M!Start("user")
  /\ UNCHANGED <<done, counters, lossy>>

(* Mutant of StopUser: m_stopped is not set. *)
StopUserSilently ==
  /\ main = "running"
  /\ Goto("stopping")
  /\ life' = [life EXCEPT !["user"] = "stopping"]
  /\ UNCHANGED <<queue, stopped, loop, due, seen, waits, sinceWork, late, afterStop>>
  /\ UNCHANGED <<done, counters, lossy>>

(* SIGTERM has set g_stopped, main's polling sees it, and stops the manager.  *)
StopUser ==
  /\ main = "running"
  /\ Goto("stopping")
  /\ M!StopBegins("user")
  /\ UNCHANGED <<done, counters, lossy>>

(* Mutant of JoinUser: the thread is let run on. *)
DetachUser ==
  /\ main = "stopping"
  /\ Goto("joined")
  /\ UNCHANGED <<managerVars, done, counters>>
  /\ LossSeen

(* The thread has ended, join returns. *)
JoinUser ==
  /\ main = "stopping"
  /\ Goto("joined")
  /\ M!Joined("user")
  /\ UNCHANGED <<done, counters>>
  /\ LossSeen

(* close: the mapping still holds the file. *)
CloseFd ==
  /\ main = "joined"
  /\ Goto("closed")
  /\ UNCHANGED <<managerVars, done, counters, lossy>>

(* munmap: the file is let go of, and kucomms_fops_release is called. *)
Unmap ==
  /\ main = "closed"
  /\ Goto("releasing")
  /\ UNCHANGED <<managerVars, done, counters, lossy>>

(* The process is killed (control-c: SIGINT is not caught): its thread ends   *)
(* where it is, and the system unmaps and closes what it had.                 *)
Killed ==
  /\ main = "opened" \/ Mapped
  /\ Goto("releasing")
  /\ life' = [life EXCEPT !["user"] = "idle"]
  /\ loop' = [loop EXCEPT !["user"] = M!Exited]
  /\ done' = [done EXCEPT !["user"] = 0]
  /\ UNCHANGED <<queue, stopped, due, seen, waits, sinceWork, late, afterStop, counters>>
  /\ LossSeen

(* kucomms_fops_release tells the kernel's thread to stop, and waits for it. *)
StopKernel ==
  /\ main = "releasing"
  /\ M!StopBegins("kernel")
  /\ UNCHANGED <<main, done, counters, lossy>>

JoinKernel ==
  /\ main = "releasing"
  /\ M!Joined("kernel")
  /\ UNCHANGED <<main, done, counters>>
  /\ LossSeen

(* Then the memory is freed, and the process, whose globals die with it,      *)
(* ends. Those of the kernel module stay.                                     *)
Released ==
  /\ main = "releasing" /\ life["kernel"] = "idle"
  /\ Goto("none")
  /\ seqWr' = [seqWr EXCEPT !["user"] = 0]
  /\ seqRd' = [seqRd EXCEPT !["user"] = 0]
  /\ error' = [error EXCEPT !["user"] = FALSE]
  /\ lossy' = [lossy EXCEPT !["user"] = FALSE]
  /\ UNCHANGED <<managerVars, done, first>>

(* The kernel module is unloaded and loaded again. *)
Reload ==
  /\ main = "none"
  /\ seqWr' = [seqWr EXCEPT !["kernel"] = 0]
  /\ seqRd' = [seqRd EXCEPT !["kernel"] = 0]
  /\ error' = [error EXCEPT !["kernel"] = FALSE]
  /\ lossy' = [lossy EXCEPT !["kernel"] = FALSE]
  /\ first' = FALSE
  /\ UNCHANGED <<managerVars, main, done>>

(* What main does by itself, once the device is open. *)
Program ==
  \/ InitQueues
  \/ Mmap
  \/ MmapFails
  \/ StartUser
  \/ JoinUser
  \/ CloseFd
  \/ Unmap
  \/ StopKernel
  \/ JoinKernel
  \/ Released

Next ==
  \/ Open
  \/ StopUser
  \/ Killed
  \/ Reload
  \/ Program
  \/ \E m \in Sides : Thread(m)

Spec == Init /\ [][Next]_vars

(* Threads are scheduled and system calls return; nobody has to start,        *)
(* terminate or kill the program.                                             *)
FairSpec == Spec /\ WF_vars(Program) /\ \A m \in Sides : WF_vars(Thread(m))

--------------------------------------------------------------------------------

Stages ==
  {"none", "opened", "ready", "mapped", "running", "stopping", "joined", "closed", "releasing"}

TypeOK ==
  /\ main \in Stages
  /\ done \in [Sides -> 0 .. Burst]
  /\ seqWr \in [Sides -> 0 .. MaxId]
  /\ seqRd \in [Sides -> 0 .. MaxId]
  /\ error \in [Sides -> BOOLEAN]
  /\ first \in BOOLEAN
  /\ lossy \in [Sides -> BOOLEAN]

UserService == INSTANCE EchoService WITH
  outstanding <- Flow("user"), sent <- seqWr["user"], expected <- seqRd["user"],
  error <- error["user"], lossy <- lossy["user"]

KernelService == INSTANCE EchoService WITH
  outstanding <- Flow("kernel"), sent <- seqWr["kernel"], expected <- seqRd["kernel"],
  error <- error["kernel"], lossy <- lossy["kernel"]

(* To the program, the kernel module with everything between them is an echo: *)
(* answers come once, in order, and only what did not fit or went down with   *)
(* the memory is missing.                                                     *)
UserEcho == UserService!Spec

(* And the program to the kernel module, through any number of processes.     *)
KernelEcho == KernelService!Spec

(* The compare errors the long test counts are never the fault of the queues: *)
(* a side has them only after an add was refused, or a session was ended with *)
(* messages on their way.                                                     *)
ErrorsExplained == \A m \in Sides : error[m] => lossy[m]

(* The queues are there as long as a thread can touch them: the program's     *)
(* thread is gone before it unmaps them, the kernel's before they are freed.  *)
QueuesMapped ==
  /\ ~M!At("user", "exited") => Mapped
  /\ ~M!At("kernel", "exited") => Mapped \/ main = "releasing"

(* What is on its way is answered, or lost. *)
AnswersArrive ==
  \A m \in Sides : \A n \in Ids :
    (\E k \in DOMAIN Flow(m) : Flow(m)[k] = n) ~> (\A k \in DOMAIN Flow(m) : Flow(m)[k] # n)

(* A program told to terminate, or killed, does end, its file released. *)
RunEnds == main \in {"stopping", "releasing"} ~> main = "none"

--------------------------------------------------------------------------------
(* Why they hold: an inductive invariant.                                     *)

(* Where the program is, and what its manager and the kernel's may be doing.  *)
(* The queues a session begins with are empty.                                *)
SessionInv ==
  /\ life["user"] = "running" <=> main = "running"
  /\ life["user"] = "stopping" <=> main = "stopping"
  /\ life["kernel"] # "idle" => Mapped \/ main = "releasing"
  /\ \A m \in Sides : life[m] = "idle" => M!At(m, "exited")
  /\ main = "ready" => \A q \in DOMAIN queue : queue[q] = <<>>

(* The message in a handler's hand, if it still lies in the queue, is the     *)
(* first there; what a handler has seen to is forgotten when it returns.      *)
HandlerInv(m) ==
  /\ M!At(m, "message") => loop[m].hand \in Messages
  /\ loop[m].inPlace => queue[RxQueue[m]] # <<>> /\ Head(queue[RxQueue[m]]) = loop[m].hand
  /\ done[m] > 0 => M!At(m, "message") \/ Working(m)

(* Both managers keep the invariant of MessageManager, although processes die *)
(* and memory goes, and theirs with each other and the program.               *)
IInv ==
  /\ TypeOK
  /\ M!IInv
  /\ SessionInv
  /\ \A m \in Sides : HandlerInv(m)

================================================================================
