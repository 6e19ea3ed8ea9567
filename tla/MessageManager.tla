---------------------------- MODULE MessageManager -----------------------------
(******************************************************************************)
(* The message manager: the loop of common/message_manager.c that a thread    *)
(* runs to take messages from its receiving queues and call three handlers,   *)
(* and the start and stop of that thread by MessageManager.cpp in user space, *)
(* or by kthread_stop in the kernel.                                          *)
(*                                                                            *)
(* A queue is a FIFO of whole messages, which is what MessageQueue implements.*)
(* One end of a queue may be a manager's, the other a peer's that adds or     *)
(* takes a message whenever it likes. What a handler does is left open: it    *)
(* may send any message on any of its manager's sending queues.               *)
(******************************************************************************)
EXTENDS Integers, Sequences, SequencesExt

CONSTANTS
  Managers,
  Queues,
  Rx,            \* rx_msgq_array: the queues each manager receives from
  Tx,            \* tx_msgq_array: the queues it sends on, as many as it receives from
  Messages,
  Size,          \* the bytes of each message, header included
  QueueLength,   \* the bytes of each ring
  ArraySize,     \* MSGMGR_MSGQARRAY_SIZE
  WorkInterval,  \* MSGMGR_WORK_INTERVAL
  TimerMod,      \* timer_mod of each manager; 1 in the kernel, which has none
  Nothing        \* no message

Received(m) == {Rx[m][i] : i \in DOMAIN Rx[m]}
Sent(m) == {Tx[m][i] : i \in DOMAIN Tx[m]}

ASSUME QueuesAssumption ==
  /\ Rx \in [Managers -> Seq(Queues)]
  /\ Tx \in [Managers -> Seq(Queues)]
  /\ QueueLength \in [Queues -> Nat]
ASSUME OneReceiverAssumption ==  \* a queue has one receiving end
  /\ \A m \in Managers : \A i, j \in DOMAIN Rx[m] : Rx[m][i] = Rx[m][j] => i = j
  /\ \A m, n \in Managers : m # n => Received(m) \cap Received(n) = {}
ASSUME MessagesAssumption == Size \in [Messages -> Nat] /\ Nothing \notin Messages
ASSUME IntervalAssumption ==
  /\ WorkInterval \in Nat \ {0}
  /\ TimerMod \in [Managers -> Nat \ {0}]

VARIABLES
  queue,      \* the messages in each queue
  life,       \* m_thread: "idle" (none), "running", or "stopping" (being joined)
  stopped,    \* m_stopped, or what kthread_should_stop returns
  loop,       \* the place and the locals of message_manager_run
  due,        \* a second has passed since last_timer_time
  seen,       \* history: the loop saw messages in the queue when it last looked
  waits,      \* history: messages of other queues handled while this one has some
  sinceWork,  \* history: messages handled since the work handler was last called
  late,       \* history: timer checks made since a second passed
  afterStop   \* history: messages taken since the manager was told to stop

history == <<seen, waits, sinceWork, late, afterStop>>
vars == <<queue, life, stopped, loop, due, history>>

--------------------------------------------------------------------------------
(* Queues.                                                                    *)

Used(q) == FoldLeft(LAMBDA n, msg : n + Size[msg], 0, queue[q])

(* message_queue_add accepts the message: one byte of the ring stays free. *)
Room(q, msg) == Used(q) \in 0 .. QueueLength[q] - 1 - Size[msg]

Put(q, msg) == queue' = [queue EXCEPT ![q] = Append(@, msg)]

--------------------------------------------------------------------------------
(* A manager and its loop.                                                    *)

(* m_initialised: the constructor has been given queues, and room for them. *)
Initialised(m) == Rx[m] # <<>> /\ Len(Rx[m]) = Len(Tx[m]) /\ Len(Rx[m]) <= ArraySize

(* Mutant of BufferHolds: m_maxqLength is the length of the last queue. *)
BufferHoldsLast(m, n) == n <= QueueLength[Rx[m][Len(Rx[m])]]

(* n bytes fit into the buffer, of m_maxqLength bytes: the longest queue. *)
BufferHolds(m, n) == \E q \in Received(m) : n <= QueueLength[q]

(* The locals as the loop is entered; what is here while no thread runs it. *)
Fresh == [pc |-> "top", at |-> 1, hand |-> Nothing, inPlace |-> FALSE,
          backlog |-> FALSE, works |-> 0, ticks |-> 0, then |-> "top"]
Exited == [Fresh EXCEPT !.pc = "exited"]

At(m, label) == loop[m].pc = label
Becomes(m, locals) == loop' = [loop EXCEPT ![m] = locals]

(* The queue the for loop has reached. *)
Current(m) == Rx[m][loop[m].at]
MoreQueues(m) == loop[m].at <= Len(Rx[m])

Init ==
  /\ queue = [q \in Queues |-> <<>>]
  /\ life = [m \in Managers |-> "idle"]
  /\ stopped = [m \in Managers |-> FALSE]
  /\ loop = [m \in Managers |-> Exited]
  /\ due = [m \in Managers |-> FALSE]
  /\ seen = [q \in Queues |-> FALSE]
  /\ waits = [q \in Queues |-> 0]
  /\ sinceWork = [m \in Managers |-> 0]
  /\ late = [m \in Managers |-> 0]
  /\ afterStop = [m \in Managers |-> 0]

(* Mutant of Start: m_stopped keeps the value the last stop gave it. *)
StartStopped(m) ==
  /\ Initialised(m)
  /\ life[m] = "idle"
  /\ life' = [life EXCEPT ![m] = "running"]
  /\ Becomes(m, Fresh)
  /\ due' = [due EXCEPT ![m] = FALSE]
  /\ sinceWork' = [sinceWork EXCEPT ![m] = 0]
  /\ late' = [late EXCEPT ![m] = 0]
  /\ afterStop' = [afterStop EXCEPT ![m] = 0]
  /\ UNCHANGED <<queue, stopped, seen, waits>>

(* MessageManager::start: a thread enters the loop with fresh locals. *)
Start(m) ==
  /\ Initialised(m)
  /\ life[m] = "idle"
  /\ life' = [life EXCEPT ![m] = "running"]
  /\ stopped' = [stopped EXCEPT ![m] = FALSE]
  /\ Becomes(m, Fresh)
  /\ due' = [due EXCEPT ![m] = FALSE]
  /\ sinceWork' = [sinceWork EXCEPT ![m] = 0]
  /\ late' = [late EXCEPT ![m] = 0]
  /\ afterStop' = [afterStop EXCEPT ![m] = 0]
  /\ UNCHANGED <<queue, seen, waits>>

(* MessageManager::stop sets m_stopped and goes on to join the thread. *)
StopBegins(m) ==
  /\ life[m] = "running"
  /\ life' = [life EXCEPT ![m] = "stopping"]
  /\ stopped' = [stopped EXCEPT ![m] = TRUE]
  /\ UNCHANGED <<queue, loop, due, history>>

(* The thread has returned: join returns, and m_thread is reset. *)
Joined(m) ==
  /\ life[m] = "stopping"
  /\ At(m, "exited")
  /\ life' = [life EXCEPT ![m] = "idle"]
  /\ UNCHANGED <<queue, stopped, loop, due, history>>

(* The top of the while loop: told to stop, it ends. *)
LoopEnds(m) ==
  /\ At(m, "top")
  /\ stopped[m]
  /\ Becomes(m, Exited)
  /\ UNCHANGED <<queue, life, stopped, due, history>>

(* Otherwise a pass over the receiving queues begins. *)
PassBegins(m) ==
  /\ At(m, "top")
  /\ ~stopped[m]
  /\ Becomes(m, [loop[m] EXCEPT !.pc = "look", !.at = 1, !.backlog = FALSE])
  /\ UNCHANGED <<queue, life, stopped, due, history>>

(* message_queue_get_begin finds nothing: on to the next queue. *)
LookEmpty(m) ==
  /\ At(m, "look") /\ MoreQueues(m)
  /\ queue[Current(m)] = <<>>
  /\ Becomes(m, [loop[m] EXCEPT !.at = @ + 1])
  /\ seen' = [seen EXCEPT ![Current(m)] = FALSE]
  /\ UNCHANGED <<queue, life, stopped, due, waits, sinceWork, late, afterStop>>

(* One more, but never above top: the history need not count for ever. *)
UpTo(n, top) == IF n < top THEN n + 1 ELSE n

(* What the history says when a message of the current queue is taken. *)
Taken(m) ==
  /\ waits' = [q \in Queues |->
       IF q \notin Received(m) THEN waits[q]
       ELSE IF q = Current(m) \/ queue[q] = <<>> THEN 0
       ELSE UpTo(waits[q], Len(Rx[m]))]
  /\ sinceWork' = [sinceWork EXCEPT ![m] = UpTo(@, WorkInterval + 1)]
  /\ afterStop' = [afterStop EXCEPT ![m] = IF stopped[m] THEN UpTo(@, Len(Rx[m]) + 1) ELSE @]

(* message_queue_get_begin hands out the first message where it lies, when it *)
(* lies in one piece, and the message handler is called.                      *)
TakeInPlace(m) ==
  /\ At(m, "look") /\ MoreQueues(m)
  /\ queue[Current(m)] # <<>>
  /\ Becomes(m, [loop[m] EXCEPT !.pc = "message", !.hand = Head(queue[Current(m)]), !.inPlace = TRUE])
  /\ Taken(m)
  /\ UNCHANGED <<queue, life, stopped, due, seen, late>>

(* A message in two pieces is copied into the buffer by message_queue_get, if *)
(* the buffer holds it; otherwise the loop ends with an error.                *)
TakeCopy(m) ==
  LET msg == Head(queue[Current(m)]) IN
  /\ At(m, "look") /\ MoreQueues(m)
  /\ queue[Current(m)] # <<>>
  /\ IF BufferHolds(m, Size[msg])
     THEN /\ Becomes(m, [loop[m] EXCEPT !.pc = "message", !.hand = msg])
          /\ queue' = [queue EXCEPT ![Current(m)] = Tail(@)]
          /\ Taken(m)
     ELSE Becomes(m, Exited) /\ UNCHANGED <<queue, waits, sinceWork, afterStop>>
  /\ UNCHANGED <<life, stopped, due, seen, late>>

(* A handler sends a message; one that is refused changes nothing. *)
HandlerSends(m, q, msg) ==
  /\ loop[m].pc \in {"message", "work", "idle", "timer"}
  /\ q \in Sent(m)
  /\ Room(q, msg)
  /\ Put(q, msg)
  /\ UNCHANGED <<life, stopped, loop, due, history>>

(* The message handler returns; a message handled in place leaves the queue. *)
MessageReturns(m) ==
  /\ At(m, "message")
  /\ queue' = [queue EXCEPT ![Current(m)] = IF loop[m].inPlace THEN Tail(@) ELSE @]
  /\ Becomes(m, [loop[m] EXCEPT !.pc = "count", !.hand = Nothing, !.inPlace = FALSE])
  /\ UNCHANGED <<life, stopped, due, history>>

(* Mutant of Counted: one count for a pass, made at its last queue. *)
CountedOnce(m) ==
  IF loop[m].at < Len(Rx[m]) THEN loop[m]
  ELSE [loop[m] EXCEPT !.works = (@ + 1) % WorkInterval, !.ticks = (@ + 1) % TimerMod[m]]

(* counter += 1. Only what is looked at of it is kept: its remainders. *)
Counted(m) == [loop[m] EXCEPT !.works = (@ + 1) % WorkInterval, !.ticks = (@ + 1) % TimerMod[m]]

(* Mutant of CheckTimer: there is no check when the loop is idle. *)
CheckTimerBusy(m, locals, next) ==
  LET calls == due[m] /\ locals.ticks = 0 /\ next = "look" IN
  /\ Becomes(m, IF calls THEN [locals EXCEPT !.pc = "timer", !.then = next]
                ELSE [locals EXCEPT !.pc = next])
  /\ due' = [due EXCEPT ![m] = @ /\ ~calls]
  /\ late' = [late EXCEPT ![m] = IF due[m] /\ ~calls THEN UpTo(@, TimerMod[m]) ELSE 0]

(* The timer handler is called when a second has passed, but user space looks *)
(* at the time only when counter is a multiple of timer_mod. Then on to next. *)
CheckTimer(m, locals, next) ==
  LET calls == due[m] /\ locals.ticks = 0 IN
  /\ Becomes(m, IF calls THEN [locals EXCEPT !.pc = "timer", !.then = next]
                ELSE [locals EXCEPT !.pc = next])
  /\ due' = [due EXCEPT ![m] = @ /\ ~calls]
  /\ late' = [late EXCEPT ![m] = IF due[m] /\ ~calls THEN UpTo(@, TimerMod[m]) ELSE 0]

(* Mutant of MovedOn: avail = what is left in the queue. *)
MovedOnForgetting(m, left) == [Counted(m) EXCEPT !.backlog = left, !.at = @ + 1]

(* Mutant of MovedOn: after a message, back to the first queue. *)
MovedOnToFirst(m, left) == [Counted(m) EXCEPT !.backlog = @ \/ left, !.at = 1]

(* avail += what is left in the queue, the message is counted, and the for    *)
(* loop goes on.                                                              *)
MovedOn(m, left) == [Counted(m) EXCEPT !.backlog = @ \/ left, !.at = @ + 1]

(* A message has been handled: every WorkInterval-th time the work handler is *)
(* called, and then the timer is checked.                                     *)
Count(m) ==
  LET left == queue[Current(m)] # <<>>
      locals == MovedOn(m, left)
  IN /\ At(m, "count")
     /\ seen' = [seen EXCEPT ![Current(m)] = left]
     /\ IF locals.works = 0
        THEN /\ Becomes(m, [locals EXCEPT !.pc = "work"])
             /\ sinceWork' = [sinceWork EXCEPT ![m] = 0]
             /\ UNCHANGED <<due, late>>
        ELSE CheckTimer(m, locals, "look") /\ UNCHANGED sinceWork
     /\ UNCHANGED <<queue, life, stopped, waits, afterStop>>

(* The work handler called for a busy loop returns. *)
WorkReturns(m) ==
  /\ At(m, "work")
  /\ CheckTimer(m, loop[m], "look")
  /\ UNCHANGED <<queue, life, stopped, seen, waits, sinceWork, afterStop>>

(* Mutant of PassEnds: with messages left, straight to the queues again. *)
PassEndsUnchecked(m) ==
  /\ At(m, "look") /\ ~MoreQueues(m)
  /\ Becomes(m, IF loop[m].backlog THEN [loop[m] EXCEPT !.at = 1, !.backlog = FALSE]
                ELSE [loop[m] EXCEPT !.pc = "idle"])
  /\ sinceWork' = [sinceWork EXCEPT ![m] = IF loop[m].backlog THEN @ ELSE 0]
  /\ UNCHANGED <<queue, life, stopped, due, seen, waits, late, afterStop>>

(* A pass is over: with messages left the next one begins, else it is time to *)
(* call the work handler.                                                     *)
PassEnds(m) ==
  /\ At(m, "look") /\ ~MoreQueues(m)
  /\ Becomes(m, [loop[m] EXCEPT !.pc = IF loop[m].backlog THEN "top" ELSE "idle"])
  /\ sinceWork' = [sinceWork EXCEPT ![m] = IF loop[m].backlog THEN @ ELSE 0]
  /\ UNCHANGED <<queue, life, stopped, due, seen, waits, late, afterStop>>

(* It returns, with whether it knows of more work: only if not, the loop      *)
(* sleeps.                                                                    *)
IdleWorkReturns(m, more) ==
  /\ At(m, "idle")
  /\ CheckTimer(m, Counted(m), IF more THEN "top" ELSE "sleep")
  /\ UNCHANGED <<queue, life, stopped, seen, waits, sinceWork, afterStop>>

TimerReturns(m) ==
  /\ At(m, "timer")
  /\ Becomes(m, [loop[m] EXCEPT !.pc = loop[m].then, !.then = "top"])
  /\ UNCHANGED <<queue, life, stopped, due, history>>

(* usleep returns. *)
Wake(m) ==
  /\ At(m, "sleep")
  /\ Becomes(m, [loop[m] EXCEPT !.pc = "top"])
  /\ UNCHANGED <<queue, life, stopped, due, history>>

SecondPasses(m) ==
  /\ life[m] # "idle"
  /\ due' = [due EXCEPT ![m] = TRUE]
  /\ UNCHANGED <<queue, life, stopped, loop, history>>

(* A peer adds to a queue that no manager sends on. *)
PeerSends(q, msg) ==
  /\ \A m \in Managers : q \notin Sent(m)
  /\ Room(q, msg)
  /\ Put(q, msg)
  /\ UNCHANGED <<life, stopped, loop, due, history>>

(* A peer takes from a queue that no manager receives from. *)
PeerTakes(q) ==
  /\ \A m \in Managers : q \notin Received(m)
  /\ queue[q] # <<>>
  /\ queue' = [queue EXCEPT ![q] = Tail(@)]
  /\ UNCHANGED <<life, stopped, loop, due, history>>

(* Everything the thread does by itself, given that handlers return. *)
Thread(m) ==
  \/ LoopEnds(m)
  \/ PassBegins(m)
  \/ LookEmpty(m)
  \/ TakeInPlace(m)
  \/ TakeCopy(m)
  \/ MessageReturns(m)
  \/ Count(m)
  \/ WorkReturns(m)
  \/ PassEnds(m)
  \/ \E more \in BOOLEAN : IdleWorkReturns(m, more)
  \/ TimerReturns(m)
  \/ Wake(m)

Next ==
  \/ \E m \in Managers :
       \/ Start(m)
       \/ StopBegins(m)
       \/ Joined(m)
       \/ Thread(m)
       \/ SecondPasses(m)
       \/ \E q \in Queues, msg \in Messages : HandlerSends(m, q, msg)
  \/ \E q \in Queues :
       \/ \E msg \in Messages : PeerSends(q, msg)
       \/ PeerTakes(q)

Spec == Init /\ [][Next]_vars

(* Threads are scheduled, handlers return, usleep ends, a join notices. *)
FairSpec ==
  /\ Spec
  /\ \A m \in Managers : WF_vars(Thread(m)) /\ WF_vars(Joined(m))

--------------------------------------------------------------------------------
(* What the manager must guarantee.                                           *)

Locals ==
  [pc : {"top", "look", "message", "count", "work", "idle", "timer", "sleep", "exited"},
   at : Nat \ {0}, hand : Messages \cup {Nothing}, inPlace : BOOLEAN, backlog : BOOLEAN,
   works : 0 .. WorkInterval - 1, ticks : Nat, then : {"look", "top", "sleep"}]

TypeOK ==
  /\ queue \in [Queues -> Seq(Messages)]
  /\ life \in [Managers -> {"idle", "running", "stopping"}]
  /\ stopped \in [Managers -> BOOLEAN]
  /\ loop \in [Managers -> Locals]
  /\ due \in [Managers -> BOOLEAN]
  /\ seen \in [Queues -> BOOLEAN]
  /\ waits \in [Queues -> Nat]
  /\ sinceWork \in [Managers -> Nat]
  /\ late \in [Managers -> Nat]
  /\ afterStop \in [Managers -> Nat]

(* However fast messages come, the work handler is called at least once every *)
(* WorkInterval messages: the counter it depends on also counts the idle      *)
(* passes in between, and never skips a multiple unnoticed.                   *)
WorkNotStarved == \A m \in Managers : sinceWork[m] <= WorkInterval

(* Once a second has passed the timer handler is called within TimerMod       *)
(* counts, whatever mix of messages and idle passes the counter counts: user  *)
(* space looks at the clock only on a multiple, in two places.                *)
TimerNotStarved == \A m \in Managers : late[m] < TimerMod[m]

(* A queue that has a message is served after at most one message from each   *)
(* of the manager's other queues, however many those hold.                    *)
QueuesTakeTurns ==
  \A m \in Managers : \A q \in Received(m) : waits[q] < Len(Rx[m])

(* The loop never goes to sleep on a message it has seen: those in its queues *)
(* as it sleeps have come after it looked.                                    *)
NoSleepOnBacklog ==
  \A m \in Managers : At(m, "sleep") => \A q \in Received(m) : ~seen[q]

(* A stop is heeded before any queue has a second message taken, so the join  *)
(* waits for the rest of one pass, however fast messages come.                *)
StopIsPrompt == \A m \in Managers : afterStop[m] <= Len(Rx[m])

(* The loop of a manager that runs never ends by itself: the buffer holds     *)
(* every message that a queue can, and a manager can be started again.        *)
EndsOnlyWhenStopped == \A m \in Managers : life[m] = "running" => ~At(m, "exited")

(* stop returns: the thread ends although messages keep coming.               *)
StopReturns == \A m \in Managers : life[m] = "stopping" ~> life[m] = "idle"

(* A message in a receiving queue is handled, unless the manager is stopped.  *)
MessagesHandled ==
  \A m \in Managers : \A i \in DOMAIN Rx[m] :
    []<>(\/ life[m] # "running"
         \/ queue[Rx[m][i]] = <<>>
         \/ At(m, "message") /\ loop[m].at = i)

(* The timer handler is called once a second has passed.                      *)
TimersCalled == \A m \in Managers : due[m] /\ life[m] = "running" ~> ~due[m] \/ life[m] # "running"

--------------------------------------------------------------------------------
(* Why it does: an inductive invariant.                                       *)

(* The loop is in the middle of the pass over the queues, its current queue   *)
(* being the next one to look at; or the message it took there is not yet     *)
(* counted; or the pass is over (or none has begun).                          *)
Handling(m) == loop[m].pc \in {"message", "count"}
InPass(m) == loop[m].pc \in {"look", "work"} \/ (At(m, "timer") /\ loop[m].then = "look")
AtEnd(m) == loop[m].at = Len(Rx[m]) + 1

(* The queues from number NextLook on are still to be looked at. *)
NextLook(m) == IF Handling(m) THEN loop[m].at + 1 ELSE loop[m].at

(* Where the loop is, given who has started and stopped it. *)
PlaceInv(m) ==
  /\ loop[m].at <= Len(Rx[m]) + 1
  /\ Handling(m) => MoreQueues(m)
  /\ Handling(m) \/ InPass(m) \/ AtEnd(m) \/ (loop[m].at = 1 /\ loop[m].pc \in {"top", "exited"})
  /\ At(m, "exited") => loop[m].at = 1
  /\ life[m] = "idle" => At(m, "exited")
  /\ life[m] = "running" => ~At(m, "exited") /\ ~stopped[m]
  /\ life[m] = "stopping" => stopped[m]
  /\ loop[m].inPlace => At(m, "message") /\ queue[Current(m)] # <<>>

(* What has happened since the last call of a handler, against the counter.   *)
(* In the work handler the count is made, and the timer still to be checked.  *)
CountInv(m) ==
  /\ loop[m].ticks \in 0 .. TimerMod[m] - 1
  /\ sinceWork[m] <= WorkInterval
  /\ late[m] < TimerMod[m]
  /\ ~At(m, "exited") => sinceWork[m] <= loop[m].works + (IF Handling(m) THEN 1 ELSE 0)
  /\ At(m, "idle") => sinceWork[m] = 0
  /\ At(m, "work") => loop[m].ticks = 0 \/ late[m] < loop[m].ticks
  /\ loop[m].pc \notin {"work", "exited"} => late[m] <= loop[m].ticks

(* How long each queue can have waited, by its distance from the next look.   *)
TurnInv(m) ==
  \A i \in DOMAIN Rx[m] :
    /\ waits[Rx[m][i]] > 0 => queue[Rx[m][i]] # <<>>
    /\ waits[Rx[m][i]] <= NextLook(m) - 1 - i + (IF i < NextLook(m) THEN 0 ELSE Len(Rx[m]))

(* What was seen in the queues this pass has looked at is in avail. *)
SeenInv(m) ==
  /\ Handling(m) \/ InPass(m) =>
       \A i \in DOMAIN Rx[m] : i < loop[m].at /\ seen[Rx[m][i]] => loop[m].backlog
  /\ loop[m].pc \in {"idle", "sleep"} \/ (At(m, "timer") /\ loop[m].then # "look") =>
       \A i \in DOMAIN Rx[m] : ~seen[Rx[m][i]]

(* Messages taken after a stop are taken in the pass that is being made. *)
HaltInv(m) ==
  /\ afterStop[m] <= Len(Rx[m])
  /\ ~stopped[m] => afterStop[m] = 0
  /\ ~At(m, "exited") => afterStop[m] < NextLook(m)

(* Every message in a queue is smaller than the ring. *)
FitInv == \A q \in Queues : \A k \in DOMAIN queue[q] : Size[queue[q][k]] <= QueueLength[q]

ManagerInv(m) == PlaceInv(m) /\ CountInv(m) /\ TurnInv(m) /\ SeenInv(m) /\ HaltInv(m)

IInv ==
  /\ TypeOK
  /\ FitInv
  /\ \A m \in Managers : ManagerInv(m)

================================================================================
