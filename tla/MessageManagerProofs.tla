------------------------- MODULE MessageManagerProofs --------------------------
(******************************************************************************)
(* Proofs, for every number of managers and queues, all lengths, sizes and    *)
(* intervals, that MessageManager keeps IInv and what follows from it.        *)
(*                                                                            *)
(* A step is one manager's: first what it does to that manager, then that the *)
(* others, whose receiving queues nobody else takes from, see no difference.  *)
(******************************************************************************)
EXTENDS MessageManager, SequenceTheorems, TLAPS

(* Counting goes up by one, or back to 0. *)
LEMMA CountFact ==
  ASSUME NEW K \in Nat \ {0}, NEW n \in 0 .. K - 1
  PROVE  /\ (n + 1) % K = IF n + 1 = K THEN 0 ELSE n + 1
         /\ (n + 1) % K \in 0 .. K - 1
<1>1. CASE n + 1 = K
  BY <1>1, SMT
<1>2. CASE n + 1 < K
  BY <1>2, SMT
<1> QED
  BY <1>1, <1>2

(* A queue that is not looked at is one queue further from having been.       *)
LEMMA RoundFact ==
  ASSUME NEW L \in Nat, NEW a \in 1 .. L, NEW i \in 1 .. L, i # a, NEW w \in Nat,
         w <= a - 1 - i + (IF i < a THEN 0 ELSE L)
  PROVE  w + 1 <= a - i + (IF i < a + 1 THEN 0 ELSE L)
<1>1. CASE i < a
  BY <1>1
<1>2. CASE i > a
  BY <1>2
<1> QED
  BY <1>1, <1>2

LEMMA UpToFact ==
  ASSUME NEW n \in Nat, NEW top \in Nat
  PROVE  UpTo(n, top) \in Nat /\ UpTo(n, top) <= n + 1
BY DEF UpTo

(* Locals that change one at a time.                                          *)
Labels == {"top", "look", "message", "count", "work", "idle", "timer", "sleep", "exited"}

LEMMA LocalsFact ==
  ASSUME NEW l \in Locals
  PROVE  /\ \A p \in Labels : [l EXCEPT !.pc = p] \in Locals
         /\ \A a \in Nat \ {0} : [l EXCEPT !.at = a] \in Locals
         /\ \A h \in Messages \cup {Nothing} : [l EXCEPT !.hand = h] \in Locals
         /\ \A b \in BOOLEAN : [l EXCEPT !.inPlace = b] \in Locals /\ [l EXCEPT !.backlog = b] \in Locals
         /\ \A w \in 0 .. WorkInterval - 1 : [l EXCEPT !.works = w] \in Locals
         /\ \A t \in Nat : [l EXCEPT !.ticks = t] \in Locals
         /\ \A p \in {"look", "top", "sleep"} : [l EXCEPT !.then = p] \in Locals
BY DEF Locals, Labels

LEMMA FreshFact == Fresh \in Locals /\ Exited \in Locals
<1>1. Fresh \in Locals
  BY IntervalAssumption DEF Fresh, Locals
<1> QED
  BY <1>1, LocalsFact DEF Exited, Labels

(* The receiving queues of a manager. *)
LEMMA ReceivedFact ==
  ASSUME NEW m \in Managers
  PROVE  /\ Rx[m] \in Seq(Queues)
         /\ Len(Rx[m]) \in Nat
         /\ DOMAIN Rx[m] = 1 .. Len(Rx[m])
         /\ \A i \in 1 .. Len(Rx[m]) : Rx[m][i] \in Queues /\ Rx[m][i] \in Received(m)
         /\ Received(m) \subseteq Queues
<1>1. Rx[m] \in Seq(Queues)
  BY QueuesAssumption
<1>2. DOMAIN Rx[m] = 1 .. Len(Rx[m]) /\ Len(Rx[m]) \in Nat
  BY <1>1
<1>3. \A i \in 1 .. Len(Rx[m]) : Rx[m][i] \in Queues
  BY <1>1
<1> QED
  BY <1>1, <1>2, <1>3 DEF Received

LEMMA CurrentFact ==
  ASSUME TypeOK, NEW m \in Managers, MoreQueues(m)
  PROVE  /\ loop[m].at \in 1 .. Len(Rx[m])
         /\ Current(m) = Rx[m][loop[m].at]
         /\ Current(m) \in Queues /\ Current(m) \in Received(m)
         /\ queue[Current(m)] \in Seq(Messages)
<1>1. loop[m].at \in Nat \ {0}
  BY DEF TypeOK, Locals
<1>2. loop[m].at \in 1 .. Len(Rx[m])
  BY <1>1, ReceivedFact DEF MoreQueues
<1> QED
  BY <1>2, ReceivedFact DEF Current, TypeOK

(* A queue that has a message, and one whose first message has been taken. *)
LEMMA TailFact ==
  ASSUME NEW s \in Seq(Messages), s # <<>>
  PROVE  /\ Head(s) \in Messages
         /\ 1 \in DOMAIN s /\ Head(s) = s[1]
         /\ Tail(s) \in Seq(Messages)
         /\ \A k \in DOMAIN Tail(s) : k + 1 \in DOMAIN s /\ Tail(s)[k] = s[k + 1]
<1>1. /\ Head(s) \in Messages /\ Tail(s) \in Seq(Messages) /\ Head(s) = s[1]
      /\ Len(s) \in Nat /\ Len(s) > 0 /\ Len(Tail(s)) = Len(s) - 1
      /\ \A k \in 1 .. Len(s) - 1 : Tail(s)[k] = s[k + 1]
  BY HeadTailProperties
<1>2. DOMAIN s = 1 .. Len(s) /\ DOMAIN Tail(s) = 1 .. Len(s) - 1
  BY <1>1
<1>3. \A k \in 1 .. Len(s) - 1 : k + 1 \in 1 .. Len(s)
  BY <1>1
<1> QED
  BY <1>1, <1>2, <1>3

LEMMA AppendFact ==
  ASSUME NEW s \in Seq(Messages), NEW msg \in Messages
  PROVE  /\ Append(s, msg) \in Seq(Messages)
         /\ Append(s, msg) # <<>>
         /\ \A k \in DOMAIN Append(s, msg) :
              \/ k \in DOMAIN s /\ Append(s, msg)[k] = s[k]
              \/ Append(s, msg)[k] = msg
<1>1. /\ Append(s, msg) \in Seq(Messages) /\ Append(s, msg) # <<>>
      /\ Len(s) \in Nat /\ Len(Append(s, msg)) = Len(s) + 1
      /\ \A k \in 1 .. Len(s) : Append(s, msg)[k] = s[k]
      /\ Append(s, msg)[Len(s) + 1] = msg
  BY AppendProperties
<1>2. DOMAIN s = 1 .. Len(s) /\ DOMAIN Append(s, msg) = 1 .. Len(s) + 1
  BY <1>1
<1> QED
  BY <1>1, <1>2

--------------------------------------------------------------------------------
(* Who is not concerned by a step.                                            *)

(* Nothing of the manager's has changed, but for messages that have come.     *)
Untouched(m) ==
  /\ loop'[m] = loop[m] /\ life'[m] = life[m] /\ stopped'[m] = stopped[m]
  /\ sinceWork'[m] = sinceWork[m] /\ late'[m] = late[m] /\ afterStop'[m] = afterStop[m]
  /\ \A q \in Received(m) :
       seen'[q] = seen[q] /\ waits'[q] = waits[q] /\ (queue[q] # <<>> => queue'[q] # <<>>)

LEMMA UntouchedHolds ==
  ASSUME TypeOK, NEW m \in Managers, ManagerInv(m), Untouched(m)
  PROVE  ManagerInv(m)'
<1> USE ReceivedFact DEF Untouched
<1>1. PlaceInv(m)'
  <2>1. ASSUME loop[m].inPlace
        PROVE  At(m, "message") /\ queue'[Current(m)] # <<>>
    <3>1. At(m, "message") /\ queue[Current(m)] # <<>> /\ MoreQueues(m)
      BY <2>1 DEF ManagerInv, PlaceInv, Handling, At
    <3> QED
      BY <3>1, CurrentFact
  <2> QED
    BY <2>1 DEF ManagerInv, PlaceInv, Handling, InPass, AtEnd, MoreQueues, At, Current
<1>2. CountInv(m)'
  BY DEF ManagerInv, CountInv, Handling, At
<1>3. TurnInv(m)'
  BY DEF ManagerInv, TurnInv, NextLook, Handling
<1>4. SeenInv(m)'
  BY DEF ManagerInv, SeenInv, Handling, InPass, At
<1>5. HaltInv(m)'
  BY DEF ManagerInv, HaltInv, NextLook, Handling, At
<1> QED
  BY <1>1, <1>2, <1>3, <1>4, <1>5 DEF ManagerInv

(* A step of manager m: it takes from its own receiving queues at most.       *)
OnlyOf(m) ==
  /\ \A n \in Managers \ {m} :
       /\ loop'[n] = loop[n] /\ life'[n] = life[n] /\ stopped'[n] = stopped[n]
       /\ sinceWork'[n] = sinceWork[n] /\ late'[n] = late[n] /\ afterStop'[n] = afterStop[n]
  /\ \A q \in Queues \ Received(m) :
       seen'[q] = seen[q] /\ waits'[q] = waits[q] /\ queue'[q] = queue[q]

LEMMA OthersHold ==
  ASSUME IInv, NEW m \in Managers, OnlyOf(m), TypeOK', FitInv', ManagerInv(m)'
  PROVE  IInv'
<1>1. ASSUME NEW n \in Managers, n # m
      PROVE  ManagerInv(n)'
  <2>1. Received(m) \cap Received(n) = {}
    BY <1>1, OneReceiverAssumption
  <2>2. Received(n) \subseteq Queues \ Received(m)
    BY <2>1, ReceivedFact
  <2>3. Untouched(n)
    BY <1>1, <2>2 DEF OnlyOf, Untouched
  <2> QED
    BY <2>3, UntouchedHolds DEF IInv
<1> QED
  BY <1>1 DEF IInv

(* The invariant holds too of managers that are all untouched.                *)
LEMMA AllUntouchedHolds ==
  ASSUME IInv, TypeOK', FitInv', \A m \in Managers : Untouched(m)
  PROVE  IInv'
BY UntouchedHolds DEF IInv

--------------------------------------------------------------------------------
(* Messages that come, and what goes on around the loop.                      *)

(* A message that is not longer than the ring is added. *)
LEMMA PutHolds ==
  ASSUME IInv, NEW q \in Queues, NEW msg \in Messages, Size[msg] <= QueueLength[q], Put(q, msg),
         UNCHANGED <<life, stopped, loop, history>>, due' \in [Managers -> BOOLEAN]
  PROVE  IInv'
<1>1. queue \in [Queues -> Seq(Messages)]
  BY DEF IInv, TypeOK
<1>2. queue' = [queue EXCEPT ![q] = Append(queue[q], msg)]
  BY DEF Put
<1>3. TypeOK'
  BY <1>1, <1>2, AppendFact DEF IInv, TypeOK, history
<1>4. FitInv'
  BY <1>1, <1>2, AppendFact DEF IInv, FitInv
<1>5. ASSUME NEW m \in Managers
      PROVE  Untouched(m)
  BY <1>1, <1>2, AppendFact, ReceivedFact DEF Untouched, history
<1> QED
  BY <1>3, <1>4, <1>5, AllUntouchedHolds

LEMMA RoomFact ==
  ASSUME NEW q \in Queues, NEW msg \in Messages, Room(q, msg)
  PROVE  Size[msg] <= QueueLength[q]
<1>1. Size[msg] \in Nat /\ QueueLength[q] \in Nat
  BY QueuesAssumption, MessagesAssumption
<1> QED
  BY <1>1 DEF Room

LEMMA HandlerSendsHolds ==
  ASSUME IInv, NEW m \in Managers, NEW q \in Queues, NEW msg \in Messages, HandlerSends(m, q, msg)
  PROVE  IInv'
BY RoomFact, PutHolds DEF HandlerSends, IInv, TypeOK

LEMMA PeerSendsHolds ==
  ASSUME IInv, NEW q \in Queues, NEW msg \in Messages, PeerSends(q, msg)
  PROVE  IInv'
BY RoomFact, PutHolds DEF PeerSends, IInv, TypeOK

LEMMA PeerTakesHolds ==
  ASSUME IInv, NEW q \in Queues, PeerTakes(q)
  PROVE  IInv'
<1>1. queue \in [Queues -> Seq(Messages)]
  BY DEF IInv, TypeOK
<1>2. queue[q] \in Seq(Messages) /\ queue[q] # <<>> /\ queue' = [queue EXCEPT ![q] = Tail(queue[q])]
  BY <1>1 DEF PeerTakes
<1>3. TypeOK'
  BY <1>1, <1>2, TailFact DEF IInv, TypeOK, history, PeerTakes
<1>4. FitInv'
  BY <1>1, <1>2, TailFact DEF IInv, FitInv
<1>5. ASSUME NEW m \in Managers
      PROVE  Untouched(m)
  BY <1>1, <1>2, ReceivedFact DEF Untouched, history, PeerTakes
<1> QED
  BY <1>3, <1>4, <1>5, AllUntouchedHolds

LEMMA SecondPassesHolds ==
  ASSUME IInv, NEW m \in Managers, SecondPasses(m)
  PROVE  IInv'
<1>1. TypeOK'
  BY DEF IInv, TypeOK, history, SecondPasses
<1>2. FitInv'
  BY DEF IInv, FitInv, SecondPasses
<1>3. \A n \in Managers : Untouched(n)
  BY DEF Untouched, history, SecondPasses
<1> QED
  BY <1>1, <1>2, <1>3, AllUntouchedHolds

LEMMA StartHolds ==
  ASSUME IInv, NEW m \in Managers, Start(m)
  PROVE  IInv'
<1>1. loop \in [Managers -> Locals] /\ loop' = [loop EXCEPT ![m] = Fresh]
  BY DEF IInv, TypeOK, Start, Becomes
<1>2. Fresh \in Locals
  BY FreshFact
<1>3. /\ loop'[m].pc = "top" /\ loop'[m].at = 1 /\ ~loop'[m].inPlace
      /\ loop'[m].works = 0 /\ loop'[m].ticks = 0
  BY <1>1 DEF Fresh
<1>4. TypeOK'
  BY <1>1, <1>2 DEF IInv, TypeOK, Start
<1>5. FitInv'
  BY DEF IInv, FitInv, Start
<1>6. OnlyOf(m)
  BY <1>1 DEF OnlyOf, IInv, TypeOK, Start
<1>7. /\ life'[m] = "running" /\ ~stopped'[m]
      /\ sinceWork'[m] = 0 /\ late'[m] = 0 /\ afterStop'[m] = 0
      /\ UNCHANGED <<queue, seen, waits>>
  BY DEF IInv, TypeOK, Start
<1>8. life[m] = "idle" /\ At(m, "exited") /\ loop[m].at = 1 /\ ManagerInv(m)
  BY DEF IInv, ManagerInv, PlaceInv, Start
<1>a. PlaceInv(m)'
  BY <1>3, <1>7, ReceivedFact DEF PlaceInv, Handling, InPass, At
<1>b. CountInv(m)'
  BY <1>3, <1>7, IntervalAssumption DEF CountInv, Handling, At
<1>c. TurnInv(m)'
  BY <1>3, <1>7, <1>8 DEF ManagerInv, TurnInv, NextLook, Handling, At
<1>d. SeenInv(m)'
  BY <1>3 DEF SeenInv, Handling, InPass, At
<1>e. HaltInv(m)'
  BY <1>3, <1>7, ReceivedFact DEF HaltInv, NextLook, Handling, At
<1> QED
  BY <1>4, <1>5, <1>6, <1>a, <1>b, <1>c, <1>d, <1>e, OthersHold DEF ManagerInv

(* Only m_thread and m_stopped change, before the loop looks at the latter.   *)
LEMMA StopBeginsHolds ==
  ASSUME IInv, NEW m \in Managers, StopBegins(m)
  PROVE  IInv'
<1>1. TypeOK' /\ FitInv' /\ OnlyOf(m)
  BY DEF OnlyOf, IInv, TypeOK, FitInv, StopBegins, history
<1>2. /\ life[m] = "running" /\ life'[m] = "stopping" /\ stopped'[m] /\ ManagerInv(m)
      /\ UNCHANGED <<queue, loop, seen, waits, sinceWork, late, afterStop>>
  BY DEF IInv, TypeOK, StopBegins, history
<1>a. PlaceInv(m)'
  BY <1>2 DEF ManagerInv, PlaceInv, Handling, InPass, AtEnd, MoreQueues, At, Current
<1>b. CountInv(m)' /\ TurnInv(m)' /\ SeenInv(m)'
  BY <1>2 DEF ManagerInv, CountInv, TurnInv, SeenInv, NextLook, Handling, InPass, At
<1>c. HaltInv(m)'
  BY <1>2 DEF ManagerInv, HaltInv, NextLook, Handling, At
<1> QED
  BY <1>1, <1>a, <1>b, <1>c, OthersHold DEF ManagerInv

LEMMA JoinedHolds ==
  ASSUME IInv, NEW m \in Managers, Joined(m)
  PROVE  IInv'
<1>1. TypeOK' /\ FitInv' /\ OnlyOf(m)
  BY DEF OnlyOf, IInv, TypeOK, FitInv, Joined, history
<1>2. /\ At(m, "exited") /\ life'[m] = "idle" /\ ManagerInv(m)
      /\ UNCHANGED <<queue, stopped, loop, seen, waits, sinceWork, late, afterStop>>
  BY DEF IInv, TypeOK, Joined, history
<1>a. PlaceInv(m)'
  BY <1>2 DEF ManagerInv, PlaceInv, Handling, InPass, AtEnd, MoreQueues, At, Current
<1>b. CountInv(m)' /\ TurnInv(m)' /\ SeenInv(m)'
  BY <1>2 DEF ManagerInv, CountInv, TurnInv, SeenInv, NextLook, Handling, InPass, At
<1>c. HaltInv(m)'
  BY <1>2 DEF ManagerInv, HaltInv, NextLook, Handling, At
<1> QED
  BY <1>1, <1>a, <1>b, <1>c, OthersHold DEF ManagerInv

--------------------------------------------------------------------------------
(* The loop between the handlers.                                             *)

(* No queue changes, nor anything of another manager's.                       *)
Quiet(m) ==
  /\ UNCHANGED <<queue, life, stopped, waits, afterStop>>
  /\ due' \in [Managers -> BOOLEAN]
  /\ seen' \in [Queues -> BOOLEAN]
  /\ sinceWork' \in [Managers -> Nat]
  /\ late' \in [Managers -> Nat]
  /\ \A q \in Queues \ Received(m) : seen'[q] = seen[q]
  /\ \A n \in Managers \ {m} : sinceWork'[n] = sinceWork[n] /\ late'[n] = late[n]

(* The locals of a manager become l.                                          *)
LEMMA MoveFact ==
  ASSUME IInv, NEW m \in Managers, NEW l \in Locals, Becomes(m, l), Quiet(m)
  PROVE  TypeOK' /\ FitInv' /\ OnlyOf(m) /\ loop'[m] = l
<1>1. loop \in [Managers -> Locals] /\ loop' = [loop EXCEPT ![m] = l]
  BY DEF IInv, TypeOK, Becomes
<1>2. TypeOK'
  BY <1>1 DEF IInv, TypeOK, Quiet
<1>3. FitInv'
  BY DEF IInv, FitInv, Quiet
<1>4. OnlyOf(m) /\ loop'[m] = l
  BY <1>1 DEF OnlyOf, Quiet
<1> QED
  BY <1>2, <1>3, <1>4

LEMMA LoopEndsHolds ==
  ASSUME IInv, NEW m \in Managers, LoopEnds(m)
  PROVE  IInv'
<1>1. Exited \in Locals
  BY FreshFact
<1>m. Becomes(m, Exited) /\ Quiet(m)
  BY DEF LoopEnds, history, IInv, TypeOK, Quiet
<1>2. TypeOK' /\ FitInv' /\ OnlyOf(m) /\ loop'[m] = Exited
  BY <1>1, <1>m, MoveFact
<1>3. /\ At(m, "top") /\ stopped[m] /\ ManagerInv(m)
      /\ UNCHANGED <<queue, life, stopped, seen, waits, sinceWork, late, afterStop>>
  BY DEF LoopEnds, history, IInv
<1>4. /\ loop'[m].pc = "exited" /\ loop'[m].at = 1 /\ ~loop'[m].inPlace
      /\ loop'[m].works = 0 /\ loop'[m].ticks = 0
  BY <1>2 DEF Exited, Fresh
<1>a. PlaceInv(m)'
  BY <1>3, <1>4, ReceivedFact DEF ManagerInv, PlaceInv, Handling, InPass, At
<1>b. CountInv(m)'
  BY <1>3, <1>4, IntervalAssumption DEF ManagerInv, CountInv, Handling, At
<1>c. TurnInv(m)'
  BY <1>3, <1>4, ReceivedFact
  DEF ManagerInv, TurnInv, PlaceInv, NextLook, Handling, InPass, AtEnd, At
<1>d. SeenInv(m)' /\ HaltInv(m)'
  BY <1>3, <1>4 DEF ManagerInv, SeenInv, HaltInv, Handling, InPass, At
<1> QED
  BY <1>2, <1>a, <1>b, <1>c, <1>d, OthersHold DEF ManagerInv

LEMMA PassBeginsHolds ==
  ASSUME IInv, NEW m \in Managers, PassBegins(m)
  PROVE  IInv'
<1> DEFINE l == [loop[m] EXCEPT !.pc = "look", !.at = 1, !.backlog = FALSE]
<1>0. loop[m] \in Locals
  BY DEF IInv, TypeOK
<1>1. l \in Locals
  <2>1. 1 \in Nat \ {0}
    OBVIOUS
  <2> QED
    BY <1>0, <2>1, LocalsFact DEF Labels
<1>m. Becomes(m, l) /\ Quiet(m)
  BY DEF PassBegins, history, IInv, TypeOK, Quiet
<1> HIDE DEF l
<1>2. TypeOK' /\ FitInv' /\ OnlyOf(m) /\ loop'[m] = l
  BY <1>1, <1>m, MoveFact
<1>3. /\ At(m, "top") /\ ~stopped[m] /\ ManagerInv(m)
      /\ UNCHANGED <<queue, life, stopped, seen, waits, sinceWork, late, afterStop>>
  BY DEF PassBegins, history, IInv
<1>4. /\ loop'[m].pc = "look" /\ loop'[m].at = 1 /\ loop'[m].inPlace = loop[m].inPlace
      /\ loop'[m].works = loop[m].works /\ loop'[m].ticks = loop[m].ticks
  BY <1>0, <1>2 DEF l, Locals
<1>a. PlaceInv(m)'
  BY <1>3, <1>4, ReceivedFact DEF ManagerInv, PlaceInv, Handling, InPass, At
<1>b. CountInv(m)'
  BY <1>3, <1>4 DEF ManagerInv, CountInv, Handling, At
<1>c. TurnInv(m)'
  BY <1>3, <1>4, ReceivedFact
  DEF ManagerInv, TurnInv, PlaceInv, NextLook, Handling, InPass, AtEnd, At
<1>d. SeenInv(m)'
  BY <1>4, ReceivedFact DEF SeenInv, Handling, InPass, At
<1>e. HaltInv(m)'
  BY <1>3, <1>4 DEF ManagerInv, HaltInv, NextLook, Handling, At
<1> QED
  BY <1>2, <1>a, <1>b, <1>c, <1>d, <1>e, OthersHold DEF ManagerInv

(* The queue looked at is empty, so it waits for nothing.                     *)
LEMMA LookEmptyHolds ==
  ASSUME IInv, NEW m \in Managers, LookEmpty(m)
  PROVE  IInv'
<1> DEFINE l == [loop[m] EXCEPT !.at = @ + 1]
<1>0. loop[m] \in Locals /\ loop[m].at \in Nat \ {0}
  BY DEF IInv, TypeOK, Locals
<1>1. l \in Locals
  BY <1>0 DEF Locals
<1>q. /\ loop[m].at \in 1 .. Len(Rx[m])
      /\ Current(m) = Rx[m][loop[m].at] /\ Current(m) \in Queues /\ Current(m) \in Received(m)
  BY CurrentFact DEF LookEmpty, IInv
<1>m. Becomes(m, l) /\ Quiet(m)
  BY <1>q DEF LookEmpty, IInv, TypeOK, Quiet
<1> HIDE DEF l
<1>2. TypeOK' /\ FitInv' /\ OnlyOf(m) /\ loop'[m] = l
  BY <1>1, <1>m, MoveFact
<1>3. /\ At(m, "look") /\ queue[Current(m)] = <<>> /\ ManagerInv(m)
      /\ \A q \in Queues : seen'[q] = IF q = Current(m) THEN FALSE ELSE seen[q]
      /\ UNCHANGED <<queue, life, stopped, waits, sinceWork, late, afterStop>>
  BY <1>q DEF LookEmpty, IInv, TypeOK
<1>4. /\ loop'[m].pc = "look" /\ loop'[m].at = loop[m].at + 1
      /\ loop'[m].inPlace = loop[m].inPlace /\ loop'[m].backlog = loop[m].backlog
      /\ loop'[m].works = loop[m].works /\ loop'[m].ticks = loop[m].ticks
  BY <1>0, <1>2, <1>3 DEF l, Locals, At
<1>a. PlaceInv(m)'
  BY <1>q, <1>3, <1>4, ReceivedFact DEF ManagerInv, PlaceInv, Handling, InPass, At
<1>b. CountInv(m)'
  BY <1>3, <1>4 DEF ManagerInv, CountInv, Handling, At
<1>c. TurnInv(m)'
  <2>1. waits \in [Queues -> Nat]
    BY DEF IInv, TypeOK
  <2>2. waits[Current(m)] = 0
    BY <1>q, <1>3, <2>1, ReceivedFact DEF ManagerInv, TurnInv
  <2>3. ASSUME NEW i \in DOMAIN Rx[m]
        PROVE  waits[Rx[m][i]] <= loop[m].at - i + (IF i < loop[m].at + 1 THEN 0 ELSE Len(Rx[m]))
    <3>1. i \in 1 .. Len(Rx[m]) /\ waits[Rx[m][i]] \in Nat
      BY <2>1, ReceivedFact
    <3>2. waits[Rx[m][i]] <= loop[m].at - 1 - i + (IF i < loop[m].at THEN 0 ELSE Len(Rx[m]))
      BY <1>3, <2>3 DEF ManagerInv, TurnInv, NextLook, Handling, At
    <3>3. CASE i = loop[m].at
      <4>1. waits[Rx[m][i]] = 0 /\ i < loop[m].at + 1
        BY <1>0, <1>q, <2>2, <3>3
      <4> QED
        BY <1>0, <3>3, <4>1
    <3>4. CASE i # loop[m].at
      <4>1. waits[Rx[m][i]] + 1 <= loop[m].at - i + (IF i < loop[m].at + 1 THEN 0 ELSE Len(Rx[m]))
        BY <1>q, <3>1, <3>2, <3>4, RoundFact, ReceivedFact
      <4> QED
        BY <1>0, <3>1, <4>1, ReceivedFact
    <3> QED
      BY <3>3, <3>4
  <2>4. NextLook(m)' = loop[m].at + 1
    BY <1>4 DEF NextLook, Handling
  <2> QED
    BY <1>0, <1>3, <2>3, <2>4 DEF ManagerInv, TurnInv
<1>d. SeenInv(m)'
  <2>1. ASSUME NEW i \in DOMAIN Rx[m], i < loop[m].at + 1, seen'[Rx[m][i]]
        PROVE  loop[m].backlog
    <3>1. Rx[m][i] # Current(m) /\ seen[Rx[m][i]]
      BY <1>3, <2>1, ReceivedFact
    <3>2. i < loop[m].at
      BY <1>q, <2>1, <3>1, ReceivedFact
    <3> QED
      BY <1>3, <2>1, <3>1, <3>2 DEF ManagerInv, SeenInv, InPass, At
  <2> QED
    BY <1>4, <2>1 DEF SeenInv, Handling, InPass, At
<1>e. HaltInv(m)'
  <2>1. afterStop[m] \in Nat
    BY DEF IInv, TypeOK
  <2> QED
    BY <1>0, <1>3, <1>4, <2>1 DEF ManagerInv, HaltInv, NextLook, Handling, At
<1> QED
  BY <1>2, <1>a, <1>b, <1>c, <1>d, <1>e, OthersHold DEF ManagerInv

(* All queues have been looked at: what was seen in them is in avail.         *)
LEMMA PassEndsHolds ==
  ASSUME IInv, NEW m \in Managers, PassEnds(m)
  PROVE  IInv'
<1> DEFINE l == [loop[m] EXCEPT !.pc = IF loop[m].backlog THEN "top" ELSE "idle"]
<1>0. loop[m] \in Locals /\ loop[m].at \in Nat
  BY DEF IInv, TypeOK, Locals
<1>1. l \in Locals
  BY <1>0, LocalsFact DEF Labels
<1>m. Becomes(m, l) /\ Quiet(m)
  BY DEF PassEnds, IInv, TypeOK, Quiet
<1>2. TypeOK' /\ FitInv' /\ OnlyOf(m) /\ loop'[m] = l
  BY <1>1, <1>m, MoveFact
<1>3. /\ At(m, "look") /\ ManagerInv(m) /\ AtEnd(m)
      /\ sinceWork'[m] = IF loop[m].backlog THEN sinceWork[m] ELSE 0
      /\ UNCHANGED <<queue, life, stopped, seen, waits, late, afterStop>>
  BY <1>0, ReceivedFact
  DEF PassEnds, IInv, TypeOK, ManagerInv, PlaceInv, InPass, AtEnd, MoreQueues, At
<1>4. /\ loop'[m].pc = IF loop[m].backlog THEN "top" ELSE "idle"
      /\ loop'[m].at = loop[m].at /\ loop'[m].inPlace = loop[m].inPlace
      /\ loop'[m].works = loop[m].works /\ loop'[m].ticks = loop[m].ticks
  BY <1>0, <1>2 DEF l, Locals
<1>a. PlaceInv(m)'
  BY <1>3, <1>4 DEF ManagerInv, PlaceInv, Handling, InPass, AtEnd, At
<1>b. CountInv(m)'
  <2>1. loop[m].works \in Nat /\ sinceWork[m] \in Nat /\ WorkInterval \in Nat
    BY <1>0, IntervalAssumption DEF IInv, TypeOK, Locals
  <2> QED
    BY <1>3, <1>4, <2>1 DEF ManagerInv, CountInv, Handling, At
<1>c. TurnInv(m)'
  BY <1>3, <1>4 DEF ManagerInv, TurnInv, NextLook, Handling, At
<1>d. SeenInv(m)'
  <2>1. ASSUME ~loop[m].backlog, NEW i \in DOMAIN Rx[m]
        PROVE  ~seen[Rx[m][i]]
    <3>1. i < loop[m].at
      BY <1>3, ReceivedFact DEF AtEnd
    <3> QED
      BY <1>3, <2>1, <3>1 DEF ManagerInv, SeenInv, InPass, At
  <2> QED
    BY <1>3, <1>4, <2>1 DEF SeenInv, Handling, InPass, At
<1>e. HaltInv(m)'
  BY <1>3, <1>4 DEF ManagerInv, HaltInv, NextLook, Handling, At
<1> QED
  BY <1>2, <1>a, <1>b, <1>c, <1>d, <1>e, OthersHold DEF ManagerInv

LEMMA TimerReturnsHolds ==
  ASSUME IInv, NEW m \in Managers, TimerReturns(m)
  PROVE  IInv'
<1> DEFINE l == [loop[m] EXCEPT !.pc = loop[m].then, !.then = "top"]
<1>0. loop[m] \in Locals /\ loop[m].then \in {"look", "top", "sleep"}
  BY DEF IInv, TypeOK, Locals
<1>1. l \in Locals
  BY <1>0, LocalsFact DEF Labels
<1>m. Becomes(m, l) /\ Quiet(m)
  BY DEF TimerReturns, history, IInv, TypeOK, Quiet
<1>2. TypeOK' /\ FitInv' /\ OnlyOf(m) /\ loop'[m] = l
  BY <1>1, <1>m, MoveFact
<1>3. /\ At(m, "timer") /\ ManagerInv(m)
      /\ UNCHANGED <<queue, life, stopped, seen, waits, sinceWork, late, afterStop>>
  BY DEF TimerReturns, history, IInv
<1>4. /\ loop'[m].pc = loop[m].then
      /\ loop'[m].at = loop[m].at /\ loop'[m].inPlace = loop[m].inPlace
      /\ loop'[m].backlog = loop[m].backlog
      /\ loop'[m].works = loop[m].works /\ loop'[m].ticks = loop[m].ticks
  BY <1>0, <1>2 DEF l, Locals
<1>a. PlaceInv(m)'
  BY <1>0, <1>3, <1>4 DEF ManagerInv, PlaceInv, Handling, InPass, AtEnd, At
<1>b. CountInv(m)'
  BY <1>0, <1>3, <1>4 DEF ManagerInv, CountInv, Handling, At
<1>c. TurnInv(m)' /\ HaltInv(m)'
  BY <1>0, <1>3, <1>4 DEF ManagerInv, TurnInv, HaltInv, NextLook, Handling, At
<1>d. SeenInv(m)'
  BY <1>0, <1>3, <1>4 DEF ManagerInv, SeenInv, Handling, InPass, At
<1> QED
  BY <1>2, <1>a, <1>b, <1>c, <1>d, OthersHold DEF ManagerInv

LEMMA WakeHolds ==
  ASSUME IInv, NEW m \in Managers, Wake(m)
  PROVE  IInv'
<1> DEFINE l == [loop[m] EXCEPT !.pc = "top"]
<1>0. loop[m] \in Locals
  BY DEF IInv, TypeOK
<1>1. l \in Locals
  BY <1>0, LocalsFact DEF Labels
<1>m. Becomes(m, l) /\ Quiet(m)
  BY DEF Wake, history, IInv, TypeOK, Quiet
<1>2. TypeOK' /\ FitInv' /\ OnlyOf(m) /\ loop'[m] = l
  BY <1>1, <1>m, MoveFact
<1>3. /\ At(m, "sleep") /\ ManagerInv(m)
      /\ UNCHANGED <<queue, life, stopped, seen, waits, sinceWork, late, afterStop>>
  BY DEF Wake, history, IInv
<1>4. /\ loop'[m].pc = "top"
      /\ loop'[m].at = loop[m].at /\ loop'[m].inPlace = loop[m].inPlace
      /\ loop'[m].works = loop[m].works /\ loop'[m].ticks = loop[m].ticks
  BY <1>0, <1>2 DEF l, Locals
<1>a. PlaceInv(m)'
  BY <1>3, <1>4 DEF ManagerInv, PlaceInv, Handling, InPass, AtEnd, At
<1>b. CountInv(m)'
  BY <1>3, <1>4 DEF ManagerInv, CountInv, Handling, At
<1>c. TurnInv(m)' /\ HaltInv(m)' /\ SeenInv(m)'
  BY <1>3, <1>4 DEF ManagerInv, TurnInv, HaltInv, SeenInv, NextLook, Handling, InPass, At
<1> QED
  BY <1>2, <1>a, <1>b, <1>c, OthersHold DEF ManagerInv

--------------------------------------------------------------------------------
(* The counter, and the handlers it decides upon.                             *)

(* Either the timer handler is called, or a check has gone by without it,     *)
(* which happens only when counter is no multiple of timer_mod.               *)
LEMMA CheckTimerFact ==
  ASSUME IInv, NEW m \in Managers, NEW l \in Locals,
         NEW next \in {"look", "top", "sleep"}, CheckTimer(m, l, next)
  PROVE  /\ loop'[m] \in Locals /\ Becomes(m, loop'[m])
         /\ \/ loop'[m].pc = next
            \/ loop'[m].pc = "timer" /\ loop'[m].then = next
         /\ loop'[m].at = l.at /\ loop'[m].inPlace = l.inPlace /\ loop'[m].backlog = l.backlog
         /\ loop'[m].works = l.works /\ loop'[m].ticks = l.ticks
         /\ due' \in [Managers -> BOOLEAN]
         /\ late' \in [Managers -> Nat]
         /\ \A n \in Managers \ {m} : late'[n] = late[n]
         /\ late'[m] = 0 \/ (l.ticks # 0 /\ late'[m] <= late[m] + 1)
<1>0. /\ loop \in [Managers -> Locals] /\ due \in [Managers -> BOOLEAN]
      /\ late \in [Managers -> Nat] /\ TimerMod[m] \in Nat /\ l.ticks \in Nat
  BY IntervalAssumption DEF IInv, TypeOK, Locals
<1> DEFINE calls == due[m] /\ l.ticks = 0
           l2 == IF calls THEN [l EXCEPT !.pc = "timer", !.then = next] ELSE [l EXCEPT !.pc = next]
<1>1. l2 \in Locals
  BY LocalsFact DEF Labels
<1>2. /\ l2.pc = next \/ (l2.pc = "timer" /\ l2.then = next)
      /\ l2.at = l.at /\ l2.inPlace = l.inPlace /\ l2.backlog = l.backlog
      /\ l2.works = l.works /\ l2.ticks = l.ticks
  BY DEF Locals
<1>3. loop' = [loop EXCEPT ![m] = l2]
  BY DEF CheckTimer, Becomes
<1> HIDE DEF l2
<1>4. loop'[m] = l2 /\ Becomes(m, loop'[m])
  BY <1>0, <1>3 DEF Becomes
<1>5. due' \in [Managers -> BOOLEAN]
  BY <1>0 DEF CheckTimer
<1>6. /\ late' = [late EXCEPT ![m] = IF due[m] /\ ~calls THEN UpTo(late[m], TimerMod[m]) ELSE 0]
      /\ UpTo(late[m], TimerMod[m]) \in Nat /\ UpTo(late[m], TimerMod[m]) <= late[m] + 1
  BY <1>0, UpToFact DEF CheckTimer
<1>7. /\ late' \in [Managers -> Nat]
      /\ \A n \in Managers \ {m} : late'[n] = late[n]
      /\ late'[m] = 0 \/ (l.ticks # 0 /\ late'[m] <= late[m] + 1)
  BY <1>0, <1>6
<1> QED
  BY <1>1, <1>2, <1>4, <1>5, <1>7

LEMMA CountedFact ==
  ASSUME IInv, NEW m \in Managers
  PROVE  /\ Counted(m) \in Locals
         /\ Counted(m).works = IF loop[m].works + 1 = WorkInterval THEN 0 ELSE loop[m].works + 1
         /\ Counted(m).ticks = IF loop[m].ticks + 1 = TimerMod[m] THEN 0 ELSE loop[m].ticks + 1
         /\ Counted(m).ticks \in 0 .. TimerMod[m] - 1
         /\ Counted(m).at = loop[m].at /\ Counted(m).inPlace = loop[m].inPlace
         /\ Counted(m).backlog = loop[m].backlog
<1>0. loop[m] \in Locals /\ ManagerInv(m)
  BY DEF IInv, TypeOK
<1>1. /\ loop[m].works \in 0 .. WorkInterval - 1 /\ WorkInterval \in Nat \ {0}
      /\ loop[m].ticks \in 0 .. TimerMod[m] - 1 /\ TimerMod[m] \in Nat \ {0}
  BY <1>0, IntervalAssumption DEF Locals, ManagerInv, CountInv
<1> DEFINE works == (loop[m].works + 1) % WorkInterval
           ticks == (loop[m].ticks + 1) % TimerMod[m]
<1>2. /\ works = IF loop[m].works + 1 = WorkInterval THEN 0 ELSE loop[m].works + 1
      /\ works \in 0 .. WorkInterval - 1
      /\ ticks = IF loop[m].ticks + 1 = TimerMod[m] THEN 0 ELSE loop[m].ticks + 1
      /\ ticks \in 0 .. TimerMod[m] - 1
  BY <1>1, CountFact
<1>3. Counted(m) = [loop[m] EXCEPT !.works = works, !.ticks = ticks]
  BY DEF Counted
<1> HIDE DEF works, ticks
<1>4. Counted(m) \in Locals
  <2> DEFINE one == [loop[m] EXCEPT !.works = works]
             two == [one EXCEPT !.ticks = ticks]
  <2>1. one \in Locals
    BY <1>0, <1>2, LocalsFact
  <2>2. Counted(m) = two
    BY <1>3
  <2> HIDE DEF one
  <2>3. ticks \in Nat
    BY <1>1, <1>2
  <2>4. two \in Locals
    BY <2>1, <2>3, LocalsFact
  <2> QED
    BY <2>2, <2>4
<1>5. /\ Counted(m).works = works /\ Counted(m).ticks = ticks
      /\ Counted(m).at = loop[m].at /\ Counted(m).inPlace = loop[m].inPlace
      /\ Counted(m).backlog = loop[m].backlog
  BY <1>0, <1>3 DEF Locals
<1> QED
  BY <1>2, <1>4, <1>5

LEMMA MovedOnFact ==
  ASSUME IInv, NEW m \in Managers, NEW left \in BOOLEAN
  PROVE  /\ MovedOn(m, left) \in Locals
         /\ MovedOn(m, left).works = Counted(m).works /\ MovedOn(m, left).ticks = Counted(m).ticks
         /\ MovedOn(m, left).at = loop[m].at + 1 /\ MovedOn(m, left).inPlace = loop[m].inPlace
         /\ MovedOn(m, left).backlog = (loop[m].backlog \/ left)
<1> DEFINE c == Counted(m)
<1>1. c \in Locals /\ c.at = loop[m].at /\ c.inPlace = loop[m].inPlace /\ c.backlog = loop[m].backlog
  BY CountedFact
<1>2. MovedOn(m, left) = [c EXCEPT !.backlog = c.backlog \/ left, !.at = c.at + 1]
  BY DEF MovedOn
<1> HIDE DEF c
<1>3. c.at + 1 \in Nat \ {0} /\ (c.backlog \/ left) \in BOOLEAN
  BY <1>1 DEF Locals
<1>4. MovedOn(m, left) \in Locals
  <2> DEFINE one == [c EXCEPT !.backlog = c.backlog \/ left]
             two == [one EXCEPT !.at = c.at + 1]
  <2>1. one \in Locals
    BY <1>1, <1>3, LocalsFact
  <2>2. MovedOn(m, left) = two
    BY <1>2
  <2> HIDE DEF one
  <2>3. two \in Locals
    BY <1>3, <2>1, LocalsFact
  <2> QED
    BY <2>2, <2>3
<1>5. /\ MovedOn(m, left).works = c.works /\ MovedOn(m, left).ticks = c.ticks
      /\ MovedOn(m, left).at = c.at + 1 /\ MovedOn(m, left).inPlace = c.inPlace
      /\ MovedOn(m, left).backlog = (c.backlog \/ left)
  BY <1>1, <1>2 DEF Locals
<1> QED
  BY <1>1, <1>4, <1>5 DEF c

(* A message is counted. Every WorkInterval-th time that is the end of the    *)
(* wait for the work handler; else it has waited for one message more, and so *)
(* has the timer, if it is due.                                               *)
LEMMA CountHolds ==
  ASSUME IInv, NEW m \in Managers, Count(m)
  PROVE  IInv'
<1> DEFINE left == queue[Current(m)] # <<>>
           l == MovedOn(m, left)
<1>0. /\ loop[m] \in Locals /\ loop[m].at \in Nat \ {0} /\ ManagerInv(m) /\ At(m, "count")
      /\ sinceWork \in [Managers -> Nat] /\ late \in [Managers -> Nat]
      /\ seen \in [Queues -> BOOLEAN] /\ due \in [Managers -> BOOLEAN]
  BY DEF IInv, TypeOK, Locals, Count
<1>n. MoreQueues(m) /\ ~loop[m].inPlace
  BY <1>0 DEF ManagerInv, PlaceInv, Handling, At
<1>q. /\ loop[m].at \in 1 .. Len(Rx[m])
      /\ Current(m) = Rx[m][loop[m].at] /\ Current(m) \in Queues /\ Current(m) \in Received(m)
  BY <1>n, CurrentFact DEF IInv
<1>l. left \in BOOLEAN
  OBVIOUS
<1>1. /\ l \in Locals /\ l.at = loop[m].at + 1 /\ ~l.inPlace /\ l.backlog = (loop[m].backlog \/ left)
      /\ l.works = IF loop[m].works + 1 = WorkInterval THEN 0 ELSE loop[m].works + 1
      /\ l.ticks = IF loop[m].ticks + 1 = TimerMod[m] THEN 0 ELSE loop[m].ticks + 1
      /\ l.ticks \in 0 .. TimerMod[m] - 1
  BY <1>l, <1>n, CountedFact, MovedOnFact
<1>s. /\ seen' = [seen EXCEPT ![Current(m)] = left]
      /\ UNCHANGED <<queue, life, stopped, waits, afterStop>>
      /\ IF l.works = 0
         THEN /\ Becomes(m, [l EXCEPT !.pc = "work"])
              /\ sinceWork' = [sinceWork EXCEPT ![m] = 0]
              /\ UNCHANGED <<due, late>>
         ELSE CheckTimer(m, l, "look") /\ UNCHANGED sinceWork
  BY DEF Count
<1> HIDE DEF l
<1>2. /\ loop'[m] \in Locals /\ Becomes(m, loop'[m]) /\ Quiet(m)
      /\ \/ loop'[m].pc = "work" /\ l.works = 0 /\ sinceWork'[m] = 0 /\ late'[m] = late[m]
         \/ /\ l.works # 0 /\ sinceWork'[m] = sinceWork[m]
            /\ loop'[m].pc = "look" \/ (loop'[m].pc = "timer" /\ loop'[m].then = "look")
            /\ late'[m] = 0 \/ (l.ticks # 0 /\ late'[m] <= late[m] + 1)
      /\ loop'[m].at = loop[m].at + 1 /\ ~loop'[m].inPlace
      /\ loop'[m].backlog = (loop[m].backlog \/ left)
      /\ loop'[m].works = l.works /\ loop'[m].ticks = l.ticks
  <2>0. loop \in [Managers -> Locals] /\ seen' \in [Queues -> BOOLEAN]
        /\ \A q \in Queues \ Received(m) : seen'[q] = seen[q]
    BY <1>0, <1>q, <1>s DEF IInv, TypeOK
  <2>1. CASE l.works = 0
    <3> DEFINE w == [l EXCEPT !.pc = "work"]
    <3>1. w \in Locals
      BY <1>1, LocalsFact DEF Labels
    <3>2. /\ w.pc = "work" /\ w.at = l.at /\ w.inPlace = l.inPlace /\ w.backlog = l.backlog
          /\ w.works = l.works /\ w.ticks = l.ticks
      BY <1>1 DEF Locals
    <3>3. loop' = [loop EXCEPT ![m] = w]
      BY <1>s, <2>1 DEF Becomes
    <3> HIDE DEF w
    <3>4. loop'[m] = w /\ Becomes(m, loop'[m])
      BY <2>0, <3>3 DEF Becomes
    <3>5. sinceWork' = [sinceWork EXCEPT ![m] = 0] /\ UNCHANGED <<due, late>>
      BY <1>s, <2>1
    <3>6. Quiet(m) /\ sinceWork'[m] = 0 /\ late'[m] = late[m]
      BY <1>0, <1>s, <2>0, <3>5 DEF Quiet
    <3> QED
      BY <1>1, <2>1, <3>1, <3>2, <3>4, <3>6
  <2>2. CASE l.works # 0
    <3>1. CheckTimer(m, l, "look") /\ UNCHANGED sinceWork
      BY <1>s, <2>2
    <3>2. /\ loop'[m] \in Locals /\ Becomes(m, loop'[m])
          /\ loop'[m].pc = "look" \/ (loop'[m].pc = "timer" /\ loop'[m].then = "look")
          /\ loop'[m].at = l.at /\ loop'[m].inPlace = l.inPlace /\ loop'[m].backlog = l.backlog
          /\ loop'[m].works = l.works /\ loop'[m].ticks = l.ticks
          /\ due' \in [Managers -> BOOLEAN]
          /\ late' \in [Managers -> Nat]
          /\ \A n \in Managers \ {m} : late'[n] = late[n]
          /\ late'[m] = 0 \/ (l.ticks # 0 /\ late'[m] <= late[m] + 1)
      BY <1>1, <3>1, CheckTimerFact
    <3>3. Quiet(m)
      BY <1>0, <1>s, <2>0, <3>1, <3>2 DEF Quiet
    <3> QED
      BY <1>1, <2>2, <3>1, <3>2, <3>3
  <2> QED
    BY <2>1, <2>2
<1>3. TypeOK' /\ FitInv' /\ OnlyOf(m)
  BY <1>2, MoveFact
<1>a. PlaceInv(m)'
  BY <1>0, <1>q, <1>s, <1>2, ReceivedFact DEF ManagerInv, PlaceInv, Handling, InPass, At
<1>b. CountInv(m)'
  <2>1. /\ loop[m].works \in Nat /\ loop[m].ticks \in Nat /\ sinceWork[m] \in Nat /\ late[m] \in Nat
        /\ late'[m] \in Nat
        /\ WorkInterval \in Nat \ {0} /\ TimerMod[m] \in Nat \ {0}
        /\ sinceWork[m] <= loop[m].works + 1 /\ sinceWork[m] <= WorkInterval
        /\ late[m] <= loop[m].ticks /\ late[m] < TimerMod[m]
    BY <1>0, <1>3, IntervalAssumption DEF TypeOK, Locals, ManagerInv, CountInv, Handling, At
  <2>2. CASE loop'[m].pc = "work"
    BY <1>1, <1>2, <2>1, <2>2 DEF CountInv, Handling, At
  <2>3. CASE loop'[m].pc # "work"
    <3>1. loop'[m].works = loop[m].works + 1 /\ sinceWork'[m] = sinceWork[m]
      BY <1>1, <1>2, <2>3
    <3>2. late'[m] <= loop'[m].ticks /\ loop'[m].ticks \in 0 .. TimerMod[m] - 1
      BY <1>1, <1>2, <2>1, <2>3
    <3>3. late'[m] < TimerMod[m]
      BY <2>1, <3>2
    <3>4. loop'[m].pc \in {"look", "timer"}
      BY <1>2, <2>3
    <3> QED
      BY <2>1, <3>1, <3>2, <3>3, <3>4 DEF CountInv, Handling, At
  <2> QED
    BY <2>2, <2>3
<1>c. TurnInv(m)'
  <2>1. NextLook(m)' = NextLook(m)
    BY <1>0, <1>2 DEF NextLook, Handling, At
  <2> QED
    BY <1>0, <1>s, <2>1 DEF ManagerInv, TurnInv
<1>d. SeenInv(m)'
  <2>1. ASSUME NEW i \in DOMAIN Rx[m], i < loop[m].at + 1, seen'[Rx[m][i]]
        PROVE  loop[m].backlog \/ left
    <3>1. CASE Rx[m][i] = Current(m)
      BY <1>0, <1>q, <1>s, <2>1, <3>1
    <3>2. CASE Rx[m][i] # Current(m)
      <4>1. seen[Rx[m][i]] /\ i < loop[m].at
        BY <1>0, <1>q, <1>s, <2>1, <3>2, ReceivedFact
      <4> QED
        BY <1>0, <2>1, <4>1 DEF ManagerInv, SeenInv, Handling, At
    <3> QED
      BY <3>1, <3>2
  <2> QED
    BY <1>2, <2>1 DEF SeenInv, Handling, InPass, At
<1>e. HaltInv(m)'
  BY <1>0, <1>s, <1>2 DEF ManagerInv, HaltInv, NextLook, Handling, At
<1> QED
  BY <1>3, <1>a, <1>b, <1>c, <1>d, <1>e, OthersHold DEF ManagerInv

LEMMA WorkReturnsHolds ==
  ASSUME IInv, NEW m \in Managers, WorkReturns(m)
  PROVE  IInv'
<1> DEFINE l == loop[m]
<1>0. /\ l \in Locals /\ l.at \in Nat /\ ManagerInv(m) /\ At(m, "work")
      /\ UNCHANGED <<queue, life, stopped, seen, waits, sinceWork, afterStop>>
  BY DEF IInv, TypeOK, Locals, WorkReturns
<1>1. CheckTimer(m, l, "look")
  BY DEF WorkReturns
<1>2. /\ loop'[m] \in Locals /\ Becomes(m, loop'[m])
      /\ loop'[m].pc = "look" \/ (loop'[m].pc = "timer" /\ loop'[m].then = "look")
      /\ loop'[m].at = l.at /\ loop'[m].inPlace = l.inPlace /\ loop'[m].backlog = l.backlog
      /\ loop'[m].works = l.works /\ loop'[m].ticks = l.ticks
      /\ due' \in [Managers -> BOOLEAN]
      /\ late' \in [Managers -> Nat]
      /\ \A n \in Managers \ {m} : late'[n] = late[n]
      /\ late'[m] = 0 \/ (l.ticks # 0 /\ late'[m] <= late[m] + 1)
  BY <1>0, <1>1, CheckTimerFact
<1>3. Quiet(m)
  BY <1>0, <1>2 DEF Quiet, IInv, TypeOK
<1>4. TypeOK' /\ FitInv' /\ OnlyOf(m)
  BY <1>2, <1>3, MoveFact
<1>a. PlaceInv(m)'
  BY <1>0, <1>2 DEF ManagerInv, PlaceInv, Handling, InPass, AtEnd, At
<1>b. CountInv(m)'
  <2>1. /\ late[m] \in Nat /\ late'[m] \in Nat /\ l.ticks \in 0 .. TimerMod[m] - 1
        /\ TimerMod[m] \in Nat \ {0} /\ (l.ticks = 0 \/ late[m] < l.ticks)
    BY <1>0, <1>2, IntervalAssumption DEF IInv, TypeOK, ManagerInv, CountInv, At
  <2>2. late'[m] <= l.ticks /\ late'[m] < TimerMod[m]
    BY <1>2, <2>1
  <2>3. loop'[m].pc \in {"look", "timer"}
    BY <1>2
  <2> QED
    BY <1>0, <1>2, <2>1, <2>2, <2>3 DEF ManagerInv, CountInv, Handling, At
<1>c. TurnInv(m)' /\ HaltInv(m)'
  BY <1>0, <1>2 DEF ManagerInv, TurnInv, HaltInv, NextLook, Handling, At
<1>d. SeenInv(m)'
  BY <1>0, <1>2 DEF ManagerInv, SeenInv, Handling, InPass, At
<1> QED
  BY <1>4, <1>a, <1>b, <1>c, <1>d, OthersHold DEF ManagerInv

(* An idle pass is counted too; the work handler has just been called.        *)
LEMMA IdleWorkReturnsHolds ==
  ASSUME IInv, NEW m \in Managers, NEW more \in BOOLEAN, IdleWorkReturns(m, more)
  PROVE  IInv'
<1> DEFINE l == Counted(m)
           next == IF more THEN "top" ELSE "sleep"
<1>0. /\ loop[m] \in Locals /\ loop[m].at \in Nat /\ ManagerInv(m) /\ At(m, "idle")
      /\ UNCHANGED <<queue, life, stopped, seen, waits, sinceWork, afterStop>>
  BY DEF IInv, TypeOK, Locals, IdleWorkReturns
<1>1. CheckTimer(m, l, next) /\ next \in {"top", "sleep"}
  BY DEF IdleWorkReturns
<1>2. /\ l \in Locals /\ l.at = loop[m].at /\ l.inPlace = loop[m].inPlace
      /\ l.ticks = IF loop[m].ticks + 1 = TimerMod[m] THEN 0 ELSE loop[m].ticks + 1
      /\ l.ticks \in 0 .. TimerMod[m] - 1
  BY CountedFact
<1> HIDE DEF l, next
<1>3. /\ loop'[m] \in Locals /\ Becomes(m, loop'[m])
      /\ loop'[m].pc = next \/ (loop'[m].pc = "timer" /\ loop'[m].then = next)
      /\ loop'[m].at = l.at /\ loop'[m].inPlace = l.inPlace
      /\ loop'[m].works = l.works /\ loop'[m].ticks = l.ticks
      /\ due' \in [Managers -> BOOLEAN]
      /\ late' \in [Managers -> Nat]
      /\ \A n \in Managers \ {m} : late'[n] = late[n]
      /\ late'[m] = 0 \/ (l.ticks # 0 /\ late'[m] <= late[m] + 1)
  BY <1>1, <1>2, CheckTimerFact
<1>4. Quiet(m)
  BY <1>0, <1>3 DEF Quiet, IInv, TypeOK
<1>5. TypeOK' /\ FitInv' /\ OnlyOf(m)
  BY <1>3, <1>4, MoveFact
<1>6. loop'[m].pc \in {"top", "sleep", "timer"} /\ (loop'[m].pc = "timer" => loop'[m].then # "look")
  BY <1>1, <1>3
<1>a. PlaceInv(m)'
  BY <1>0, <1>2, <1>3, <1>6 DEF ManagerInv, PlaceInv, Handling, InPass, AtEnd, At
<1>b. CountInv(m)'
  <2>1. /\ late[m] \in Nat /\ late'[m] \in Nat /\ loop[m].ticks \in Nat /\ l.works \in Nat
        /\ TimerMod[m] \in Nat \ {0} /\ WorkInterval \in Nat
        /\ late[m] <= loop[m].ticks /\ sinceWork[m] = 0
    BY <1>0, <1>2, <1>3, IntervalAssumption DEF IInv, TypeOK, Locals, ManagerInv, CountInv, At
  <2>2. late'[m] <= l.ticks /\ late'[m] < TimerMod[m]
    BY <1>2, <1>3, <2>1
  <2> QED
    BY <1>0, <1>2, <1>3, <1>6, <2>1, <2>2 DEF CountInv, Handling, At
<1>c. TurnInv(m)' /\ HaltInv(m)'
  BY <1>0, <1>2, <1>3, <1>6 DEF ManagerInv, TurnInv, HaltInv, NextLook, Handling, At
<1>d. SeenInv(m)'
  BY <1>0, <1>6 DEF ManagerInv, SeenInv, Handling, InPass, At
<1> QED
  BY <1>5, <1>a, <1>b, <1>c, <1>d, OthersHold DEF ManagerInv

--------------------------------------------------------------------------------
(* Messages that are taken.                                                   *)

(* What the history says of it, and what becomes of what it says.             *)
LEMMA TakenFact ==
  ASSUME IInv, NEW m \in Managers, At(m, "look"), MoreQueues(m), Taken(m)
  PROVE  /\ waits' \in [Queues -> Nat]
         /\ sinceWork' \in [Managers -> Nat]
         /\ afterStop' \in [Managers -> Nat]
         /\ \A q \in Queues \ Received(m) : waits'[q] = waits[q]
         /\ \A n \in Managers \ {m} : sinceWork'[n] = sinceWork[n] /\ afterStop'[n] = afterStop[n]
         /\ waits'[Current(m)] = 0
         /\ \A q \in Received(m) : queue[q] = <<>> => waits'[q] = 0
         /\ \A i \in DOMAIN Rx[m] : waits'[Rx[m][i]]
               <= loop[m].at - i + (IF i < loop[m].at + 1 THEN 0 ELSE Len(Rx[m]))
         /\ sinceWork'[m] <= loop[m].works + 1 /\ sinceWork'[m] <= WorkInterval
         /\ afterStop'[m] <= loop[m].at
         /\ ~stopped[m] => afterStop'[m] = 0
<1>0. /\ waits \in [Queues -> Nat] /\ sinceWork \in [Managers -> Nat]
      /\ afterStop \in [Managers -> Nat] /\ ManagerInv(m)
      /\ loop[m].works \in 0 .. WorkInterval - 1 /\ WorkInterval \in Nat
  BY IntervalAssumption DEF IInv, TypeOK, Locals
<1>q. /\ loop[m].at \in 1 .. Len(Rx[m]) /\ Len(Rx[m]) \in Nat
      /\ Current(m) = Rx[m][loop[m].at] /\ Current(m) \in Queues /\ Current(m) \in Received(m)
  BY CurrentFact, ReceivedFact DEF IInv
<1>1. \A q \in Queues : /\ UpTo(waits[q], Len(Rx[m])) \in Nat
                       /\ UpTo(waits[q], Len(Rx[m])) <= waits[q] + 1
  BY <1>0, <1>q, UpToFact
<1>2. \A q \in Queues : waits'[q] =
        IF q \notin Received(m) THEN waits[q]
        ELSE IF q = Current(m) \/ queue[q] = <<>> THEN 0
        ELSE UpTo(waits[q], Len(Rx[m]))
  BY DEF Taken
<1>3. waits' \in [Queues -> Nat]
  BY <1>0, <1>1 DEF Taken
<1>4. ASSUME NEW i \in DOMAIN Rx[m]
      PROVE  waits'[Rx[m][i]] <= loop[m].at - i + (IF i < loop[m].at + 1 THEN 0 ELSE Len(Rx[m]))
  <2>1. /\ i \in 1 .. Len(Rx[m]) /\ Rx[m][i] \in Queues /\ Rx[m][i] \in Received(m)
        /\ waits[Rx[m][i]] \in Nat /\ waits'[Rx[m][i]] \in Nat
    BY <1>0, <1>3, ReceivedFact
  <2>2. waits[Rx[m][i]] <= loop[m].at - 1 - i + (IF i < loop[m].at THEN 0 ELSE Len(Rx[m]))
    BY <1>0, <1>4 DEF ManagerInv, TurnInv, NextLook, Handling, At
  <2>3. CASE i = loop[m].at
    <3>1. waits'[Rx[m][i]] = 0 /\ i < loop[m].at + 1
      BY <1>q, <1>2, <2>1, <2>3
    <3> QED
      BY <1>q, <2>3, <3>1
  <2>4. CASE i # loop[m].at
    <3>1. waits'[Rx[m][i]] <= waits[Rx[m][i]] + 1
      <4>1. waits'[Rx[m][i]] \in {0, UpTo(waits[Rx[m][i]], Len(Rx[m]))}
        BY <1>2, <2>1
      <4>2. UpTo(waits[Rx[m][i]], Len(Rx[m])) <= waits[Rx[m][i]] + 1
        BY <1>1, <2>1
      <4> QED
        BY <2>1, <4>1, <4>2
    <3>2. waits[Rx[m][i]] + 1 <= loop[m].at - i + (IF i < loop[m].at + 1 THEN 0 ELSE Len(Rx[m]))
      BY <1>q, <2>1, <2>2, <2>4, RoundFact
    <3> DEFINE bound == loop[m].at - i + (IF i < loop[m].at + 1 THEN 0 ELSE Len(Rx[m]))
    <3>3. bound \in Int /\ waits[Rx[m][i]] + 1 <= bound
      BY <1>q, <2>1, <3>2
    <3> HIDE DEF bound
    <3>4. waits'[Rx[m][i]] <= bound
      BY <2>1, <3>1, <3>3
    <3> QED
      BY <3>4 DEF bound
  <2> QED
    BY <2>3, <2>4
<1>5. /\ sinceWork' \in [Managers -> Nat]
      /\ \A n \in Managers \ {m} : sinceWork'[n] = sinceWork[n]
      /\ sinceWork'[m] <= loop[m].works + 1 /\ sinceWork'[m] <= WorkInterval
  <2>1. /\ UpTo(sinceWork[m], WorkInterval + 1) \in Nat
        /\ UpTo(sinceWork[m], WorkInterval + 1) <= sinceWork[m] + 1
    <3>1. sinceWork[m] \in Nat /\ WorkInterval + 1 \in Nat
      BY <1>0
    <3> QED
      BY <3>1, UpToFact
  <2>2. sinceWork[m] <= loop[m].works
    BY <1>0 DEF ManagerInv, CountInv, Handling, At
  <2>3. sinceWork' = [sinceWork EXCEPT ![m] = UpTo(sinceWork[m], WorkInterval + 1)]
    BY DEF Taken
  <2>4. sinceWork'[m] <= sinceWork[m] + 1 /\ sinceWork'[m] \in Nat
    BY <1>0, <2>1, <2>3
  <2>5. sinceWork'[m] <= loop[m].works + 1 /\ sinceWork'[m] <= WorkInterval
    BY <1>0, <2>2, <2>4
  <2> QED
    BY <1>0, <2>1, <2>3, <2>5
<1>6. /\ afterStop' \in [Managers -> Nat]
      /\ \A n \in Managers \ {m} : afterStop'[n] = afterStop[n]
      /\ afterStop'[m] <= loop[m].at
      /\ ~stopped[m] => afterStop'[m] = 0
  <2> DEFINE a == IF stopped[m] THEN UpTo(afterStop[m], Len(Rx[m]) + 1) ELSE afterStop[m]
  <2>1. a \in Nat /\ a <= afterStop[m] + 1 /\ (~stopped[m] => a = afterStop[m])
    <3>1. afterStop[m] \in Nat /\ Len(Rx[m]) + 1 \in Nat
      BY <1>0, <1>q
    <3>2. /\ UpTo(afterStop[m], Len(Rx[m]) + 1) \in Nat
          /\ UpTo(afterStop[m], Len(Rx[m]) + 1) <= afterStop[m] + 1
      BY <3>1, UpToFact
    <3> QED
      BY <3>1, <3>2
  <2>2. afterStop' = [afterStop EXCEPT ![m] = a]
    BY DEF Taken
  <2> HIDE DEF a
  <2>3. afterStop[m] < loop[m].at /\ (~stopped[m] => afterStop[m] = 0)
    BY <1>0 DEF ManagerInv, HaltInv, NextLook, Handling, At
  <2> QED
    BY <1>0, <1>q, <2>1, <2>2, <2>3
<1>7. /\ \A q \in Queues \ Received(m) : waits'[q] = waits[q]
      /\ waits'[Current(m)] = 0
      /\ \A q \in Received(m) : queue[q] = <<>> => waits'[q] = 0
  BY <1>2, <1>q, ReceivedFact
<1> QED
  BY <1>3, <1>4, <1>5, <1>6, <1>7

(* The message handler is called with the first message of the current queue, *)
(* which stays there if it is handled in place.                               *)
Takes(m, l) ==
  /\ At(m, "look") /\ MoreQueues(m) /\ queue[Current(m)] # <<>>
  /\ Taken(m) /\ Becomes(m, l)
  /\ l.pc = "message" /\ l.at = loop[m].at /\ l.backlog = loop[m].backlog
  /\ l.works = loop[m].works /\ l.ticks = loop[m].ticks
  /\ \/ queue' = queue
     \/ ~l.inPlace /\ queue' = [queue EXCEPT ![Current(m)] = Tail(@)]
  /\ UNCHANGED <<life, stopped, due, seen, late>>

LEMMA TakesHolds ==
  ASSUME IInv, NEW m \in Managers, NEW l \in Locals, Takes(m, l)
  PROVE  IInv'
<1>0. /\ loop \in [Managers -> Locals] /\ queue \in [Queues -> Seq(Messages)]
      /\ loop[m].at \in Nat /\ ManagerInv(m) /\ At(m, "look")
      /\ loop' = [loop EXCEPT ![m] = l]
      /\ UNCHANGED <<life, stopped, due, seen, late>>
  BY DEF IInv, TypeOK, Locals, Takes, Becomes
<1>q. /\ loop[m].at \in 1 .. Len(Rx[m]) /\ Len(Rx[m]) \in Nat
      /\ Current(m) = Rx[m][loop[m].at] /\ Current(m) \in Queues /\ Current(m) \in Received(m)
      /\ queue[Current(m)] \in Seq(Messages) /\ queue[Current(m)] # <<>>
  BY CurrentFact, ReceivedFact DEF IInv, Takes
<1>t. /\ waits' \in [Queues -> Nat]
      /\ sinceWork' \in [Managers -> Nat]
      /\ afterStop' \in [Managers -> Nat]
      /\ \A q \in Queues \ Received(m) : waits'[q] = waits[q]
      /\ \A n \in Managers \ {m} : sinceWork'[n] = sinceWork[n] /\ afterStop'[n] = afterStop[n]
      /\ waits'[Current(m)] = 0
      /\ \A q \in Received(m) : queue[q] = <<>> => waits'[q] = 0
      /\ \A i \in DOMAIN Rx[m] : waits'[Rx[m][i]]
            <= loop[m].at - i + (IF i < loop[m].at + 1 THEN 0 ELSE Len(Rx[m]))
      /\ sinceWork'[m] <= loop[m].works + 1 /\ sinceWork'[m] <= WorkInterval
      /\ afterStop'[m] <= loop[m].at
      /\ ~stopped[m] => afterStop'[m] = 0
  BY TakenFact DEF Takes
<1>1. /\ queue' \in [Queues -> Seq(Messages)]
      /\ \A q \in Queues : q # Current(m) => queue'[q] = queue[q]
      /\ l.inPlace => queue'[Current(m)] # <<>>
      /\ \A q \in Queues : \A k \in DOMAIN queue'[q] :
           \E j \in DOMAIN queue[q] : queue'[q][k] = queue[q][j]
  <2>1. CASE queue' = queue
    BY <1>0, <1>q, <2>1
  <2>2. CASE ~l.inPlace /\ queue' = [queue EXCEPT ![Current(m)] = Tail(queue[Current(m)])]
    BY <1>0, <1>q, <2>2, TailFact
  <2> QED
    BY <2>1, <2>2 DEF Takes
<1>2. loop'[m] = l /\ loop' \in [Managers -> Locals]
  BY <1>0
<1>3. TypeOK'
  BY <1>0, <1>1, <1>2, <1>t DEF IInv, TypeOK
<1>4. FitInv'
  BY <1>1 DEF IInv, FitInv
<1>5. OnlyOf(m)
  BY <1>0, <1>1, <1>q, <1>t DEF OnlyOf
<1>6. /\ loop'[m].pc = "message" /\ loop'[m].at = loop[m].at /\ loop'[m].inPlace = l.inPlace
      /\ loop'[m].backlog = loop[m].backlog
      /\ loop'[m].works = loop[m].works /\ loop'[m].ticks = loop[m].ticks
  BY <1>2 DEF Takes
<1>a. PlaceInv(m)'
  <2>1. Current(m)' = Current(m)
    BY <1>6 DEF Current
  <2> QED
    BY <1>0, <1>1, <1>q, <1>6, <2>1
    DEF ManagerInv, PlaceInv, Handling, InPass, AtEnd, MoreQueues, At
<1>b. CountInv(m)'
  BY <1>0, <1>t, <1>6 DEF ManagerInv, CountInv, Handling, At
<1>c. TurnInv(m)'
  <2>1. NextLook(m)' = loop[m].at + 1
    BY <1>6 DEF NextLook, Handling
  <2>2. ASSUME NEW i \in DOMAIN Rx[m], waits'[Rx[m][i]] > 0
        PROVE  queue'[Rx[m][i]] # <<>>
    <3>1. Rx[m][i] \in Received(m) /\ Rx[m][i] \in Queues /\ waits'[Rx[m][i]] # 0
      BY <2>2, ReceivedFact
    <3>2. Rx[m][i] # Current(m) /\ queue[Rx[m][i]] # <<>>
      BY <1>t, <3>1
    <3> QED
      BY <1>1, <3>1, <3>2
  <2>3. ASSUME NEW i \in DOMAIN Rx[m]
        PROVE  waits'[Rx[m][i]]
                 <= NextLook(m)' - 1 - i + (IF i < NextLook(m)' THEN 0 ELSE Len(Rx[m]))
    <3>1. NextLook(m)' - 1 - i = loop[m].at - i
      BY <1>0, <2>1, <2>3, ReceivedFact
    <3> QED
      BY <1>t, <2>1, <3>1
  <2> QED
    BY <2>2, <2>3 DEF TurnInv
<1>d. SeenInv(m)'
  BY <1>0, <1>6 DEF ManagerInv, SeenInv, Handling, InPass, At
<1>e. HaltInv(m)'
  <2>1. NextLook(m)' = loop[m].at + 1 /\ afterStop'[m] \in Nat
    BY <1>6, <1>t DEF NextLook, Handling
  <2>2. afterStop'[m] <= loop[m].at /\ (~stopped'[m] => afterStop'[m] = 0)
    BY <1>0, <1>t
  <2>3. afterStop'[m] <= Len(Rx[m]) /\ afterStop'[m] < loop[m].at + 1
    BY <1>q, <2>1, <2>2
  <2> QED
    BY <2>1, <2>2, <2>3 DEF HaltInv
<1> QED
  BY <1>3, <1>4, <1>5, <1>a, <1>b, <1>c, <1>d, <1>e, OthersHold DEF ManagerInv

LEMMA TakeInPlaceHolds ==
  ASSUME IInv, NEW m \in Managers, TakeInPlace(m)
  PROVE  IInv'
<1> DEFINE msg == Head(queue[Current(m)])
           l == [loop[m] EXCEPT !.pc = "message", !.hand = msg, !.inPlace = TRUE]
<1>0. loop[m] \in Locals
  BY DEF IInv, TypeOK
<1>q. queue[Current(m)] \in Seq(Messages) /\ queue[Current(m)] # <<>>
  BY CurrentFact DEF IInv, TakeInPlace
<1>1. msg \in Messages
  BY <1>q, TailFact
<1>2. Becomes(m, l)
  BY DEF TakeInPlace
<1> HIDE DEF msg
<1>3. l \in Locals
  <2> DEFINE one == [loop[m] EXCEPT !.pc = "message"]
             two == [one EXCEPT !.hand = msg]
  <2>1. one \in Locals
    BY <1>0, LocalsFact DEF Labels
  <2>2. l = [two EXCEPT !.inPlace = TRUE]
    OBVIOUS
  <2> HIDE DEF one, l
  <2>3. two \in Locals
    BY <1>1, <2>1, LocalsFact
  <2> HIDE DEF two
  <2> QED
    BY <2>2, <2>3, LocalsFact
<1>4. /\ l.pc = "message" /\ l.at = loop[m].at /\ l.backlog = loop[m].backlog
      /\ l.works = loop[m].works /\ l.ticks = loop[m].ticks
  BY <1>0 DEF Locals
<1> HIDE DEF l
<1>5. Takes(m, l)
  BY <1>2, <1>4 DEF Takes, TakeInPlace
<1> QED
  BY <1>3, <1>5, TakesHolds

(* The buffer is as large as the queue the message is in.                     *)
LEMMA TakeCopyHolds ==
  ASSUME IInv, NEW m \in Managers, TakeCopy(m)
  PROVE  IInv'
<1> DEFINE msg == Head(queue[Current(m)])
           l == [loop[m] EXCEPT !.pc = "message", !.hand = msg]
<1>0. loop[m] \in Locals /\ ManagerInv(m) /\ At(m, "look")
  BY DEF IInv, TypeOK, TakeCopy
<1>q. /\ Current(m) \in Queues /\ Current(m) \in Received(m)
      /\ queue[Current(m)] \in Seq(Messages) /\ queue[Current(m)] # <<>>
  BY CurrentFact DEF IInv, TakeCopy
<1>1. msg \in Messages /\ Size[msg] <= QueueLength[Current(m)]
  BY <1>q, TailFact DEF IInv, FitInv
<1>2. BufferHolds(m, Size[msg])
  BY <1>q, <1>1 DEF BufferHolds
<1>3. /\ Becomes(m, l) /\ Taken(m)
      /\ queue' = [queue EXCEPT ![Current(m)] = Tail(@)]
      /\ MoreQueues(m) /\ UNCHANGED <<life, stopped, due, seen, late>>
  BY <1>2 DEF TakeCopy
<1> HIDE DEF msg
<1>4. l \in Locals
  <2> DEFINE one == [loop[m] EXCEPT !.pc = "message"]
  <2>1. one \in Locals
    BY <1>0, LocalsFact DEF Labels
  <2>2. l = [one EXCEPT !.hand = msg]
    OBVIOUS
  <2> HIDE DEF one, l
  <2> QED
    BY <1>1, <2>1, <2>2, LocalsFact
<1>5. /\ l.pc = "message" /\ l.at = loop[m].at /\ l.backlog = loop[m].backlog
      /\ l.works = loop[m].works /\ l.ticks = loop[m].ticks /\ l.inPlace = loop[m].inPlace
  BY <1>0 DEF Locals
<1>6. ~l.inPlace
  BY <1>0, <1>5 DEF ManagerInv, PlaceInv, At
<1> HIDE DEF l
<1>7. Takes(m, l)
  BY <1>0, <1>q, <1>3, <1>5, <1>6 DEF Takes
<1> QED
  BY <1>4, <1>7, TakesHolds

LEMMA MessageReturnsHolds ==
  ASSUME IInv, NEW m \in Managers, MessageReturns(m)
  PROVE  IInv'
<1> DEFINE l == [loop[m] EXCEPT !.pc = "count", !.hand = Nothing, !.inPlace = FALSE]
<1>0. /\ loop \in [Managers -> Locals] /\ loop[m] \in Locals /\ queue \in [Queues -> Seq(Messages)]
      /\ waits \in [Queues -> Nat] /\ ManagerInv(m) /\ At(m, "message")
      /\ UNCHANGED <<life, stopped, due, seen, waits, sinceWork, late, afterStop>>
  BY DEF IInv, TypeOK, MessageReturns, history
<1>n. MoreQueues(m)
  BY <1>0 DEF ManagerInv, PlaceInv, Handling, At
<1>q. /\ loop[m].at \in 1 .. Len(Rx[m]) /\ Len(Rx[m]) \in Nat
      /\ Current(m) = Rx[m][loop[m].at] /\ Current(m) \in Queues /\ Current(m) \in Received(m)
      /\ queue[Current(m)] \in Seq(Messages)
      /\ loop[m].inPlace => queue[Current(m)] # <<>>
  BY <1>0, <1>n, CurrentFact, ReceivedFact DEF IInv, ManagerInv, PlaceInv
<1>1. loop' = [loop EXCEPT ![m] = l]
  BY DEF MessageReturns, Becomes
<1>2. l \in Locals
  <2> DEFINE one == [loop[m] EXCEPT !.pc = "count"]
             two == [one EXCEPT !.hand = Nothing]
  <2>1. one \in Locals
    BY <1>0, LocalsFact DEF Labels
  <2>2. l = [two EXCEPT !.inPlace = FALSE]
    OBVIOUS
  <2> HIDE DEF one, l
  <2>3. two \in Locals
    BY <2>1, LocalsFact
  <2> HIDE DEF two
  <2> QED
    BY <2>2, <2>3, LocalsFact
<1>3. /\ l.pc = "count" /\ l.at = loop[m].at /\ l.backlog = loop[m].backlog /\ ~l.inPlace
      /\ l.works = loop[m].works /\ l.ticks = loop[m].ticks
  BY <1>0 DEF Locals
<1> HIDE DEF l
<1>4. /\ queue' \in [Queues -> Seq(Messages)]
      /\ \A q \in Queues : q # Current(m) => queue'[q] = queue[q]
      /\ \A q \in Queues : \A k \in DOMAIN queue'[q] :
           \E j \in DOMAIN queue[q] : queue'[q][k] = queue[q][j]
  <2>1. CASE loop[m].inPlace
    <3>1. queue' = [queue EXCEPT ![Current(m)] = Tail(queue[Current(m)])]
      BY <2>1 DEF MessageReturns
    <3> QED
      BY <1>0, <1>q, <2>1, <3>1, TailFact
  <2>2. CASE ~loop[m].inPlace
    <3>1. queue' = queue
      BY <1>0, <2>2 DEF MessageReturns
    <3> QED
      BY <1>0, <3>1
  <2> QED
    BY <2>1, <2>2
<1>5. loop'[m] = l /\ loop' \in [Managers -> Locals]
  BY <1>0, <1>1, <1>2
<1>6. TypeOK'
  BY <1>0, <1>4, <1>5 DEF IInv, TypeOK
<1>7. FitInv'
  BY <1>4 DEF IInv, FitInv
<1>8. OnlyOf(m)
  BY <1>0, <1>1, <1>4, <1>q DEF OnlyOf
<1>a. PlaceInv(m)'
  BY <1>0, <1>3, <1>5, <1>n DEF ManagerInv, PlaceInv, Handling, InPass, AtEnd, MoreQueues, At
<1>b. CountInv(m)'
  BY <1>0, <1>3, <1>5 DEF ManagerInv, CountInv, Handling, At
<1>c. TurnInv(m)'
  <2>1. NextLook(m)' = NextLook(m) /\ NextLook(m) = loop[m].at + 1
    BY <1>0, <1>3, <1>5 DEF NextLook, Handling, At
  <2>2. waits[Current(m)] <= 0
    <3>1. /\ loop[m].at \in DOMAIN Rx[m]
          /\ waits[Current(m)] <= loop[m].at + 1 - 1 - loop[m].at + 0
      BY <1>0, <1>q, <2>1, ReceivedFact DEF ManagerInv, TurnInv
    <3> QED
      BY <1>0, <1>q, <3>1
  <2>3. ASSUME NEW i \in DOMAIN Rx[m], waits[Rx[m][i]] > 0
        PROVE  queue'[Rx[m][i]] # <<>>
    <3>1. Rx[m][i] \in Queues /\ queue[Rx[m][i]] # <<>>
      BY <1>0, <2>3, ReceivedFact DEF ManagerInv, TurnInv
    <3>2. Rx[m][i] # Current(m)
      BY <1>0, <1>q, <2>2, <2>3
    <3> QED
      BY <1>4, <3>1, <3>2
  <2> QED
    BY <1>0, <2>1, <2>3 DEF ManagerInv, TurnInv
<1>d. SeenInv(m)'
  BY <1>0, <1>3, <1>5 DEF ManagerInv, SeenInv, Handling, InPass, At
<1>e. HaltInv(m)'
  BY <1>0, <1>3, <1>5 DEF ManagerInv, HaltInv, NextLook, Handling, At
<1> QED
  BY <1>6, <1>7, <1>8, <1>a, <1>b, <1>c, <1>d, <1>e, OthersHold DEF ManagerInv

--------------------------------------------------------------------------------

LEMMA InitHolds ==
  ASSUME Init
  PROVE  IInv
<1>1. TypeOK
  BY FreshFact DEF Init, TypeOK
<1>2. FitInv
  BY DEF Init, FitInv
<1>3. ASSUME NEW m \in Managers
      PROVE  ManagerInv(m)
  <2>1. /\ loop[m].pc = "exited" /\ loop[m].at = 1 /\ ~loop[m].inPlace
        /\ loop[m].ticks = 0 /\ loop[m].works = 0
        /\ life[m] = "idle" /\ ~stopped[m]
        /\ sinceWork[m] = 0 /\ late[m] = 0 /\ afterStop[m] = 0
        /\ \A q \in Queues : waits[q] = 0
    BY DEF Init, Exited, Fresh
  <2>2. PlaceInv(m) /\ SeenInv(m) /\ HaltInv(m)
    BY <2>1, ReceivedFact DEF PlaceInv, SeenInv, HaltInv, Handling, InPass, At
  <2>3. CountInv(m)
    BY <2>1, IntervalAssumption DEF CountInv, Handling, At
  <2>4. TurnInv(m)
    BY <2>1, ReceivedFact DEF TurnInv, NextLook, Handling
  <2> QED
    BY <2>2, <2>3, <2>4 DEF ManagerInv
<1> QED
  BY <1>1, <1>2, <1>3 DEF IInv

LEMMA ThreadHolds ==
  ASSUME IInv, NEW m \in Managers, Thread(m)
  PROVE  IInv'
BY LoopEndsHolds, PassBeginsHolds, LookEmptyHolds, TakeInPlaceHolds, TakeCopyHolds,
   MessageReturnsHolds, CountHolds, WorkReturnsHolds, PassEndsHolds, IdleWorkReturnsHolds,
   TimerReturnsHolds, WakeHolds
DEF Thread

(* Every step of the managers, their handlers and their peers keeps the       *)
(* invariant: however many managers and queues there are, of whatever lengths *)
(* and intervals.                                                             *)
THEOREM ManagerInvariance == Spec => []IInv
<1>1. Init => IInv
  BY InitHolds
<1>2. IInv /\ [Next]_vars => IInv'
  <2> SUFFICES ASSUME IInv, [Next]_vars
               PROVE  IInv'
    OBVIOUS
  <2>1. ASSUME NEW m \in Managers, Start(m) \/ StopBegins(m) \/ Joined(m)
        PROVE  IInv'
    BY <2>1, StartHolds, StopBeginsHolds, JoinedHolds
  <2>2. ASSUME NEW m \in Managers, Thread(m)
        PROVE  IInv'
    BY <2>2, ThreadHolds
  <2>3. ASSUME NEW m \in Managers, SecondPasses(m)
        PROVE  IInv'
    BY <2>3, SecondPassesHolds
  <2>4. ASSUME NEW m \in Managers, NEW q \in Queues, NEW msg \in Messages, HandlerSends(m, q, msg)
        PROVE  IInv'
    BY <2>4, HandlerSendsHolds
  <2>5. ASSUME NEW q \in Queues, NEW msg \in Messages, PeerSends(q, msg)
        PROVE  IInv'
    BY <2>5, PeerSendsHolds
  <2>6. ASSUME NEW q \in Queues, PeerTakes(q)
        PROVE  IInv'
    BY <2>6, PeerTakesHolds
  <2>7. CASE UNCHANGED vars
    <3>1. TypeOK' /\ FitInv' /\ \A m \in Managers : Untouched(m)
      BY <2>7 DEF vars, history, IInv, TypeOK, FitInv, Untouched
    <3> QED
      BY <3>1, AllUntouchedHolds
  <2> QED
    BY <2>1, <2>2, <2>3, <2>4, <2>5, <2>6, <2>7 DEF Next
<1> QED
  BY <1>1, <1>2, PTL DEF Spec

(* The work handler is never more than WorkInterval messages away.            *)
THEOREM WorkIsNotStarved == Spec => []WorkNotStarved
<1>1. IInv => WorkNotStarved
  BY DEF IInv, ManagerInv, CountInv, WorkNotStarved
<1> QED
  BY ManagerInvariance, <1>1, PTL

(* A second that has passed is noticed within TimerMod counts.                *)
THEOREM TimerIsNotStarved == Spec => []TimerNotStarved
<1>1. IInv => TimerNotStarved
  BY DEF IInv, ManagerInv, CountInv, TimerNotStarved
<1> QED
  BY ManagerInvariance, <1>1, PTL

(* A queue waits for at most one message of each other queue, whatever the    *)
(* number of queues and whoever fills them.                                   *)
THEOREM QueuesDoTakeTurns == Spec => []QueuesTakeTurns
<1>1. ASSUME IInv, NEW m \in Managers, NEW q \in Received(m)
      PROVE  waits[q] < Len(Rx[m])
  <2>1. PICK i \in 1 .. Len(Rx[m]) : q = Rx[m][i]
    BY ReceivedFact DEF Received
  <2>2. /\ loop[m].at \in Nat \ {0} /\ loop[m].at <= Len(Rx[m]) + 1
        /\ Handling(m) => loop[m].at <= Len(Rx[m])
        /\ Len(Rx[m]) \in Nat /\ i \in DOMAIN Rx[m] /\ waits[q] \in Nat
    BY <1>1, <2>1, ReceivedFact
    DEF IInv, TypeOK, Locals, ManagerInv, PlaceInv, MoreQueues
  <2>3. NextLook(m) \in 1 .. Len(Rx[m]) + 1
    BY <2>2 DEF NextLook
  <2>4. waits[q] <= NextLook(m) - 1 - i + (IF i < NextLook(m) THEN 0 ELSE Len(Rx[m]))
    BY <1>1, <2>1, <2>2 DEF IInv, ManagerInv, TurnInv
  <2>5. CASE i < NextLook(m)
    BY <2>1, <2>2, <2>3, <2>4, <2>5
  <2>6. CASE i >= NextLook(m)
    BY <2>1, <2>2, <2>3, <2>4, <2>6
  <2> QED
    BY <2>1, <2>3, <2>5, <2>6
<1>2. IInv => QueuesTakeTurns
  BY <1>1 DEF QueuesTakeTurns
<1> QED
  BY ManagerInvariance, <1>2, PTL

(* No manager sleeps on a message it has seen.                                *)
THEOREM NeverSleepsOnBacklog == Spec => []NoSleepOnBacklog
<1>1. IInv => NoSleepOnBacklog
  BY ReceivedFact DEF IInv, ManagerInv, SeenInv, NoSleepOnBacklog, Received, At
<1> QED
  BY ManagerInvariance, <1>1, PTL

(* Told to stop, a manager takes at most one message more of each queue.      *)
THEOREM StopsPromptly == Spec => []StopIsPrompt
<1>1. IInv => StopIsPrompt
  BY DEF IInv, ManagerInv, HaltInv, StopIsPrompt
<1> QED
  BY ManagerInvariance, <1>1, PTL

(* No message makes the loop of a running manager end.                        *)
THEOREM RunsUntilStopped == Spec => []EndsOnlyWhenStopped
<1>1. IInv => EndsOnlyWhenStopped
  BY DEF IInv, ManagerInv, PlaceInv, EndsOnlyWhenStopped
<1> QED
  BY ManagerInvariance, <1>1, PTL

================================================================================
