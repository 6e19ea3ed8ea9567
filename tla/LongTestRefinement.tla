-------------------------- MODULE LongTestRefinement ---------------------------
(******************************************************************************)
(* Proof that LongTest implements EchoService for both of its sides: to the   *)
(* program, the queues, both managers and the kernel module are together an   *)
(* echo that may lose messages, and to the kernel module the programs are.    *)
(* What is proved of EchoService therefore holds of the long test.            *)
(******************************************************************************)
EXTENDS LongTestProofs, Induction, SequenceTheorems

--------------------------------------------------------------------------------
(* The numbers of a side's own messages.                                      *)

(* The numbers that Own has collected after each of the messages.             *)
Collects(m, msgs, f) ==
  /\ f \in [0 .. Len(msgs) -> Seq(Ids)]
  /\ f[0] = <<>>
  /\ \A k \in 1 .. Len(msgs) :
       f[k] = IF msgs[k].type = Type[m] THEN Append(f[k - 1], msgs[k].id) ELSE f[k - 1]

LEMMA MessageFact == ASSUME NEW msg \in Messages PROVE msg.id \in Ids /\ msg.type \in {0, 1}
BY DEF Messages

LEMMA OwnDef ==
  ASSUME NEW m \in Sides, NEW msgs \in Seq(Messages)
  PROVE  \E f : Collects(m, msgs, f) /\ Own(m, msgs) = f[Len(msgs)]
<1> DEFINE n == Len(msgs)
           step == [p \in (1 .. n) \X Seq(Ids) |->
                      IF msgs[p[1]].type = Type[m] THEN Append(p[2], msgs[p[1]].id) ELSE p[2]]
           Fits(f) == f = [k \in 0 .. n |->
                             IF k = 0 THEN <<>>
                             ELSE IF msgs[k].type = Type[m] THEN Append(f[k - 1], msgs[k].id)
                             ELSE f[k - 1]]
<1>1. n \in Nat /\ <<>> \in Seq(Ids)
  OBVIOUS
<1>2. \A k \in 1 .. n : msgs[k].id \in Ids
  BY MessageFact
<1>3. step \in [(1 .. n) \X Seq(Ids) -> Seq(Ids)]
  BY <1>2
<1>4. PICK f \in [0 .. n -> Seq(Ids)] : Follows(f, n, <<>>, step)
  <2>1. step \in Steps(n, Seq(Ids))
    BY <1>3 DEF Steps
  <2> HIDE DEF n, step
  <2> QED
    BY <1>1, <2>1, RecursionExists
<1>5. \A k \in 1 .. n : f[k - 1] \in Seq(Ids)
  BY <1>4
<1>6. /\ f[0] = <<>>
      /\ \A k \in 1 .. n :
           f[k] = IF msgs[k].type = Type[m] THEN Append(f[k - 1], msgs[k].id) ELSE f[k - 1]
  BY <1>4, <1>5 DEF Follows
<1>7. Collects(m, msgs, f)
  BY <1>4, <1>6 DEF Collects
<1>8. Fits(f)
  <2> DEFINE g == [k \in 0 .. n |->
                     IF k = 0 THEN <<>>
                     ELSE IF msgs[k].type = Type[m] THEN Append(f[k - 1], msgs[k].id)
                     ELSE f[k - 1]]
  <2>1. \A k \in 0 .. n : f[k] = g[k]
    <3>1. f[0] = g[0]
      BY <1>6
    <3>2. \A k \in 1 .. n : f[k] = g[k]
      BY <1>6
    <3>3. \A k \in 0 .. n : k = 0 \/ k \in 1 .. n
      OBVIOUS
    <3> HIDE DEF g
    <3> QED
      BY <3>1, <3>2, <3>3
  <2>2. DOMAIN f = 0 .. n /\ f = [k \in 0 .. n |-> f[k]]
    BY <1>4
  <2>3. g = [k \in 0 .. n |-> g[k]]
    OBVIOUS
  <2>4. f = g
    <3> HIDE DEF g
    <3> QED
      BY <2>1, <2>2, <2>3
  <2> QED
    BY <2>4
<1>9. Fits(CHOOSE g : Fits(g))
  <2> HIDE DEF Fits
  <2> QED
    BY <1>8
<1>10. Own(m, msgs) = (CHOOSE g : Fits(g))[n]
  BY DEF Own
<1> QED
  OBVIOUS

LEMMA OwnEmpty ==
  ASSUME NEW m \in Sides
  PROVE  Own(m, <<>>) = <<>>
<1>1. <<>> \in Seq(Messages) /\ Len(<<>>) = 0
  OBVIOUS
<1>2. PICK f : Collects(m, <<>>, f) /\ Own(m, <<>>) = f[Len(<<>>)]
  BY <1>1, OwnDef
<1> QED
  BY <1>1, <1>2 DEF Collects

LEMMA OwnType ==
  ASSUME NEW m \in Sides, NEW msgs \in Seq(Messages)
  PROVE  Own(m, msgs) \in Seq(Ids)
BY OwnDef DEF Collects

(* What is collected from the first messages does not depend on the others.   *)
LEMMA CollectsPrefix ==
  ASSUME NEW m \in Sides, NEW s \in Seq(Messages), NEW t \in Seq(Messages),
         Len(s) <= Len(t), \A k \in 1 .. Len(s) : s[k] = t[k],
         NEW f, Collects(m, s, f), NEW g, Collects(m, t, g)
  PROVE  f[Len(s)] = g[Len(s)]
<1> DEFINE S == {k \in 0 .. Len(s) : f[k] = g[k]}
<1>1. 0 \in S
  BY DEF Collects
<1>2. ASSUME NEW k \in 0 .. Len(s) - 1, k \in S PROVE k + 1 \in S
  <2>1. k + 1 \in 1 .. Len(s) /\ k + 1 \in 1 .. Len(t) /\ (k + 1) - 1 = k
    OBVIOUS
  <2>2. f[k] = g[k] /\ s[k + 1] = t[k + 1]
    BY <1>2, <2>1
  <2>3. f[k + 1] = g[k + 1]
    BY <2>1, <2>2 DEF Collects
  <2> QED
    BY <2>1, <2>3
<1>3. Len(s) \in S
  <2>1. Len(s) \in Nat
    OBVIOUS
  <2>2. ASSUME NEW n \in Nat, n = Len(s) PROVE n \in S
    <3> HIDE DEF S
    <3>1. 0 .. n \subseteq S
      BY <1>1, <1>2, <2>2, IntervalInduction
    <3> QED
      BY <3>1
  <2> QED
    BY <2>1, <2>2
<1> QED
  BY <1>3

LEMMA OwnAppend ==
  ASSUME NEW m \in Sides, NEW msgs \in Seq(Messages), NEW msg \in Messages
  PROVE  Own(m, Append(msgs, msg)) =
           IF msg.type = Type[m] THEN Append(Own(m, msgs), msg.id) ELSE Own(m, msgs)
<1> DEFINE more == Append(msgs, msg)
           n == Len(msgs)
<1>1. /\ more \in Seq(Messages) /\ Len(more) = n + 1 /\ n \in Nat
      /\ \A k \in 1 .. n : more[k] = msgs[k]
      /\ more[n + 1] = msg
  BY AppendProperties
<1> HIDE DEF more
<1>2. PICK f : Collects(m, msgs, f) /\ Own(m, msgs) = f[n]
  BY OwnDef
<1>3. PICK g : Collects(m, more, g) /\ Own(m, more) = g[n + 1]
  BY <1>1, OwnDef
<1>4. f[n] = g[n]
  BY <1>1, <1>2, <1>3, CollectsPrefix
<1>5. n + 1 \in 1 .. Len(more) /\ (n + 1) - 1 = n
  BY <1>1
<1>6. g[n + 1] = IF msg.type = Type[m] THEN Append(g[n], msg.id) ELSE g[n]
  BY <1>1, <1>3, <1>5 DEF Collects
<1> QED
  BY <1>2, <1>3, <1>4, <1>6 DEF more

LEMMA OwnOne ==
  ASSUME NEW m \in Sides, NEW msg \in Messages
  PROVE  Own(m, <<msg>>) = IF msg.type = Type[m] THEN <<msg.id>> ELSE <<>>
<1>1. <<msg>> = Append(<<>>, msg) /\ <<msg.id>> = Append(<<>>, msg.id) /\ <<>> \in Seq(Messages)
  OBVIOUS
<1> QED
  BY <1>1, OwnEmpty, OwnAppend

LEMMA ConcatAppend ==
  ASSUME NEW s \in Seq(Ids), NEW t \in Seq(Ids), NEW e \in Ids
  PROVE  Append(s \o t, e) = s \o Append(t, e)
OBVIOUS

LEMMA ConcatType ==
  /\ <<>> \in Seq(Ids)
  /\ \A s, t \in Seq(Ids) : s \o t \in Seq(Ids) /\ s \o <<>> = s
OBVIOUS

(* What is first among the numbers, and what remains without it.              *)
LEMMA FirstOfConcat ==
  ASSUME NEW s \in Seq(Ids), NEW t \in Seq(Ids), NEW e \in Ids
  PROVE  /\ (<<e>> \o s) \o t # <<>>
         /\ Head((<<e>> \o s) \o t) = e
         /\ Tail((<<e>> \o s) \o t) = s \o t
OBVIOUS

(* A number goes from the messages of one side to those of the other.         *)
LEMMA MoveAcross ==
  ASSUME NEW s \in Seq(Ids), NEW t \in Seq(Ids), NEW e \in Ids
  PROVE  Append(s, e) \o t = s \o (<<e>> \o t)
OBVIOUS

(* Or gets lost between them. *)
LEMMA RemoveBetween ==
  ASSUME NEW s \in Seq(Ids), NEW t \in Seq(Ids), NEW e \in Ids
  PROVE  /\ Len(s) + 1 \in DOMAIN (s \o (<<e>> \o t))
         /\ RemoveAt(s \o (<<e>> \o t), Len(s) + 1) = s \o t
<1> DEFINE u == s \o (<<e>> \o t)
           k == Len(s) + 1
<1>1. k \in 1 .. Len(u) /\ DOMAIN u = 1 .. Len(u)
  OBVIOUS
<1>2. SubSeq(u, 1, k - 1) = s
  OBVIOUS
<1>3. SubSeq(u, k + 1, Len(u)) = t
  OBVIOUS
<1>4. RemoveAt(u, k) = s \o t
  <2> HIDE DEF u, k
  <2> QED
    BY <1>2, <1>3 DEF RemoveAt
<1> QED
  BY <1>1, <1>4

LEMMA CutAfter ==
  ASSUME NEW s \in Seq(Ids), NEW t \in Seq(Ids)
  PROVE  /\ SubSeq(s \o t, 1, Len(s)) = s
         /\ t # <<>> => Len(s) + 1 \in DOMAIN (s \o t) /\ Len(s) < Len(s \o t)
OBVIOUS

LEMMA OwnConcat ==
  ASSUME NEW m \in Sides, NEW s \in Seq(Messages), NEW t \in Seq(Messages)
  PROVE  Own(m, s \o t) = Own(m, s) \o Own(m, t)
<1> DEFINE u(k) == SubSeq(t, 1, k)
           S == {k \in 0 .. Len(t) : Own(m, s \o u(k)) = Own(m, s) \o Own(m, u(k))}
<1>1. 0 \in S
  <2>1. u(0) = <<>> /\ s \o <<>> = s /\ Own(m, s) \o <<>> = Own(m, s)
    BY OwnType, ConcatEmptySeq, SubSeqEmpty
  <2>2. Own(m, s \o u(0)) = Own(m, s) \o Own(m, u(0))
    BY <2>1, OwnEmpty
  <2>3. 0 \in 0 .. Len(t)
    OBVIOUS
  <2> HIDE DEF u
  <2> QED
    BY <2>2, <2>3
<1>2. ASSUME NEW k \in 0 .. Len(t) - 1, k \in S PROVE k + 1 \in S
  <2> DEFINE msg == t[k + 1]
  <2>1. k + 1 \in 0 .. Len(t) /\ msg \in Messages /\ u(k) \in Seq(Messages) /\ msg.id \in Ids
    BY MessageFact
  <2>2. u(k + 1) = Append(u(k), msg)
    OBVIOUS
  <2>3. s \o u(k + 1) = Append(s \o u(k), msg) /\ s \o u(k) \in Seq(Messages)
    OBVIOUS
  <2>4. Own(m, s \o u(k)) = Own(m, s) \o Own(m, u(k))
    BY <1>2
  <2> HIDE DEF u, msg
  <2>5. Own(m, s) \in Seq(Ids) /\ Own(m, u(k)) \in Seq(Ids)
    BY <2>1, OwnType
  <2>6. Append(Own(m, s) \o Own(m, u(k)), msg.id) = Own(m, s) \o Append(Own(m, u(k)), msg.id)
    BY <2>1, <2>5, ConcatAppend, Zenon
  <2>7. Own(m, s \o u(k + 1)) = Own(m, s) \o Own(m, u(k + 1))
    BY <2>1, <2>2, <2>3, <2>4, <2>6, OwnAppend
  <2> QED
    BY <2>1, <2>7
<1>3. Len(t) \in S
  <2>1. Len(t) \in Nat
    OBVIOUS
  <2>2. ASSUME NEW n \in Nat, n = Len(t) PROVE n \in S
    <3> HIDE DEF S
    <3>1. 0 .. n \subseteq S
      BY <1>1, <1>2, <2>2, IntervalInduction
    <3> QED
      BY <3>1
  <2> QED
    BY <2>1, <2>2
<1>4. u(Len(t)) = t
  BY SubSeqFull
<1> QED
  BY <1>3, <1>4

--------------------------------------------------------------------------------
(* What is on its way.                                                        *)

LEMMA FlowFact ==
  ASSUME NEW m \in Sides
  PROVE  /\ Flow(m) = IF Reading(m) THEN Own(m, Unhandled(m)) \o Own(m, Unhandled(Peer(m))) ELSE <<>>
         /\ Flow(m)' = IF Reading(m)' THEN Own(m, Unhandled(m)') \o Own(m, Unhandled(Peer(m))') ELSE <<>>
BY DEF Flow

LEMMA WaitingType ==
  ASSUME IInv, NEW m \in Sides
  PROVE  /\ queue[RxQueue[m]] \in Seq(Messages)
         /\ Waiting(m) \in Seq(Messages)
         /\ M!At(m, "message") => loop[m].hand \in Messages
<1>1. queue[RxQueue[m]] \in Seq(Messages)
  BY CurrentFact DEF IInv
<1>2. loop[m].inPlace => queue[RxQueue[m]] # <<>>
  BY DEF IInv, HandlerInv
<1> QED
  BY <1>1, <1>2 DEF Waiting, IInv, HandlerInv

LEMMA UnhandledType ==
  ASSUME IInv, NEW m \in Sides
  PROVE  Unhandled(m) \in Seq(Messages) /\ Flow(m) \in Seq(Ids)
<1>1. \A n \in Sides : Unhandled(n) \in Seq(Messages)
  <2> SUFFICES ASSUME NEW n \in Sides PROVE Unhandled(n) \in Seq(Messages)
    OBVIOUS
  <2>1. <<>> \in Seq(Messages) /\ Waiting(n) \in Seq(Messages)
    BY WaitingType
  <2>2. M!At(n, "message") => <<loop[n].hand>> \o Waiting(n) \in Seq(Messages)
    BY WaitingType
  <2> QED
    BY <2>1, <2>2 DEF Unhandled
<1>2. Own(m, Unhandled(m)) \in Seq(Ids) /\ Own(m, Unhandled(Peer(m))) \in Seq(Ids)
  BY <1>1, SidesFact, OwnType
<1> QED
  BY <1>1, <1>2, FlowFact, ConcatType

(* A thread that has not exited is there to look at its queue. *)
LEMMA AliveReads ==
  ASSUME IInv, NEW m \in Sides, ~M!At(m, "exited")
  PROVE  Reading(m)
BY ManagersType DEF IInv, SessionInv, Reading, Sides

LEMMA SameUnhandled ==
  ASSUME NEW m \in Sides, loop'[m] = loop[m], done'[m] = done[m],
         queue'[RxQueue[m]] = queue[RxQueue[m]], Reading(m)' = Reading(m)
  PROVE  Unhandled(m)' = Unhandled(m)
BY DEF Unhandled, Waiting, M!At

LEMMA ThreadReads ==
  ASSUME IInv, NEW m \in Sides, Thread(m), NEW n \in Sides
  PROVE  Reading(m) /\ Reading(n)' = Reading(n)
BY ThreadPlace, AliveReads DEF Reading

(* A message that a handler takes is the same one that was waiting.           *)
LEMMA TakenUnhandled ==
  ASSUME IInv, NEW m \in Sides, LoopStep(m)
  PROVE  Unhandled(m)' = Unhandled(m)
<1>1. Reading(m) /\ Reading(m)'
  BY ThreadReads DEF Thread
<1>2. Unhandled(m) = queue[RxQueue[m]]
  BY <1>1, LoopEffect DEF Unhandled, Waiting, M!At
<1>3. CASE loop'[m].pc # "message"
  <2>1. queue' = queue /\ ~loop'[m].inPlace
    <3>1. M!IInv'
      BY ThreadsKeepManagers DEF Thread
    <3>2. loop'[m].inPlace => loop'[m].pc = "message"
      BY <3>1 DEF M!IInv, M!ManagerInv, M!PlaceInv, M!At
    <3> QED
      BY <1>3, <3>2, LoopEffect
  <2> QED
    BY <1>1, <1>2, <1>3, <2>1 DEF Unhandled, Waiting, M!At
<1>4. CASE loop'[m].pc = "message"
  <2>1. queue[RxQueue[m]] # <<>> /\ queue[RxQueue[m]] \in Seq(Messages)
    BY <1>4, LoopEffect, WaitingType
  <2>2. Unhandled(m)' = <<Head(queue[RxQueue[m]])>> \o Tail(queue[RxQueue[m]])
    BY <1>1, <1>4, LoopEffect DEF Unhandled, Waiting, M!At
  <2> QED
    BY <1>2, <2>1, <2>2
<1> QED
  BY <1>3, <1>4

(* So is one that its handler has seen to, gone.                              *)
LEMMA ReturnedUnhandled ==
  ASSUME IInv, NEW m \in Sides, HandlerReturns(m)
  PROVE  Unhandled(m)' = Unhandled(m)
<1>1. Reading(m) /\ Reading(m)'
  BY ThreadReads DEF Thread
<1>2. loop'[m].pc # "message" /\ ~loop'[m].inPlace
  <2>1. M!IInv'
    BY ThreadsKeepManagers DEF Thread
  <2>2. loop'[m].inPlace => loop'[m].pc = "message"
    BY <2>1 DEF M!IInv, M!ManagerInv, M!PlaceInv, M!At
  <2> QED
    BY <2>2, ReturnEffect
<1>3. Unhandled(m) = Waiting(m)
  <2>1. done[m] # 0 \/ loop[m].pc # "message"
    BY DEF HandlerReturns, M!WorkReturns, M!IdleWorkReturns, M!At, IInv, TypeOK
  <2> QED
    BY <1>1, <2>1 DEF Unhandled, M!At
<1>4. queue'[RxQueue[m]] = Waiting(m)
  <2>1. CASE M!MessageReturns(m)
    <3>1. queue' = [queue EXCEPT ![RxQueue[m]] = IF loop[m].inPlace THEN Tail(queue[RxQueue[m]])
                                                 ELSE queue[RxQueue[m]]]
      BY <2>1, CurrentFact DEF IInv, M!MessageReturns, M!Handling, M!At
    <3> QED
      BY <3>1, SidesFact, ManagersType DEF Waiting, IInv
  <2>2. CASE M!WorkReturns(m) \/ M!IdleWorkReturns(m, FALSE)
    BY <2>2, CurrentFact DEF M!WorkReturns, M!IdleWorkReturns, M!At, Waiting, IInv
  <2> QED
    BY <2>1, <2>2 DEF HandlerReturns
<1> QED
  BY <1>1, <1>2, <1>3, <1>4 DEF Unhandled, Waiting, M!At

(* Other than that the loop changes nothing that is on its way. *)
LEMMA LoopKeepsUnhandled ==
  ASSUME IInv, NEW m \in Sides, HandlerReturns(m) \/ LoopStep(m), NEW n \in Sides
  PROVE  Unhandled(n)' = Unhandled(n) /\ Reading(n)' = Reading(n)
<1>1. Reading(n)' = Reading(n)
  BY ThreadReads DEF Thread
<1>2. CASE n = m
  BY <1>1, <1>2, TakenUnhandled, ReturnedUnhandled
<1>3. CASE n # m
  BY <1>1, <1>3, PeerUntouched, SameUnhandled
<1> QED
  BY <1>1, <1>2, <1>3

(* A handler that answers or compares has the first message in hand. *)
LEMMA HandUnhandled ==
  ASSUME IInv, NEW m \in Sides, Echo(m) \/ Compare(m)
  PROVE  /\ loop[m].hand \in Messages /\ Waiting(m) \in Seq(Messages)
         /\ Reading(m) /\ UNCHANGED loop
         /\ Unhandled(m) = <<loop[m].hand>> \o Waiting(m)
         /\ Unhandled(m)' = Waiting(m)
<1>1. M!At(m, "message") /\ done[m] = 0 /\ done' = [done EXCEPT ![m] = done[m] + 1]
  BY DEF Echo, Compare, SeenTo
<1>2. loop[m].hand \in Messages /\ Waiting(m) \in Seq(Messages)
  BY <1>1, WaitingType
<1>3. Reading(m) /\ Reading(m)'
  BY ThreadReads DEF Thread
<1>4. done'[m] = 1
  BY <1>1 DEF IInv, TypeOK
<1>5. UNCHANGED loop /\ queue'[RxQueue[m]] = queue[RxQueue[m]]
  BY <1>2, AddEffect DEF Echo, Compare, managerVars, IInv
<1> QED
  BY <1>1, <1>2, <1>3, <1>4, <1>5 DEF Unhandled, Waiting, M!At

(* A message that is added comes last to a peer that reads. *)
LEMMA SentUnhandled ==
  ASSUME IInv, NEW m \in Sides, NEW msg \in Messages, Add(m, msg), main' = main,
         done'[Peer(m)] = done[Peer(m)]
  PROVE  Unhandled(Peer(m))' =
           IF Reading(Peer(m)) /\ M!Room(TxQueue[m], msg) THEN Append(Unhandled(Peer(m)), msg)
           ELSE Unhandled(Peer(m))
<1> DEFINE p == Peer(m)
<1>1. p \in Sides /\ TxQueue[m] = RxQueue[p]
  BY SidesFact
<1>2. /\ UNCHANGED <<loop, life>>
      /\ queue'[RxQueue[p]] = IF M!Room(TxQueue[m], msg) THEN Append(queue[RxQueue[p]], msg)
                              ELSE queue[RxQueue[p]]
  BY <1>1, AddEffect DEF IInv
<1>3. Reading(p)' = Reading(p)
  BY <1>2 DEF Reading
<1>4. CASE ~M!Room(TxQueue[m], msg)
  BY <1>1, <1>2, <1>3, <1>4, SameUnhandled
<1>5. CASE M!Room(TxQueue[m], msg)
  <2>1. CASE ~Reading(p)
    BY <1>3, <2>1 DEF Unhandled
  <2>2. CASE Reading(p)
    <3>1. queue[RxQueue[p]] \in Seq(Messages) /\ Waiting(p) \in Seq(Messages)
      BY <1>1, WaitingType
    <3>2. loop[p].inPlace => queue[RxQueue[p]] # <<>>
      BY <1>1 DEF IInv, HandlerInv
    <3>3. Waiting(p)' = Append(Waiting(p), msg)
      <4>1. Waiting(p)' = IF loop[p].inPlace THEN Tail(Append(queue[RxQueue[p]], msg))
                          ELSE Append(queue[RxQueue[p]], msg)
        BY <1>2, <1>5 DEF Waiting
      <4>2. loop[p].inPlace => Tail(Append(queue[RxQueue[p]], msg)) = Append(Tail(queue[RxQueue[p]]), msg)
        BY <3>1, <3>2
      <4> QED
        BY <4>1, <4>2 DEF Waiting
    <3>4. CASE M!At(p, "message") /\ done[p] = 0
      <4>1. loop[p].hand \in Messages
        BY <1>1, <3>4, WaitingType
      <4>2. Unhandled(p) = <<loop[p].hand>> \o Waiting(p)
        BY <2>2, <3>4 DEF Unhandled
      <4>3. Unhandled(p)' = <<loop[p].hand>> \o Append(Waiting(p), msg)
        BY <1>2, <1>3, <2>2, <3>3, <3>4 DEF Unhandled, M!At
      <4>4. <<loop[p].hand>> \o Append(Waiting(p), msg) = Append(<<loop[p].hand>> \o Waiting(p), msg)
        BY <3>1, <4>1
      <4> QED
        BY <1>5, <2>2, <4>2, <4>3, <4>4
    <3>5. CASE ~(M!At(p, "message") /\ done[p] = 0)
      BY <1>2, <1>3, <1>5, <2>2, <3>3, <3>5 DEF Unhandled, M!At
    <3> QED
      BY <3>4, <3>5
  <2> QED
    BY <2>1, <2>2
<1> QED
  BY <1>4, <1>5

--------------------------------------------------------------------------------
(* What EchoService lets a side see.                                          *)

Observed(m) == <<Flow(m), seqWr[m], seqRd[m], error[m], lossy[m]>>

SideStays(m) == Observed(m)' = Observed(m)

Sends(m) ==
  /\ Flow(m)' = Append(Flow(m), seqWr[m])
  /\ seqWr'[m] = seqWr[m] + 1
  /\ seqRd'[m] = seqRd[m] /\ error'[m] = error[m] /\ lossy'[m] = lossy[m]

IsRefused(m) ==
  /\ seqWr'[m] = seqWr[m] + 1 /\ lossy'[m] = TRUE
  /\ Flow(m)' = Flow(m) /\ seqRd'[m] = seqRd[m] /\ error'[m] = error[m]

Loses(m, k) ==
  /\ Flow(m)' = RemoveAt(Flow(m), k) /\ lossy'[m] = TRUE
  /\ seqWr'[m] = seqWr[m] /\ seqRd'[m] = seqRd[m] /\ error'[m] = error[m]

IsCut(m, n) ==
  /\ Flow(m)' = SubSeq(Flow(m), 1, n) /\ lossy'[m] = TRUE
  /\ seqWr'[m] = seqWr[m] /\ seqRd'[m] = seqRd[m] /\ error'[m] = error[m]

IsAnswered(m) ==
  /\ Flow(m) # <<>>
  /\ Flow(m)' = Tail(Flow(m))
  /\ IF Head(Flow(m)) = seqRd[m]
     THEN seqRd'[m] = seqRd[m] + 1 /\ error'[m] = error[m]
     ELSE error'[m] = TRUE /\ seqRd'[m] = seqRd[m]
  /\ seqWr'[m] = seqWr[m] /\ lossy'[m] = lossy[m]

Restarts(m) ==
  /\ Flow(m)' = <<>>
  /\ seqWr'[m] = 0 /\ seqRd'[m] = 0 /\ error'[m] = FALSE /\ lossy'[m] = FALSE

SideNext(m) ==
  \/ Sends(m)
  \/ IsRefused(m)
  \/ \E k \in DOMAIN Flow(m) : Loses(m, k) \/ IsCut(m, k - 1)
  \/ IsAnswered(m)
  \/ Restarts(m)
  \/ SideStays(m)

(* A step that changes neither what is on its way nor the counters.           *)
LEMMA NothingSeen ==
  ASSUME NEW m \in Sides, \A n \in Sides : Unhandled(n)' = Unhandled(n), Reading(m)' = Reading(m),
         seqWr'[m] = seqWr[m], seqRd'[m] = seqRd[m], error'[m] = error[m], lossy'[m] = lossy[m]
  PROVE  SideNext(m)
<1>1. Unhandled(m)' = Unhandled(m) /\ Unhandled(Peer(m))' = Unhandled(Peer(m))
  <2>1. Peer(m) \in Sides
    BY SidesFact
  <2> HIDE DEF Peer
  <2> QED
    BY <2>1
<1>2. Flow(m)' = Flow(m)
  BY <1>1, FlowFact
<1> QED
  BY <1>2 DEF SideNext, SideStays, Observed

(* What Own collects with one message more in front, or at the end.           *)
LEMMA OwnFirst ==
  ASSUME NEW m \in Sides, NEW msg \in Messages, NEW msgs \in Seq(Messages)
  PROVE  Own(m, <<msg>> \o msgs) = IF msg.type = Type[m] THEN <<msg.id>> \o Own(m, msgs)
                                   ELSE Own(m, msgs)
<1>1. <<msg>> \in Seq(Messages)
  OBVIOUS
<1>2. Own(m, <<msg>> \o msgs) = Own(m, <<msg>>) \o Own(m, msgs)
  BY <1>1, OwnConcat
<1>3. Own(m, msgs) \in Seq(Ids)
  BY OwnType
<1>4. <<>> \o Own(m, msgs) = Own(m, msgs)
  BY <1>3
<1> QED
  BY <1>2, <1>4, OwnOne

LEMMA EchoSeen ==
  ASSUME IInv, NEW m \in Sides, Echo(m)
  PROVE  \A n \in Sides : SideNext(n)
<1> DEFINE p == Peer(m)
           msg == loop[m].hand
<1>1. /\ msg \in Messages /\ msg.type = Type[p] /\ msg.id \in Ids
      /\ Waiting(m) \in Seq(Messages) /\ Unhandled(p) \in Seq(Messages)
      /\ p \in Sides /\ Type[m] # Type[p] /\ Peer(p) = m
  BY HandUnhandled, UnhandledType, SidesFact, MessageFact DEF Echo
<1>2. /\ Reading(m) /\ Reading(m)' /\ Reading(p)' = Reading(p)
      /\ Unhandled(m) = <<msg>> \o Waiting(m)
      /\ Unhandled(m)' = Waiting(m)
  BY <1>1, HandUnhandled, ThreadReads DEF Thread
<1>3. Unhandled(p)' = IF Reading(p) /\ M!Room(TxQueue[m], msg) THEN Append(Unhandled(p), msg)
                      ELSE Unhandled(p)
  <2>1. done'[p] = done[p]
    BY <1>1, SidesFact DEF Echo, SeenTo, IInv, TypeOK
  <2> QED
    BY <1>1, <2>1, SentUnhandled DEF Echo
<1>4. /\ UNCHANGED <<seqWr, seqRd, error>>
      /\ lossy' = [lossy EXCEPT ![p] = lossy[p] \/ (Reading(p) /\ ~M!Room(TxQueue[m], msg))]
      /\ lossy \in [Sides -> BOOLEAN]
  BY DEF Echo, IInv, TypeOK
<1> HIDE DEF p, msg
<1>5. SideNext(m)
  <2>1. Own(m, Unhandled(m)') = Own(m, Unhandled(m))
    BY <1>1, <1>2, OwnFirst
  <2>2. Own(m, Unhandled(p)') = Own(m, Unhandled(p))
    BY <1>1, <1>3, OwnAppend
  <2>3. Flow(m)' = Flow(m)
    BY <1>2, <2>1, <2>2, FlowFact DEF p
  <2>4. lossy'[m] = lossy[m]
    BY <1>1, <1>4
  <2> QED
    BY <1>4, <2>3, <2>4 DEF SideNext, SideStays, Observed
<1>6. SideNext(p)
  <2> DEFINE A == Own(p, Unhandled(p))
             B == Own(p, Waiting(m))
  <2>1. A \in Seq(Ids) /\ B \in Seq(Ids)
    BY <1>1, OwnType
  <2>2. Own(p, Unhandled(m)) = <<msg.id>> \o B /\ Own(p, Unhandled(m)') = B
    BY <1>1, <1>2, OwnFirst
  <2>3. CASE ~Reading(p)
    <3>1. Flow(p)' = Flow(p)
      BY <1>1, <1>2, <2>3, FlowFact
    <3>2. lossy'[p] = lossy[p]
      BY <1>1, <1>4, <2>3
    <3> QED
      BY <1>4, <3>1, <3>2 DEF SideNext, SideStays, Observed
  <2>4. CASE Reading(p) /\ M!Room(TxQueue[m], msg)
    <3>1. Own(p, Unhandled(p)') = Append(A, msg.id)
      BY <1>1, <1>3, <2>4, OwnAppend
    <3>2. Flow(p) = A \o (<<msg.id>> \o B) /\ Flow(p)' = Append(A, msg.id) \o B
      BY <1>1, <1>2, <2>2, <2>4, <3>1, FlowFact
    <3>3. Append(A, msg.id) \o B = A \o (<<msg.id>> \o B)
      <4> HIDE DEF A, B
      <4> QED
        BY <1>1, <2>1, MoveAcross, Zenon
    <3>4. lossy'[p] = lossy[p]
      BY <1>1, <1>4, <2>4
    <3> QED
      BY <1>4, <3>2, <3>3, <3>4 DEF SideNext, SideStays, Observed
  <2>5. CASE Reading(p) /\ ~M!Room(TxQueue[m], msg)
    <3>1. Flow(p) = A \o (<<msg.id>> \o B) /\ Flow(p)' = A \o B
      BY <1>1, <1>2, <1>3, <2>2, <2>5, FlowFact
    <3>2. lossy'[p] = TRUE
      BY <1>1, <1>4, <2>5
    <3> HIDE DEF A, B
    <3>3. Len(A) + 1 \in DOMAIN Flow(p) /\ Flow(p)' = RemoveAt(Flow(p), Len(A) + 1)
      BY <1>1, <2>1, <3>1, RemoveBetween, Zenon
    <3>4. Loses(p, Len(A) + 1)
      BY <1>4, <3>2, <3>3 DEF Loses
    <3> QED
      BY <3>3, <3>4 DEF SideNext
  <2> QED
    BY <2>3, <2>4, <2>5
<1>7. \A n \in Sides : n = m \/ n = p
  BY SidesFact DEF p, Sides, Peer
<1> QED
  BY <1>5, <1>6, <1>7

LEMMA CompareSeen ==
  ASSUME IInv, NEW m \in Sides, Compare(m)
  PROVE  \A n \in Sides : SideNext(n)
<1> DEFINE p == Peer(m)
           msg == loop[m].hand
<1>1. /\ msg \in Messages /\ msg.type = Type[m] /\ msg.id \in Ids
      /\ Waiting(m) \in Seq(Messages) /\ Unhandled(p) \in Seq(Messages)
      /\ p \in Sides /\ p # m /\ Type[m] # Type[p] /\ Peer(p) = m
  BY HandUnhandled, UnhandledType, SidesFact, MessageFact DEF Compare
<1>2. /\ Reading(m) /\ Reading(m)' /\ Reading(p)' = Reading(p)
      /\ Unhandled(m) = <<msg>> \o Waiting(m)
      /\ Unhandled(m)' = Waiting(m)
  BY <1>1, HandUnhandled, ThreadReads DEF Thread
<1>3. Unhandled(p)' = Unhandled(p)
  <2>1. done'[p] = done[p] /\ UNCHANGED <<loop, queue>>
    BY <1>1 DEF Compare, SeenTo, IInv, TypeOK, managerVars
  <2> QED
    BY <1>1, <1>2, <2>1, SameUnhandled
<1>4. /\ UNCHANGED <<seqWr, lossy>>
      /\ IF msg.id = seqRd[m] THEN seqRd' = [seqRd EXCEPT ![m] = seqRd[m] + 1] /\ UNCHANGED error
         ELSE error' = [error EXCEPT ![m] = TRUE] /\ UNCHANGED seqRd
      /\ DOMAIN seqRd = Sides /\ DOMAIN error = Sides
  BY DEF Compare, IInv, TypeOK
<1> HIDE DEF p, msg
<1>5. SideNext(m)
  <2> DEFINE B == Own(m, Waiting(m))
             C == Own(m, Unhandled(p))
  <2>1. B \in Seq(Ids) /\ C \in Seq(Ids)
    BY <1>1, OwnType
  <2>2. Own(m, Unhandled(m)) = <<msg.id>> \o B /\ Own(m, Unhandled(m)') = B
    BY <1>1, <1>2, OwnFirst
  <2>3. Flow(m) = (<<msg.id>> \o B) \o C /\ Flow(m)' = B \o C
    BY <1>2, <1>3, <2>2, FlowFact DEF p
  <2> HIDE DEF B, C
  <2>4. Flow(m) # <<>> /\ Head(Flow(m)) = msg.id /\ Flow(m)' = Tail(Flow(m))
    <3>1. /\ (<<msg.id>> \o B) \o C # <<>> /\ Head((<<msg.id>> \o B) \o C) = msg.id
          /\ Tail((<<msg.id>> \o B) \o C) = B \o C
      BY <1>1, <2>1, FirstOfConcat, Zenon
    <3> QED
      BY <2>3, <3>1, Zenon
  <2>5. IF msg.id = seqRd[m] THEN seqRd'[m] = seqRd[m] + 1 /\ error'[m] = error[m]
        ELSE error'[m] = TRUE /\ seqRd'[m] = seqRd[m]
    BY <1>4
  <2>6. IsAnswered(m)
    BY <1>4, <2>4, <2>5 DEF IsAnswered
  <2> QED
    BY <2>6 DEF SideNext
<1>6. SideNext(p)
  <2>1. Own(p, Unhandled(m)') = Own(p, Unhandled(m))
    BY <1>1, <1>2, OwnFirst
  <2>2. Flow(p)' = Flow(p)
    BY <1>1, <1>2, <1>3, <2>1, FlowFact
  <2>3. seqRd'[p] = seqRd[p] /\ error'[p] = error[p]
    BY <1>1, <1>4
  <2> QED
    BY <1>4, <2>2, <2>3 DEF SideNext, SideStays, Observed
<1>7. \A n \in Sides : n = m \/ n = p
  BY SidesFact DEF p, Sides, Peer
<1> QED
  BY <1>5, <1>6, <1>7

LEMMA SendSeen ==
  ASSUME IInv, NEW m \in Sides, SendNext(m)
  PROVE  \A n \in Sides : SideNext(n)
<1> DEFINE p == Peer(m)
           msg == [type |-> Type[m], id |-> seqWr[m]]
           arrives == Reading(p) /\ M!Room(TxQueue[m], msg)
<1>1. /\ msg \in Messages /\ msg.type = Type[m] /\ msg.id = seqWr[m] /\ msg.id \in Ids
      /\ Unhandled(m) \in Seq(Messages) /\ Unhandled(p) \in Seq(Messages)
      /\ p \in Sides /\ p # m /\ Type[m] # Type[p] /\ Peer(p) = m
  BY NextMessage, UnhandledType, SidesFact DEF SendNext, IInv
<1>2. Reading(m) /\ Reading(m)' /\ Reading(p)' = Reading(p)
  BY <1>1, ThreadReads DEF Thread
<1>3. /\ Add(m, msg) /\ main' = main
      /\ done' = [done EXCEPT ![m] = done[m] + 1]
      /\ loop[m].pc # "message"
  BY DEF SendNext, SeenTo, Working
<1>4. Unhandled(m)' = Unhandled(m)
  <2>1. loop' = loop /\ queue'[RxQueue[m]] = queue[RxQueue[m]]
    BY <1>1, <1>3, AddEffect DEF IInv
  <2> QED
    BY <1>2, <1>3, <2>1 DEF Unhandled, Waiting, M!At
<1>5. Unhandled(p)' = IF arrives THEN Append(Unhandled(p), msg) ELSE Unhandled(p)
  <2>1. done'[p] = done[p]
    BY <1>1, <1>3 DEF IInv, TypeOK
  <2> QED
    BY <1>1, <1>3, <2>1, SentUnhandled
<1>6. /\ UNCHANGED <<seqRd, error>>
      /\ seqWr'[m] = seqWr[m] + 1 /\ seqWr'[p] = seqWr[p]
      /\ lossy'[m] = (lossy[m] \/ ~arrives) /\ lossy'[p] = lossy[p]
  BY <1>1 DEF SendNext, Lost, IInv, TypeOK
<1> HIDE DEF p, msg, arrives
<1>7. SideNext(m)
  <2> DEFINE A == Own(m, Unhandled(m))
             B == Own(m, Unhandled(p))
  <2>1. A \in Seq(Ids) /\ B \in Seq(Ids) /\ Flow(m) = A \o B
    BY <1>1, <1>2, OwnType, FlowFact DEF p
  <2>2. CASE arrives
    <3>1. Own(m, Unhandled(p)') = Append(B, seqWr[m])
      BY <1>1, <1>5, <2>2, OwnAppend
    <3>2. Flow(m)' = A \o Append(B, seqWr[m])
      BY <1>2, <1>4, <3>1, FlowFact DEF p
    <3> HIDE DEF A, B
    <3>3. A \o Append(B, seqWr[m]) = Append(A \o B, seqWr[m])
      <4>1. seqWr[m] \in Ids
        BY <1>1
      <4> QED
        BY <2>1, <4>1, ConcatAppend, Zenon
    <3>4. lossy'[m] = lossy[m]
      BY <1>6, <2>2 DEF IInv, TypeOK
    <3>5. Sends(m)
      BY <1>6, <2>1, <3>2, <3>3, <3>4 DEF Sends
    <3> QED
      BY <3>5 DEF SideNext
  <2>3. CASE ~arrives
    <3>1. Flow(m)' = Flow(m)
      BY <1>2, <1>4, <1>5, <2>3, FlowFact DEF p
    <3>2. IsRefused(m)
      BY <1>6, <2>3, <3>1 DEF IsRefused
    <3> QED
      BY <3>2 DEF SideNext
  <2> QED
    BY <2>2, <2>3
<1>8. SideNext(p)
  <2>1. Own(p, Unhandled(p)') = Own(p, Unhandled(p))
    BY <1>1, <1>5, OwnAppend
  <2>2. Flow(p)' = Flow(p)
    BY <1>1, <1>2, <1>4, <2>1, FlowFact
  <2> QED
    BY <1>6, <2>2 DEF SideNext, SideStays, Observed
<1>9. \A n \in Sides : n = m \/ n = p
  BY SidesFact DEF p, Sides, Peer
<1> QED
  BY <1>7, <1>8, <1>9

(* The steps of the threads. *)
LEMMA ThreadSeen ==
  ASSUME IInv, NEW m \in Sides, Thread(m)
  PROVE  \A n \in Sides : SideNext(n)
<1>1. CASE HandlerReturns(m) \/ LoopStep(m)
  <2>1. UNCHANGED <<seqWr, seqRd, error, lossy>>
    BY <1>1 DEF HandlerReturns, LoopStep
  <2>2. \A n \in Sides : Unhandled(n)' = Unhandled(n) /\ Reading(n)' = Reading(n)
    BY <1>1, LoopKeepsUnhandled
  <2> QED
    BY <2>1, <2>2, NothingSeen
<1> QED
  BY <1>1, EchoSeen, CompareSeen, SendSeen DEF Thread

--------------------------------------------------------------------------------
(* The program's steps.                                                       *)

(* What was last on its way is cut off, and those whose it was note a loss.   *)
LEMMA CutSeen ==
  ASSUME IInv, LossSeen, UNCHANGED <<seqWr, seqRd, error>>, NEW m \in Sides,
         NEW s \in Seq(Ids), NEW t \in Seq(Ids), Flow(m) = s \o t, Flow(m)' = s
  PROVE  SideNext(m)
<1>1. lossy'[m] = (lossy[m] \/ Len(Flow(m)') < Len(Flow(m)))
  BY DEF LossSeen
<1>2. CASE t = <<>>
  <2>1. Flow(m)' = Flow(m)
    BY <1>2, ConcatType
  <2>2. ~(Len(Flow(m)') < Len(Flow(m)))
    <3>1. Flow(m) \in Seq(Ids)
      BY UnhandledType
    <3>2. Len(Flow(m)) \in Nat
      BY <3>1
    <3> QED
      BY <2>1, <3>2
  <2>3. lossy'[m] = lossy[m]
    BY <1>1, <2>2 DEF IInv, TypeOK
  <2> QED
    BY <2>1, <2>3 DEF SideNext, SideStays, Observed
<1>3. CASE t # <<>>
  <2>1. /\ SubSeq(s \o t, 1, Len(s)) = s
        /\ Len(s) + 1 \in DOMAIN (s \o t) /\ Len(s) < Len(s \o t)
    BY <1>3, CutAfter
  <2>2. Len(s) + 1 \in DOMAIN Flow(m) /\ (Len(s) + 1) - 1 = Len(s)
    <3>1. Len(s) \in Nat
      OBVIOUS
    <3> QED
      BY <2>1, <3>1
  <2>3. lossy'[m] = TRUE
    BY <1>1, <2>1
  <2>4. IsCut(m, Len(s))
    BY <2>1, <2>3 DEF IsCut
  <2> QED
    BY <2>2, <2>4 DEF SideNext
<1> QED
  BY <1>2, <1>3

(* One side stops looking at its messages; the other has the same as before.  *)
LEMMA SideLeaves ==
  ASSUME IInv, LossSeen, UNCHANGED <<seqWr, seqRd, error>>, NEW m \in Sides, ~Reading(m)',
         Unhandled(Peer(m))' = Unhandled(Peer(m)), Reading(Peer(m))' = Reading(Peer(m))
  PROVE  \A n \in Sides : SideNext(n)
<1> DEFINE p == Peer(m)
<1>1. p \in Sides /\ Peer(p) = m
  BY SidesFact
<1>2. SideNext(m)
  <2>1. Flow(m) \in Seq(Ids) /\ Flow(m)' = <<>> /\ <<>> \in Seq(Ids)
    BY UnhandledType, FlowFact
  <2>2. <<>> \o Flow(m) = Flow(m)
    BY <2>1
  <2> QED
    BY <2>1, <2>2, CutSeen
<1>3. SideNext(p)
  <2> DEFINE A == Own(p, Unhandled(p))
             B == Own(p, Unhandled(m))
  <2>1. A \in Seq(Ids) /\ B \in Seq(Ids) /\ <<>> \in Seq(Ids) /\ A \o <<>> = A
    BY <1>1, UnhandledType, OwnType, ConcatType
  <2>2. Unhandled(m)' = <<>> /\ Own(p, <<>>) = <<>>
    BY <1>1, OwnEmpty DEF Unhandled
  <2>3. CASE ~Reading(p)
    <3>1. Flow(p) = <<>> /\ Flow(p)' = <<>> /\ <<>> \o <<>> = <<>>
      BY <1>1, <2>1, <2>3, FlowFact, ConcatType
    <3> QED
      BY <1>1, <2>1, <3>1, CutSeen
  <2>4. CASE Reading(p)
    <3>1. Flow(p) = A \o B
      BY <1>1, <2>4, FlowFact
    <3>2. Flow(p)' = A \o <<>>
      BY <1>1, <2>2, <2>4, FlowFact
    <3> HIDE DEF A, B
    <3> QED
      BY <1>1, <2>1, <3>1, <3>2, CutSeen
  <2> QED
    BY <2>3, <2>4
<1>4. \A n \in Sides : n = m \/ n = p
  BY SidesFact DEF Sides, Peer
<1> HIDE DEF p
<1> QED
  BY <1>2, <1>3, <1>4

(* Who is there to read, by the program's stage. *)
LEMMA ReaderFact ==
  ASSUME IInv
  PROVE  /\ Reading("user") <=> main \in {"mapped", "running", "stopping"}
         /\ Reading("kernel") <=> life["kernel"] # "idle"
         /\ Reading("user")' <=> main' \in {"mapped", "running", "stopping"}
         /\ Reading("kernel")' <=> life'["kernel"] # "idle"
         /\ main \in {"none", "opened", "ready"} => life["kernel"] = "idle"
         /\ Peer("user") = "kernel" /\ Peer("kernel") = "user"
BY DEF Reading, Peer, IInv, SessionInv, Mapped

(* Steps that concern nothing on its way, and no counter. *)
LEMMA QuietSeen ==
  ASSUME IInv, UNCHANGED <<loop, queue, done, seqWr, seqRd, error, lossy>>,
         \A n \in Sides : Reading(n)' = Reading(n)
  PROVE  \A n \in Sides : SideNext(n)
<1>1. \A n \in Sides : Unhandled(n)' = Unhandled(n)
  BY SameUnhandled
<1> QED
  BY <1>1, NothingSeen

LEMMA StageSeen ==
  ASSUME IInv, \/ Open \/ MmapFails \/ CloseFd \/ Unmap \/ StopUser \/ StopKernel
               \/ UNCHANGED vars
  PROVE  \A n \in Sides : SideNext(n)
<1>1. UNCHANGED <<loop, queue, done, seqWr, seqRd, error, lossy>>
  BY DEF Open, MmapFails, CloseFd, Unmap, StopUser, StopKernel, M!StopBegins, vars, managerVars, counters
<1>2. main' \in {"mapped", "running", "stopping"} <=> main \in {"mapped", "running", "stopping"}
  BY DEF Open, MmapFails, CloseFd, Unmap, StopUser, StopKernel, Goto, vars
<1>3. life'["kernel"] # "idle" <=> life["kernel"] # "idle"
  BY ManagersType, SidesFact
  DEF IInv, Open, MmapFails, CloseFd, Unmap, StopUser, StopKernel, M!StopBegins, vars, managerVars
<1>4. Reading("user")' = Reading("user") /\ Reading("kernel")' = Reading("kernel")
  BY <1>2, <1>3 DEF Reading
<1> QED
  BY <1>1, <1>4, QuietSeen DEF Sides

(* A session begins with nothing on its way. *)
LEMMA BeginSeen ==
  ASSUME IInv, InitQueues \/ Mmap
  PROVE  \A n \in Sides : SideNext(n)
<1>1. UNCHANGED <<done, seqWr, seqRd, error, lossy>>
  BY DEF InitQueues, Mmap, counters
<1>2. \A n \in Sides : ~Reading(n)
  BY ReaderFact DEF InitQueues, Mmap, Sides
<1>3. CASE InitQueues
  <2>1. \A n \in Sides : ~Reading(n)'
    BY <1>3, ReaderFact DEF InitQueues, Goto, Sides
  <2>2. \A n \in Sides : Flow(n)' = Flow(n)
    BY <1>2, <2>1, FlowFact
  <2> QED
    BY <1>1, <2>2 DEF SideNext, SideStays, Observed
<1>4. CASE Mmap
  <2>1. /\ queue' = queue /\ loop' = [loop EXCEPT !["kernel"] = M!Fresh]
        /\ main = "ready"
    BY <1>4 DEF Mmap, M!Start, M!Becomes
  <2>2. queue["up"] = <<>> /\ queue["down"] = <<>>
    BY <2>1, ManagersType DEF IInv, SessionInv
  <2>3. loop["user"].pc = "exited" /\ ~loop["user"].inPlace
    <3>1. M!At("user", "exited")
      BY <2>1, ManagersType, SidesFact DEF IInv, SessionInv
    <3> QED
      BY <3>1, CurrentFact, SidesFact DEF IInv, M!At
  <2>4. loop'["user"] = loop["user"] /\ loop'["kernel"].pc = "top" /\ loop'["kernel"].inPlace = FALSE
    BY <2>1, ManagersType, SidesFact DEF IInv, M!Fresh
  <2>5. \A n \in Sides : Waiting(n)' = <<>> /\ ~M!At(n, "message")'
    BY <2>1, <2>2, <2>3, <2>4 DEF Waiting, RxQueue, Sides, M!At
  <2>6. \A n \in Sides : Unhandled(n)' = <<>>
    BY <2>5 DEF Unhandled
  <2>7. \A n \in Sides : Flow(n)' = <<>>
    <3> SUFFICES ASSUME NEW n \in Sides PROVE Flow(n)' = <<>>
      OBVIOUS
    <3>1. Own(n, Unhandled(n)') = <<>> /\ Own(n, Unhandled(Peer(n))') = <<>>
      <4>1. Unhandled(n)' = <<>> /\ Unhandled(Peer(n))' = <<>>
        BY <2>6, SidesFact
      <4> QED
        BY <4>1, OwnEmpty
    <3>2. <<>> \o <<>> = <<>>
      BY ConcatType
    <3> QED
      BY <3>1, <3>2, FlowFact
  <2>8. \A n \in Sides : Flow(n) = <<>>
    BY <1>2, FlowFact
  <2> QED
    BY <1>1, <2>7, <2>8 DEF SideNext, SideStays, Observed
<1> QED
  BY <1>3, <1>4

LEMMA StartSeen ==
  ASSUME IInv, StartUser
  PROVE  \A n \in Sides : SideNext(n)
<1>1. /\ UNCHANGED <<queue, done, seqWr, seqRd, error, lossy>>
      /\ loop' = [loop EXCEPT !["user"] = M!Fresh] /\ life' = [life EXCEPT !["user"] = "running"]
      /\ main = "mapped" /\ main' = "running" /\ life["user"] = "idle"
  BY DEF StartUser, M!Start, M!Becomes, Goto, counters
<1>2. \A n \in Sides : Reading(n)' = Reading(n)
  BY <1>1, ManagersType, SidesFact DEF Reading, IInv
<1>3. Unhandled("user")' = Unhandled("user")
  <2>1. loop["user"].pc = "exited" /\ ~loop["user"].inPlace
    <3>1. M!At("user", "exited")
      BY <1>1, SidesFact DEF IInv, SessionInv
    <3> QED
      BY <3>1, CurrentFact, SidesFact DEF IInv, M!At
  <2>2. loop'["user"].pc = "top" /\ loop'["user"].inPlace = FALSE
    BY <1>1, ManagersType, SidesFact DEF IInv, M!Fresh
  <2> QED
    BY <1>1, <1>2, <2>1, <2>2, SidesFact DEF Unhandled, Waiting, M!At
<1>4. Unhandled("kernel")' = Unhandled("kernel")
  <2>1. loop'["kernel"] = loop["kernel"]
    BY <1>1, ManagersType, SidesFact DEF IInv
  <2> QED
    BY <1>1, <1>2, <2>1, SidesFact, SameUnhandled
<1>5. \A n \in Sides : Unhandled(n)' = Unhandled(n)
  BY <1>3, <1>4 DEF Sides
<1> QED
  BY <1>1, <1>2, <1>5, NothingSeen

(* The program's thread has ended or is killed, or the kernel's has ended.    *)
LEMMA LeaveSeen ==
  ASSUME IInv, JoinUser \/ Killed \/ JoinKernel
  PROVE  \A n \in Sides : SideNext(n)
<1>1. LossSeen /\ UNCHANGED <<seqWr, seqRd, error>>
  BY DEF JoinUser, Killed, JoinKernel, counters
<1>2. CASE JoinUser \/ Killed
  <2>1. ~Reading("user")' /\ queue' = queue
    BY <1>2, ReaderFact DEF JoinUser, Killed, Goto, M!Joined
  <2>2. /\ loop'["kernel"] = loop["kernel"] /\ done'["kernel"] = done["kernel"]
        /\ life'["kernel"] = life["kernel"]
    BY <1>2, ManagersType, SidesFact DEF IInv, TypeOK, JoinUser, Killed, M!Joined
  <2>3. Reading("kernel")' = Reading("kernel")
    BY <2>2 DEF Reading
  <2>4. Unhandled("kernel")' = Unhandled("kernel")
    BY <2>1, <2>2, <2>3, SidesFact, SameUnhandled
  <2> QED
    BY <1>1, <2>1, <2>3, <2>4, SidesFact, ReaderFact, SideLeaves
<1>3. CASE JoinKernel
  <2>1. /\ UNCHANGED <<queue, loop, done, main>>
        /\ life' = [life EXCEPT !["kernel"] = "idle"]
    BY <1>3 DEF JoinKernel, M!Joined
  <2>2. ~Reading("kernel")' /\ Reading("user")' = Reading("user")
    BY <2>1, ManagersType, SidesFact DEF IInv, Reading
  <2>3. Unhandled("user")' = Unhandled("user")
    BY <2>1, <2>2, SidesFact, SameUnhandled
  <2> QED
    BY <1>1, <2>2, <2>3, SidesFact, ReaderFact, SideLeaves
<1> QED
  BY <1>2, <1>3

(* A process has ended, or the kernel module is loaded again: its counters    *)
(* are new, and nothing is on its way.                                        *)
LEMMA RestartSeen ==
  ASSUME IInv, Released \/ Reload
  PROVE  \A n \in Sides : SideNext(n)
<1>1. /\ UNCHANGED <<loop, queue, done, life>>
      /\ main \in {"releasing", "none"} /\ main' = "none"
      /\ life["kernel"] = "idle"
  BY ReaderFact DEF Released, Reload, managerVars, Goto
<1>2. \A n \in Sides : ~Reading(n) /\ ~Reading(n)'
  BY <1>1, ReaderFact DEF Sides
<1>3. \A n \in Sides : Flow(n) = <<>> /\ Flow(n)' = <<>>
  BY <1>2, FlowFact
<1>4. PICK m \in Sides :
        /\ seqWr' = [seqWr EXCEPT ![m] = 0] /\ seqRd' = [seqRd EXCEPT ![m] = 0]
        /\ error' = [error EXCEPT ![m] = FALSE] /\ lossy' = [lossy EXCEPT ![m] = FALSE]
  BY SidesFact DEF Released, Reload
<1>5. /\ seqWr'[m] = 0 /\ seqRd'[m] = 0 /\ error'[m] = FALSE /\ lossy'[m] = FALSE
      /\ \A n \in Sides \ {m} : /\ seqWr'[n] = seqWr[n] /\ seqRd'[n] = seqRd[n]
                                /\ error'[n] = error[n] /\ lossy'[n] = lossy[n]
  BY <1>4 DEF IInv, TypeOK
<1>6. Restarts(m)
  BY <1>3, <1>5 DEF Restarts
<1>7. \A n \in Sides \ {m} : SideStays(n)
  BY <1>3, <1>5 DEF SideStays, Observed
<1> QED
  BY <1>6, <1>7 DEF SideNext

LEMMA NextSeen ==
  ASSUME IInv, [Next]_vars
  PROVE  \A n \in Sides : SideNext(n)
BY ThreadSeen, StageSeen, BeginSeen, StartSeen, LeaveSeen, RestartSeen DEF Next, Program

--------------------------------------------------------------------------------
(* The refinement.                                                            *)

(* EchoService as each side sees it, with its proofs. *)
UP == INSTANCE EchoServiceProofs WITH
        outstanding <- Flow("user"), sent <- seqWr["user"], expected <- seqRd["user"],
        error <- error["user"], lossy <- lossy["user"]

KP == INSTANCE EchoServiceProofs WITH
        outstanding <- Flow("kernel"), sent <- seqWr["kernel"], expected <- seqRd["kernel"],
        error <- error["kernel"], lossy <- lossy["kernel"]

LEMMA InitSeen ==
  ASSUME Init, NEW m \in Sides
  PROVE  Flow(m) = <<>> /\ seqWr[m] = 0 /\ seqRd[m] = 0 /\ error[m] = FALSE /\ lossy[m] = FALSE
<1>1. main = "none" /\ life = [n \in Sides |-> "idle"]
  BY DEF Init, M!Init
<1>2. ~Reading(m)
  BY <1>1 DEF Reading
<1> QED
  BY <1>2, FlowFact DEF Init

LEMMA UserStep ==
  ASSUME SideNext("user")
  PROVE  [UserService!Next]_(UserService!echoVars)
BY DEF SideNext, SideStays, Observed, Sends, IsRefused, Loses, IsCut, IsAnswered, Restarts,
       RemoveAt, UserService!Next, UserService!echoVars, UserService!Send, UserService!Refuse,
       UserService!Lose, UserService!Cut, UserService!Answer, UserService!Restart,
       UserService!RemoveAt

LEMMA KernelStep ==
  ASSUME SideNext("kernel")
  PROVE  [KernelService!Next]_(KernelService!echoVars)
BY DEF SideNext, SideStays, Observed, Sends, IsRefused, Loses, IsCut, IsAnswered, Restarts,
       RemoveAt, KernelService!Next, KernelService!echoVars, KernelService!Send, KernelService!Refuse,
       KernelService!Lose, KernelService!Cut, KernelService!Answer, KernelService!Restart,
       KernelService!RemoveAt

(* To the program everything else is an echo: whatever the queues, the two    *)
(* managers and the kernel module do, each of its messages is answered once   *)
(* and in order, or lost with a reason.                                       *)
THEOREM UserRefinement == Spec => UserEcho
<1>1. Init => UserService!Init
  BY InitSeen, SidesFact DEF UserService!Init
<1>2. IInv /\ [Next]_vars => [UserService!Next]_(UserService!echoVars)
  BY NextSeen, UserStep, SidesFact
<1> QED
  BY <1>1, <1>2, LongTestInvariance, PTL DEF Spec, UserEcho, UserService!Spec

(* And to the kernel module the programs that come and go are. *)
THEOREM KernelRefinement == Spec => KernelEcho
<1>1. Init => KernelService!Init
  BY InitSeen, SidesFact DEF KernelService!Init
<1>2. IInv /\ [Next]_vars => [KernelService!Next]_(KernelService!echoVars)
  BY NextSeen, KernelStep, SidesFact
<1> QED
  BY <1>1, <1>2, LongTestInvariance, PTL DEF Spec, KernelEcho, KernelService!Spec

(* The two instances say the same. *)
LEMMA SameService ==
  /\ UserService!Spec => UP!Spec
  /\ KernelService!Spec => KP!Spec
<1>1. UserService!Init => UP!Init
  BY DEF UserService!Init, UP!Init
<1>2. [UserService!Next]_(UserService!echoVars) => [UP!Next]_(UP!echoVars)
  BY DEF UserService!Next, UserService!echoVars, UserService!Send, UserService!Refuse,
         UserService!Lose, UserService!Cut, UserService!Answer, UserService!Restart,
         UserService!RemoveAt, UP!Next, UP!echoVars, UP!Send, UP!Refuse, UP!Lose, UP!Cut,
         UP!Answer, UP!Restart, UP!RemoveAt
<1>3. KernelService!Init => KP!Init
  BY DEF KernelService!Init, KP!Init
<1>4. [KernelService!Next]_(KernelService!echoVars) => [KP!Next]_(KP!echoVars)
  BY DEF KernelService!Next, KernelService!echoVars, KernelService!Send, KernelService!Refuse,
         KernelService!Lose, KernelService!Cut, KernelService!Answer, KernelService!Restart,
         KernelService!RemoveAt, KP!Next, KP!echoVars, KP!Send, KP!Refuse, KP!Lose, KP!Cut,
         KP!Answer, KP!Restart, KP!RemoveAt
<1> QED
  BY <1>1, <1>2, <1>3, <1>4, PTL DEF UserService!Spec, UP!Spec, KernelService!Spec, KP!Spec

(* A side of the long test counts a wrong answer only after a message or its  *)
(* answer did not fit into a queue, or was on its way when a session ended:   *)
(* the queues, the managers and the handlers never repeat, reorder or invent. *)
THEOREM LongTestErrorsExplained == Spec => []ErrorsExplained
<1>1. UP!ErrorsExplained /\ KP!ErrorsExplained => ErrorsExplained
  BY DEF UP!ErrorsExplained, KP!ErrorsExplained, ErrorsExplained, Sides
<1>2. Spec => UP!Spec /\ KP!Spec
  BY UserRefinement, KernelRefinement, SameService DEF UserEcho, KernelEcho
<1> QED
  BY <1>1, <1>2, UP!ErrorsAreExplained, KP!ErrorsAreExplained, PTL

(* One loss is for ever: the number a side then waits for is not among those  *)
(* on their way, so its expectation is never met by the answers that come.    *)
THEOREM LongTestNeverResyncs == Spec => [](UP!NeverResyncs /\ KP!NeverResyncs)
<1>1. Spec => UP!Spec /\ KP!Spec
  BY UserRefinement, KernelRefinement, SameService DEF UserEcho, KernelEcho
<1> QED
  BY <1>1, UP!NeverResynced, KP!NeverResynced, PTL

================================================================================
