---------------------------- MODULE LongTestProofs -----------------------------
(******************************************************************************)
(* Proofs, for every burst, capacity, interval and number of messages, that   *)
(* LongTest keeps IInv, and what follows from it, however the program is      *)
(* stopped or killed.                                                         *)
(*                                                                            *)
(* Both managers keep the invariant of MessageManager by its own proofs. What *)
(* is added is how a manager's life goes with the program's stages, and that  *)
(* a message in hand is one of the queue's.                                   *)
(******************************************************************************)
EXTENDS LongTest, TLAPS

(* MessageManager as M has it, with its proofs.                               *)
MP == INSTANCE MessageManagerProofs WITH
        Managers <- Sides,
        Queues <- {"up", "down"},
        Rx <- [m \in Sides |-> <<RxQueue[m]>>],
        Tx <- [m \in Sides |-> <<TxQueue[m]>>],
        Size <- [msg \in Messages |-> 1],
        QueueLength <- [q \in {"up", "down"} |-> Capacity + 1],
        ArraySize <- 64,
        TimerMod <- [m \in Sides |-> 1]

LEMMA SidesFact ==
  /\ "user" \in Sides /\ "kernel" \in Sides /\ Sides = {"user", "kernel"}
  /\ \A m \in Sides : /\ Peer(m) \in Sides /\ Peer(m) # m /\ Peer(Peer(m)) = m
                      /\ RxQueue[m] \in {"up", "down"} /\ TxQueue[m] \in {"up", "down"}
                      /\ TxQueue[m] = RxQueue[Peer(m)] /\ TxQueue[m] # RxQueue[m]
                      /\ Type[m] \in {0, 1} /\ Type[Peer(m)] # Type[m]
BY DEF Sides, Peer, RxQueue, TxQueue, Type

(* The constants of LongTest meet the assumptions of MessageManager.          *)
LEMMA ManagersFact ==
  /\ MP!QueuesAssumption
  /\ MP!OneReceiverAssumption
  /\ MP!MessagesAssumption
  /\ MP!IntervalAssumption
BY BoundsAssumption
DEF MP!QueuesAssumption, MP!OneReceiverAssumption, MP!MessagesAssumption, MP!IntervalAssumption,
    MP!Received, Sides, RxQueue, TxQueue, Messages, Nothing

LEMMA SameParts ==
  /\ (M!TypeOK <=> MP!TypeOK) /\ (M!TypeOK' <=> MP!TypeOK')
  /\ (M!FitInv <=> MP!FitInv) /\ (M!FitInv' <=> MP!FitInv')
  /\ \A m \in Sides : (M!ManagerInv(m) <=> MP!ManagerInv(m)) /\ (M!ManagerInv(m)' <=> MP!ManagerInv(m)')
BY DEF M!TypeOK, MP!TypeOK, M!Locals, MP!Locals, M!FitInv, MP!FitInv,
       M!ManagerInv, MP!ManagerInv, M!PlaceInv, MP!PlaceInv, M!CountInv, MP!CountInv,
       M!TurnInv, MP!TurnInv, M!SeenInv, MP!SeenInv, M!HaltInv, MP!HaltInv,
       M!NextLook, MP!NextLook, M!Handling, MP!Handling, M!InPass, MP!InPass,
       M!AtEnd, MP!AtEnd, M!At, MP!At, M!MoreQueues, MP!MoreQueues, M!Current, MP!Current

LEMMA SameInvariant == (M!IInv <=> MP!IInv) /\ (M!IInv' <=> MP!IInv')
BY SameParts DEF M!IInv, MP!IInv

LEMMA ThreadKeepsManagers ==
  ASSUME M!IInv, NEW m \in Sides, M!Thread(m)
  PROVE  M!IInv'
<1>1. MP!Thread(m)
  BY DEF M!Thread, MP!Thread, M!LoopEnds, MP!LoopEnds, M!PassBegins, MP!PassBegins,
         M!LookEmpty, MP!LookEmpty, M!TakeInPlace, MP!TakeInPlace, M!TakeCopy, MP!TakeCopy,
         M!MessageReturns, MP!MessageReturns, M!Count, MP!Count, M!WorkReturns, MP!WorkReturns,
         M!PassEnds, MP!PassEnds, M!IdleWorkReturns, MP!IdleWorkReturns,
         M!TimerReturns, MP!TimerReturns, M!Wake, MP!Wake, M!CheckTimer, MP!CheckTimer,
         M!Becomes, MP!Becomes, M!At, MP!At, M!MoreQueues, MP!MoreQueues, M!Current, MP!Current,
         M!Exited, MP!Exited, M!Fresh, MP!Fresh, M!Taken, MP!Taken, M!UpTo, MP!UpTo,
         M!Received, MP!Received, M!BufferHolds, MP!BufferHolds, M!Counted, MP!Counted,
         M!MovedOn, MP!MovedOn, M!history, MP!history
<1> QED
  BY <1>1, SameInvariant, ManagersFact, MP!ThreadHolds

LEMMA SendKeepsManagers ==
  ASSUME M!IInv, NEW m \in Sides, NEW msg \in Messages, M!HandlerSends(m, TxQueue[m], msg)
  PROVE  M!IInv'
<1>1. MP!Put(TxQueue[m], msg) /\ UNCHANGED <<life, stopped, loop, MP!history, due>>
  BY DEF M!HandlerSends, M!Put, MP!Put, M!history, MP!history
<1>2. due \in [Sides -> BOOLEAN]
  BY DEF M!IInv, M!TypeOK
<1>3. [n \in Messages |-> 1][msg] <= [q \in {"up", "down"} |-> Capacity + 1][TxQueue[m]]
  BY BoundsAssumption, SidesFact
<1> QED
  BY <1>1, <1>2, <1>3, SameInvariant, ManagersFact, SidesFact, MP!PutHolds

LEMMA StartKeepsManagers ==
  ASSUME M!IInv, NEW m \in Sides, M!Start(m)
  PROVE  M!IInv'
<1>1. MP!Start(m)
  BY DEF M!Start, MP!Start, M!Initialised, MP!Initialised, M!Becomes, MP!Becomes, M!Fresh, MP!Fresh
<1> QED
  BY <1>1, SameInvariant, ManagersFact, MP!StartHolds

LEMMA StopKeepsManagers ==
  ASSUME M!IInv, NEW m \in Sides, M!StopBegins(m) \/ M!Joined(m)
  PROVE  M!IInv'
<1>1. MP!StopBegins(m) \/ MP!Joined(m)
  BY DEF M!StopBegins, MP!StopBegins, M!Joined, MP!Joined, M!At, MP!At, M!history, MP!history
<1> QED
  BY <1>1, SameInvariant, ManagersFact, MP!StopBeginsHolds, MP!JoinedHolds

LEMMA ManagersInit ==
  ASSUME M!Init
  PROVE  M!IInv
<1>1. MP!Init
  BY DEF M!Init, MP!Init, M!Exited, MP!Exited, M!Fresh, MP!Fresh
<1> QED
  BY <1>1, SameInvariant, ManagersFact, MP!InitHolds

(* The types of the managers' variables, and what M!IInv says of a side that  *)
(* has exited. With one receiving queue nothing ever waits for another.       *)
LEMMA ManagersType ==
  ASSUME M!IInv
  PROVE  /\ queue \in [{"up", "down"} -> Seq(Messages)]
         /\ life \in [Sides -> {"idle", "running", "stopping"}]
         /\ loop \in [Sides -> M!Locals]
BY DEF M!IInv, M!TypeOK

LEMMA NobodyWaits ==
  ASSUME M!IInv, NEW m \in Sides
  PROVE  waits[RxQueue[m]] = 0
<1>1. M!TurnInv(m) /\ M!PlaceInv(m) /\ M!TypeOK
  BY DEF M!IInv, M!ManagerInv
<1>2. waits[RxQueue[m]] \in Nat /\ loop[m].at \in Nat \ {0}
  BY <1>1, SidesFact DEF M!TypeOK, M!Locals
<1> DEFINE rx == [n \in Sides |-> <<RxQueue[n]>>]
<1>3. rx[m] = <<RxQueue[m]>> /\ DOMAIN rx[m] = {1} /\ Len(rx[m]) = 1 /\ rx[m][1] = RxQueue[m]
  OBVIOUS
<1>4. M!NextLook(m) \in {1, 2}
  BY <1>1, <1>2, <1>3 DEF M!PlaceInv, M!NextLook, M!MoreQueues
<1>5. waits[RxQueue[m]] <= M!NextLook(m) - 1 - 1 + (IF 1 < M!NextLook(m) THEN 0 ELSE 1)
  BY <1>1, <1>3 DEF M!TurnInv
<1> QED
  BY <1>2, <1>4, <1>5

LEMMA QuietKeepsManagers ==
  ASSUME M!IInv, UNCHANGED managerVars
  PROVE  M!IInv'
<1>1. MP!IInv
  BY SameInvariant
<1>2. MP!TypeOK' /\ MP!FitInv'
  BY <1>1 DEF managerVars, MP!IInv, MP!TypeOK, MP!FitInv
<1>3. \A m \in Sides : MP!Untouched(m)
  BY DEF managerVars, MP!Untouched
<1> QED
  BY <1>1, <1>2, <1>3, ManagersFact, SameInvariant, MP!AllUntouchedHolds

(* A thread that has exited satisfies its part with whatever is in the queues.*)
LEMMA ExitedInv ==
  ASSUME M!IInv, NEW m \in Sides, loop'[m] = M!Exited, life'[m] = "idle",
         waits' = waits, sinceWork' = sinceWork, late' = late, afterStop' = afterStop,
         stopped' = stopped
  PROVE  M!ManagerInv(m)'
<1> DEFINE rx == [n \in Sides |-> <<RxQueue[n]>>]
<1>1. rx[m] = <<RxQueue[m]>> /\ DOMAIN rx[m] = {1} /\ Len(rx[m]) = 1 /\ rx[m][1] = RxQueue[m]
  OBVIOUS
<1>2. /\ loop'[m].pc = "exited" /\ loop'[m].at = 1 /\ loop'[m].ticks = 0
      /\ loop'[m].inPlace = FALSE
  BY DEF M!Exited, M!Fresh
<1>3. waits[RxQueue[m]] = 0
  BY NobodyWaits
<1>4. M!CountInv(m) /\ M!HaltInv(m)
  BY DEF M!IInv, M!ManagerInv
<1>5. M!PlaceInv(m)'
  BY <1>1, <1>2 DEF M!PlaceInv, M!At, M!Handling, M!InPass
<1>6. M!CountInv(m)'
  BY <1>2, <1>4 DEF M!CountInv, M!At, M!Handling
<1>7. M!TurnInv(m)'
  BY <1>1, <1>2, <1>3 DEF M!TurnInv, M!NextLook, M!Handling
<1>8. M!SeenInv(m)'
  BY <1>2 DEF M!SeenInv, M!At, M!Handling, M!InPass
<1>9. M!HaltInv(m)'
  BY <1>2, <1>4 DEF M!HaltInv, M!At
<1> QED
  BY <1>5, <1>6, <1>7, <1>8, <1>9 DEF M!ManagerInv

(* A process is killed. *)
LEMMA KilledKeepsManagers ==
  ASSUME M!IInv, Killed
  PROVE  M!IInv'
<1>1. /\ loop' = [loop EXCEPT !["user"] = M!Exited]
      /\ life' = [life EXCEPT !["user"] = "idle"]
      /\ UNCHANGED <<queue, stopped, due, seen, waits, sinceWork, late, afterStop>>
  BY DEF Killed
<1>2. MP!IInv
  BY SameInvariant
<1>3. MP!TypeOK' /\ MP!FitInv'
  <2>1. M!Exited = MP!Exited
    BY DEF M!Exited, MP!Exited, M!Fresh, MP!Fresh
  <2>2. MP!Exited \in MP!Locals
    BY ManagersFact, MP!FreshFact
  <2> QED
    BY <1>1, <1>2, <2>1, <2>2 DEF MP!IInv, MP!TypeOK, MP!FitInv
<1>4. loop'["user"] = M!Exited /\ life'["user"] = "idle"
  BY <1>1, SidesFact DEF M!IInv, M!TypeOK
<1>5. MP!ManagerInv("user")'
  BY <1>1, <1>4, SidesFact, SameParts, ExitedInv
<1>6. MP!OnlyOf("user")
  BY <1>1 DEF MP!OnlyOf, M!IInv, M!TypeOK
<1> QED
  BY <1>2, <1>3, <1>5, <1>6, SidesFact, SameInvariant, ManagersFact, MP!OthersHold

(* The queues are emptied while no thread runs. *)
LEMMA EmptyingKeepsManagers ==
  ASSUME M!IInv, \A m \in Sides : life[m] = "idle",
         queue' = [q \in DOMAIN queue |-> <<>>],
         UNCHANGED <<life, stopped, loop, due, seen, waits, sinceWork, late, afterStop>>
  PROVE  M!IInv'
<1>1. MP!IInv
  BY SameInvariant
<1>2. MP!TypeOK' /\ MP!FitInv'
  <2>1. <<>> \in Seq(Messages) /\ DOMAIN <<>> = {}
    OBVIOUS
  <2> QED
    BY <1>1, <2>1 DEF MP!IInv, MP!TypeOK, MP!FitInv
<1>3. ASSUME NEW m \in Sides PROVE MP!ManagerInv(m)'
  <2> DEFINE rx == [n \in Sides |-> <<RxQueue[n]>>]
  <2>1. rx[m] = <<RxQueue[m]>> /\ DOMAIN rx[m] = {1} /\ Len(rx[m]) = 1 /\ rx[m][1] = RxQueue[m]
    OBVIOUS
  <2>2. M!ManagerInv(m) /\ life[m] = "idle"
    BY DEF M!IInv
  <2>3. loop[m].pc = "exited" /\ ~loop[m].inPlace
    BY <2>2 DEF M!ManagerInv, M!PlaceInv, M!At
  <2>4. waits[RxQueue[m]] = 0
    BY NobodyWaits
  <2>5. M!PlaceInv(m)'
    BY <2>1, <2>2, <2>3 DEF M!ManagerInv, M!PlaceInv, M!At, M!Handling, M!InPass, M!AtEnd
  <2>6. M!CountInv(m)' /\ M!SeenInv(m)' /\ M!HaltInv(m)'
    BY <2>2, <2>3
    DEF M!ManagerInv, M!CountInv, M!SeenInv, M!HaltInv, M!At, M!Handling, M!InPass, M!NextLook
  <2>7. M!TurnInv(m)'
    BY <2>1, <2>2, <2>4 DEF M!ManagerInv, M!TurnInv, M!NextLook, M!Handling
  <2> QED
    BY <2>5, <2>6, <2>7, SameParts DEF M!ManagerInv
<1> QED
  BY <1>2, <1>3, SameInvariant DEF MP!IInv

--------------------------------------------------------------------------------
(* The managers.                                                              *)

LEMMA AddKeepsManagers ==
  ASSUME M!IInv, NEW m \in Sides, NEW msg \in Messages, Add(m, msg)
  PROVE  M!IInv'
BY SendKeepsManagers, QuietKeepsManagers DEF Add

LEMMA IdsFact ==
  /\ MaxId \in Nat \ {0} /\ Burst \in Nat \ {0} /\ Ids \subseteq 0 .. MaxId
  /\ \A msg \in Messages : msg.type \in {0, 1} /\ msg.id \in Ids
  /\ \A type \in {0, 1}, id \in Ids : [type |-> type, id |-> id] \in Messages
BY BoundsAssumption DEF Ids, Messages

(* What a side that has a message to send sends.                              *)
LEMMA NextMessage ==
  ASSUME TypeOK, NEW m \in Sides, ToSend(m)
  PROVE  /\ seqWr[m] \in Ids
         /\ [type |-> Type[m], id |-> seqWr[m]] \in Messages
<1>1. seqWr[m] \in 0 .. MaxId /\ seqWr[m] < MaxId
  BY DEF TypeOK, ToSend
<1>2. seqWr[m] \in Ids
  BY <1>1, IdsFact DEF Ids
<1> QED
  BY <1>2, IdsFact, SidesFact

LEMMA ThreadsKeepManagers ==
  ASSUME IInv, NEW m \in Sides, Thread(m)
  PROVE  M!IInv'
<1> USE DEF IInv
<1>1. CASE Echo(m)
  <2>1. loop[m].hand \in Messages /\ Add(m, loop[m].hand)
    BY <1>1 DEF Echo, HandlerInv
  <2> QED
    BY <2>1, AddKeepsManagers
<1>2. CASE Compare(m)
  BY <1>2, QuietKeepsManagers DEF Compare
<1>3. CASE SendNext(m)
  <2>1. ToSend(m) /\ Add(m, [type |-> Type[m], id |-> seqWr[m]])
    BY <1>3 DEF SendNext
  <2> QED
    BY <2>1, NextMessage, AddKeepsManagers
<1>4. CASE HandlerReturns(m) \/ LoopStep(m)
  <2>1. M!Thread(m)
    BY <1>4 DEF HandlerReturns, LoopStep, M!Thread
  <2> QED
    BY <2>1, ThreadKeepsManagers
<1> QED
  BY <1>1, <1>2, <1>3, <1>4 DEF Thread

LEMMA NextKeepsManagers ==
  ASSUME IInv, [Next]_vars
  PROVE  M!IInv'
<1>0. M!IInv
  BY DEF IInv
<1>1. CASE Open \/ Reload \/ MmapFails \/ CloseFd \/ Unmap \/ Released \/ UNCHANGED vars
  <2>1. UNCHANGED managerVars
    BY <1>1 DEF Open, Reload, MmapFails, CloseFd, Unmap, Released, vars
  <2> QED
    BY <1>0, <2>1, QuietKeepsManagers
<1>2. CASE StopUser \/ JoinUser \/ StopKernel \/ JoinKernel
  <2>1. \E m \in Sides : M!StopBegins(m) \/ M!Joined(m)
    BY <1>2, SidesFact DEF StopUser, JoinUser, StopKernel, JoinKernel
  <2> QED
    BY <1>0, <2>1, StopKeepsManagers
<1>3. CASE Mmap \/ StartUser
  <2>1. \E m \in Sides : M!Start(m)
    BY <1>3, SidesFact DEF Mmap, StartUser
  <2> QED
    BY <1>0, <2>1, StartKeepsManagers
<1>4. CASE Killed
  BY <1>0, <1>4, KilledKeepsManagers
<1>5. CASE InitQueues
  <2>1. \A m \in Sides : life[m] = "idle"
    BY <1>0, <1>5, ManagersType DEF InitQueues, IInv, SessionInv, Mapped, Sides
  <2> QED
    BY <1>0, <1>5, <2>1, EmptyingKeepsManagers DEF InitQueues
<1>6. ASSUME NEW m \in Sides, Thread(m) PROVE M!IInv'
  BY <1>6, ThreadsKeepManagers
<1> QED
  BY <1>1, <1>2, <1>3, <1>4, <1>5, <1>6 DEF Next, Program

--------------------------------------------------------------------------------
(* The types.                                                                 *)

LEMMA UpdateFact ==
  ASSUME NEW S, NEW f \in [Sides -> S], NEW m \in Sides, NEW e \in S
  PROVE  [f EXCEPT ![m] = e] \in [Sides -> S]
OBVIOUS

LEMMA ThreadKeepsTypes ==
  ASSUME IInv, NEW m \in Sides, Thread(m)
  PROVE  TypeOK'
<1> USE IdsFact DEF IInv, TypeOK
<1>1. CASE Echo(m)
  <2>1. done[m] = 0 /\ done' = [done EXCEPT ![m] = done[m] + 1]
    BY <1>1 DEF Echo, SeenTo
  <2>2. done[m] + 1 \in 0 .. Burst
    BY <2>1
  <2>3. lossy' \in [Sides -> BOOLEAN]
    BY <1>1 DEF Echo
  <2>4. first' \in BOOLEAN /\ UNCHANGED <<main, seqWr, seqRd, error>>
    BY <1>1 DEF Echo
  <2> QED
    BY <2>1, <2>2, <2>3, <2>4, UpdateFact
<1>2. CASE Compare(m)
  <2>1. done[m] = 0 /\ done' = [done EXCEPT ![m] = done[m] + 1]
    BY <1>2 DEF Compare, SeenTo
  <2>2. done[m] + 1 \in 0 .. Burst
    BY <2>1
  <2>3. loop[m].hand \in Messages
    BY <1>2 DEF Compare, HandlerInv
  <2>4. seqRd' \in [Sides -> 0 .. MaxId] /\ error' \in [Sides -> BOOLEAN]
    <3>1. CASE loop[m].hand.id = seqRd[m]
      <4>1. seqRd[m] + 1 \in 0 .. MaxId
        BY <2>3, <3>1 DEF Ids
      <4>2. seqRd' = [seqRd EXCEPT ![m] = seqRd[m] + 1] /\ UNCHANGED error
        BY <1>2, <3>1 DEF Compare
      <4> QED
        BY <4>1, <4>2, UpdateFact
    <3>2. CASE loop[m].hand.id # seqRd[m]
      BY <1>2, <3>2 DEF Compare
    <3> QED
      BY <3>1, <3>2
  <2>5. first' \in BOOLEAN /\ UNCHANGED <<main, seqWr, lossy>>
    BY <1>2 DEF Compare
  <2> QED
    BY <2>1, <2>2, <2>4, <2>5, UpdateFact
<1>3. CASE SendNext(m)
  <2>1. ToSend(m) /\ done' = [done EXCEPT ![m] = done[m] + 1] /\ seqWr' = [seqWr EXCEPT ![m] = seqWr[m] + 1]
    BY <1>3 DEF SendNext, SeenTo
  <2>2. done[m] + 1 \in 0 .. Burst /\ seqWr[m] + 1 \in 0 .. MaxId
    <3>1. done[m] < Quota(m) /\ seqWr[m] < MaxId
      BY <2>1 DEF ToSend
    <3>2. Quota(m) \in 0 .. Burst
      BY DEF Quota
    <3>3. done[m] \in 0 .. Burst /\ seqWr[m] \in 0 .. MaxId
      OBVIOUS
    <3> QED
      BY <3>1, <3>2, <3>3
  <2>3. lossy' \in [Sides -> BOOLEAN] /\ UNCHANGED <<main, seqRd, error, first>>
    BY <1>3 DEF SendNext, Lost
  <2> QED
    BY <2>1, <2>2, <2>3, UpdateFact
<1>4. CASE HandlerReturns(m)
  BY <1>4 DEF HandlerReturns
<1>5. CASE LoopStep(m)
  BY <1>5 DEF LoopStep
<1> QED
  BY <1>1, <1>2, <1>3, <1>4, <1>5 DEF Thread

LEMMA NextKeepsTypes ==
  ASSUME IInv, [Next]_vars
  PROVE  TypeOK'
<1> USE DEF counters, Goto, Stages
<1>1. TypeOK
  BY DEF IInv
<1>2. CASE Open \/ StopUser \/ MmapFails \/ CloseFd \/ Unmap \/ Mmap \/ StartUser \/ InitQueues
  BY <1>1, <1>2
  DEF TypeOK, Open, StopUser, MmapFails, CloseFd, Unmap, Mmap, StartUser, InitQueues
<1>3. CASE StopKernel \/ UNCHANGED vars
  BY <1>1, <1>3 DEF TypeOK, StopKernel, vars
<1>4. CASE JoinUser \/ JoinKernel \/ Killed
  <2>1. main' \in Stages /\ UNCHANGED <<seqWr, seqRd, error, first>>
    BY <1>1, <1>4 DEF TypeOK, JoinUser, JoinKernel, Killed
  <2>2. done' \in [Sides -> 0 .. Burst]
    BY <1>1, <1>4, IdsFact DEF TypeOK, JoinUser, JoinKernel, Killed
  <2>3. lossy' \in [Sides -> BOOLEAN]
    BY <1>1, <1>4 DEF TypeOK, JoinUser, JoinKernel, Killed, LossSeen
  <2> QED
    BY <1>1, <2>1, <2>2, <2>3 DEF TypeOK
<1>5. CASE Released \/ Reload
  <2>1. PICK m \in Sides :
          /\ seqWr' = [seqWr EXCEPT ![m] = 0] /\ seqRd' = [seqRd EXCEPT ![m] = 0]
          /\ error' = [error EXCEPT ![m] = FALSE] /\ lossy' = [lossy EXCEPT ![m] = FALSE]
    BY <1>5, SidesFact DEF Released, Reload
  <2>2. main' \in Stages /\ first' \in BOOLEAN /\ done' = done
    BY <1>1, <1>5 DEF TypeOK, Released, Reload
  <2>3. 0 \in 0 .. MaxId
    BY IdsFact
  <2> QED
    BY <1>1, <2>1, <2>2, <2>3, UpdateFact DEF TypeOK
<1>6. ASSUME NEW m \in Sides, Thread(m) PROVE TypeOK'
  BY <1>6, ThreadKeepsTypes
<1> QED
  BY <1>2, <1>3, <1>4, <1>5, <1>6 DEF Next, Program

--------------------------------------------------------------------------------
(* The program's stages, and the managers' lives.                             *)

(* A thread that takes a step has not exited, and has been started.           *)
LEMMA ThreadPlace ==
  ASSUME IInv, NEW m \in Sides, Thread(m)
  PROVE  /\ ~M!At(m, "exited") /\ UNCHANGED <<main, life>>
         /\ loop' = loop \/ \E locals : loop' = [loop EXCEPT ![m] = locals]
<1>1. CASE Echo(m) \/ Compare(m) \/ SendNext(m)
  BY <1>1 DEF Echo, Compare, SendNext, Add, M!HandlerSends, managerVars, M!At, Working
<1>2. CASE HandlerReturns(m)
  BY <1>2 DEF HandlerReturns, M!MessageReturns, M!WorkReturns, M!IdleWorkReturns, M!CheckTimer,
              M!Becomes, M!At
<1>3. CASE LoopStep(m)
  BY <1>3 DEF LoopStep, M!LoopEnds, M!PassBegins, M!LookEmpty, M!TakeInPlace, M!TakeCopy,
              M!Count, M!PassEnds, M!Wake, M!CheckTimer, M!Becomes, M!At
<1> QED
  BY <1>1, <1>2, <1>3 DEF Thread

LEMMA ThreadKeepsSession ==
  ASSUME IInv, NEW m \in Sides, Thread(m)
  PROVE  SessionInv'
<1>1. /\ ~M!At(m, "exited") /\ UNCHANGED <<main, life>>
      /\ \A n \in Sides \ {m} : loop'[n] = loop[n]
  BY ThreadPlace, ManagersType DEF IInv
<1>2. life[m] # "idle" /\ main # "ready"
  BY <1>1, ManagersType DEF IInv, SessionInv, Mapped, Sides
<1>3. ASSUME NEW n \in Sides, life[n] = "idle" PROVE M!At(n, "exited")'
  BY <1>1, <1>2, <1>3 DEF IInv, SessionInv, M!At
<1> QED
  BY <1>1, <1>2, <1>3 DEF IInv, SessionInv, Mapped

(* The program goes on to another stage, and no manager is concerned.         *)
LEMMA StageStep ==
  ASSUME IInv, NEW stage \in Stages, main' = stage, UNCHANGED <<life, loop>>,
         main \notin {"running", "stopping"}, stage \notin {"running", "stopping"},
         life["kernel"] # "idle" => stage \in {"mapped", "joined", "closed", "releasing"},
         stage = "ready" => \A q \in DOMAIN queue' : queue'[q] = <<>>
  PROVE  SessionInv'
BY DEF IInv, SessionInv, Mapped, M!At

(* A manager of one side changes, the other's stays as it is.                 *)
LEMMA LifeStep ==
  ASSUME IInv, NEW m \in Sides, NEW stage \in Stages \ {"ready"}, main' = stage,
         NEW place \in {"idle", "running", "stopping"}, life' = [life EXCEPT ![m] = place],
         loop' = loop \/ \E locals : loop' = [loop EXCEPT ![m] = locals],
         place = "idle" => M!At(m, "exited")',
         life'["user"] = "running" <=> stage = "running",
         life'["user"] = "stopping" <=> stage = "stopping",
         life'["kernel"] # "idle" =>
           stage \in {"mapped", "running", "stopping", "joined", "closed", "releasing"}
  PROVE  SessionInv'
<1>1. \A n \in Sides \ {m} : loop'[n] = loop[n] /\ life'[n] = life[n]
  BY ManagersType DEF IInv
<1>2. life'[m] = place
  BY ManagersType DEF IInv
<1>3. ASSUME NEW n \in Sides, life'[n] = "idle" PROVE M!At(n, "exited")'
  <2>1. CASE n = m
    BY <1>2, <1>3, <2>1
  <2>2. CASE n # m
    BY <1>1, <1>3, <2>2 DEF IInv, SessionInv, M!At
  <2> QED
    BY <2>1, <2>2
<1> QED
  BY <1>1, <1>2, <1>3 DEF SessionInv, Mapped

LEMMA ProgramKeepsSession ==
  ASSUME IInv, Program
  PROVE  SessionInv'
<1> USE SidesFact, ManagersType DEF Stages, Goto, IInv
<1>1. CASE InitQueues
  BY <1>1, StageStep DEF InitQueues, SessionInv, Mapped
<1>2. CASE MmapFails \/ CloseFd \/ Unmap
  <2>1. UNCHANGED <<life, loop>>
    BY <1>2 DEF MmapFails, CloseFd, Unmap, managerVars
  <2> QED
    BY <1>2, <2>1, StageStep DEF MmapFails, CloseFd, Unmap, SessionInv, Mapped
<1>3. CASE Mmap
  <2>1. /\ main = "ready" /\ main' = "mapped"
        /\ life' = [life EXCEPT !["kernel"] = "running"]
        /\ loop' = [loop EXCEPT !["kernel"] = M!Fresh]
    BY <1>3 DEF Mmap, M!Start, M!Becomes
  <2>2. /\ life'["user"] = life["user"] /\ loop'["user"] = loop["user"]
        /\ life'["kernel"] = "running"
    BY <2>1
  <2> QED
    BY <2>1, <2>2 DEF SessionInv, Mapped, M!At, Sides
<1>4. CASE StartUser
  BY <1>4, LifeStep DEF StartUser, M!Start, M!Becomes, SessionInv
<1>5. CASE JoinUser
  BY <1>5, LifeStep DEF JoinUser, M!Joined, M!At, SessionInv
<1>6. CASE StopKernel
  BY <1>6, LifeStep DEF StopKernel, M!StopBegins, SessionInv
<1>7. CASE JoinKernel
  BY <1>7, LifeStep DEF JoinKernel, M!Joined, M!At, SessionInv
<1>8. CASE Released
  BY <1>8, StageStep DEF Released, managerVars
<1> QED
  BY <1>1, <1>2, <1>3, <1>4, <1>5, <1>6, <1>7, <1>8 DEF Program

LEMMA NextKeepsSession ==
  ASSUME IInv, [Next]_vars
  PROVE  SessionInv'
<1> USE SidesFact, ManagersType DEF Stages, Goto, IInv
<1>1. CASE Open
  BY <1>1, StageStep DEF Open, managerVars, SessionInv, Mapped
<1>2. CASE StopUser
  BY <1>2, LifeStep DEF StopUser, M!StopBegins, SessionInv
<1>3. CASE Killed
  BY <1>3, LifeStep DEF Killed, M!At, M!Exited, SessionInv
<1>4. CASE Reload \/ UNCHANGED vars
  BY <1>4 DEF Reload, vars, managerVars, SessionInv, Mapped, M!At
<1>5. CASE Program
  BY <1>5, ProgramKeepsSession
<1>6. ASSUME NEW m \in Sides, Thread(m) PROVE SessionInv'
  BY <1>6, ThreadKeepsSession
<1> QED
  BY <1>1, <1>2, <1>3, <1>4, <1>5, <1>6 DEF Next

--------------------------------------------------------------------------------
(* The handlers.                                                              *)

(* There is one receiving queue. The loop has a place for a message only      *)
(* while it handles one.                                                      *)
LEMMA CurrentFact ==
  ASSUME M!IInv, NEW m \in Sides
  PROVE  /\ M!MoreQueues(m) => M!Current(m) = RxQueue[m]
         /\ M!Handling(m) => M!MoreQueues(m)
         /\ loop[m].inPlace => M!At(m, "message")
         /\ queue[RxQueue[m]] \in Seq(Messages)
<1> DEFINE rx == [n \in Sides |-> <<RxQueue[n]>>]
<1>1. rx[m] = <<RxQueue[m]>> /\ Len(rx[m]) = 1 /\ rx[m][1] = RxQueue[m]
  OBVIOUS
<1>2. loop[m] \in M!Locals /\ queue[RxQueue[m]] \in Seq(Messages)
  BY ManagersType, SidesFact
<1>3. loop[m].at \in Nat \ {0}
  BY <1>2 DEF M!Locals
<1>4. M!MoreQueues(m) => loop[m].at = 1
  BY <1>1, <1>3 DEF M!MoreQueues
<1>5. M!PlaceInv(m)
  BY DEF M!IInv, M!ManagerInv
<1> QED
  BY <1>1, <1>2, <1>4, <1>5 DEF M!PlaceInv, M!Current

(* What Add does to the queue, and that it does no more. *)
LEMMA AddEffect ==
  ASSUME M!IInv, NEW m \in Sides, NEW msg \in Messages, Add(m, msg)
  PROVE  /\ UNCHANGED <<loop, life>>
         /\ queue' \in [{"up", "down"} -> Seq(Messages)]
         /\ queue'[RxQueue[m]] = queue[RxQueue[m]]
         /\ queue'[TxQueue[m]] =
              IF M!Room(TxQueue[m], msg) THEN Append(queue[TxQueue[m]], msg) ELSE queue[TxQueue[m]]
<1>1. queue \in [{"up", "down"} -> Seq(Messages)]
  BY ManagersType
<1>2. CASE M!Room(TxQueue[m], msg)
  <2>1. UNCHANGED <<loop, life>> /\ queue' = [queue EXCEPT ![TxQueue[m]] = Append(queue[TxQueue[m]], msg)]
    BY <1>2 DEF Add, M!HandlerSends, M!Put
  <2> QED
    BY <1>1, <1>2, <2>1, SidesFact
<1>3. CASE ~M!Room(TxQueue[m], msg)
  BY <1>1, <1>3 DEF Add, managerVars
<1> QED
  BY <1>2, <1>3

LEMMA AppendHead ==
  ASSUME NEW s \in Seq(Messages), NEW msg \in Messages, s # <<>>
  PROVE  Append(s, msg) # <<>> /\ Head(Append(s, msg)) = Head(s)
OBVIOUS

LEMMA SameHandler ==
  ASSUME IInv, NEW m \in Sides, loop'[m] = loop[m],
         done'[m] > 0 => M!At(m, "message") \/ Working(m),
         \/ queue'[RxQueue[m]] = queue[RxQueue[m]]
         \/ \E msg \in Messages : queue'[RxQueue[m]] = Append(queue[RxQueue[m]], msg)
  PROVE  HandlerInv(m)'
<1>1. queue[RxQueue[m]] \in Seq(Messages)
  BY CurrentFact DEF IInv
<1>2. ASSUME loop[m].inPlace
      PROVE  queue'[RxQueue[m]] # <<>> /\ Head(queue'[RxQueue[m]]) = loop[m].hand
  BY <1>1, <1>2, AppendHead DEF IInv, HandlerInv
<1> QED
  BY <1>2 DEF IInv, HandlerInv, Working, M!At

LEMMA NoHandler ==
  ASSUME M!IInv', NEW m \in Sides, loop'[m].pc # "message", ~(done'[m] > 0)
  PROVE  HandlerInv(m)'
<1>1. loop'[m].inPlace => loop'[m].pc = "message"
  BY DEF M!IInv, M!ManagerInv, M!PlaceInv, M!At
<1> QED
  BY <1>1 DEF HandlerInv, M!At

(* A handler sends or compares. *)
LEMMA ActKeepsHandler ==
  ASSUME IInv, NEW m \in Sides, Echo(m) \/ Compare(m) \/ SendNext(m)
  PROVE  \A n \in Sides : HandlerInv(n)'
<1>1. \/ UNCHANGED <<loop, queue>>
      \/ \E msg \in Messages : Add(m, msg)
  <2>1. CASE Echo(m)
    BY <2>1 DEF Echo, IInv, HandlerInv
  <2>2. CASE Compare(m)
    BY <2>2 DEF Compare, managerVars
  <2>3. CASE SendNext(m)
    <3>1. ToSend(m) /\ Add(m, [type |-> Type[m], id |-> seqWr[m]])
      BY <2>3 DEF SendNext
    <3> QED
      BY <3>1, NextMessage DEF IInv
  <2> QED
    BY <2>1, <2>2, <2>3
<1>2. ASSUME NEW n \in Sides
      PROVE  /\ loop'[n] = loop[n]
             /\ \/ queue'[RxQueue[n]] = queue[RxQueue[n]]
                \/ \E msg \in Messages : queue'[RxQueue[n]] = Append(queue[RxQueue[n]], msg)
  <2>1. n = m \/ RxQueue[n] = TxQueue[m]
    BY SidesFact
  <2> QED
    BY <1>1, <2>1, AddEffect DEF IInv
<1>3. M!At(m, "message") \/ Working(m)
  BY DEF Echo, Compare, SendNext
<1>4. \A n \in Sides \ {m} : done'[n] = done[n]
  BY DEF Echo, Compare, SendNext, SeenTo, IInv, TypeOK
<1> QED
  BY <1>2, <1>3, <1>4, SameHandler DEF IInv, HandlerInv

(* A step of a thread leaves the peer's place and its receiving queue alone.  *)
LEMMA PeerUntouched ==
  ASSUME IInv, NEW m \in Sides, HandlerReturns(m) \/ LoopStep(m), NEW n \in Sides, n # m
  PROVE  loop'[n] = loop[n] /\ done'[n] = done[n] /\ queue'[RxQueue[n]] = queue[RxQueue[n]]
<1>1. loop'[n] = loop[n]
  <2>1. loop' = loop \/ \E locals : loop' = [loop EXCEPT ![m] = locals]
    BY ThreadPlace DEF Thread
  <2> QED
    BY <2>1, ManagersType DEF IInv
<1>2. done'[n] = done[n]
  BY DEF HandlerReturns, LoopStep, IInv, TypeOK
<1>3. queue' = queue \/ \E tail : queue' = [queue EXCEPT ![RxQueue[m]] = tail]
  <2>1. CASE HandlerReturns(m)
    BY <2>1, CurrentFact
    DEF IInv, HandlerReturns, M!MessageReturns, M!WorkReturns, M!IdleWorkReturns, M!Handling, M!At
  <2>2. CASE LoopStep(m)
    BY <2>2, CurrentFact
    DEF IInv, LoopStep, M!LoopEnds, M!PassBegins, M!LookEmpty, M!TakeInPlace, M!TakeCopy, M!Count,
        M!PassEnds, M!Wake
  <2> QED
    BY <2>1, <2>2
<1>4. RxQueue[n] # RxQueue[m] /\ RxQueue[n] \in {"up", "down"}
  BY SidesFact DEF Sides, RxQueue
<1>5. queue \in [{"up", "down"} -> Seq(Messages)]
  BY ManagersType DEF IInv
<1>6. queue'[RxQueue[n]] = queue[RxQueue[n]]
  BY <1>3, <1>4, <1>5
<1> QED
  BY <1>1, <1>2, <1>6

(* Where a check of the timer leads. *)
LEMMA CheckTimerPlace ==
  ASSUME M!IInv, NEW m \in Sides, NEW locals, "pc" \in DOMAIN locals,
         NEW next \in {"look", "top", "sleep"}, M!CheckTimer(m, locals, next)
  PROVE  loop'[m].pc \in {"timer", next}
<1>1. \/ loop' = [loop EXCEPT ![m] = [locals EXCEPT !.pc = "timer", !.then = next]]
      \/ loop' = [loop EXCEPT ![m] = [locals EXCEPT !.pc = next]]
  BY DEF M!CheckTimer, M!Becomes
<1>2. m \in DOMAIN loop
  BY ManagersType
<1>3. CASE loop' = [loop EXCEPT ![m] = [locals EXCEPT !.pc = "timer", !.then = next]]
  BY <1>2, <1>3
<1>4. CASE loop' = [loop EXCEPT ![m] = [locals EXCEPT !.pc = next]]
  BY <1>2, <1>4
<1> QED
  BY <1>1, <1>3, <1>4

LEMMA CountedPlace ==
  ASSUME M!IInv, NEW m \in Sides
  PROVE  /\ "pc" \in DOMAIN loop[m] /\ "pc" \in DOMAIN M!Counted(m)
         /\ \A left : "pc" \in DOMAIN M!MovedOn(m, left)
<1>1. "pc" \in DOMAIN loop[m]
  BY ManagersType DEF M!Locals
<1>2. "pc" \in DOMAIN M!Counted(m)
  BY <1>1 DEF M!Counted
<1> QED
  BY <1>1, <1>2 DEF M!MovedOn

(* A handler that returns leaves the loop without a message. *)
LEMMA ReturnEffect ==
  ASSUME IInv, NEW m \in Sides, HandlerReturns(m)
  PROVE  loop'[m].pc # "message" /\ done'[m] = 0
<1>1. loop \in [Sides -> M!Locals] /\ done'[m] = 0
  BY ManagersType DEF IInv, HandlerReturns, TypeOK
<1>2. loop'[m].pc # "message"
  <2>1. CASE M!MessageReturns(m)
    BY <1>1, <2>1 DEF M!MessageReturns, M!Becomes, M!Locals
  <2>2. CASE M!WorkReturns(m)
    <3>1. M!CheckTimer(m, loop[m], "look")
      BY <2>2 DEF M!WorkReturns
    <3> QED
      BY <3>1, CountedPlace, CheckTimerPlace DEF IInv
  <2>3. CASE M!IdleWorkReturns(m, FALSE)
    <3>1. M!CheckTimer(m, M!Counted(m), "sleep")
      BY <2>3 DEF M!IdleWorkReturns
    <3> QED
      BY <3>1, CountedPlace, CheckTimerPlace DEF IInv
  <2> QED
    BY <2>1, <2>2, <2>3 DEF HandlerReturns
<1> QED
  BY <1>1, <1>2

(* Between the handlers the loop takes a message, in place or not, or none.   *)
LEMMA LoopEffect ==
  ASSUME IInv, NEW m \in Sides, LoopStep(m)
  PROVE  /\ loop[m].pc # "message" /\ ~loop[m].inPlace
         /\ done[m] = 0 /\ done' = done
         /\ \/ loop'[m].pc # "message" /\ queue' = queue
            \/ /\ queue[RxQueue[m]] # <<>>
               /\ loop'[m].pc = "message" /\ loop'[m].hand = Head(queue[RxQueue[m]])
               /\ \/ loop'[m].inPlace /\ queue' = queue
                  \/ ~loop'[m].inPlace /\ queue'[RxQueue[m]] = Tail(queue[RxQueue[m]])
<1>1. loop \in [Sides -> M!Locals] /\ done \in [Sides -> 0 .. Burst] /\ done' = done
  BY ManagersType DEF IInv, LoopStep, TypeOK
<1>2. loop[m].pc \in {"top", "look", "count", "sleep"}
  BY DEF LoopStep, M!LoopEnds, M!PassBegins, M!LookEmpty, M!TakeInPlace, M!TakeCopy, M!Count,
         M!PassEnds, M!Wake, M!At
<1>3. loop[m] \in M!Locals /\ done[m] = 0 /\ ~loop[m].inPlace
  BY <1>1, <1>2, CurrentFact DEF IInv, HandlerInv, Working, M!At
<1>4. CASE M!TakeInPlace(m)
  <2>1. /\ queue[RxQueue[m]] # <<>> /\ queue' = queue
        /\ loop' = [loop EXCEPT ![m] = [loop[m] EXCEPT
                                          !.pc = "message", !.hand = Head(queue[RxQueue[m]]), !.inPlace = TRUE]]
    BY <1>4, CurrentFact DEF IInv, M!TakeInPlace, M!Becomes
  <2>2. loop'[m].pc = "message" /\ loop'[m].hand = Head(queue[RxQueue[m]]) /\ loop'[m].inPlace = TRUE
    BY <1>1, <2>1 DEF M!Locals
  <2> QED
    BY <1>1, <1>2, <1>3, <2>1, <2>2
<1>5. CASE M!TakeCopy(m)
  <2>1. /\ queue[RxQueue[m]] # <<>>
        /\ \/ loop' = [loop EXCEPT ![m] = M!Exited] /\ queue' = queue
           \/ /\ loop' = [loop EXCEPT ![m] = [loop[m] EXCEPT !.pc = "message", !.hand = Head(queue[RxQueue[m]])]]
              /\ queue' = [queue EXCEPT ![RxQueue[m]] = Tail(queue[RxQueue[m]])]
    BY <1>5, CurrentFact DEF IInv, M!TakeCopy, M!Becomes
  <2>2. CASE loop' = [loop EXCEPT ![m] = M!Exited] /\ queue' = queue
    <3>1. loop'[m].pc = "exited"
      BY <1>1, <2>2 DEF M!Exited, M!Fresh
    <3> QED
      BY <1>1, <1>2, <1>3, <2>2, <3>1
  <2>3. CASE /\ loop' = [loop EXCEPT ![m] = [loop[m] EXCEPT !.pc = "message", !.hand = Head(queue[RxQueue[m]])]]
             /\ queue' = [queue EXCEPT ![RxQueue[m]] = Tail(queue[RxQueue[m]])]
    <3>1. loop'[m].pc = "message" /\ loop'[m].hand = Head(queue[RxQueue[m]]) /\ ~loop'[m].inPlace
      BY <1>1, <1>3, <2>3 DEF M!Locals
    <3>2. queue'[RxQueue[m]] = Tail(queue[RxQueue[m]])
      BY <2>3, SidesFact, ManagersType DEF IInv
    <3> QED
      BY <1>1, <1>2, <1>3, <2>1, <3>1, <3>2
  <2> QED
    BY <2>1, <2>2, <2>3
<1>6. CASE M!LoopEnds(m) \/ M!PassBegins(m) \/ M!LookEmpty(m) \/ M!PassEnds(m) \/ M!Wake(m)
  <2>1. loop'[m].pc # "message"
    <3>1. CASE M!LoopEnds(m)
      BY <1>1, <3>1 DEF M!LoopEnds, M!Becomes, M!Exited, M!Fresh
    <3>2. CASE M!PassBegins(m)
      BY <1>1, <1>3, <3>2 DEF M!PassBegins, M!Becomes, M!Locals
    <3>3. CASE M!LookEmpty(m)
      BY <1>1, <1>3, <3>3 DEF M!LookEmpty, M!Becomes, M!Locals, M!At
    <3>4. CASE M!PassEnds(m)
      BY <1>1, <1>3, <3>4 DEF M!PassEnds, M!Becomes, M!Locals
    <3>5. CASE M!Wake(m)
      BY <1>1, <1>3, <3>5 DEF M!Wake, M!Becomes, M!Locals
    <3> QED
      BY <1>6, <3>1, <3>2, <3>3, <3>4, <3>5
  <2>2. queue' = queue
    BY <1>6 DEF M!LoopEnds, M!PassBegins, M!LookEmpty, M!PassEnds, M!Wake
  <2> QED
    BY <1>1, <1>2, <1>3, <2>1, <2>2
<1>7. CASE M!Count(m)
  <2> DEFINE more == M!MovedOn(m, queue[M!Current(m)] # <<>>)
  <2>1. /\ queue' = queue
        /\ \/ loop' = [loop EXCEPT ![m] = [more EXCEPT !.pc = "work"]]
           \/ M!CheckTimer(m, more, "look")
    BY <1>7 DEF M!Count, M!Becomes
  <2>2. "pc" \in DOMAIN more
    BY CountedPlace DEF IInv
  <2> HIDE DEF more
  <2>3. loop'[m].pc # "message"
    BY <1>1, <2>1, <2>2, CheckTimerPlace DEF IInv
  <2> QED
    BY <1>1, <1>2, <1>3, <2>1, <2>3
<1> QED
  BY <1>4, <1>5, <1>6, <1>7 DEF LoopStep

LEMMA LoopKeepsHandler ==
  ASSUME IInv, M!IInv', NEW m \in Sides, LoopStep(m)
  PROVE  HandlerInv(m)'
<1>1. done'[m] = 0
  BY LoopEffect
<1>2. CASE loop'[m].pc # "message"
  BY <1>1, <1>2, NoHandler
<1>3. CASE loop'[m].pc = "message"
  <2>1. queue[RxQueue[m]] # <<>> /\ loop'[m].hand = Head(queue[RxQueue[m]])
    BY <1>3, LoopEffect
  <2>2. Head(queue[RxQueue[m]]) \in Messages
    BY <2>1, CurrentFact DEF IInv
  <2>3. loop'[m].inPlace => queue' = queue
    BY <1>3, LoopEffect
  <2> QED
    BY <1>1, <2>1, <2>2, <2>3 DEF HandlerInv
<1> QED
  BY <1>2, <1>3

(* The program's steps find no handler running, or stop it where it is. *)
LEMMA NextKeepsHandlers ==
  ASSUME IInv, M!IInv', [Next]_vars, NEW n \in Sides
  PROVE  HandlerInv(n)'
<1> USE SidesFact, ManagersType DEF IInv
<1>1. CASE Open \/ Reload \/ MmapFails \/ CloseFd \/ Unmap \/ Released \/ UNCHANGED vars
  <2>1. UNCHANGED <<loop, queue, done>>
    BY <1>1 DEF Open, Reload, MmapFails, CloseFd, Unmap, Released, vars, managerVars
  <2> QED
    BY <2>1 DEF HandlerInv, Working, M!At
<1>2. CASE StopUser \/ JoinUser \/ StopKernel \/ JoinKernel
  <2>1. UNCHANGED <<loop, queue, done>>
    BY <1>2 DEF StopUser, JoinUser, StopKernel, JoinKernel, M!StopBegins, M!Joined
  <2> QED
    BY <2>1 DEF HandlerInv, Working, M!At
<1>3. CASE Mmap \/ StartUser
  <2>1. PICK m \in Sides : M!Start(m) /\ done' = done
    BY <1>3 DEF Mmap, StartUser
  <2>2. loop' = [loop EXCEPT ![m] = M!Fresh] /\ queue' = queue /\ life[m] = "idle"
    BY <2>1 DEF M!Start, M!Becomes
  <2>3. CASE n = m
    <3>1. M!At(m, "exited") /\ ~(done[m] > 0)
      BY <2>2 DEF SessionInv, HandlerInv, Working, M!At
    <3>2. loop'[m].pc = "top"
      BY <2>2 DEF M!Fresh
    <3> QED
      BY <2>1, <2>3, <3>1, <3>2, NoHandler
  <2>4. CASE n # m
    <3>1. loop'[n] = loop[n]
      BY <2>2, <2>4
    <3> QED
      BY <2>1, <2>2, <3>1 DEF HandlerInv, Working, M!At
  <2> QED
    BY <2>3, <2>4
<1>4. CASE Killed
  <2>1. /\ loop' = [loop EXCEPT !["user"] = M!Exited]
        /\ done' = [done EXCEPT !["user"] = 0]
        /\ queue' = queue
    BY <1>4 DEF Killed
  <2>2. CASE n = "user"
    <3>1. loop'[n].pc = "exited" /\ done'[n] = 0
      BY <2>1, <2>2 DEF M!Exited, M!Fresh, TypeOK
    <3> QED
      BY <3>1, NoHandler
  <2>3. CASE n # "user"
    <3>1. loop'[n] = loop[n] /\ done'[n] = done[n]
      BY <2>1, <2>3 DEF TypeOK
    <3> QED
      BY <2>1, <3>1 DEF HandlerInv, Working, M!At
  <2> QED
    BY <2>2, <2>3
<1>5. CASE InitQueues
  <2>1. loop[n].pc = "exited" /\ UNCHANGED <<loop, done>>
    BY <1>5 DEF InitQueues, SessionInv, Mapped, Sides, M!At
  <2> QED
    BY <2>1, NoHandler DEF HandlerInv, Working, M!At
<1>6. ASSUME NEW m \in Sides, Thread(m) PROVE HandlerInv(n)'
  <2>1. CASE Echo(m) \/ Compare(m) \/ SendNext(m)
    BY <2>1, ActKeepsHandler
  <2>2. CASE HandlerReturns(m) \/ LoopStep(m)
    <3>1. CASE n = m
      <4>1. CASE HandlerReturns(m)
        <5>1. loop'[m].pc # "message" /\ done'[m] = 0
          BY <4>1, ReturnEffect
        <5> QED
          BY <3>1, <5>1, NoHandler
      <4>2. CASE LoopStep(m)
        BY <3>1, <4>2, LoopKeepsHandler
      <4> QED
        BY <2>2, <4>1, <4>2
    <3>2. CASE n # m
      <4>1. loop'[n] = loop[n] /\ done'[n] = done[n] /\ queue'[RxQueue[n]] = queue[RxQueue[n]]
        BY <2>2, <3>2, PeerUntouched
      <4> QED
        BY <4>1 DEF HandlerInv, Working, M!At
    <3> QED
      BY <3>1, <3>2
  <2> QED
    BY <1>6, <2>1, <2>2 DEF Thread
<1> QED
  BY <1>1, <1>2, <1>3, <1>4, <1>5, <1>6 DEF Next, Program

--------------------------------------------------------------------------------
(* The invariant.                                                             *)

LEMMA InitHolds ==
  ASSUME Init
  PROVE  IInv
<1>1. M!Init /\ M!IInv
  BY ManagersInit DEF Init
<1>2. TypeOK
  <2>1. 0 \in 0 .. Burst /\ 0 \in 0 .. MaxId
    BY IdsFact
  <2> QED
    BY <2>1 DEF Init, TypeOK, Stages
<1>3. /\ life = [m \in Sides |-> "idle"] /\ loop = [m \in Sides |-> M!Exited]
      /\ main = "none" /\ done = [m \in Sides |-> 0]
  BY DEF Init, M!Init
<1>4. M!Exited.pc = "exited" /\ M!Exited.inPlace = FALSE
  BY DEF M!Exited, M!Fresh
<1>5. SessionInv
  BY <1>3, <1>4, SidesFact DEF SessionInv, M!At
<1>6. \A m \in Sides : HandlerInv(m)
  BY <1>3, <1>4 DEF HandlerInv, M!At
<1> QED
  BY <1>1, <1>2, <1>5, <1>6 DEF IInv

LEMMA NextHolds ==
  ASSUME IInv, [Next]_vars
  PROVE  IInv'
<1>1. M!IInv'
  BY NextKeepsManagers
<1>2. TypeOK'
  BY NextKeepsTypes
<1>3. SessionInv'
  BY NextKeepsSession
<1>4. \A m \in Sides : HandlerInv(m)'
  BY <1>1, NextKeepsHandlers
<1> QED
  BY <1>1, <1>2, <1>3, <1>4 DEF IInv

(* However the two sides' threads interleave, and wherever the program is     *)
(* stopped or killed and run again: both managers keep the invariant of       *)
(* MessageManager, their lives go with the program's stages, a session begins *)
(* with empty queues, and a message that a handler looks at in place is still *)
(* the first of its queue.                                                    *)
THEOREM LongTestInvariance == Spec => []IInv
BY InitHolds, NextHolds, PTL DEF Spec

(* No thread can touch queues that are not mapped: the program's has ended    *)
(* before munmap, or dies with the process; the kernel's before the memory is *)
(* freed.                                                                     *)
THEOREM QueuesStayMapped == Spec => []QueuesMapped
<1>1. IInv => QueuesMapped
  BY ManagersType DEF IInv, SessionInv, QueuesMapped, Mapped, M!At, Sides
<1> QED
  BY <1>1, LongTestInvariance, PTL

================================================================================
