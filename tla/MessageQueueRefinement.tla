------------------------ MODULE MessageQueueRefinement -------------------------
(******************************************************************************)
(* Proof that a disciplined byte ring is a FIFO of whole messages.            *)
(******************************************************************************)
EXTENDS MessageQueueProofs

(* What the handler of a disciplined queue can be looking at. *)
HandInv ==
  /\ rpc = "inplace" => InHand = inflight[1].msg
  /\ \A m \in Messages : rpc = "copied" /\ rlen = DataLength[m] /\ rbuf = Image(m) => InHand = m
  /\ rpc \notin {"inplace", "copied"} => InHand = Nothing

LEMMA HandFact == IInv => HandInv
<1> SUFFICES ASSUME IInv PROVE HandInv
  OBVIOUS
<1>1. ASSUME rpc = "inplace"
      PROVE  InHand = inflight[1].msg
  <2> DEFINE m == inflight[1].msg
             spells(x) == rlen = DataLength[x] /\ \A i \in 0 .. Size(x) - 1 : ring[Advance(rd, i)] = <<x, i>>
  <2>1. /\ inflight # <<>>
        /\ rlen = DataLength[m]
    BY <1>1 DEF IInv, ReadInv
  <2>2. /\ m \in Messages
        /\ inflight[1].at = rd /\ 1 \in 1 .. Len(inflight)
    BY <2>1, OldestFact DEF IInv
  <2>3. spells(m)
    BY <2>1, <2>2 DEF IInv, InFlightIntact
  <2>4. ASSUME NEW x \in Messages, spells(x)
        PROVE  x = m
    <3>1. 0 \in 0 .. Size(x) - 1 /\ 0 \in 0 .. Size(m) - 1
      BY <2>2, SizeFact
    <3> QED
      BY <2>3, <2>4, <3>1
  <2>5. InHand = IF \E x \in Messages : spells(x) THEN CHOOSE x \in Messages : spells(x) ELSE <<"torn">>
    BY <1>1 DEF InHand, Spelled
  <2> HIDE DEF spells
  <2> QED
    BY <2>2, <2>3, <2>4, <2>5
<1>2. ASSUME NEW m \in Messages, rpc = "copied", rlen = DataLength[m], rbuf = Image(m)
      PROVE  InHand = m
  <2> DEFINE byte(i) == IF i \in DOMAIN rbuf THEN rbuf[i] ELSE Nothing
             spells(x) == rlen = DataLength[x] /\ \A i \in 0 .. Size(x) - 1 : byte(i) = <<x, i>>
  <2>1. \A i \in 0 .. Size(m) - 1 : byte(i) = <<m, i>>
    BY <1>2 DEF Image
  <2>2. spells(m)
    BY <1>2, <2>1
  <2>3. ASSUME NEW x \in Messages, spells(x)
        PROVE  x = m
    <3>1. 0 \in 0 .. Size(x) - 1 /\ 0 \in 0 .. Size(m) - 1
      BY SizeFact
    <3> QED
      BY <2>1, <2>3, <3>1
  <2>4. InHand = IF \E x \in Messages : spells(x) THEN CHOOSE x \in Messages : spells(x) ELSE <<"torn">>
    BY <1>2 DEF InHand, Spelled
  <2> HIDE DEF spells
  <2> QED
    BY <2>2, <2>3, <2>4
<1>3. ASSUME rpc \notin {"inplace", "copied"}
      PROVE  InHand = Nothing
  BY <1>3 DEF InHand
<1> QED
  BY <1>1, <1>2, <1>3 DEF HandInv

(* The messages in flight, as a sequence. *)
LEMMA ContentsFact ==
  ASSUME TypeOK
  PROVE  /\ Contents \in Seq(Messages)
         /\ Len(Contents) = Len(inflight)
         /\ \A k \in 1 .. Len(inflight) : Contents[k] = inflight[k].msg
<1>1. Len(inflight) \in Nat
  BY DEF TypeOK
<1>2. \A k \in 1 .. Len(inflight) : inflight[k].msg \in Messages
  BY EntryFact
<1> QED
  BY <1>1, <1>2 DEF Contents

LEMMA FunctionIsSeq ==
  ASSUME NEW n \in Nat, NEW f \in [1 .. n -> Messages]
  PROVE  f \in Seq(Messages) /\ Len(f) = n
OBVIOUS

(* Publishing appends to the messages waiting. *)
LEMMA PublishPuts ==
  ASSUME IInv, NEW m \in Messages,
         inflight' = Append(inflight, [msg |-> m, at |-> wr]),
         rpc' = rpc
  PROVE  Waiting' = Append(Waiting, m)
<1> DEFINE n == Len(inflight)
<1>1. /\ inflight \in Seq(Entry)
      /\ [msg |-> m, at |-> wr] \in Entry
      /\ n \in Nat
  BY PositionFact DEF IInv, TypeOK, Entry
<1>2. /\ Len(inflight') = n + 1
      /\ inflight'[n + 1].msg = m
      /\ \A k \in 1 .. n : inflight'[k] = inflight[k]
  BY <1>1, AppendProperties
<1>3. /\ Contents \in Seq(Messages)
      /\ Len(Contents) = n
      /\ \A k \in 1 .. n : Contents[k] = inflight[k].msg
  BY ContentsFact DEF IInv
<1>4. Contents' = Append(Contents, m)
  <2>1. \A k \in 1 .. n + 1 : inflight'[k].msg = IF k = n + 1 THEN m ELSE Contents[k]
    BY <1>1, <1>2, <1>3
  <2>2. Contents' = [k \in 1 .. n + 1 |-> inflight'[k].msg]
    BY <1>2 DEF Contents
  <2> HIDE DEF n
  <2>3. ASSUME NEW k \in 1 .. n + 1
        PROVE  inflight'[k].msg \in Messages
    <3>1. k \in 1 .. n => Contents[k] \in Messages
      BY <1>3, ElementOfSeq
    <3>2. k \in 1 .. n \/ k = n + 1
      BY <1>1
    <3> QED
      BY <2>1, <3>1, <3>2
  <2>4. /\ Contents' \in Seq(Messages)
        /\ Len(Contents') = n + 1
        /\ \A k \in 1 .. n + 1 : Contents'[k] = IF k = n + 1 THEN m ELSE Contents[k]
    <3>1. n + 1 \in Nat
      BY <1>1
    <3>2. Contents' \in [1 .. n + 1 -> Messages]
      BY <2>2, <2>3
    <3> QED
      BY <2>1, <2>2, <3>1, <3>2, FunctionIsSeq
  <2>5. /\ Append(Contents, m) \in Seq(Messages)
        /\ Len(Append(Contents, m)) = n + 1
        /\ \A k \in 1 .. n + 1 : Append(Contents, m)[k] = IF k = n + 1 THEN m ELSE Contents[k]
    BY <1>1, <1>3
  <2> QED
    BY <2>4, <2>5, SeqEqual
<1>5. CASE rpc # "inplace"
  BY <1>4, <1>5 DEF Waiting
<1>6. CASE rpc = "inplace"
  <2>1. n >= 1
    BY <1>1, <1>6 DEF IInv, ReadInv
  <2>2. Waiting = SubSeq(Contents, 2, n) /\ Waiting' = SubSeq(Append(Contents, m), 2, n + 1)
    <3>1. Len(Append(Contents, m)) = n + 1
      BY <1>3
    <3> QED
      BY <1>3, <1>4, <1>6, <3>1 DEF Waiting
  <2>3. SubSeq(Append(Contents, m), 2, n + 1) = Append(SubSeq(Contents, 2, n), m)
    <3> HIDE DEF n
    <3>1. /\ Append(Contents, m) \in Seq(Messages)
          /\ Len(Append(Contents, m)) = n + 1
          /\ Append(Contents, m)[n + 1] = m
          /\ \A k \in 1 .. n : Append(Contents, m)[k] = Contents[k]
      BY <1>3
    <3>2. /\ SubSeq(Contents, 2, n) \in Seq(Messages)
          /\ Len(SubSeq(Contents, 2, n)) = n - 1
          /\ \A i \in 1 .. n - 1 : SubSeq(Contents, 2, n)[i] = Contents[i + 1]
      BY <1>1, <1>3, <2>1
    <3>3. /\ SubSeq(Append(Contents, m), 2, n + 1) \in Seq(Messages)
          /\ Len(SubSeq(Append(Contents, m), 2, n + 1)) = n
          /\ \A i \in 1 .. n : SubSeq(Append(Contents, m), 2, n + 1)[i] = Append(Contents, m)[i + 1]
      BY <1>1, <2>1, <3>1
    <3>4. /\ Append(SubSeq(Contents, 2, n), m) \in Seq(Messages)
          /\ Len(Append(SubSeq(Contents, 2, n), m)) = n
          /\ Append(SubSeq(Contents, 2, n), m)[n] = m
          /\ \A i \in 1 .. n - 1 : Append(SubSeq(Contents, 2, n), m)[i] = Contents[i + 1]
      BY <1>1, <2>1, <3>2
    <3>5. \A i \in 1 .. n : SubSeq(Append(Contents, m), 2, n + 1)[i] = Append(SubSeq(Contents, 2, n), m)[i]
      BY <1>1, <2>1, <3>1, <3>3, <3>4
    <3> QED
      BY <3>3, <3>4, <3>5, SeqEqual
  <2> QED
    BY <2>2, <2>3
<1> QED
  BY <1>5, <1>6

(* Dequeuing drops the first of the messages in flight. *)
LEMMA DequeueContents ==
  ASSUME IInv, inflight # <<>>, Dequeue, inflight' \in Seq([msg : Messages, at : Positions])
  PROVE  /\ Contents' = SubSeq(Contents, 2, Len(Contents))
         /\ Contents' = Tail(Contents)
         /\ Contents # <<>>
         /\ Head(Contents) = inflight[1].msg
<1> DEFINE n == Len(inflight)
<1>1. /\ inflight \in Seq(Entry)
      /\ n \in Nat \ {0}
  BY DEF IInv, TypeOK, Entry
<1>2. /\ Contents \in Seq(Messages)
      /\ Len(Contents) = n
      /\ \A k \in 1 .. n : Contents[k] = inflight[k].msg
  BY ContentsFact DEF IInv
<1>3. /\ Len(inflight') = n - 1
      /\ \A k \in 1 .. n - 1 : inflight'[k] = inflight[k + 1]
  <2>1. inflight' = SubSeq(inflight, 2, n)
    BY DEF Dequeue
  <2> HIDE DEF n
  <2>2. inflight' = Tail(inflight)
    BY <1>1, <2>1, TailIsSubSeq DEF n
  <2> QED
    BY <1>1, <2>2, HeadTailProperties DEF n
<1>4. Contents # <<>> /\ Head(Contents) = inflight[1].msg
  BY <1>1, <1>2
<1>5. Contents' = Tail(Contents)
  <2>1. Contents' = [k \in 1 .. n - 1 |-> inflight'[k].msg]
    BY <1>3 DEF Contents
  <2>2. \A k \in 1 .. n - 1 : inflight'[k].msg = Contents[k + 1] /\ Contents[k + 1] \in Messages
    BY <1>1, <1>2, <1>3
  <2> HIDE DEF n
  <2>3. /\ Contents' \in Seq(Messages)
        /\ Len(Contents') = n - 1
        /\ \A k \in 1 .. n - 1 : Contents'[k] = Contents[k + 1]
    <3>1. n - 1 \in Nat
      BY <1>1
    <3>2. Contents' \in [1 .. n - 1 -> Messages]
      BY <2>1, <2>2
    <3> QED
      BY <2>1, <2>2, <3>1, <3>2, FunctionIsSeq
  <2>4. /\ Tail(Contents) \in Seq(Messages)
        /\ Len(Tail(Contents)) = n - 1
        /\ \A k \in 1 .. n - 1 : Tail(Contents)[k] = Contents[k + 1]
    BY <1>2, <1>4, HeadTailProperties
  <2> QED
    BY <2>3, <2>4, SeqEqual
<1>6. Tail(Contents) = SubSeq(Contents, 2, Len(Contents))
  BY <1>2, <1>4, TailIsSubSeq
<1> QED
  BY <1>4, <1>5, <1>6

(* A step that leaves the receiver and the messages alone is a stutter. *)
LEMMA QuietStep ==
  ASSUME IInv, HandInv, HandInv', UNCHANGED <<inflight, receiverVars>>
  PROVE  Waiting' = Waiting /\ InHand' = InHand
<1>1. Waiting' = Waiting
  BY DEF Waiting, Contents, receiverVars
<1>2. InHand' = InHand
  <2>1. CASE rpc = "inplace"
    BY <2>1 DEF HandInv, receiverVars
  <2>2. CASE rpc = "copied"
    <3>1. PICK m \in Messages : rlen = DataLength[m] /\ rbuf = Image(m)
      BY <2>2 DEF IInv, ReadInv
    <3>2. InHand = m
      BY <2>2, <3>1 DEF HandInv
    <3>3. InHand' = m
      BY <2>2, <3>1 DEF HandInv, receiverVars, Image, Size
    <3> QED
      BY <3>2, <3>3
  <2>3. CASE rpc \notin {"inplace", "copied"}
    BY <2>3 DEF HandInv, receiverVars
  <2> QED
    BY <2>1, <2>2, <2>3
<1> QED
  BY <1>1, <1>2

(* So is one of the receiver's that does not change what it holds. *)
LEMMA BusyStep ==
  ASSUME HandInv, HandInv', UNCHANGED inflight,
         rpc \notin {"inplace", "copied"}, rpc' \notin {"inplace", "copied"}
  PROVE  Waiting' = Waiting /\ InHand' = InHand
BY DEF Waiting, Contents, HandInv

LEMMA SenderRefines ==
  ASSUME IInv, HandInv, HandInv', Disciplined, NEW s \in Senders, Sender(s)
  PROVE  [Fifo!Next]_(Fifo!fifoVars)
<1>1. CASE Publish(s) \/ AddComplete(s)
  <2> DEFINE m == smsg[s]
  <2>1. /\ m \in Messages
        /\ inflight' = Append(inflight, [msg |-> m, at |-> wr])
        /\ UNCHANGED receiverVars /\ UNCHANGED rd
    BY <1>1 DEF Publish, AddComplete, IInv, WriteInv, LockInv, Adding
  <2>2. Waiting' = Append(Waiting, m)
    BY <2>1, PublishPuts DEF receiverVars
  <2>3. InHand' = InHand
    <3>1. CASE rpc = "inplace"
      <4>1. inflight'[1] = inflight[1]
        <5>1. inflight \in Seq(Entry) /\ [msg |-> m, at |-> wr] \in Entry /\ inflight # <<>>
          BY <2>1, <3>1, PositionFact DEF IInv, TypeOK, Entry, ReadInv
        <5> QED
          BY <2>1, <5>1, AppendProperties
      <4> QED
        BY <2>1, <3>1, <4>1 DEF HandInv, receiverVars
    <3>2. CASE rpc = "copied"
      BY <2>1, <3>2 DEF IInv, ReadInv, HandInv, receiverVars, Image, Size
    <3>3. CASE rpc \notin {"inplace", "copied"}
      BY <2>1, <3>3 DEF HandInv, receiverVars
    <3> QED
      BY <3>1, <3>2, <3>3
  <2> QED
    BY <2>1, <2>2, <2>3 DEF Fifo!Next, Fifo!Put
<1>2. CASE ~(Publish(s) \/ AddComplete(s))
  <2>1. UNCHANGED <<inflight, receiverVars>>
    BY <1>2 DEF Sender, CallAdd, LockAdd, AddRefused, AddAccepted, CopyHead, CopyRest,
                AddBeginInPlace, AddCallbackBuffered, HandlerDeclines, UnlockAdd, ringVars
  <2> QED
    BY <2>1, QuietStep DEF Fifo!fifoVars
<1> QED
  BY <1>1, <1>2

LEMMA ReceiverRefines ==
  ASSUME IInv, IInv', HandInv, HandInv', Receiver
  PROVE  [Fifo!Next]_(Fifo!fifoVars)
<1> DEFINE m == inflight[1].msg
<1>1. ASSUME inflight # <<>>
      PROVE  m \in Messages /\ m # Nothing
  BY <1>1, OldestFact, NothingAssumption DEF IInv
<1>2. CASE \E op \in {"get", "begin", "peek"} : Load(op)
  BY <1>2, BusyStep DEF Load, ringVars, Fifo!fifoVars
<1>3. CASE \E b \in GetBuffers : GetHeader(b)
  BY <1>3, BusyStep DEF GetHeader, ringVars, Fifo!fifoVars
<1>4. CASE GetData
  BY <1>4, BusyStep DEF GetData, ringVars, Fifo!fifoVars
<1>5. CASE GetConsume
  <2>1. inflight # <<>> /\ rlen = DataLength[m] /\ rbuf = Image(m)
    BY <1>5 DEF IInv, ReadInv, GetConsume
  <2>2. InHand' = m
    BY <1>1, <1>5, <2>1 DEF HandInv, GetConsume, Image, Size
  <2>3. Waiting' = Tail(Waiting) /\ Waiting # <<>> /\ Head(Waiting) = m
    BY <1>5, <2>1, DequeueContents DEF GetConsume, Waiting, IInv, TypeOK
  <2>4. InHand = Nothing
    BY <1>5 DEF GetConsume, HandInv
  <2> QED
    BY <2>2, <2>3, <2>4 DEF Fifo!Next, Fifo!Take
<1>6. CASE CopyHandled
  <2>1. InHand # Nothing
    BY <1>6, NothingAssumption DEF CopyHandled, HandInv, IInv, ReadInv
  <2>2. InHand' = Nothing
    BY <1>6 DEF CopyHandled, HandInv
  <2>3. Waiting' = Waiting
    BY <1>6 DEF CopyHandled, Waiting, Contents, ringVars
  <2> QED
    BY <2>1, <2>2, <2>3 DEF Fifo!Next, Fifo!Release
<1>7. CASE GetBegin
  <2>1. rpc = "begin" /\ UNCHANGED inflight /\ rpc' \in {"inplace", "idle"}
    BY <1>7 DEF GetBegin, ringVars
  <2>2. CASE rpc' = "idle"
    BY <2>1, <2>2, BusyStep DEF Fifo!fifoVars
  <2>3. CASE rpc' = "inplace"
    <3>1. inflight # <<>>
      BY <2>1 DEF IInv, ReadInv
    <3>2. InHand' = m /\ InHand = Nothing
      BY <2>1, <2>3 DEF HandInv
    <3>3. /\ Contents \in Seq(Messages)
          /\ Len(Contents) = Len(inflight)
          /\ Contents[1] = m
          /\ Len(inflight) \in Nat \ {0}
      BY <3>1, ContentsFact DEF IInv, TypeOK
    <3>4. Waiting # <<>> /\ Head(Waiting) = m /\ Waiting = Contents
      BY <2>1, <3>3 DEF Waiting
    <3>5. Waiting' = Tail(Waiting)
      <4>1. Contents' = Contents
        BY <2>1 DEF Contents
      <4>2. Waiting' = SubSeq(Contents, 2, Len(Contents))
        BY <2>3, <4>1 DEF Waiting
      <4> QED
        BY <3>3, <3>4, <4>2, TailIsSubSeq
    <3> QED
      BY <3>2, <3>4, <3>5 DEF Fifo!Next, Fifo!Take
  <2> QED
    BY <2>1, <2>2, <2>3
<1>8. CASE GetComplete
  <2>1. rpc = "inplace" /\ rpc' = "idle" /\ inflight # <<>>
    BY <1>8 DEF GetComplete, IInv, ReadInv
  <2>2. InHand = m /\ InHand' = Nothing
    BY <2>1 DEF HandInv
  <2>3. Dequeue
    <3>1. /\ \A n \in LengthsAt(rd) : n = DataLength[m]
          /\ Size(m) = DataLength[m] + HeaderSize
          /\ Size(m) \in 1 .. QueueLength - 1
      BY <2>1, HeaderRead, OldestFact, SizeFact DEF IInv
    <3>2. DataLength[m] + HeaderSize < QueueLength
      BY <3>1, QueueLengthAssumption
    <3> QED
      BY <1>8, <3>1, <3>2 DEF GetComplete
  <2>4. Waiting' = Waiting
    BY <2>1, <2>3, DequeueContents DEF Waiting, IInv, TypeOK
  <2> QED
    BY <1>1, <2>1, <2>2, <2>4 DEF Fifo!Next, Fifo!Release
<1>9. CASE NextLength
  BY <1>9, BusyStep DEF NextLength, ringVars, Fifo!fifoVars
<1> QED
  BY <1>2, <1>3, <1>4, <1>5, <1>6, <1>7, <1>8, <1>9 DEF Receiver

(* Every behaviour of a disciplined queue is one of the abstract FIFO: no     *)
(* message is lost, invented, repeated, torn or delivered out of order.       *)
THEOREM Refinement ==
  ASSUME Disciplined
  PROVE  Spec => ImplementsFifo
<1>1. Init => Fifo!Init
  <2> SUFFICES ASSUME Init PROVE Fifo!Init
    OBVIOUS
  <2>1. InHand = Nothing
    BY DEF Init, InHand
  <2>2. Waiting = <<>>
    BY DEF Init, Waiting, Contents
  <2> QED
    BY <2>1, <2>2 DEF Fifo!Init
<1>2. IInv /\ IInv' /\ HandInv /\ HandInv' /\ [Next]_vars => [Fifo!Next]_(Fifo!fifoVars)
  <2> SUFFICES ASSUME IInv, IInv', HandInv, HandInv', [Next]_vars
               PROVE  [Fifo!Next]_(Fifo!fifoVars)
    OBVIOUS
  <2>1. CASE \E s \in Senders : Sender(s)
    BY <2>1, SenderRefines
  <2>2. CASE Receiver
    BY <2>2, ReceiverRefines
  <2>3. CASE UNCHANGED vars
    <3>1. UNCHANGED <<inflight, receiverVars>>
      BY <2>3 DEF vars, receiverVars
    <3> QED
      BY <3>1, QuietStep DEF Fifo!fifoVars
  <2> QED
    BY <2>1, <2>2, <2>3 DEF Next
<1> QED
  BY <1>1, <1>2, Invariance, HandFact, PTL DEF Spec, ImplementsFifo, Fifo!Spec

================================================================================
