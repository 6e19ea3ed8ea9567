-------------------------- MODULE MessageQueueProofs ---------------------------
(******************************************************************************)
(* Proofs, for every ring length, header size, set of messages and set of     *)
(* senders, that a disciplined queue keeps IInv and what follows from it.     *)
(******************************************************************************)
EXTENDS MessageQueue, Induction, SequenceTheorems, TLAPS

(* Going round the ring is at most one subtraction.                           *)
LEMMA AdvanceFact ==
  ASSUME NEW p \in Positions, NEW n \in 0 .. QueueLength
  PROVE  /\ Advance(p, n) = IF p + n < QueueLength THEN p + n ELSE p + n - QueueLength
         /\ Advance(p, n) \in Positions
<1>1. QueueLength \in Nat \ {0}
  BY QueueLengthAssumption
<1>2. CASE p + n < QueueLength
  BY <1>1, <1>2, SMT DEF Advance, Positions
<1>3. CASE p + n >= QueueLength
  <2>1. p + n - QueueLength \in 0 .. QueueLength
    BY <1>1, <1>3 DEF Positions
  <2>2. CASE p + n - QueueLength < QueueLength
    BY <1>1, <1>3, <2>1, <2>2, SMT DEF Advance, Positions
  <2>3. CASE p + n - QueueLength >= QueueLength
    BY <1>1, <2>3 DEF Positions
  <2> QED
    BY <1>1, <2>1, <2>2, <2>3
<1> QED
  BY <1>1, <1>2, <1>3 DEF Positions

(* Every message takes at least its header. *)
LEMMA SizeFact ==
  ASSUME NEW m \in Messages
  PROVE  /\ DataLength[m] \in Nat
         /\ Size(m) = DataLength[m] + HeaderSize
         /\ Size(m) \in Nat
         /\ Size(m) >= HeaderSize
         /\ HeaderSize >= 1
         /\ HeaderSize \in Nat
BY HeaderSizeAssumption, DataLengthAssumption DEF Size

(* The available bytes are the distance from m_rd to m_wr. *)
LEMMA AvailFact ==
  ASSUME NEW r \in Positions, NEW w \in Positions
  PROVE  /\ Avail(r, w) = IF w >= r THEN w - r ELSE QueueLength + w - r
         /\ Avail(r, w) \in 0 .. QueueLength - 1
         /\ Free(r, w) = QueueLength - 1 - Avail(r, w)
         /\ Free(r, w) \in 0 .. QueueLength - 1
         /\ Avail(r, w) = 0 <=> r = w
BY QueueLengthAssumption DEF Avail, Free, Positions

LEMMA OffsetFact ==
  ASSUME rd \in Positions, NEW p \in Positions
  PROVE  /\ Offset(p) \in 0 .. QueueLength - 1
         /\ p = IF rd + Offset(p) < QueueLength THEN rd + Offset(p) ELSE rd + Offset(p) - QueueLength
BY QueueLengthAssumption DEF Offset, Positions

Entry == [msg : Messages, at : Positions]

(* The types of what is in flight. *)
LEMMA EntryFact ==
  ASSUME TypeOK, NEW k \in 1 .. Len(inflight)
  PROVE  /\ inflight[k].msg \in Messages
         /\ inflight[k].at \in Positions
         /\ Offset(inflight[k].at) \in 0 .. QueueLength - 1
         /\ Size(inflight[k].msg) \in Nat
         /\ EndOffset(k) = Offset(inflight[k].at) + Size(inflight[k].msg)
         /\ EndOffset(k) \in Nat
<1>a. inflight \in Seq(Entry)
  BY DEF TypeOK, Entry
<1>b. inflight[k] \in Entry
  BY <1>a
<1>1. inflight[k].msg \in Messages /\ inflight[k].at \in Positions
  BY <1>b DEF Entry
<1>2. Offset(inflight[k].at) \in 0 .. QueueLength - 1
  BY <1>1, OffsetFact DEF TypeOK
<1>3. Size(inflight[k].msg) \in Nat
  BY <1>1, SizeFact
<1> QED
  BY <1>1, <1>2, <1>3, QueueLengthAssumption DEF EndOffset

LEMMA PositionFact ==
  ASSUME TypeOK
  PROVE  /\ rd \in Positions /\ wr \in Positions
         /\ rd \in Nat /\ wr \in Nat /\ rd < QueueLength /\ wr < QueueLength
         /\ Avail(rd, wr) \in 0 .. QueueLength - 1
         /\ Free(rd, wr) \in 0 .. QueueLength - 1
         /\ Free(rd, wr) = QueueLength - 1 - Avail(rd, wr)
<1>1. rd \in Positions /\ wr \in Positions
  BY DEF TypeOK
<1>2. rd \in Nat /\ wr \in Nat /\ rd < QueueLength /\ wr < QueueLength
  BY <1>1, QueueLengthAssumption DEF Positions
<1> QED
  BY <1>1, <1>2, AvailFact

(* The oldest message starts at m_rd and fits between m_rd and m_wr. *)
LEMMA OldestFact ==
  ASSUME TypeOK, ChainInv, inflight # <<>>
  PROVE  /\ 1 \in 1 .. Len(inflight)
         /\ inflight[1] = Head(inflight)
         /\ inflight[1].msg \in Messages
         /\ inflight[1].at = rd
         /\ Offset(inflight[1].at) = 0
         /\ Size(inflight[1].msg) <= Avail(rd, wr)
         /\ Size(inflight[1].msg) \in 1 .. QueueLength - 1
<1>1. 1 \in 1 .. Len(inflight) /\ inflight[1] = Head(inflight)
  BY DEF TypeOK
<1>2. inflight[1].at = rd /\ EndOffset(1) <= Avail(rd, wr)
  BY <1>1 DEF ChainInv
<1>3. Offset(inflight[1].at) = 0
  BY <1>2, QueueLengthAssumption DEF Offset, TypeOK, Positions
<1>4. Avail(rd, wr) \in 0 .. QueueLength - 1
  BY AvailFact DEF TypeOK
<1>5. inflight[1].msg \in Messages
  BY <1>1, EntryFact
<1> QED
  BY <1>1, <1>2, <1>3, <1>4, <1>5, EntryFact, SizeFact, QueueLengthAssumption

(* The header the receiver reads at m_rd can only give the oldest message's   *)
(* own length.                                                                *)
LEMMA HeaderRead ==
  ASSUME TypeOK, ChainInv, InFlightIntact, inflight # <<>>
  PROVE  /\ HeaderAt(rd) = [i \in 0 .. HeaderSize - 1 |-> <<inflight[1].msg, i>>]
         /\ \A n \in LengthsAt(rd) : n = DataLength[inflight[1].msg]
<1> DEFINE m == inflight[1].msg
<1>1. /\ 1 \in 1 .. Len(inflight)
      /\ m \in Messages
      /\ inflight[1].at = rd
  BY OldestFact
<1>2. \A i \in 0 .. Size(m) - 1 : ring[Advance(rd, i)] = <<m, i>>
  BY <1>1 DEF InFlightIntact
<1>3. \A i \in 0 .. HeaderSize - 1 : i \in 0 .. Size(m) - 1
  BY <1>1, SizeFact
<1>4. HeaderAt(rd) = [i \in 0 .. HeaderSize - 1 |-> <<m, i>>]
  BY <1>2, <1>3 DEF HeaderAt
<1>5. \A n \in LengthsAt(rd) : n = DataLength[m]
  BY <1>1, <1>4 DEF LengthsAt
<1> QED
  BY <1>4, <1>5

(* Consuming the oldest message leaves the others where they are, end to end. *)
LEMMA ConsumeKeepsChain ==
  ASSUME TypeOK, ChainInv, InFlightIntact, inflight # <<>>,
         rd' = Advance(rd, Size(inflight[1].msg)),
         Dequeue,
         UNCHANGED <<ring, wr>>
  PROVE  /\ rd' \in Positions
         /\ inflight' \in Seq([msg : Messages, at : Positions])
         /\ ChainInv'
         /\ InFlightIntact'
         /\ Avail(rd, wr)' = Avail(rd, wr) - Size(inflight[1].msg)
<1> DEFINE size == Size(inflight[1].msg)
<1>1. /\ rd \in Positions /\ wr \in Positions
      /\ inflight \in Seq(Entry)
  BY DEF TypeOK, Entry
<1>2. /\ size \in 1 .. QueueLength - 1
      /\ size <= Avail(rd, wr)
  BY OldestFact
<1>3. /\ rd' = IF rd + size < QueueLength THEN rd + size ELSE rd + size - QueueLength
      /\ rd' \in Positions
  BY <1>1, <1>2, AdvanceFact, QueueLengthAssumption
<1>4. /\ inflight' \in Seq(Entry)
      /\ Len(inflight') = Len(inflight) - 1
      /\ \A k \in 1 .. Len(inflight') : k + 1 \in 1 .. Len(inflight) /\ inflight'[k] = inflight[k + 1]
  <2>1. Len(inflight) \in Nat \ {0} /\ 2 <= Len(inflight) + 1
    BY <1>1
  <2>2. inflight' = SubSeq(inflight, 2, Len(inflight))
    BY DEF Dequeue
  <2>3. \A i \in 2 .. Len(inflight) : i \in 1 .. Len(inflight)
    BY <2>1
  <2>4. /\ inflight' \in Seq(Entry)
        /\ Len(inflight') = (IF 2 <= Len(inflight) THEN Len(inflight) - 2 + 1 ELSE 0)
        /\ \A i \in 1 .. Len(inflight) - 2 + 1 : inflight'[i] = inflight[2 + i - 1]
    BY <1>1, <2>1, <2>2, <2>3, SubSeqProperties
  <2>5. Len(inflight') = Len(inflight) - 1
    <3>1. PICK n \in Nat \ {0} : n = Len(inflight)
      BY <2>1
    <3>2. Len(inflight') = (IF 2 <= n THEN n - 2 + 1 ELSE 0)
      BY <2>4, <3>1
    <3>3. (IF 2 <= n THEN n - 2 + 1 ELSE 0) = n - 1
      OBVIOUS
    <3> QED
      BY <3>1, <3>2, <3>3
  <2>6. ASSUME NEW k \in 1 .. Len(inflight')
        PROVE  k + 1 \in 1 .. Len(inflight) /\ inflight'[k] = inflight[k + 1]
    <3>1. k \in 1 .. Len(inflight) - 2 + 1 /\ 2 + k - 1 = k + 1 /\ k + 1 \in 1 .. Len(inflight)
      BY <2>1, <2>5
    <3> QED
      BY <2>4, <3>1
  <2> QED
    BY <2>4, <2>5, <2>6
<1>5. ASSUME NEW p \in Positions, Offset(p) >= size
      PROVE  Offset(p)' = Offset(p) - size
  BY <1>1, <1>2, <1>3, <1>5, QueueLengthAssumption DEF Offset, Positions
<1>6. Avail(rd, wr)' = Avail(rd, wr) - size
  <2>1. Avail(rd, wr)' = Avail(rd', wr)
    BY DEF Avail
  <2>2. /\ Avail(rd, wr) = IF wr >= rd THEN wr - rd ELSE QueueLength + wr - rd
        /\ Avail(rd', wr) = IF wr >= rd' THEN wr - rd' ELSE QueueLength + wr - rd'
    BY <1>1, <1>3, AvailFact
  <2>3. size \in Nat /\ size >= 1 /\ rd \in Nat /\ wr \in Nat /\ rd < QueueLength /\ wr < QueueLength
    BY <1>1, <1>2, QueueLengthAssumption DEF Positions
  <2> HIDE DEF size
  <2> QED
    BY <1>2, <1>3, <2>1, <2>2, <2>3, QueueLengthAssumption
<1>7. ASSUME NEW k \in 1 .. Len(inflight')
      PROVE  /\ Offset(inflight[k].at)' = Offset(inflight[k + 1].at) - size
             /\ EndOffset(k)' = EndOffset(k + 1) - size
  <2>1. k + 1 \in 1 .. Len(inflight) /\ inflight'[k] = inflight[k + 1]
    BY <1>4
  <2>2. EndOffset(1) = size
    BY OldestFact, EntryFact
  <2>3. 1 \in 1 .. Len(inflight) /\ 1 < k + 1
    BY OldestFact
  <2>4. EndOffset(1) <= Offset(inflight[k + 1].at)
    BY <2>1, <2>3 DEF ChainInv
  <2>5. Offset(inflight[k].at)' = Offset(inflight[k + 1].at) - size
    BY <1>5, <2>1, <2>2, <2>4, EntryFact
  <2>6. EndOffset(k)' = Offset(inflight[k].at)' + Size(inflight[k + 1].msg)
    BY <2>1 DEF EndOffset, Size
  <2> QED
    BY <1>2, <2>1, <2>5, <2>6, EntryFact
<1>8. ChainInv'
  <2>1. (inflight = <<>> => rd = wr)'
    <3> SUFFICES ASSUME inflight' = <<>> PROVE rd' = wr'
      OBVIOUS
    <3>1. Len(inflight) = 1
      BY <1>1, <1>4
    <3>2. Avail(rd, wr) = size
      BY <3>1, OldestFact, EntryFact DEF ChainInv
    <3>3. Avail(rd, wr)' = 0
      BY <1>2, <1>6, <3>2
    <3> QED
      BY <1>1, <1>3, <3>3, AvailFact
  <2>2. (inflight # <<>> => inflight[1].at = rd /\ EndOffset(Len(inflight)) = Avail(rd, wr))'
    <3> SUFFICES ASSUME inflight' # <<>>
                 PROVE  inflight'[1].at = rd' /\ EndOffset(Len(inflight))' = Avail(rd, wr)'
      OBVIOUS
    <3>1. 1 \in 1 .. Len(inflight') /\ Len(inflight') \in 1 .. Len(inflight')
      BY <1>4
    <3>2. 2 \in 1 .. Len(inflight) /\ inflight'[1] = inflight[2] /\ 1 \in 1 .. Len(inflight)
      BY <1>1, <1>4, <3>1
    <3>3. Offset(inflight[2].at) = size
      <4>1. EndOffset(1) = Offset(inflight[2].at)
        BY <3>2 DEF ChainInv
      <4> QED
        BY <4>1, <1>2, OldestFact, EntryFact
    <3>4. inflight'[1].at = rd'
      <4>1. inflight[2].at \in Positions
        BY <3>2, EntryFact
      <4> QED
        BY <4>1, <3>2, <3>3, <1>1, <1>3, OffsetFact
    <3>5. EndOffset(Len(inflight))' = EndOffset(Len(inflight)) - size
      <4>1. PICK n \in 1 .. Len(inflight') : n = Len(inflight')
        BY <3>1
      <4>2. EndOffset(n)' = EndOffset(n + 1) - size
        BY <1>7
      <4>3. n + 1 = Len(inflight)
        BY <1>1, <1>4, <4>1
      <4>4. EndOffset(Len(inflight))' = EndOffset(n)'
        BY <4>1 DEF EndOffset, Offset, Size
      <4> QED
        BY <4>2, <4>3, <4>4
    <3> QED
      BY <1>6, <3>4, <3>5 DEF ChainInv
  <2>3. ASSUME NEW k \in 1 .. Len(inflight')
        PROVE  EndOffset(k)' <= Avail(rd, wr)'
    <3>1. k + 1 \in 1 .. Len(inflight)
      BY <1>4
    <3>2. EndOffset(k + 1) <= Avail(rd, wr)
      BY <3>1 DEF ChainInv
    <3>3. EndOffset(k + 1) \in Nat /\ Avail(rd, wr) \in Nat
      BY <1>1, <3>1, EntryFact, AvailFact
    <3> QED
      BY <1>2, <1>6, <1>7, <3>2, <3>3
  <2>4. ASSUME NEW j \in 1 .. Len(inflight'), NEW k \in 1 .. Len(inflight')
        PROVE  /\ j < k => EndOffset(j)' <= Offset(inflight[k].at)'
               /\ k = j + 1 => EndOffset(j)' = Offset(inflight[k].at)'
    <3>1. j + 1 \in 1 .. Len(inflight) /\ k + 1 \in 1 .. Len(inflight)
      BY <1>4
    <3>2. /\ j + 1 < k + 1 => EndOffset(j + 1) <= Offset(inflight[k + 1].at)
          /\ k + 1 = (j + 1) + 1 => EndOffset(j + 1) = Offset(inflight[k + 1].at)
      BY <3>1 DEF ChainInv
    <3>3. EndOffset(j + 1) \in Nat /\ Offset(inflight[k + 1].at) \in Nat
      BY <3>1, EntryFact
    <3> QED
      BY <1>2, <1>7, <3>2, <3>3
  <2> QED
    BY <2>1, <2>2, <2>3, <2>4 DEF ChainInv
<1>9. InFlightIntact'
  BY <1>4 DEF InFlightIntact, Advance, Size
<1> QED
  BY <1>3, <1>4, <1>6, <1>8, <1>9 DEF Entry

(* Offsets count bytes from m_rd, wherever the ring wraps. *)
LEMMA OffsetOfAdvance ==
  ASSUME rd \in Positions, NEW p \in Positions, NEW n \in Nat, Offset(p) + n < QueueLength
  PROVE  /\ Advance(p, n) \in Positions
         /\ Offset(Advance(p, n)) = Offset(p) + n
<1>1. Offset(p) \in 0 .. QueueLength - 1
  BY OffsetFact
<1>2. n \in 0 .. QueueLength
  BY <1>1, QueueLengthAssumption
<1>3. /\ Advance(p, n) = IF p + n < QueueLength THEN p + n ELSE p + n - QueueLength
      /\ Advance(p, n) \in Positions
  BY <1>2, AdvanceFact
<1>4. rd \in Nat /\ rd < QueueLength /\ p \in Nat /\ p < QueueLength
  BY QueueLengthAssumption DEF Positions
<1> QED
  BY <1>2, <1>3, <1>4, QueueLengthAssumption DEF Offset

(* A store beyond the available bytes touches no message in flight. *)
LEMMA WriteKeepsIntact ==
  ASSUME TypeOK, ChainInv, InFlightIntact,
         UNCHANGED inflight,
         \A p \in Positions : Offset(p) < Avail(rd, wr) => ring'[p] = ring[p]
  PROVE  InFlightIntact'
<1> SUFFICES ASSUME NEW k \in 1 .. Len(inflight), NEW i \in 0 .. Size(inflight[k].msg) - 1
             PROVE  ring'[Advance(inflight[k].at, i)] = <<inflight[k].msg, i>>
  BY DEF InFlightIntact, Advance, Size
<1>1. /\ inflight[k].at \in Positions
      /\ Offset(inflight[k].at) \in 0 .. QueueLength - 1
      /\ Size(inflight[k].msg) \in Nat
      /\ EndOffset(k) = Offset(inflight[k].at) + Size(inflight[k].msg)
  BY EntryFact
<1>2. EndOffset(k) <= Avail(rd, wr) /\ Avail(rd, wr) \in 0 .. QueueLength - 1
  BY AvailFact DEF ChainInv, TypeOK
<1>3. i \in Nat /\ Offset(inflight[k].at) + i < Avail(rd, wr)
  BY <1>1, <1>2, QueueLengthAssumption
<1>4. /\ Advance(inflight[k].at, i) \in Positions
      /\ Offset(Advance(inflight[k].at, i)) = Offset(inflight[k].at) + i
  <2>1. Offset(inflight[k].at) + i < QueueLength
    BY <1>1, <1>2, <1>3, QueueLengthAssumption
  <2> QED
    BY <1>1, <1>3, <2>1, OffsetOfAdvance DEF TypeOK
<1>5. ring'[Advance(inflight[k].at, i)] = ring[Advance(inflight[k].at, i)]
  BY <1>3, <1>4
<1> QED
  BY <1>5 DEF InFlightIntact

(* Publishing a message whose bytes are all in place extends the chain. *)
LEMMA PublishKeepsChain ==
  ASSUME TypeOK, ChainInv, InFlightIntact,
         NEW m \in Messages,
         Size(m) <= Free(rd, wr),
         \A i \in 0 .. Size(m) - 1 : ring[Advance(wr, i)] = <<m, i>>,
         wr' = Advance(wr, Size(m)),
         inflight' = Append(inflight, [msg |-> m, at |-> wr]),
         UNCHANGED <<ring, rd>>
  PROVE  /\ wr' \in Positions
         /\ inflight' \in Seq([msg : Messages, at : Positions])
         /\ ChainInv'
         /\ InFlightIntact'
         /\ Avail(rd, wr)' = Avail(rd, wr) + Size(m)
<1> DEFINE n == Len(inflight)
<1>1. /\ rd \in Positions /\ wr \in Positions
      /\ inflight \in Seq(Entry)
      /\ n \in Nat
  BY DEF TypeOK, Entry
<1>2. /\ Size(m) \in 1 .. QueueLength - 1
      /\ Avail(rd, wr) \in 0 .. QueueLength - 1
      /\ Avail(rd, wr) + Size(m) <= QueueLength - 1
  BY <1>1, AvailFact, SizeFact, QueueLengthAssumption
<1>3. /\ wr' = IF wr + Size(m) < QueueLength THEN wr + Size(m) ELSE wr + Size(m) - QueueLength
      /\ wr' \in Positions
  BY <1>1, <1>2, AdvanceFact, QueueLengthAssumption
<1>4. /\ inflight' \in Seq(Entry)
      /\ Len(inflight') = n + 1
      /\ inflight'[n + 1] = [msg |-> m, at |-> wr]
      /\ \A k \in 1 .. n : inflight'[k] = inflight[k]
  <2>1. [msg |-> m, at |-> wr] \in Entry
    BY <1>1 DEF Entry
  <2> QED
    BY <1>1, <2>1, AppendProperties
<1>5. Avail(rd, wr)' = Avail(rd, wr) + Size(m)
  <2>1. Avail(rd, wr)' = Avail(rd, wr')
    BY DEF Avail
  <2>2. /\ Avail(rd, wr) = IF wr >= rd THEN wr - rd ELSE QueueLength + wr - rd
        /\ Avail(rd, wr') = IF wr' >= rd THEN wr' - rd ELSE QueueLength + wr' - rd
    BY <1>1, <1>3, AvailFact
  <2>3. rd \in Nat /\ wr \in Nat /\ rd < QueueLength /\ wr < QueueLength
    BY <1>1, QueueLengthAssumption DEF Positions
  <2> QED
    BY <1>2, <1>3, <2>1, <2>2, <2>3, QueueLengthAssumption
<1>6. ASSUME NEW p \in Positions
      PROVE  Offset(p)' = Offset(p)
  BY DEF Offset
<1>7. ASSUME NEW k \in 1 .. n
      PROVE  /\ Offset(inflight[k].at)' = Offset(inflight[k].at)
             /\ EndOffset(k)' = EndOffset(k)
  BY <1>4 DEF EndOffset, Offset, Size
<1>8. /\ Offset(wr) = Avail(rd, wr)
      /\ \A k \in 1 .. n + 1 : k = n + 1 => /\ Offset(inflight[k].at)' = Avail(rd, wr)
                                          /\ EndOffset(k)' = Avail(rd, wr) + Size(m)
  <2>1. Offset(wr) = Avail(rd, wr)
    BY <1>1, AvailFact, QueueLengthAssumption DEF Offset, Positions
  <2>2. ASSUME NEW k \in 1 .. n + 1, k = n + 1
        PROVE  Offset(inflight[k].at)' = Offset(wr) /\ EndOffset(k)' = Offset(wr) + Size(m)
    BY <1>4, <2>2 DEF EndOffset, Offset, Size
  <2> QED
    BY <2>1, <2>2
<1>9. ChainInv'
  <2>1. inflight' # <<>>
    BY <1>1, <1>4
  <2>2. inflight'[1].at = rd'
    <3>1. CASE inflight = <<>>
      BY <1>1, <1>4, <3>1 DEF ChainInv
    <3>2. CASE inflight # <<>>
      BY <1>4, <3>2, OldestFact
    <3> QED
      BY <3>1, <3>2
  <2>3. EndOffset(Len(inflight))' = Avail(rd, wr)'
    <3>1. PICK k \in 1 .. n + 1 : k = n + 1
      BY <1>1
    <3>2. EndOffset(Len(inflight))' = EndOffset(k)'
      BY <1>4, <3>1 DEF EndOffset, Offset, Size
    <3> QED
      BY <1>5, <1>8, <3>1, <3>2
  <2>4. ASSUME NEW k \in 1 .. Len(inflight')
        PROVE  EndOffset(k)' <= Avail(rd, wr)'
    <3>1. CASE k \in 1 .. n
      BY <1>2, <1>5, <1>7, <3>1, EntryFact DEF ChainInv
    <3>2. CASE k = n + 1
      BY <1>2, <1>4, <1>5, <1>8, <3>2
    <3> QED
      BY <1>1, <1>4, <3>1, <3>2
  <2>5. ASSUME NEW j \in 1 .. Len(inflight'), NEW k \in 1 .. Len(inflight')
        PROVE  /\ j < k => EndOffset(j)' <= Offset(inflight[k].at)'
               /\ k = j + 1 => EndOffset(j)' = Offset(inflight[k].at)'
    <3>1. CASE k \in 1 .. n /\ j \in 1 .. n
      BY <1>7, <3>1 DEF ChainInv
    <3>2. CASE k = n + 1 /\ j \in 1 .. n
      <4>1. Offset(inflight[k].at)' = Avail(rd, wr) /\ EndOffset(j)' = EndOffset(j)
        BY <1>4, <1>7, <1>8, <3>2
      <4>2. EndOffset(j) <= Avail(rd, wr)
        BY <3>2 DEF ChainInv
      <4>3. k = j + 1 => EndOffset(j) = Avail(rd, wr)
        <5> SUFFICES ASSUME k = j + 1 PROVE EndOffset(j) = Avail(rd, wr)
          OBVIOUS
        <5>1. j = Len(inflight) /\ inflight # <<>>
          BY <1>1, <3>2
        <5> QED
          BY <5>1 DEF ChainInv
      <4> QED
        BY <4>1, <4>2, <4>3
    <3>3. CASE j = n + 1
      BY <1>1, <1>4, <3>3
    <3> QED
      BY <1>1, <1>4, <3>1, <3>2, <3>3
  <2> QED
    BY <2>1, <2>2, <2>3, <2>4, <2>5 DEF ChainInv
<1>10. InFlightIntact'
  <2> SUFFICES ASSUME NEW k \in 1 .. Len(inflight'), NEW i \in 0 .. Size(inflight'[k].msg) - 1
               PROVE  ring[Advance(inflight'[k].at, i)] = <<inflight'[k].msg, i>>
    BY DEF InFlightIntact, Advance, Size
  <2>1. CASE k \in 1 .. n
    <3>1. inflight'[k] = inflight[k]
      BY <1>4, <2>1
    <3>2. i \in 0 .. Size(inflight[k].msg) - 1 /\ k \in 1 .. Len(inflight)
      BY <2>1, <3>1
    <3>3. ring[Advance(inflight[k].at, i)] = <<inflight[k].msg, i>>
      BY <3>2 DEF InFlightIntact
    <3> QED
      BY <3>1, <3>3
  <2>2. CASE k = n + 1
    <3>1. inflight'[k].msg = m /\ inflight'[k].at = wr
      BY <1>4, <2>2
    <3>2. i \in 0 .. Size(m) - 1
      BY <3>1
    <3> QED
      BY <3>1, <3>2
  <2>3. k \in 1 .. n \/ k = n + 1
    BY <1>1, <1>4
  <2> QED
    BY <2>1, <2>2, <2>3
<1> QED
  BY <1>3, <1>4, <1>5, <1>9, <1>10 DEF Entry

--------------------------------------------------------------------------------
(* What the steps of one side leave alone of the other's invariant.           *)

LEMMA RingFrame ==
  ASSUME ChainInv, InFlightIntact, UNCHANGED ringVars
  PROVE  ChainInv' /\ InFlightIntact'
BY DEF ChainInv, InFlightIntact, ringVars, EndOffset, Offset, Size, Avail, Advance

LEMMA ReadFrame ==
  ASSUME ReadInv, UNCHANGED <<inflight, rd, receiverVars>>
  PROVE  ReadInv'
BY DEF ReadInv, receiverVars, Size, Image

LEMMA WriteFrame ==
  ASSUME LockInv, WriteInv, UNCHANGED <<ringVars, senderVars>>
  PROVE  LockInv' /\ WriteInv'
BY DEF LockInv, WriteInv, Adding, ringVars, senderVars, Free, Avail, Size

(* At most one sender is between its check and its last store. *)
LEMMA OneWriter ==
  ASSUME Disciplined, LockInv, NEW s \in Senders, NEW t \in Senders,
         spc[s] \in {"store", "inplace"}, spc[t] \in {"store", "inplace"}
  PROVE  s = t
<1>1. CASE Locking = "mutex"
  BY <1>1 DEF LockInv
<1>2. CASE Locking = "unlocked" /\ \A x, y \in Senders : x = y
  BY <1>2
<1> QED
  BY <1>1, <1>2 DEF Disciplined

--------------------------------------------------------------------------------
(* Each step of a sender keeps the invariant.                                 *)

LEMMA CallAddStep ==
  ASSUME IInv, NEW s \in Senders, NEW m \in Messages, CallAdd(s, m)
  PROVE  IInv'
<1>1. TypeOK'
  BY DEF IInv, TypeOK, CallAdd, Goto, ringVars, receiverVars
<1>2. ChainInv' /\ InFlightIntact'
  BY RingFrame DEF IInv, CallAdd
<1>3. LockInv'
  BY LockingAssumption DEF IInv, TypeOK, LockInv, CallAdd, Goto
<1>4. WriteInv'
  BY DEF IInv, TypeOK, WriteInv, Adding, CallAdd, Goto, ringVars, Free, Avail, Size
<1>5. ReadInv'
  BY ReadFrame DEF IInv, CallAdd, ringVars
<1> QED
  BY <1>1, <1>2, <1>3, <1>4, <1>5 DEF IInv

LEMMA LockAddStep ==
  ASSUME IInv, NEW s \in Senders, LockAdd(s)
  PROVE  IInv'
<1>1. TypeOK'
  BY DEF IInv, TypeOK, LockAdd, Goto, ringVars, receiverVars
<1>2. ChainInv' /\ InFlightIntact'
  BY RingFrame DEF IInv, LockAdd
<1>3. LockInv'
  BY NothingAssumption DEF IInv, TypeOK, LockInv, LockAdd, Goto
<1>4. WriteInv'
  BY DEF IInv, TypeOK, WriteInv, Adding, LockAdd, Goto, ringVars, Free, Avail, Size
<1>5. ReadInv'
  BY ReadFrame DEF IInv, LockAdd, ringVars
<1> QED
  BY <1>1, <1>2, <1>3, <1>4, <1>5 DEF IInv

LEMMA AddRefusedStep ==
  ASSUME IInv, Disciplined, NEW s \in Senders, AddRefused(s)
  PROVE  IInv'
<1>1. TypeOK'
  BY DEF IInv, TypeOK, AddRefused, Goto, Returned, ringVars, receiverVars
<1>2. ChainInv' /\ InFlightIntact'
  BY RingFrame DEF IInv, AddRefused
<1>3. LockInv'
  BY DEF IInv, TypeOK, LockInv, AddRefused, Goto, Returned, Disciplined
<1>4. WriteInv'
  BY DEF IInv, TypeOK, WriteInv, Adding, AddRefused, Goto, Returned, ringVars, Free, Avail, Size
<1>5. ReadInv'
  BY ReadFrame DEF IInv, AddRefused, ringVars
<1> QED
  BY <1>1, <1>2, <1>3, <1>4, <1>5 DEF IInv

LEMMA AddAcceptedStep ==
  ASSUME IInv, Disciplined, NEW s \in Senders, AddAccepted(s)
  PROVE  IInv'
<1>1. TypeOK'
  BY DEF IInv, TypeOK, AddAccepted, Goto, Returned, Seen, ringVars, receiverVars
<1>2. ChainInv' /\ InFlightIntact'
  BY RingFrame DEF IInv, AddAccepted
<1>3. LockInv'
  BY DEF IInv, TypeOK, LockInv, AddAccepted, Goto, Returned, Disciplined
<1>4. WriteInv'
  BY DEF IInv, TypeOK, WriteInv, Adding, AddAccepted, HasRoom, InOnePiece, Goto, Returned, ringVars, Free, Avail, Size
<1>5. ReadInv'
  BY ReadFrame DEF IInv, AddAccepted, ringVars
<1> QED
  BY <1>1, <1>2, <1>3, <1>4, <1>5 DEF IInv

LEMMA AddBeginInPlaceStep ==
  ASSUME IInv, Disciplined, NEW s \in Senders, NEW m \in Messages, NEW n \in ReserveLengths, AddBeginInPlace(s, m, n)
  PROVE  IInv'
<1>1. TypeOK'
  BY DEF IInv, TypeOK, AddBeginInPlace, Goto, Returned, Seen, ringVars, receiverVars
<1>2. ChainInv' /\ InFlightIntact'
  BY RingFrame DEF IInv, AddBeginInPlace
<1>3. LockInv'
  BY DEF IInv, TypeOK, LockInv, AddBeginInPlace, Goto, Returned, Disciplined
<1>4. WriteInv'
  <2>1. Size(m) <= Free(rd, wr) /\ QueueLength - wr >= Size(m)
    <3>1. n \in Nat /\ wr \in Nat /\ Free(rd, wr) \in Nat
      BY PositionFact, BufferAssumption, QueueLengthAssumption DEF IInv
    <3> QED
      BY <3>1, SizeFact, QueueLengthAssumption DEF AddBeginInPlace, HasRoom, InOnePiece
  <2>2. ASSUME NEW t \in Senders, spc'[t] \in {"store", "inplace"}
        PROVE  Adding(t)'
    <3>1. CASE t = s
      BY <2>1, <3>1 DEF IInv, TypeOK, AddBeginInPlace, HasRoom, InOnePiece, Goto, Adding, ringVars, Free, Avail, Size
    <3>2. CASE t # s
      BY <2>2, <3>2 DEF IInv, TypeOK, WriteInv, Adding, AddBeginInPlace, HasRoom, InOnePiece, Goto, ringVars, Free, Avail, Size
    <3> QED
      BY <3>1, <3>2
  <2> QED
    BY <2>2 DEF WriteInv
<1>5. ReadInv'
  BY ReadFrame DEF IInv, AddBeginInPlace, ringVars
<1> QED
  BY <1>1, <1>2, <1>3, <1>4, <1>5 DEF IInv

LEMMA AddCallbackBufferedStep ==
  ASSUME IInv, Disciplined, NEW s \in Senders, NEW m \in Messages, NEW n \in ReserveLengths, NEW b \in AddBuffers, AddCallbackBuffered(s, m, n, b)
  PROVE  IInv'
<1>1. TypeOK'
  BY DEF IInv, TypeOK, AddCallbackBuffered, Goto, Returned, Seen, ringVars, receiverVars
<1>2. ChainInv' /\ InFlightIntact'
  BY RingFrame DEF IInv, AddCallbackBuffered
<1>3. LockInv'
  BY DEF IInv, TypeOK, LockInv, AddCallbackBuffered, Goto, Returned, Disciplined
<1>4. WriteInv'
  BY DEF IInv, TypeOK, WriteInv, Adding, AddCallbackBuffered, Goto, Returned, ringVars, Free, Avail, Size
<1>5. ReadInv'
  BY ReadFrame DEF IInv, AddCallbackBuffered, ringVars
<1> QED
  BY <1>1, <1>2, <1>3, <1>4, <1>5 DEF IInv

LEMMA HandlerDeclinesStep ==
  ASSUME IInv, Disciplined, NEW s \in Senders, HandlerDeclines(s)
  PROVE  IInv'
<1>1. TypeOK'
  BY DEF IInv, TypeOK, HandlerDeclines, Goto, Returned, Seen, ringVars, receiverVars
<1>2. ChainInv' /\ InFlightIntact'
  BY RingFrame DEF IInv, HandlerDeclines
<1>3. LockInv'
  BY DEF IInv, TypeOK, LockInv, HandlerDeclines, Goto, Returned, Disciplined
<1>4. WriteInv'
  BY DEF IInv, TypeOK, WriteInv, Adding, HandlerDeclines, Goto, Returned, ringVars, Free, Avail, Size
<1>5. ReadInv'
  BY ReadFrame DEF IInv, HandlerDeclines, ringVars
<1> QED
  BY <1>1, <1>2, <1>3, <1>4, <1>5 DEF IInv

LEMMA UnlockAddStep ==
  ASSUME IInv, Disciplined, NEW s \in Senders, UnlockAdd(s)
  PROVE  IInv'
<1>1. TypeOK'
  BY DEF IInv, TypeOK, UnlockAdd, Goto, Returned, Seen, ringVars, receiverVars
<1>2. ChainInv' /\ InFlightIntact'
  BY RingFrame DEF IInv, UnlockAdd
<1>3. LockInv'
  BY NothingAssumption DEF IInv, TypeOK, LockInv, UnlockAdd, Goto, Returned, Disciplined
<1>4. WriteInv'
  BY DEF IInv, TypeOK, WriteInv, Adding, UnlockAdd, Goto, Returned, ringVars, Free, Avail, Size
<1>5. ReadInv'
  BY ReadFrame DEF IInv, UnlockAdd, ringVars
<1> QED
  BY <1>1, <1>2, <1>3, <1>4, <1>5 DEF IInv

LEMMA CopyHeadStep ==
  ASSUME IInv, Disciplined, NEW s \in Senders, CopyHead(s)
  PROVE  IInv'
<1> DEFINE m == smsg[s]
<1>1. /\ spc[s] \in {"store", "inplace"}
      /\ "head" \in stores[s]
      /\ Adding(s)
      /\ m \in Messages
      /\ swr[s] = wr
  BY DEF IInv, WriteInv, LockInv, Adding, CopyHead, MayBeSeen
<1>2. /\ Size(m) \in 1 .. QueueLength - 1
      /\ Avail(rd, wr) + Size(m) <= QueueLength - 1
  <2>1. Size(m) <= Free(rd, wr)
    BY <1>1 DEF Adding
  <2> QED
    BY <1>1, <2>1, PositionFact, SizeFact, QueueLengthAssumption DEF IInv
<1>3. /\ UNCHANGED <<rd, wr, inflight, lock, smsg, swr, receiverVars>>
      /\ stores' = [stores EXCEPT ![s] = @ \ {"head"}]
      /\ spc' = spc
  <2>1. stores[s] # {"head"}
    BY <1>1 DEF Adding
  <2> QED
    BY <2>1 DEF CopyHead, Seen, Goto, IInv, TypeOK
<1>4. /\ ring' \in [Positions -> Bytes]
      /\ \A p \in Positions : ring'[p] = IF p >= wr /\ p - wr < Size(m) THEN <<m, p - wr>> ELSE ring[p]
  <2>1. ring \in [Positions -> Bytes]
    BY DEF IInv, TypeOK
  <2>2. \A p \in Positions : p >= wr /\ p - wr < Size(m) => <<m, p - wr>> \in Bytes
    BY <1>1, <1>2, PositionFact, QueueLengthAssumption DEF IInv, Bytes, Positions
  <2> QED
    BY <1>1, <2>1, <2>2 DEF CopyHead
<1>5. TypeOK'
  BY <1>3, <1>4 DEF IInv, TypeOK, receiverVars
<1>6. InFlightIntact' /\ ChainInv'
  <2>1. ASSUME NEW p \in Positions, Offset(p) < Avail(rd, wr)
        PROVE  ring'[p] = ring[p]
    <3>1. ~(p >= wr /\ p - wr < Size(m))
      <4>1. rd \in Nat /\ wr \in Nat /\ p \in Nat /\ rd < QueueLength /\ wr < QueueLength /\ p < QueueLength
        BY PositionFact, QueueLengthAssumption DEF IInv, Positions
      <4>2. Avail(rd, wr) = IF wr >= rd THEN wr - rd ELSE QueueLength + wr - rd
        BY PositionFact, AvailFact DEF IInv
      <4> QED
        BY <1>2, <2>1, <4>1, <4>2, QueueLengthAssumption DEF Offset
    <3> QED
      BY <1>4, <3>1
  <2>2. InFlightIntact'
    BY <1>3, <2>1, WriteKeepsIntact DEF IInv
  <2> QED
    BY <1>3, <2>2 DEF IInv, ChainInv, EndOffset, Offset, Size, Avail
<1>7. LockInv'
  BY <1>1, <1>3 DEF IInv, TypeOK, LockInv
<1>8. WriteInv'
  <2> SUFFICES ASSUME NEW t \in Senders, spc[t] \in {"store", "inplace"}
               PROVE  Adding(t)'
    BY <1>3 DEF WriteInv
  <2>1. t = s
    BY <1>1, OneWriter DEF IInv
  <2>2. /\ swr'[s] = wr'
        /\ Size(smsg[s])' <= Free(rd, wr)'
        /\ "wr" \in stores'[s]
        /\ spc'[s] = "inplace" => QueueLength - wr' >= Size(smsg[s])'
    BY <1>1, <1>3 DEF Adding, Size, Free, Avail, IInv, TypeOK
  <2>3. stores'[s] = stores[s] \ {"head"}
    BY <1>3 DEF IInv, TypeOK
  <2>4. rd \in Nat /\ wr \in Nat /\ rd < QueueLength /\ wr < QueueLength
    BY PositionFact DEF IInv
  <2>5. "head" \in stores'[s] \/
         \A i \in 0 .. Size(m) - 1 : wr + i < QueueLength => ring'[wr + i] = <<m, i>>
    <3> SUFFICES ASSUME "head" \notin stores'[s], NEW i \in 0 .. Size(m) - 1, wr + i < QueueLength
                 PROVE  ring'[wr + i] = <<m, i>>
      OBVIOUS
    <3>1. wr + i \in Positions
      BY <1>2, <2>4, QueueLengthAssumption DEF Positions
    <3> QED
      BY <1>1, <1>2, <1>4, <2>3, <2>4, <3>1, QueueLengthAssumption DEF Adding
  <2>6. "rest" \in stores'[s] \/ QueueLength - wr >= Size(m) \/
         \A i \in 0 .. Size(m) - 1 : wr + i >= QueueLength => ring'[wr + i - QueueLength] = <<m, i>>
    <3> SUFFICES ASSUME "rest" \notin stores'[s], QueueLength - wr < Size(m),
                        NEW i \in 0 .. Size(m) - 1, wr + i >= QueueLength
                 PROVE  ring'[wr + i - QueueLength] = <<m, i>>
      BY <1>2, <2>4, QueueLengthAssumption
    <3>1. wr + i - QueueLength \in Positions /\ wr + i - QueueLength < wr
      BY <1>2, <2>4, QueueLengthAssumption DEF Positions
    <3> QED
      BY <1>1, <1>2, <1>4, <2>3, <2>4, <3>1, QueueLengthAssumption DEF Adding
  <2> QED
    BY <1>3, <2>1, <2>2, <2>5, <2>6 DEF Adding, Size
<1>9. ReadInv'
  BY <1>3, ReadFrame DEF IInv
<1> QED
  BY <1>5, <1>6, <1>7, <1>8, <1>9 DEF IInv

LEMMA CopyRestStep ==
  ASSUME IInv, Disciplined, NEW s \in Senders, CopyRest(s)
  PROVE  IInv'
<1> DEFINE m == smsg[s]
<1>1. /\ spc[s] \in {"store", "inplace"}
      /\ "rest" \in stores[s]
      /\ Adding(s)
      /\ m \in Messages
      /\ swr[s] = wr
  BY DEF IInv, WriteInv, LockInv, Adding, CopyRest, MayBeSeen
<1>2. /\ Size(m) \in 1 .. QueueLength - 1
      /\ Avail(rd, wr) + Size(m) <= QueueLength - 1
  <2>1. Size(m) <= Free(rd, wr)
    BY <1>1 DEF Adding
  <2> QED
    BY <1>1, <2>1, PositionFact, SizeFact, QueueLengthAssumption DEF IInv
<1>3. /\ UNCHANGED <<rd, wr, inflight, lock, smsg, swr, receiverVars>>
      /\ stores' = [stores EXCEPT ![s] = @ \ {"rest"}]
      /\ spc' = spc
  <2>1. stores[s] # {"rest"}
    BY <1>1 DEF Adding
  <2> QED
    BY <2>1 DEF CopyRest, Seen, Goto, IInv, TypeOK
<1>4. /\ ring' \in [Positions -> Bytes]
      /\ \A p \in Positions : ring'[p] = IF p < Size(m) - (QueueLength - wr) THEN <<m, QueueLength - wr + p>> ELSE ring[p]
  <2>1. ring \in [Positions -> Bytes]
    BY DEF IInv, TypeOK
  <2>2. \A p \in Positions : p < Size(m) - (QueueLength - wr) => <<m, QueueLength - wr + p>> \in Bytes
    BY <1>1, <1>2, PositionFact, QueueLengthAssumption DEF IInv, Bytes, Positions
  <2> QED
    BY <1>1, <2>1, <2>2 DEF CopyRest
<1>5. TypeOK'
  BY <1>3, <1>4 DEF IInv, TypeOK, receiverVars
<1>6. InFlightIntact' /\ ChainInv'
  <2>1. ASSUME NEW p \in Positions, Offset(p) < Avail(rd, wr)
        PROVE  ring'[p] = ring[p]
    <3>1. ~(p < Size(m) - (QueueLength - wr))
      <4>1. rd \in Nat /\ wr \in Nat /\ p \in Nat /\ rd < QueueLength /\ wr < QueueLength /\ p < QueueLength
        BY PositionFact, QueueLengthAssumption DEF IInv, Positions
      <4>2. Avail(rd, wr) = IF wr >= rd THEN wr - rd ELSE QueueLength + wr - rd
        BY PositionFact, AvailFact DEF IInv
      <4> QED
        BY <1>2, <2>1, <4>1, <4>2, QueueLengthAssumption DEF Offset
    <3> QED
      BY <1>4, <3>1
  <2>2. InFlightIntact'
    BY <1>3, <2>1, WriteKeepsIntact DEF IInv
  <2> QED
    BY <1>3, <2>2 DEF IInv, ChainInv, EndOffset, Offset, Size, Avail
<1>7. LockInv'
  BY <1>1, <1>3 DEF IInv, TypeOK, LockInv
<1>8. WriteInv'
  <2> SUFFICES ASSUME NEW t \in Senders, spc[t] \in {"store", "inplace"}
               PROVE  Adding(t)'
    BY <1>3 DEF WriteInv
  <2>1. t = s
    BY <1>1, OneWriter DEF IInv
  <2>2. /\ swr'[s] = wr'
        /\ Size(smsg[s])' <= Free(rd, wr)'
        /\ "wr" \in stores'[s]
        /\ spc'[s] = "inplace" => QueueLength - wr' >= Size(smsg[s])'
    BY <1>1, <1>3 DEF Adding, Size, Free, Avail, IInv, TypeOK
  <2>3. stores'[s] = stores[s] \ {"rest"}
    BY <1>3 DEF IInv, TypeOK
  <2>4. rd \in Nat /\ wr \in Nat /\ rd < QueueLength /\ wr < QueueLength
    BY PositionFact DEF IInv
  <2>5. "head" \in stores'[s] \/
         \A i \in 0 .. Size(m) - 1 : wr + i < QueueLength => ring'[wr + i] = <<m, i>>
    <3> SUFFICES ASSUME "head" \notin stores'[s], NEW i \in 0 .. Size(m) - 1, wr + i < QueueLength
                 PROVE  ring'[wr + i] = <<m, i>>
      OBVIOUS
    <3>1. wr + i \in Positions
      BY <1>2, <2>4, QueueLengthAssumption DEF Positions
    <3> QED
      BY <1>1, <1>2, <1>4, <2>3, <2>4, <3>1, QueueLengthAssumption DEF Adding
  <2>6. "rest" \in stores'[s] \/ QueueLength - wr >= Size(m) \/
         \A i \in 0 .. Size(m) - 1 : wr + i >= QueueLength => ring'[wr + i - QueueLength] = <<m, i>>
    <3> SUFFICES ASSUME "rest" \notin stores'[s], QueueLength - wr < Size(m),
                        NEW i \in 0 .. Size(m) - 1, wr + i >= QueueLength
                 PROVE  ring'[wr + i - QueueLength] = <<m, i>>
      BY <1>2, <2>4, QueueLengthAssumption
    <3>1. wr + i - QueueLength \in Positions /\ wr + i - QueueLength < wr
      BY <1>2, <2>4, QueueLengthAssumption DEF Positions
    <3> QED
      BY <1>1, <1>2, <1>4, <2>3, <2>4, <3>1, QueueLengthAssumption DEF Adding
  <2> QED
    BY <1>3, <2>1, <2>2, <2>5, <2>6 DEF Adding, Size
<1>9. ReadInv'
  BY <1>3, ReadFrame DEF IInv
<1> QED
  BY <1>5, <1>6, <1>7, <1>8, <1>9 DEF IInv

(* Storing m_wr, the last store of an add, hands a complete message over. *)
LEMMA PublishStep ==
  ASSUME IInv, Disciplined, NEW s \in Senders, Publish(s) \/ AddComplete(s)
  PROVE  IInv' /\ Avail(rd, wr)' >= Avail(rd, wr)
<1> DEFINE m == smsg[s]
<1>1. /\ spc[s] \in {"store", "inplace"}
      /\ Adding(s)
      /\ m \in Messages
      /\ swr[s] = wr
      /\ stores[s] = {"wr"}
  BY DEF IInv, WriteInv, LockInv, Adding, Publish, AddComplete, MayBeSeen, Disciplined
<1>2. /\ Size(m) <= Free(rd, wr)
      /\ Size(m) \in 1 .. QueueLength - 1
  <2>1. Size(m) <= Free(rd, wr)
    BY <1>1 DEF Adding
  <2> QED
    BY <1>1, <2>1, PositionFact, SizeFact, QueueLengthAssumption DEF IInv
<1>3. /\ UNCHANGED <<ring, rd, receiverVars, lock, smsg, swr>>
      /\ wr' = Advance(wr, Size(m))
      /\ inflight' = Append(inflight, [msg |-> m, at |-> wr])
      /\ stores' = [stores EXCEPT ![s] = {}]
      /\ spc' = [spc EXCEPT ![s] = Returned]
  <2>1. stores[s] \ {"wr"} = {}
    BY <1>1
  <2> QED
    BY <1>1, <2>1 DEF Publish, AddComplete, Seen, Goto
<1>4. \A i \in 0 .. Size(m) - 1 : ring[Advance(wr, i)] = <<m, i>>
  <2> SUFFICES ASSUME NEW i \in 0 .. Size(m) - 1
               PROVE  ring[Advance(wr, i)] = <<m, i>>
    OBVIOUS
  <2>1. Advance(wr, i) = IF wr + i < QueueLength THEN wr + i ELSE wr + i - QueueLength
    BY <1>2, PositionFact, AdvanceFact, QueueLengthAssumption DEF IInv
  <2>2. CASE wr + i < QueueLength
    BY <1>1, <2>1, <2>2 DEF Adding
  <2>3. CASE wr + i >= QueueLength
    <3>1. /\ ~(QueueLength - wr >= Size(m))
          /\ ~(wr + i < QueueLength)
      BY <1>2, <2>3, PositionFact, QueueLengthAssumption DEF IInv
    <3>2. ring[wr + i - QueueLength] = <<m, i>>
      BY <1>1, <2>3, <3>1 DEF Adding
    <3> QED
      BY <2>1, <3>1, <3>2
  <2> QED
    BY <1>2, <2>2, <2>3, PositionFact, QueueLengthAssumption DEF IInv
<1>5. /\ wr' \in Positions
      /\ inflight' \in Seq([msg : Messages, at : Positions])
      /\ ChainInv'
      /\ InFlightIntact'
      /\ Avail(rd, wr)' = Avail(rd, wr) + Size(m)
  BY <1>1, <1>2, <1>3, <1>4, PublishKeepsChain DEF IInv
<1>6. TypeOK'
  BY <1>3, <1>5 DEF IInv, TypeOK, receiverVars, Returned
<1>7. LockInv'
  BY <1>1, <1>3 DEF IInv, TypeOK, LockInv, Returned, Disciplined
<1>8. WriteInv'
  <2> SUFFICES ASSUME NEW t \in Senders, spc'[t] \in {"store", "inplace"}
               PROVE  FALSE
    BY DEF WriteInv
  <2>1. t # s /\ spc'[t] = spc[t]
    BY <1>3 DEF Returned, IInv, TypeOK
  <2> QED
    BY <1>1, <2>1, OneWriter DEF IInv
<1>9. ReadInv'
  <2>1. CASE inflight = <<>>
    <3>1. rpc \in {"idle", "copied"} /\ peeked = Nothing
      BY <2>1 DEF IInv, ReadInv
    <3> QED
      BY <1>3, <3>1 DEF IInv, ReadInv, receiverVars, Image, Size
  <2>2. CASE inflight # <<>>
    <3>1. inflight \in Seq(Entry) /\ [msg |-> m, at |-> wr] \in Entry
      BY <1>1, PositionFact DEF IInv, TypeOK, Entry
    <3>2. inflight' # <<>> /\ inflight'[1] = inflight[1]
      BY <1>3, <2>2, <3>1, AppendProperties
    <3> QED
      BY <1>3, <2>2, <3>2 DEF IInv, ReadInv, receiverVars, Image, Size
  <2> QED
    BY <2>1, <2>2
<1>10. Avail(rd, wr)' >= Avail(rd, wr)
  BY <1>2, <1>5, PositionFact DEF IInv
<1> QED
  BY <1>5, <1>6, <1>7, <1>8, <1>9, <1>10 DEF IInv

--------------------------------------------------------------------------------
(* Each step of the receiver keeps the invariant.                             *)

LEMMA LoadStep ==
  ASSUME IInv, NEW op \in {"get", "begin", "peek"}, Load(op)
  PROVE  IInv'
<1>1. TypeOK'
  BY DEF IInv, TypeOK, Load, ringVars, senderVars
<1>2. ChainInv' /\ InFlightIntact'
  BY RingFrame DEF IInv, Load
<1>3. LockInv' /\ WriteInv'
  BY WriteFrame DEF IInv, Load
<1>4. ReadInv'
  BY DEF IInv, ReadInv, ChainInv, Load, ringVars, Image, Size
<1> QED
  BY <1>1, <1>2, <1>3, <1>4 DEF IInv

LEMMA GetHeaderStep ==
  ASSUME IInv, NEW b \in GetBuffers, GetHeader(b)
  PROVE  IInv'
<1> DEFINE m == inflight[1].msg
<1>1. /\ inflight # <<>>
      /\ m \in Messages
      /\ HeaderAt(rd) = [i \in 0 .. HeaderSize - 1 |-> <<m, i>>]
      /\ \A n \in LengthsAt(rd) : n = DataLength[m] /\ n \in 0 .. QueueLength
  <2>1. inflight # <<>>
    BY DEF IInv, ReadInv, GetHeader
  <2> QED
    BY <2>1, HeaderRead, OldestFact DEF IInv, LengthsAt
<1>2. TypeOK'
  <2>1. HeaderAt(rd) \in [0 .. HeaderSize - 1 -> Bytes]
    BY <1>1, HeaderSizeAssumption DEF Bytes
  <2>2. \E n \in 0 .. 2 * QueueLength + HeaderSize : HeaderAt(rd) \in [0 .. n - 1 -> Bytes]
    BY <2>1, HeaderSizeAssumption, QueueLengthAssumption
  <2>3. /\ rpc' \in {"copy", "idle"}
        /\ rlen' \in 0 .. QueueLength
        /\ rbuf' \in {rbuf, HeaderAt(rd)}
        /\ UNCHANGED <<ringVars, senderVars, peeked>>
    BY <1>1 DEF GetHeader, IInv, TypeOK
  <2>4. \E n \in 0 .. 2 * QueueLength + HeaderSize : rbuf' \in [0 .. n - 1 -> Bytes]
    BY <2>2, <2>3 DEF IInv, TypeOK
  <2> QED
    BY <2>3, <2>4 DEF IInv, TypeOK, ringVars, senderVars
<1>3. ChainInv' /\ InFlightIntact'
  BY RingFrame DEF IInv, GetHeader
<1>4. LockInv' /\ WriteInv'
  BY WriteFrame DEF IInv, GetHeader
<1>5. ReadInv'
  BY <1>1 DEF IInv, ReadInv, GetHeader, ringVars, Image, Size
<1> QED
  BY <1>2, <1>3, <1>4, <1>5 DEF IInv

(* Two short moves round the ring are one, as long as they fit together. *)
LEMMA AdvanceTwice ==
  ASSUME NEW p \in Positions, NEW j \in Nat, NEW k \in Nat, j + k <= QueueLength
  PROVE  Advance(Advance(p, j), k) = Advance(p, j + k)
<1>1. j \in 0 .. QueueLength /\ k \in 0 .. QueueLength /\ j + k \in 0 .. QueueLength
  BY QueueLengthAssumption
<1>2. /\ Advance(p, j) = IF p + j < QueueLength THEN p + j ELSE p + j - QueueLength
      /\ Advance(p, j) \in Positions
  BY <1>1, AdvanceFact
<1>3. Advance(Advance(p, j), k) = IF Advance(p, j) + k < QueueLength
                                    THEN Advance(p, j) + k ELSE Advance(p, j) + k - QueueLength
  BY <1>1, <1>2, AdvanceFact
<1>4. Advance(p, j + k) = IF p + (j + k) < QueueLength THEN p + (j + k) ELSE p + (j + k) - QueueLength
  BY <1>1, AdvanceFact
<1>5. p \in Nat /\ p < QueueLength
  BY QueueLengthAssumption DEF Positions
<1> QED
  BY <1>1, <1>2, <1>3, <1>4, <1>5, QueueLengthAssumption

LEMMA GetDataStep ==
  ASSUME IInv, GetData
  PROVE  IInv'
<1> DEFINE m == inflight[1].msg
           start == Advance(rd, HeaderSize)
           data(j) == ByteFrom(start, j)
<1>1. /\ inflight # <<>>
      /\ rpc = "copy"
      /\ rlen = DataLength[m]
      /\ rbuf = [i \in 0 .. HeaderSize - 1 |-> <<m, i>>]
  BY DEF IInv, ReadInv, GetData
<1>2. /\ m \in Messages
      /\ Size(m) \in 1 .. QueueLength - 1
      /\ Size(m) = rlen + HeaderSize
      /\ rlen \in Nat
      /\ HeaderSize \in Nat /\ HeaderSize >= 1
      /\ inflight[1].at = rd /\ 1 \in 1 .. Len(inflight)
  BY <1>1, OldestFact, SizeFact DEF IInv
<1>3. ASSUME NEW j \in 0 .. rlen - 1
      PROVE  data(j) = <<m, HeaderSize + j>>
  <2>1. ring[Advance(rd, HeaderSize + j)] = <<m, HeaderSize + j>>
    <3>1. HeaderSize + j \in 0 .. Size(m) - 1
      BY <1>2
    <3> QED
      BY <1>2, <3>1 DEF IInv, InFlightIntact
  <2>2. Advance(start, j) = Advance(rd, HeaderSize + j)
    <3>1. j \in Nat /\ HeaderSize + j <= QueueLength
      BY <1>2, QueueLengthAssumption
    <3> QED
      BY <1>2, <3>1, PositionFact, AdvanceTwice DEF IInv
  <2>3. start \in Positions
    BY <1>2, PositionFact, AdvanceFact, QueueLengthAssumption DEF IInv
  <2>4. Advance(start, j) = IF start + j < QueueLength THEN start + j ELSE start + j - QueueLength
    <3>1. j \in 0 .. QueueLength
      BY <1>2, QueueLengthAssumption
    <3> QED
      BY <2>3, <3>1, AdvanceFact
  <2>5. start \in Nat /\ start < QueueLength
    BY <2>3, QueueLengthAssumption DEF Positions
  <2> HIDE DEF start
  <2>6. CASE start + j < QueueLength
    <3>1. j < QueueLength - start
      BY <2>5, <2>6, QueueLengthAssumption
    <3> QED
      BY <2>1, <2>2, <2>4, <2>6, <3>1 DEF ByteFrom
  <2>7. CASE ~(start + j < QueueLength)
    <3>1. ~(j < QueueLength - start) /\ j - (QueueLength - start) = start + j - QueueLength
      BY <2>5, <2>7, QueueLengthAssumption
    <3> QED
      BY <2>1, <2>2, <2>4, <2>7, <3>1 DEF ByteFrom
  <2> QED
    BY <2>6, <2>7
<1>4. /\ rbuf' = [i \in 0 .. rlen + HeaderSize - 1 |-> IF i < HeaderSize THEN rbuf[i] ELSE data(i - HeaderSize)]
      /\ rpc' = "consume"
      /\ UNCHANGED <<ringVars, senderVars, rlen, peeked>>
  BY DEF GetData
<1>5. rbuf' = Image(m)
  <2>1. ASSUME NEW i \in 0 .. Size(m) - 1
        PROVE  (IF i < HeaderSize THEN rbuf[i] ELSE data(i - HeaderSize)) = <<m, i>>
    <3>1. CASE i < HeaderSize
      BY <1>1, <1>2, <3>1
    <3>2. CASE ~(i < HeaderSize)
      <4>1. i - HeaderSize \in 0 .. rlen - 1 /\ HeaderSize + (i - HeaderSize) = i
        BY <1>2, <3>2
      <4>2. data(i - HeaderSize) = <<m, HeaderSize + (i - HeaderSize)>>
        BY <1>3, <4>1
      <4> HIDE DEF data
      <4> QED
        BY <3>2, <4>1, <4>2
    <3> QED
      BY <3>1, <3>2
  <2> HIDE DEF data
  <2>2. 0 .. rlen + HeaderSize - 1 = 0 .. Size(m) - 1
    BY <1>2
  <2> QED
    BY <1>4, <2>1, <2>2 DEF Image
<1>6. TypeOK'
  <2>1. rbuf' \in [0 .. Size(m) - 1 -> Bytes]
    BY <1>2, <1>5 DEF Image, Bytes
  <2>2. Size(m) \in 0 .. 2 * QueueLength + HeaderSize
    BY <1>2, QueueLengthAssumption
  <2>3. \E n \in 0 .. 2 * QueueLength + HeaderSize : rbuf' \in [0 .. n - 1 -> Bytes]
    BY <2>1, <2>2
  <2> QED
    BY <1>4, <2>3 DEF IInv, TypeOK, ringVars, senderVars
<1>7. ChainInv' /\ InFlightIntact'
  BY <1>4, RingFrame DEF IInv
<1>8. LockInv' /\ WriteInv'
  BY <1>4, WriteFrame DEF IInv
<1>9. ReadInv'
  BY <1>1, <1>4, <1>5 DEF IInv, ReadInv, ringVars, Image, Size
<1> QED
  BY <1>6, <1>7, <1>8, <1>9 DEF IInv

(* What is left to show of a step that consumes the oldest message. *)
LEMMA ConsumeStep ==
  ASSUME IInv, inflight # <<>>,
         rd' = Advance(rd, Size(inflight[1].msg)),
         Dequeue,
         peeked' = Nothing,
         UNCHANGED <<ring, wr, senderVars>>
  PROVE  /\ rd' \in Positions
         /\ inflight' \in Seq([msg : Messages, at : Positions])
         /\ ChainInv' /\ InFlightIntact' /\ LockInv' /\ WriteInv'
         /\ Free(rd, wr)' >= Free(rd, wr)
<1>1. /\ rd' \in Positions
      /\ inflight' \in Seq([msg : Messages, at : Positions])
      /\ ChainInv' /\ InFlightIntact'
      /\ Avail(rd, wr)' = Avail(rd, wr) - Size(inflight[1].msg)
  BY ConsumeKeepsChain DEF IInv
<1>2. Free(rd, wr)' = QueueLength - 1 - Avail(rd, wr)'
  BY DEF Free
<1>3. Free(rd, wr)' >= Free(rd, wr) /\ Free(rd, wr)' \in Int /\ Free(rd, wr) \in Int
  BY <1>1, <1>2, PositionFact, OldestFact, QueueLengthAssumption DEF IInv
<1>4. LockInv'
  BY DEF IInv, LockInv, senderVars
<1>5. WriteInv'
  <2> SUFFICES ASSUME NEW s \in Senders, spc[s] \in {"store", "inplace"}
               PROVE  Adding(s)'
    BY DEF WriteInv, senderVars
  <2>1. Adding(s) /\ smsg[s] \in Messages
    BY DEF IInv, WriteInv, LockInv
  <2>2. Size(smsg[s])' = Size(smsg[s]) /\ Size(smsg[s]) \in Nat
    BY <2>1, SizeFact DEF senderVars, Size
  <2>3. Size(smsg[s])' <= Free(rd, wr)'
    BY <1>3, <2>1, <2>2 DEF Adding
  <2> QED
    BY <2>1, <2>2, <2>3 DEF Adding, senderVars
<1> QED
  BY <1>1, <1>3, <1>4, <1>5

LEMMA GetConsumeStep ==
  ASSUME IInv, GetConsume
  PROVE  IInv' /\ Free(rd, wr)' >= Free(rd, wr)
<1> DEFINE m == inflight[1].msg
<1>1. /\ inflight # <<>>
      /\ rlen = DataLength[m]
      /\ rbuf = Image(m)
  BY DEF IInv, ReadInv, GetConsume
<1>2. /\ m \in Messages
      /\ Size(m) \in 1 .. QueueLength - 1
      /\ Size(m) = rlen + HeaderSize
      /\ rlen \in Nat /\ HeaderSize \in Nat
  BY <1>1, OldestFact, SizeFact DEF IInv
<1>3. rd' = Advance(rd, Size(m))
  <2>1. /\ Size(m) = HeaderSize + rlen
        /\ HeaderSize + rlen <= QueueLength
    BY <1>2, QueueLengthAssumption
  <2> QED
    BY <1>2, <2>1, PositionFact, AdvanceTwice DEF IInv, GetConsume
<1>4. /\ rd' \in Positions
      /\ inflight' \in Seq([msg : Messages, at : Positions])
      /\ ChainInv' /\ InFlightIntact' /\ LockInv' /\ WriteInv'
      /\ Free(rd, wr)' >= Free(rd, wr)
  BY <1>1, <1>3, ConsumeStep DEF GetConsume
<1>5. TypeOK'
  BY <1>4 DEF IInv, TypeOK, GetConsume, senderVars
<1>6. ReadInv'
  BY <1>1, <1>2 DEF ReadInv, GetConsume, Image, Size
<1> QED
  BY <1>4, <1>5, <1>6 DEF IInv

LEMMA CopyHandledStep ==
  ASSUME IInv, CopyHandled
  PROVE  IInv'
<1>1. TypeOK'
  <2>1. rbuf' \in [0 .. 0 - 1 -> Bytes]
    BY DEF CopyHandled
  <2>2. \E n \in 0 .. 2 * QueueLength + HeaderSize : rbuf' \in [0 .. n - 1 -> Bytes]
    BY <2>1, QueueLengthAssumption, HeaderSizeAssumption
  <2>3. rpc' = "idle" /\ rlen' \in 0 .. QueueLength /\ UNCHANGED <<ringVars, senderVars, peeked>>
    BY QueueLengthAssumption DEF CopyHandled
  <2> QED
    BY <2>2, <2>3 DEF IInv, TypeOK, ringVars, senderVars
<1>2. ChainInv' /\ InFlightIntact'
  BY RingFrame DEF IInv, CopyHandled
<1>3. LockInv' /\ WriteInv'
  BY WriteFrame DEF IInv, CopyHandled
<1>4. ReadInv'
  BY DEF IInv, ReadInv, CopyHandled, ringVars, Image, Size
<1> QED
  BY <1>1, <1>2, <1>3, <1>4 DEF IInv

LEMMA GetBeginStep ==
  ASSUME IInv, GetBegin
  PROVE  IInv'
<1> DEFINE m == inflight[1].msg
<1>1. /\ inflight # <<>>
      /\ m \in Messages
      /\ \A n \in LengthsAt(rd) : n = DataLength[m] /\ n \in 0 .. QueueLength
  <2>1. inflight # <<>>
    BY DEF IInv, ReadInv, GetBegin
  <2> QED
    BY <2>1, HeaderRead, OldestFact DEF IInv, LengthsAt
<1>2. /\ UNCHANGED <<ringVars, senderVars, rbuf, peeked>>
      /\ rpc' = "inplace" => rlen' = DataLength[m] /\ QueueLength - rd >= DataLength[m] + HeaderSize
      /\ rpc' \in {"inplace", "idle"}
      /\ rlen' \in 0 .. QueueLength
  BY <1>1 DEF GetBegin, InOnePiece, IInv, TypeOK
<1>3. TypeOK'
  BY <1>2 DEF IInv, TypeOK, ringVars, senderVars
<1>4. ChainInv' /\ InFlightIntact'
  BY <1>2, RingFrame DEF IInv
<1>5. LockInv' /\ WriteInv'
  BY <1>2, WriteFrame DEF IInv
<1>6. ReadInv'
  <2>1. rpc' = "inplace" => rd + Size(m) <= QueueLength
    BY <1>1, <1>2, SizeFact, PositionFact, QueueLengthAssumption DEF IInv
  <2> QED
    BY <1>1, <1>2, <2>1 DEF IInv, ReadInv, ringVars, Image, Size
<1> QED
  BY <1>3, <1>4, <1>5, <1>6 DEF IInv

LEMMA GetCompleteStep ==
  ASSUME IInv, GetComplete
  PROVE  IInv' /\ Free(rd, wr)' >= Free(rd, wr)
<1> DEFINE m == inflight[1].msg
<1>1. /\ inflight # <<>>
      /\ m \in Messages
      /\ \A n \in LengthsAt(rd) : n = DataLength[m]
      /\ Size(m) \in 1 .. QueueLength - 1
      /\ Size(m) = DataLength[m] + HeaderSize
  <2>1. inflight # <<>>
    BY DEF IInv, ReadInv, GetComplete
  <2> QED
    BY <2>1, HeaderRead, OldestFact, SizeFact DEF IInv
<1>2. DataLength[m] + HeaderSize < QueueLength
  BY <1>1, QueueLengthAssumption
<1>3. /\ rd' = Advance(rd, Size(m))
      /\ Dequeue
      /\ peeked' = Nothing
      /\ rpc' = "idle" /\ rlen' = 0
      /\ UNCHANGED <<ring, wr, senderVars, rbuf>>
  BY <1>1, <1>2 DEF GetComplete
<1>4. /\ rd' \in Positions
      /\ inflight' \in Seq([msg : Messages, at : Positions])
      /\ ChainInv' /\ InFlightIntact' /\ LockInv' /\ WriteInv'
      /\ Free(rd, wr)' >= Free(rd, wr)
  BY <1>1, <1>3, ConsumeStep
<1>5. TypeOK'
  BY <1>3, <1>4, QueueLengthAssumption DEF IInv, TypeOK, senderVars
<1>6. ReadInv'
  BY <1>3 DEF ReadInv
<1> QED
  BY <1>4, <1>5, <1>6 DEF IInv

LEMMA NextLengthStep ==
  ASSUME IInv, NextLength
  PROVE  IInv'
<1> DEFINE m == inflight[1].msg
<1>1. /\ inflight # <<>>
      /\ m \in Messages
      /\ \A n \in LengthsAt(rd) : n = DataLength[m]
      /\ Size(m) \in 1 .. QueueLength - 1
      /\ Size(m) = DataLength[m] + HeaderSize
  <2>1. inflight # <<>>
    BY DEF IInv, ReadInv, NextLength
  <2> QED
    BY <2>1, HeaderRead, OldestFact, SizeFact DEF IInv
<1>2. /\ peeked' = Size(m) \/ peeked' = peeked
      /\ rpc' = "idle"
      /\ UNCHANGED <<ringVars, senderVars, rlen, rbuf>>
  BY <1>1 DEF NextLength
<1>3. TypeOK'
  <2>1. peeked' \in 0 .. QueueLength \cup {Nothing}
    BY <1>1, <1>2, QueueLengthAssumption DEF IInv, TypeOK
  <2> QED
    BY <1>2, <2>1 DEF IInv, TypeOK, ringVars, senderVars
<1>4. ChainInv' /\ InFlightIntact'
  BY <1>2, RingFrame DEF IInv
<1>5. LockInv' /\ WriteInv'
  BY <1>2, WriteFrame DEF IInv
<1>6. ReadInv'
  BY <1>1, <1>2 DEF IInv, ReadInv, ringVars, Image, Size
<1> QED
  BY <1>3, <1>4, <1>5, <1>6 DEF IInv

--------------------------------------------------------------------------------
(* The invariant, and what it gives.                                          *)

LEMMA InitIInv == Init => IInv
<1> SUFFICES ASSUME Init PROVE IInv
  OBVIOUS
<1>1. TypeOK
  <2>1. 0 \in Positions /\ inflight = <<>> /\ 0 \in 0 .. QueueLength
    BY QueueLengthAssumption DEF Init, Positions
  <2>2. inflight \in Seq([msg : Messages, at : Positions])
    BY <2>1
  <2>3. rbuf \in [0 .. 0 - 1 -> Bytes]
    BY DEF Init
  <2>4. \E n \in 0 .. 2 * QueueLength + HeaderSize : rbuf \in [0 .. n - 1 -> Bytes]
    BY <2>3, QueueLengthAssumption, HeaderSizeAssumption
  <2> QED
    BY <2>1, <2>2, <2>4 DEF Init, TypeOK, Bytes
<1>2. ChainInv /\ InFlightIntact
  <2>1. Len(inflight) = 0 /\ inflight = <<>> /\ rd = wr
    BY DEF Init
  <2> QED
    BY <2>1 DEF ChainInv, InFlightIntact
<1>3. LockInv /\ WriteInv /\ ReadInv
  BY DEF Init, LockInv, WriteInv, ReadInv
<1> QED
  BY <1>1, <1>2, <1>3 DEF IInv

LEMMA SenderKeepsIInv ==
  ASSUME IInv, Disciplined, NEW s \in Senders, Sender(s)
  PROVE  IInv' /\ UNCHANGED rd /\ (wr' = wr \/ Avail(rd, wr)' >= Avail(rd, wr))
<1>1. CASE \E m \in Messages : CallAdd(s, m)
  BY <1>1, CallAddStep DEF CallAdd, ringVars
<1>2. CASE LockAdd(s)
  BY <1>2, LockAddStep DEF LockAdd, ringVars
<1>3. CASE AddRefused(s)
  BY <1>3, AddRefusedStep DEF AddRefused, ringVars
<1>4. CASE AddAccepted(s)
  BY <1>4, AddAcceptedStep DEF AddAccepted, ringVars
<1>5. CASE CopyHead(s)
  BY <1>5, CopyHeadStep DEF CopyHead
<1>6. CASE CopyRest(s)
  BY <1>6, CopyRestStep DEF CopyRest
<1>7. CASE Publish(s)
  BY <1>7, PublishStep DEF Publish
<1>8. CASE \E m \in Messages, n \in ReserveLengths : AddBeginInPlace(s, m, n)
  BY <1>8, AddBeginInPlaceStep DEF AddBeginInPlace, ringVars
<1>9. CASE \E m \in Messages, n \in ReserveLengths, b \in AddBuffers : AddCallbackBuffered(s, m, n, b)
  BY <1>9, AddCallbackBufferedStep DEF AddCallbackBuffered, ringVars
<1>10. CASE HandlerDeclines(s)
  BY <1>10, HandlerDeclinesStep DEF HandlerDeclines, ringVars
<1>11. CASE AddComplete(s)
  BY <1>11, PublishStep DEF AddComplete
<1>12. CASE UnlockAdd(s)
  BY <1>12, UnlockAddStep DEF UnlockAdd, ringVars
<1> QED
  BY <1>1, <1>2, <1>3, <1>4, <1>5, <1>6, <1>7, <1>8, <1>9, <1>10, <1>11, <1>12 DEF Sender

LEMMA ReceiverKeepsIInv ==
  ASSUME IInv, Receiver
  PROVE  IInv' /\ UNCHANGED wr /\ (rd' = rd \/ Free(rd, wr)' >= Free(rd, wr))
<1>1. CASE \E op \in {"get", "begin", "peek"} : Load(op)
  BY <1>1, LoadStep DEF Load, ringVars
<1>2. CASE \E b \in GetBuffers : GetHeader(b)
  BY <1>2, GetHeaderStep DEF GetHeader, ringVars
<1>3. CASE GetData
  BY <1>3, GetDataStep DEF GetData, ringVars
<1>4. CASE GetConsume
  BY <1>4, GetConsumeStep DEF GetConsume
<1>5. CASE CopyHandled
  BY <1>5, CopyHandledStep DEF CopyHandled, ringVars
<1>6. CASE GetBegin
  BY <1>6, GetBeginStep DEF GetBegin, ringVars
<1>7. CASE GetComplete
  BY <1>7, GetCompleteStep DEF GetComplete
<1>8. CASE NextLength
  BY <1>8, NextLengthStep DEF NextLength, ringVars
<1> QED
  BY <1>1, <1>2, <1>3, <1>4, <1>5, <1>6, <1>7, <1>8 DEF Receiver

LEMMA StutterKeepsIInv ==
  ASSUME IInv, UNCHANGED vars
  PROVE  IInv'
<1>1. UNCHANGED <<ringVars, senderVars, receiverVars>>
  BY DEF vars, ringVars, senderVars, receiverVars
<1>2. TypeOK'
  BY <1>1 DEF IInv, TypeOK, ringVars, senderVars, receiverVars
<1>3. ChainInv' /\ InFlightIntact' /\ LockInv' /\ WriteInv'
  BY <1>1, RingFrame, WriteFrame DEF IInv
<1>4. ReadInv'
  BY <1>1, ReadFrame DEF IInv, ringVars
<1> QED
  BY <1>2, <1>3, <1>4 DEF IInv

(* Every reachable state of a disciplined queue satisfies the invariant.      *)
THEOREM Invariance ==
  ASSUME Disciplined
  PROVE  Spec => []IInv
<1>1. IInv /\ [Next]_vars => IInv'
  BY SenderKeepsIInv, ReceiverKeepsIInv, StutterKeepsIInv DEF Next
<1> QED
  BY InitIInv, <1>1, PTL DEF Spec

(* The two range errors of message_queue_get_l cannot happen.                  *)
THEOREM TypeCorrect ==
  ASSUME Disciplined
  PROVE  Spec => []TypeOK
<1>1. IInv => TypeOK
  BY DEF IInv
<1> QED
  BY <1>1, Invariance, PTL

(* No sender ever writes into a message that is still to be read. *)
THEOREM InFlightStaysIntact ==
  ASSUME Disciplined
  PROVE  Spec => []InFlightIntact
<1>1. IInv => InFlightIntact
  BY DEF IInv
<1> QED
  BY <1>1, Invariance, PTL

(* The receiver's handler always sees the oldest message, whole. *)
THEOREM DeliveredStaysIntact ==
  ASSUME Disciplined
  PROVE  Spec => []DeliveredIntact
<1>1. IInv => DeliveredIntact
  <2> SUFFICES ASSUME IInv PROVE DeliveredIntact
    OBVIOUS
  <2> DEFINE m == inflight[1].msg
  <2>1. rpc = "consume" => inflight # <<>> /\ rbuf = Image(m)
    BY DEF IInv, ReadInv
  <2>2. ASSUME rpc = "inplace"
        PROVE  /\ inflight # <<>>
               /\ rlen = DataLength[m]
               /\ \A i \in 0 .. Size(m) - 1 : rd + i < QueueLength /\ ring[rd + i] = <<m, i>>
    <3>1. inflight # <<>> /\ rlen = DataLength[m] /\ rd + Size(m) <= QueueLength
      BY <2>2 DEF IInv, ReadInv
    <3>2. /\ 1 \in 1 .. Len(inflight) /\ inflight[1].at = rd
          /\ Size(m) \in 1 .. QueueLength - 1
      BY <3>1, OldestFact DEF IInv
    <3>3. ASSUME NEW i \in 0 .. Size(m) - 1
          PROVE  rd + i < QueueLength /\ ring[rd + i] = <<m, i>>
      <4>1. rd + i < QueueLength /\ i \in 0 .. QueueLength
        BY <3>1, <3>2, PositionFact, QueueLengthAssumption DEF IInv
      <4>2. Advance(rd, i) = rd + i
        BY <4>1, PositionFact, AdvanceFact DEF IInv
      <4> QED
        BY <3>2, <4>1, <4>2 DEF IInv, InFlightIntact
    <3> QED
      BY <3>1, <3>3
  <2> QED
    BY <2>1, <2>2 DEF DeliveredIntact
<1> QED
  BY <1>1, Invariance, PTL

(* Equal positions always mean an empty queue. *)
THEOREM EmptyIffEqual ==
  ASSUME Disciplined
  PROVE  Spec => []FullIsNotEmpty
<1>1. IInv => FullIsNotEmpty
  <2> SUFFICES ASSUME IInv, inflight # <<>> PROVE rd # wr
    BY DEF FullIsNotEmpty, IInv, ChainInv
  <2>1. Avail(rd, wr) # 0
    BY OldestFact, PositionFact, QueueLengthAssumption DEF IInv
  <2> QED
    BY <2>1, PositionFact, AvailFact DEF IInv
<1> QED
  BY <1>1, Invariance, PTL

(* The bytes waiting after each of the messages in flight.                    *)
Sums(f) ==
  /\ f \in [0 .. Len(inflight) -> Nat]
  /\ f[0] = 0
  /\ \A k \in 1 .. Len(inflight) : f[k] = f[k - 1] + Size(inflight[k].msg)

LEMMA BytesDef ==
  ASSUME TypeOK
  PROVE  \E f : Sums(f) /\ BytesWaiting = f[Len(inflight)]
<1> DEFINE n == Len(inflight)
           step == [p \in (1 .. n) \X Nat |-> p[2] + Size(inflight[p[1]].msg)]
           Fits(f) == f = [k \in 0 .. n |->
                             IF k = 0 THEN 0 ELSE f[k - 1] + Size(inflight[k].msg)]
<1>1. n \in Nat /\ \A k \in 1 .. n : Size(inflight[k].msg) \in Nat
  BY EntryFact DEF TypeOK
<1>2. step \in [(1 .. n) \X Nat -> Nat]
  BY <1>1
<1>3. PICK f \in [0 .. n -> Nat] : Follows(f, n, 0, step)
  <2>1. step \in Steps(n, Nat) /\ 0 \in Nat
    BY <1>2 DEF Steps
  <2> HIDE DEF n, step
  <2> QED
    BY <1>1, <2>1, RecursionExists
<1>4. f[0] = 0 /\ \A k \in 1 .. n : f[k] = f[k - 1] + Size(inflight[k].msg)
  <2>1. ASSUME NEW k \in 1 .. n
        PROVE  f[k - 1] \in Nat
    <3>1. k - 1 \in 0 .. n
      OBVIOUS
    <3> HIDE DEF n
    <3> QED
      BY <1>3, <3>1
  <2> QED
    BY <1>3, <2>1 DEF Follows
<1>5. Sums(f)
  BY <1>3, <1>4 DEF Sums
<1>6. Fits(f)
  <2> DEFINE g == [k \in 0 .. n |-> IF k = 0 THEN 0 ELSE f[k - 1] + Size(inflight[k].msg)]
  <2>1. \A k \in 0 .. n : f[k] = g[k]
    <3>1. f[0] = g[0] /\ \A k \in 1 .. n : f[k] = g[k]
      BY <1>1, <1>4
    <3>2. \A k \in 0 .. n : k = 0 \/ k \in 1 .. n
      BY <1>1
    <3> HIDE DEF g
    <3> QED
      BY <3>1, <3>2
  <2>2. f = [k \in 0 .. n |-> f[k]] /\ g = [k \in 0 .. n |-> g[k]]
    BY <1>3
  <2> HIDE DEF g
  <2>3. f = g
    BY <2>1, <2>2
  <2> QED
    BY <2>3 DEF g
<1>7. Fits(CHOOSE g : Fits(g))
  <2> HIDE DEF Fits
  <2> QED
    BY <1>6
<1>8. BytesWaiting = (CHOOSE g : Fits(g))[n]
  BY DEF BytesWaiting
<1>9. ASSUME NEW g, Fits(g)
      PROVE  Sums(g)
  <2> DEFINE S == {k \in 0 .. n : g[k] = f[k]}
  <2> HIDE DEF Fits
  <2>1. g = [k \in 0 .. n |-> IF k = 0 THEN 0 ELSE g[k - 1] + Size(inflight[k].msg)]
    BY <1>9 DEF Fits
  <2>2. g[0] = 0 /\ \A k \in 1 .. n : g[k] = g[k - 1] + Size(inflight[k].msg)
    BY <1>1, <2>1
  <2>3. 0 \in S
    BY <1>1, <1>4, <2>2
  <2>4. ASSUME NEW k \in 0 .. n - 1, k \in S
        PROVE  k + 1 \in S
    <3>1. k + 1 \in 1 .. n /\ (k + 1) - 1 = k
      BY <1>1
    <3> QED
      BY <1>4, <2>2, <2>4, <3>1
  <2>5. 0 .. n \subseteq S
    <3> HIDE DEF n, S
    <3> QED
      BY <1>1, <2>3, <2>4, IntervalInduction
  <2>6. g = [k \in 0 .. n |-> g[k]]
    BY <2>1
  <2>7. g \in [0 .. n -> Nat]
    BY <1>3, <2>5, <2>6
  <2> QED
    BY <2>2, <2>7 DEF Sums
<1> HIDE DEF Fits
<1> QED
  BY <1>7, <1>8, <1>9

(* They are the bytes from m_rd to m_wr: the messages lie end to end.         *)
LEMMA BytesFact ==
  ASSUME TypeOK, ChainInv
  PROVE  BytesWaiting = Avail(rd, wr)
<1> DEFINE n == Len(inflight)
<1>1. n \in Nat
  BY DEF TypeOK
<1>2. PICK f : Sums(f) /\ BytesWaiting = f[n]
  BY BytesDef
<1>3. CASE n = 0
  <2>1. rd = wr
    BY <1>3 DEF ChainInv, TypeOK
  <2> QED
    BY <1>2, <1>3, <2>1 DEF Sums, Avail
<1>4. CASE n # 0
  <2> DEFINE S == {k \in 0 .. n : k = 0 \/ f[k] = EndOffset(k)}
  <2>1. inflight # <<>> /\ 1 \in 1 .. n /\ n \in 1 .. n
    BY <1>1, <1>4
  <2>2. f[1] = EndOffset(1)
    <3>1. Offset(inflight[1].at) = 0
      BY <2>1, OldestFact
    <3>2. f[1] = f[0] + Size(inflight[1].msg) /\ f[0] = 0
      BY <1>2, <2>1 DEF Sums
    <3> QED
      BY <2>1, <3>1, <3>2, EntryFact
  <2>3. ASSUME NEW k \in 0 .. n - 1, k \in S
        PROVE  k + 1 \in S
    <3>1. CASE k = 0
      BY <2>1, <2>2, <3>1
    <3>2. CASE k # 0
      <4>1. k \in 1 .. n /\ k + 1 \in 1 .. n /\ (k + 1) - 1 = k
        BY <1>1, <3>2
      <4>2. f[k + 1] = f[k] + Size(inflight[k + 1].msg) /\ f[k] = EndOffset(k)
        BY <1>2, <2>3, <3>2, <4>1 DEF Sums
      <4>3. EndOffset(k) = Offset(inflight[k + 1].at)
        BY <4>1 DEF ChainInv
      <4>4. f[k + 1] = EndOffset(k + 1)
        BY <4>1, <4>2, <4>3, EntryFact
      <4> QED
        BY <4>1, <4>4
    <3> QED
      BY <3>1, <3>2
  <2>4. 0 \in S
    BY <1>1
  <2>5. n \in S
    <3>1. 0 .. n \subseteq S
      <4> HIDE DEF n, S
      <4> QED
        BY <1>1, <2>3, <2>4, IntervalInduction
    <3> QED
      BY <1>1, <3>1
  <2> QED
    BY <1>2, <1>4, <2>1, <2>5 DEF ChainInv
<1> QED
  BY <1>3, <1>4

(* What message_queue_get_free_l computes from two positions is the room that *)
(* a FIFO of these messages would have, wherever in the ring they lie.        *)
THEOREM RoomStaysExact ==
  ASSUME Disciplined
  PROVE  Spec => []RoomIsExact
<1>1. IInv => RoomIsExact
  <2> SUFFICES ASSUME IInv, NEW m \in Messages
               PROVE  HasRoom(Size(m)) <=> BytesWaiting + Size(m) < QueueLength
    BY DEF RoomIsExact
  <2>1. BytesWaiting = Avail(rd, wr)
    BY BytesFact DEF IInv
  <2> QED
    BY <2>1, PositionFact, SizeFact, QueueLengthAssumption DEF IInv, HasRoom
<1> QED
  BY <1>1, Invariance, PTL

(* What an add checked stays true until it has published its message. *)
THEOREM SpaceStaysReserved ==
  ASSUME Disciplined
  PROVE  Spec => []SpaceReserved
<1>1. IInv => SpaceReserved
  <2> SUFFICES ASSUME IInv, NEW s \in Senders, spc[s] \in {"store", "inplace"}
               PROVE  /\ wr = swr[s] /\ Size(smsg[s]) <= Free(rd, wr)
                      /\ \A t \in Senders \ {s} : stores[t] = {}
    BY DEF SpaceReserved
  <2>1. Adding(s)
    BY DEF IInv, WriteInv
  <2>2. ASSUME NEW t \in Senders \ {s} PROVE stores[t] = {}
    <3>1. spc[t] \notin {"store", "inplace"}
      BY OneWriter DEF IInv
    <3> QED
      BY <3>1 DEF IInv, LockInv
  <2> QED
    BY <2>1, <2>2 DEF Adding
<1> QED
  BY <1>1, Invariance, PTL

(* The size announced for the next message is the size it will have. *)
THEOREM PeekIsValid ==
  ASSUME Disciplined
  PROVE  Spec => []PeekStaysValid
<1>1. IInv => PeekStaysValid
  BY DEF IInv, ReadInv, PeekStaysValid
<1> QED
  BY <1>1, Invariance, PTL

(* Neither side ever takes away what the other has seen. *)
THEOREM ChecksAreValid ==
  ASSUME Disciplined
  PROVE  Spec => ChecksStayValid
<1> DEFINE Pessimistic == /\ wr' = wr => Free(rd', wr') >= Free(rd, wr)
                          /\ rd' = rd => Avail(rd', wr') >= Avail(rd, wr)
<1>1. ASSUME IInv, [Next]_vars
      PROVE  [Pessimistic]_<<rd, wr>>
  <2>1. Free(rd, wr)' = Free(rd', wr') /\ Avail(rd, wr)' = Avail(rd', wr')
    BY DEF Free, Avail
  <2>2. Free(rd, wr) \in Int /\ Avail(rd, wr) \in Int
    BY <1>1, PositionFact DEF IInv
  <2>3. CASE \E s \in Senders : Sender(s)
    BY <1>1, <2>1, <2>2, <2>3, SenderKeepsIInv
  <2>4. CASE Receiver
    BY <1>1, <2>1, <2>2, <2>4, ReceiverKeepsIInv
  <2>5. CASE UNCHANGED vars
    BY <2>5 DEF vars
  <2> QED
    BY <1>1, <2>3, <2>4, <2>5 DEF Next
<1> QED
  BY <1>1, Invariance, PTL DEF Spec, ChecksStayValid

================================================================================
