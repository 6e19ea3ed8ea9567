--------------------------- MODULE EchoServiceProofs ---------------------------
(******************************************************************************)
(* Proofs about EchoService, which both sides of LongTest implement: whatever *)
(* is sent, lost, answered and restarted, wrong answers have an explanation,  *)
(* and one loss is never made up for.                                         *)
(******************************************************************************)
EXTENDS EchoService, SequenceTheorems, TLAPS

(* What Send, Answer, Lose and Cut make of the outstanding numbers.           *)
LEMMA AppendFact ==
  ASSUME NEW s \in Seq(Nat), NEW n \in Nat
  PROVE  /\ Append(s, n) \in Seq(Nat)
         /\ DOMAIN s = 1 .. Len(s) /\ Len(s) \in Nat
         /\ Len(Append(s, n)) = Len(s) + 1
         /\ DOMAIN Append(s, n) = 1 .. Len(s) + 1
         /\ \A k \in 1 .. Len(s) : Append(s, n)[k] = s[k]
         /\ Append(s, n)[Len(s) + 1] = n
BY AppendProperties

LEMMA TailFact ==
  ASSUME NEW s \in Seq(Nat), s # <<>>
  PROVE  /\ Tail(s) \in Seq(Nat)
         /\ DOMAIN s = 1 .. Len(s) /\ Len(s) \in Nat /\ Len(s) > 0
         /\ Head(s) = s[1] /\ Head(s) \in Nat
         /\ Len(Tail(s)) = Len(s) - 1
         /\ DOMAIN Tail(s) = 1 .. Len(s) - 1
         /\ \A k \in 1 .. Len(s) - 1 : Tail(s)[k] = s[k + 1]
BY HeadTailProperties

LEMMA CutFact ==
  ASSUME NEW s \in Seq(Nat), NEW n \in 0 .. Len(s)
  PROVE  /\ SubSeq(s, 1, n) \in Seq(Nat)
         /\ DOMAIN s = 1 .. Len(s) /\ Len(s) \in Nat
         /\ DOMAIN SubSeq(s, 1, n) = 1 .. n
         /\ \A k \in 1 .. n : SubSeq(s, 1, n)[k] = s[k]
BY SubSeqProperties

LEMMA EmptyFact == <<>> \in Seq(Nat) /\ Len(<<>>) = 0 /\ DOMAIN <<>> = {}
OBVIOUS

LEMMA RemoveFact ==
  ASSUME NEW s \in Seq(Nat), NEW k \in 1 .. Len(s)
  PROVE  /\ RemoveAt(s, k) \in Seq(Nat)
         /\ DOMAIN s = 1 .. Len(s) /\ Len(s) \in Nat
         /\ DOMAIN RemoveAt(s, k) = 1 .. Len(s) - 1
         /\ \A i \in 1 .. Len(s) - 1 : RemoveAt(s, k)[i] = IF i < k THEN s[i] ELSE s[i + 1]
<1> DEFINE left == SubSeq(s, 1, k - 1)
           right == SubSeq(s, k + 1, Len(s))
<1>1. Len(s) \in Nat /\ k \in Nat /\ 1 <= k /\ k <= Len(s)
  OBVIOUS
<1>2. left \in Seq(Nat) /\ Len(left) = k - 1 /\ \A i \in 1 .. k - 1 : left[i] = s[i]
  BY <1>1, SubSeqProperties
<1>3. right \in Seq(Nat) /\ Len(right) = Len(s) - k /\ \A i \in 1 .. Len(s) - k : right[i] = s[k + i]
  <2>1. k + 1 \in Int /\ Len(s) \in Int /\ \A i \in k + 1 .. Len(s) : s[i] \in Nat
    BY <1>1
  <2>2. /\ right \in Seq(Nat)
        /\ Len(right) = IF k + 1 <= Len(s) THEN Len(s) - (k + 1) + 1 ELSE 0
        /\ \A i \in 1 .. Len(s) - (k + 1) + 1 : right[i] = s[k + 1 + i - 1]
    BY <2>1, SubSeqProperties
  <2> HIDE DEF right
  <2>3. ASSUME NEW i \in 1 .. Len(s) - k
        PROVE  right[i] = s[k + i]
    <3>1. i \in 1 .. Len(s) - (k + 1) + 1 /\ k + 1 + i - 1 = k + i
      BY <1>1
    <3> QED
      BY <2>2, <3>1
  <2> QED
    BY <1>1, <2>2, <2>3
<1>4. RemoveAt(s, k) = left \o right
  BY DEF RemoveAt
<1> HIDE DEF left, right
<1>5. /\ left \o right \in Seq(Nat)
      /\ Len(left \o right) = Len(s) - 1
      /\ \A i \in 1 .. Len(s) - 1 :
           (left \o right)[i] = IF i <= k - 1 THEN left[i] ELSE right[i - (k - 1)]
  <2>1. /\ left \o right \in Seq(Nat)
        /\ Len(left \o right) = Len(left) + Len(right)
        /\ \A i \in 1 .. Len(left) + Len(right) :
             (left \o right)[i] = IF i <= Len(left) THEN left[i] ELSE right[i - Len(left)]
    BY <1>2, <1>3, ConcatProperties
  <2>2. Len(left) + Len(right) = Len(s) - 1
    BY <1>1, <1>2, <1>3
  <2> QED
    BY <1>2, <2>1, <2>2
<1>6. ASSUME NEW i \in 1 .. Len(s) - 1
      PROVE  (left \o right)[i] = IF i < k THEN s[i] ELSE s[i + 1]
  <2>1. i \in Nat /\ (i < k \/ i >= k)
    BY <1>1
  <2>2. CASE i < k
    <3>1. i \in 1 .. k - 1 /\ i <= k - 1
      BY <1>1, <2>2
    <3> QED
      BY <1>2, <1>5, <2>2, <3>1
  <2>3. CASE i >= k
    <3>1. /\ i - (k - 1) \in 1 .. Len(s) - k
          /\ k + (i - (k - 1)) = i + 1
          /\ ~(i <= k - 1) /\ ~(i < k)
      BY <1>1, <2>3
    <3> QED
      BY <1>3, <1>5, <3>1
  <2> QED
    BY <2>1, <2>2, <2>3
<1>7. DOMAIN (left \o right) = 1 .. Len(s) - 1
  BY <1>5
<1>8. DOMAIN s = 1 .. Len(s)
  OBVIOUS
<1> QED
  BY <1>1, <1>4, <1>5, <1>6, <1>7, <1>8

--------------------------------------------------------------------------------

LEMMA FreshHolds ==
  outstanding = <<>> /\ sent = 0 /\ expected = 0 /\ error = FALSE /\ lossy = FALSE => IInv
<1> SUFFICES ASSUME outstanding = <<>>, sent = 0, expected = 0, error = FALSE, lossy = FALSE
             PROVE  IInv
  OBVIOUS
<1>1. outstanding \in Seq(Nat) /\ Len(outstanding) = 0 /\ DOMAIN outstanding = {}
  BY EmptyFact
<1>2. TypeOK
  BY <1>1 DEF TypeOK
<1>3. RunInv
  BY <1>1 DEF RunInv
<1> QED
  BY <1>1, <1>2, <1>3 DEF IInv, NeverResyncs

LEMMA SendHolds ==
  ASSUME IInv, Send
  PROVE  IInv'
<1> USE DEF IInv, TypeOK, Send
<1>1. /\ outstanding' \in Seq(Nat)
      /\ DOMAIN outstanding = 1 .. Len(outstanding) /\ Len(outstanding) \in Nat
      /\ Len(outstanding') = Len(outstanding) + 1
      /\ DOMAIN outstanding' = 1 .. Len(outstanding) + 1
      /\ \A k \in 1 .. Len(outstanding) : outstanding'[k] = outstanding[k]
      /\ outstanding'[Len(outstanding) + 1] = sent
  BY AppendFact
<1>2. TypeOK' /\ (expected <= sent)'
  BY <1>1
<1>3. (\A k \in DOMAIN outstanding : outstanding[k] < sent)'
  BY <1>1
<1>4. RunInv'
  BY <1>1 DEF RunInv
<1>5. NeverResyncs'
  <2> SUFFICES ASSUME lossy
               PROVE  \E n \in expected .. sent : \A k \in DOMAIN outstanding' : outstanding'[k] # n
    BY DEF NeverResyncs
  <2>1. PICK n \in expected .. sent - 1 : \A k \in DOMAIN outstanding : outstanding[k] # n
    BY DEF NeverResyncs
  <2>2. n \in expected .. sent /\ n # sent
    BY <2>1
  <2> QED
    BY <1>1, <2>1, <2>2
<1> QED
  BY <1>2, <1>3, <1>4, <1>5

LEMMA RefuseHolds ==
  ASSUME IInv, Refuse
  PROVE  IInv'
<1> USE DEF IInv, TypeOK, Refuse
<1>1. TypeOK' /\ (expected <= sent)' /\ RunInv'
  BY DEF RunInv
<1>2. DOMAIN outstanding = 1 .. Len(outstanding) /\ \A k \in DOMAIN outstanding : outstanding[k] \in Nat
  OBVIOUS
<1>3. (\A k \in DOMAIN outstanding : outstanding[k] < sent)'
  BY <1>2
<1>4. NeverResyncs'
  <2>1. sent \in expected .. sent' - 1 /\ \A k \in DOMAIN outstanding : outstanding[k] # sent
    BY <1>2
  <2> QED
    BY <2>1 DEF NeverResyncs
<1> QED
  BY <1>1, <1>3, <1>4

(* Numbers are taken out of the outstanding ones, one of them being j.        *)
LEMMA LossHolds ==
  ASSUME IInv, UNCHANGED <<sent, expected, error>>, lossy' = TRUE,
         outstanding' \in Seq(Nat),
         NEW j \in DOMAIN outstanding,
         \A k \in DOMAIN outstanding' :
            \E i \in DOMAIN outstanding : i # j /\ outstanding'[k] = outstanding[i]
  PROVE  IInv'
<1> USE DEF IInv, TypeOK
<1>1. TypeOK' /\ (expected <= sent)' /\ RunInv'
  BY DEF RunInv
<1>2. (\A k \in DOMAIN outstanding : outstanding[k] < sent)'
  OBVIOUS
<1>3. NeverResyncs'
  <2>1. CASE lossy
    BY <2>1 DEF NeverResyncs
  <2>2. CASE ~lossy
    <3>1. DOMAIN outstanding = 1 .. Len(outstanding) /\ Len(outstanding) \in Nat
      OBVIOUS
    <3>2. /\ sent = expected + Len(outstanding)
          /\ \A k \in 1 .. Len(outstanding) : outstanding[k] = expected + k - 1
      BY <2>2, <3>1 DEF RunInv
    <3>3. expected + j - 1 \in expected .. sent - 1
      BY <3>1, <3>2
    <3>4. \A i \in 1 .. Len(outstanding) : i # j => outstanding[i] # expected + j - 1
      BY <3>1, <3>2
    <3>5. \A k \in DOMAIN outstanding' : outstanding'[k] # expected + j - 1
      BY <3>1, <3>4
    <3> QED
      BY <3>3, <3>5 DEF NeverResyncs
  <2> QED
    BY <2>1, <2>2
<1> QED
  BY <1>1, <1>2, <1>3

LEMMA LoseHolds ==
  ASSUME IInv, NEW j \in DOMAIN outstanding, Lose(j)
  PROVE  IInv'
<1>1. outstanding \in Seq(Nat) /\ j \in 1 .. Len(outstanding)
  BY DEF IInv, TypeOK
<1>2. /\ outstanding' \in Seq(Nat)
      /\ DOMAIN outstanding = 1 .. Len(outstanding) /\ Len(outstanding) \in Nat
      /\ DOMAIN outstanding' = 1 .. Len(outstanding) - 1
      /\ \A k \in DOMAIN outstanding' :
           outstanding'[k] = IF k < j THEN outstanding[k] ELSE outstanding[k + 1]
  BY <1>1, RemoveFact DEF Lose
<1>3. ASSUME NEW k \in DOMAIN outstanding'
      PROVE  \E i \in DOMAIN outstanding : i # j /\ outstanding'[k] = outstanding[i]
  <2>1. CASE k < j
    <3>1. k \in DOMAIN outstanding /\ k # j /\ outstanding'[k] = outstanding[k]
      BY <1>1, <1>2, <2>1
    <3> QED
      BY <3>1
  <2>2. CASE k >= j
    <3>1. k + 1 \in DOMAIN outstanding /\ k + 1 # j /\ outstanding'[k] = outstanding[k + 1]
      BY <1>1, <1>2, <2>2
    <3> QED
      BY <3>1
  <2> QED
    BY <1>1, <1>2, <2>1, <2>2
<1> QED
  BY <1>2, <1>3, LossHolds DEF Lose

LEMMA CutHolds ==
  ASSUME IInv, NEW j \in DOMAIN outstanding, Cut(j - 1)
  PROVE  IInv'
<1>1. outstanding \in Seq(Nat) /\ j \in 1 .. Len(outstanding) /\ j - 1 \in 0 .. Len(outstanding)
  BY DEF IInv, TypeOK
<1>2. /\ outstanding' \in Seq(Nat)
      /\ DOMAIN outstanding = 1 .. Len(outstanding) /\ Len(outstanding) \in Nat
      /\ DOMAIN outstanding' = 1 .. j - 1
      /\ \A k \in 1 .. j - 1 : outstanding'[k] = outstanding[k]
  BY <1>1, CutFact DEF Cut
<1>3. \A k \in DOMAIN outstanding' :
        k \in DOMAIN outstanding /\ k # j /\ outstanding'[k] = outstanding[k]
  BY <1>1, <1>2
<1> QED
  BY <1>2, <1>3, LossHolds DEF Cut

LEMMA AnswerHolds ==
  ASSUME IInv, Answer
  PROVE  IInv'
<1> USE DEF IInv, TypeOK, Answer
<1>1. /\ outstanding' \in Seq(Nat)
      /\ DOMAIN outstanding = 1 .. Len(outstanding) /\ Len(outstanding) \in Nat /\ Len(outstanding) > 0
      /\ Head(outstanding) = outstanding[1] /\ Head(outstanding) \in Nat
      /\ Len(outstanding') = Len(outstanding) - 1
      /\ DOMAIN outstanding' = 1 .. Len(outstanding) - 1
      /\ \A k \in 1 .. Len(outstanding) - 1 : outstanding'[k] = outstanding[k + 1]
  BY TailFact
<1>2. /\ Head(outstanding) < sent
      /\ \A k \in DOMAIN outstanding' :
           outstanding'[k] = outstanding[k + 1] /\ k + 1 \in DOMAIN outstanding
  <2>1. \A k \in 1 .. Len(outstanding) - 1 : k + 1 \in 1 .. Len(outstanding)
    BY <1>1
  <2>2. 1 \in DOMAIN outstanding
    BY <1>1
  <2> QED
    BY <1>1, <2>1, <2>2
<1>3. TypeOK' /\ (expected <= sent)'
  <2>1. CASE Head(outstanding) = expected
    BY <1>1, <1>2, <2>1
  <2>2. CASE Head(outstanding) # expected
    BY <1>1, <2>2
  <2> QED
    BY <2>1, <2>2
<1>4. (\A k \in DOMAIN outstanding : outstanding[k] < sent)'
  BY <1>2
<1>5. RunInv'
  <2> SUFFICES ASSUME ~lossy
               PROVE  RunInv'
    BY DEF RunInv
  <2>1. /\ ~error
        /\ sent = expected + Len(outstanding)
        /\ \A k \in 1 .. Len(outstanding) : outstanding[k] = expected + k - 1
    BY <1>1 DEF RunInv
  <2>2. Head(outstanding) = expected /\ expected' = expected + 1 /\ ~error'
    BY <1>1, <2>1
  <2>3. sent' = expected' + Len(outstanding')
    BY <1>1, <2>1, <2>2
  <2>4. ASSUME NEW k \in 1 .. Len(outstanding) - 1
        PROVE  outstanding'[k] = expected' + k - 1
    <3>1. k + 1 \in 1 .. Len(outstanding) /\ k \in Nat
      BY <1>1
    <3>2. outstanding'[k] = outstanding[k + 1] /\ outstanding[k + 1] = expected + (k + 1) - 1
      BY <1>1, <2>1, <3>1
    <3> QED
      BY <2>2, <3>1, <3>2
  <2> QED
    BY <1>1, <2>2, <2>3, <2>4 DEF RunInv
<1>6. NeverResyncs'
  <2> SUFFICES ASSUME lossy
               PROVE  \E n \in expected' .. sent - 1 : \A k \in DOMAIN outstanding' : outstanding'[k] # n
    BY DEF NeverResyncs
  <2>1. PICK n \in expected .. sent - 1 : \A k \in DOMAIN outstanding : outstanding[k] # n
    BY DEF NeverResyncs
  <2>2. n \in expected' .. sent - 1
    BY <1>1, <2>1
  <2> QED
    BY <1>2, <2>1, <2>2
<1> QED
  BY <1>3, <1>4, <1>5, <1>6

LEMMA RestartHolds ==
  ASSUME Restart
  PROVE  IInv'
<1>1. (outstanding = <<>> /\ sent = 0 /\ expected = 0 /\ error = FALSE /\ lossy = FALSE)'
  BY DEF Restart
<1>2. ((outstanding = <<>> /\ sent = 0 /\ expected = 0 /\ error = FALSE /\ lossy = FALSE) => IInv)'
  BY FreshHolds, PTL
<1> QED
  BY <1>1, <1>2

(* Sending, refusing, losing, answering and restarting keep the types, the    *)
(* order of the numbers and the account of what was lost.                     *)
THEOREM EchoInvariance == Spec => []IInv
<1>0. Init => IInv
  BY FreshHolds DEF Init
<1>1. IInv /\ [Next]_echoVars => IInv'
  <2> SUFFICES ASSUME IInv, [Next]_echoVars
               PROVE  IInv'
    OBVIOUS
  <2>1. CASE Send
    BY <2>1, SendHolds
  <2>2. CASE Refuse
    BY <2>2, RefuseHolds
  <2>3. ASSUME NEW k \in DOMAIN outstanding, Lose(k)
        PROVE  IInv'
    BY <2>3, LoseHolds
  <2>4. ASSUME NEW k \in DOMAIN outstanding, Cut(k - 1)
        PROVE  IInv'
    BY <2>4, CutHolds
  <2>5. CASE Answer
    BY <2>5, AnswerHolds
  <2>6. CASE Restart
    BY <2>6, RestartHolds
  <2>7. CASE UNCHANGED echoVars
    BY <2>7 DEF echoVars, IInv, TypeOK, RunInv, NeverResyncs
  <2> QED
    BY <2>1, <2>2, <2>3, <2>4, <2>5, <2>6, <2>7 DEF Next
<1> QED
  BY <1>0, <1>1, PTL DEF Spec

(* A wrong answer is always explained by a loss: nothing is answered twice,   *)
(* out of order or unasked.                                                   *)
THEOREM ErrorsAreExplained == Spec => []ErrorsExplained
<1>1. IInv => ErrorsExplained
  BY DEF IInv, RunInv, ErrorsExplained
<1> QED
  BY EchoInvariance, <1>1, PTL

(* After a loss, some number that is still to be expected is never answered.  *)
THEOREM NeverResynced == Spec => []NeverResyncs
<1>1. IInv => NeverResyncs
  BY DEF IInv
<1> QED
  BY EchoInvariance, <1>1, PTL

================================================================================
