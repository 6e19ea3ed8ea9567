------------------------------ MODULE EchoService ------------------------------
(******************************************************************************)
(* What a side of the long test may see of the other, which sends back every  *)
(* message it is sent: it numbers its messages, and compares each answer with *)
(* the number it expects next. Messages and answers keep their order; some    *)
(* are lost, when a queue is full or the memory they are in goes away.        *)
(*                                                                            *)
(* Nothing is said here of queues, handlers or threads: LongTest is the       *)
(* module whose two sides behave like this.                                   *)
(******************************************************************************)
EXTENDS Naturals, Sequences, SequencesExt

VARIABLES
  outstanding,  \* the numbers of the messages sent whose answers are still to come
  sent,         \* g_sequence_wr: the number of the next message
  expected,     \* g_sequence_rd: the number of the next answer
  error,        \* an answer was not the one expected
  lossy         \* a message or its answer was lost

echoVars == <<outstanding, sent, expected, error, lossy>>

Init ==
  /\ outstanding = <<>>
  /\ sent = 0
  /\ expected = 0
  /\ error = FALSE
  /\ lossy = FALSE

Send ==
  /\ outstanding' = Append(outstanding, sent)
  /\ sent' = sent + 1
  /\ UNCHANGED <<expected, error, lossy>>

(* The message is lost as it is sent; its number is used up all the same. *)
Refuse ==
  /\ sent' = sent + 1
  /\ lossy' = TRUE
  /\ UNCHANGED <<outstanding, expected, error>>

(* One of the messages, or its answer, is lost on its way. *)
Lose(k) ==
  /\ outstanding' = RemoveAt(outstanding, k)
  /\ lossy' = TRUE
  /\ UNCHANGED <<sent, expected, error>>

(* The last ones, from number n + 1 on, are lost together. *)
Cut(n) ==
  /\ outstanding' = SubSeq(outstanding, 1, n)
  /\ lossy' = TRUE
  /\ UNCHANGED <<sent, expected, error>>

(* The next answer arrives. If it is not the expected one, that one stays     *)
(* expected.                                                                  *)
Answer ==
  /\ outstanding # <<>>
  /\ outstanding' = Tail(outstanding)
  /\ IF Head(outstanding) = expected
     THEN expected' = expected + 1 /\ UNCHANGED error
     ELSE error' = TRUE /\ UNCHANGED expected
  /\ UNCHANGED <<sent, lossy>>

(* The side starts again from nothing. *)
Restart ==
  /\ outstanding' = <<>>
  /\ sent' = 0
  /\ expected' = 0
  /\ error' = FALSE
  /\ lossy' = FALSE

Next ==
  \/ Send
  \/ Refuse
  \/ \E k \in DOMAIN outstanding : Lose(k) \/ Cut(k - 1)
  \/ Answer
  \/ Restart

Spec == Init /\ [][Next]_echoVars

--------------------------------------------------------------------------------

(* An answer is wrong only after something was lost: nothing is answered      *)
(* twice, out of order, or without having been asked.                         *)
ErrorsExplained == error => lossy

(* One loss is for ever: a number that is still expected is on its way no     *)
(* more, so every answer from now on is counted as wrong or comes before it.  *)
NeverResyncs ==
  lossy => \E n \in expected .. sent - 1 : \A k \in DOMAIN outstanding : outstanding[k] # n

TypeOK ==
  /\ outstanding \in Seq(Nat)
  /\ sent \in Nat
  /\ expected \in Nat
  /\ error \in BOOLEAN
  /\ lossy \in BOOLEAN

(* Until something is lost, the outstanding numbers are a run that begins     *)
(* with the expected one and ends with the last one sent.                     *)
RunInv ==
  ~lossy =>
    /\ ~error
    /\ sent = expected + Len(outstanding)
    /\ \A k \in DOMAIN outstanding : outstanding[k] = expected + k - 1

(* The inductive invariant. Numbers on their way have been sent.              *)
IInv ==
  /\ TypeOK
  /\ expected <= sent
  /\ \A k \in DOMAIN outstanding : outstanding[k] < sent
  /\ RunInv
  /\ NeverResyncs

================================================================================
