------------------------------ MODULE MessageFifo ------------------------------
(******************************************************************************)
(* What a message queue promises to the two endpoints that share it: the      *)
(* messages handed to message_queue_add come out of the other side one at a   *)
(* time, whole, in the order they were accepted, none lost and none invented. *)
(*                                                                            *)
(* Nothing is said here of bytes, positions, wrap-around or of who is         *)
(* allowed to run when: MessageQueue is the module that keeps this promise.   *)
(******************************************************************************)
EXTENDS Sequences

CONSTANTS
  Messages,   \* what may be sent
  Nothing     \* not in Messages: "the receiver holds no message"

VARIABLES
  queue,      \* accepted messages the receiver has not been given yet
  holding     \* the message the receiver's handler is looking at, or Nothing

fifoVars == <<queue, holding>>

Init ==
  /\ queue = <<>>
  /\ holding = Nothing

(* A sender's message is accepted. *)
Put(m) ==
  /\ queue' = Append(queue, m)
  /\ UNCHANGED holding

(* The receiver is given the oldest accepted message. *)
Take ==
  /\ holding = Nothing
  /\ queue # <<>>
  /\ holding' = Head(queue)
  /\ queue' = Tail(queue)

(* The receiver's handler is done with the message. *)
Release ==
  /\ holding # Nothing
  /\ holding' = Nothing
  /\ UNCHANGED queue

Next == (\E m \in Messages : Put(m)) \/ Take \/ Release

Spec == Init /\ [][Next]_fifoVars

================================================================================
