---------------------------- MODULE MCMessageQueue -----------------------------
(******************************************************************************)
(* Small instances of MessageQueue for TLC: a ring of a few bytes, headers of *)
(* two bytes and messages of every length that behaves differently in it.     *)
(******************************************************************************)
EXTENDS MessageQueue, TLC

CONSTANTS m0, m1, m3, mBig   \* messages, named for their data lengths

MCMessages == {m0, m1, m3, mBig}

(* The empty message, two that fit, and one that never does. *)
MCDataLength ==
  LET length == m0 :> 0 @@ m1 :> 1 @@ m3 :> 3 @@ mBig :> QueueLength
  IN  [m \in Messages |-> length[m]]

================================================================================
