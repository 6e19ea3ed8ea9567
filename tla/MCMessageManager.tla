--------------------------- MODULE MCMessageManager ----------------------------
(******************************************************************************)
(* The hub of userspace/kucomms/MessageManagerTest.cpp, smaller: one manager  *)
(* between peers, receiving on two queues of different lengths.               *)
(******************************************************************************)
EXTENDS MessageManager, TLC

CONSTANTS hub, long, short, out, big, small

HubRx == hub :> <<long, short>>
HubTx == hub :> <<out, out>>

(* The long queue holds two small messages or a big one, the others a small one. *)
HubQueueLength == (long :> 5) @@ (short :> 3) @@ (out :> 3)
HubSize == (big :> 4) @@ (small :> 2)

(* The counter is looked at on its even values. *)
HubTimerMod == hub :> 2
================================================================================
