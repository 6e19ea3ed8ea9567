---------------------------- MODULE MCKucommsDevice ----------------------------
(* Values for the constants of KucommsDevice: two names; kernel modules, one  *)
(* for each name or two that want the same; model values for everything else. *)
EXTENDS KucommsDevice, TLC

CONSTANTS n1, n2, m1, m2, f1, f2

TwoSlots == 0 .. 1
OneSlot == {0}
DevNameEach == (m1 :> n1) @@ (m2 :> n2)
DevNameShared == (m1 :> n1) @@ (m2 :> n1)
DevNameOne == m1 :> n1

NoEnv == {}
Signals == {"signals"}
Early == {"early"}

Symmetric == Permutations({f1, f2})
================================================================================
