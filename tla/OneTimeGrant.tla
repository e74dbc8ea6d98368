--------------------------- MODULE OneTimeGrant ---------------------------
(* What the OAuth server promises of every sign-in.  It goes through at most  *)
(* five stages, each at most once and in this order: it is begun, its Discord *)
(* state is spent, an authorization code is issued, the code is spent, a pair *)
(* of tokens is issued.  Each stage may be the last; nothing goes back.       *)
EXTENDS Naturals

CONSTANT SignIns

VARIABLE times   \* how often each sign-in has been through each stage

Init == times = [s \in SignIns |-> [stage \in 1..5 |-> 0]]

Reach(s, stage) ==
  /\ times[s][stage] = 0
  /\ stage > 1 => times[s][stage - 1] = 1
  /\ times' = [times EXCEPT ![s][stage] = 1]

Next == \E s \in SignIns, stage \in 1..5 : Reach(s, stage)

Spec == Init /\ [][Next]_times
=============================================================================
