---------------------------- MODULE PollPromise ----------------------------
(* What a poll promises its voters: every invited voter casts a ballot, then *)
(* one winner is decided, once and for good, and told at most once.          *)
CONSTANTS Voters, Media, NoMedia

VARIABLES cast, outcome, told

vars == <<cast, outcome, told>>

Init == /\ cast = {}
        /\ outcome = NoMedia
        /\ told = FALSE

Cast(u) == /\ cast' = cast \cup {u}
           /\ UNCHANGED <<outcome, told>>

\* Nobody is left out: the decision waits for the last voter.
Decide(m) == /\ cast = Voters
             /\ outcome = NoMedia
             /\ outcome' = m
             /\ UNCHANGED <<cast, told>>

Tell == /\ outcome # NoMedia
        /\ ~ told
        /\ told' = TRUE
        /\ UNCHANGED <<cast, outcome>>

Next == \/ \E u \in Voters : Cast(u)
        \/ \E m \in Media : Decide(m)
        \/ Tell

Spec == Init /\ [][Next]_vars

\* A decision that is due is made; nobody can be made to vote or to announce.
FairSpec == Spec /\ WF_vars(\E m \in Media : Decide(m))
=============================================================================
