--------------------------- MODULE MCPollVoting ---------------------------
(* Two voters; each added one of three candidates, so each ranks two of them. *)
(* Two views, one in the old bot process and one in the new: each voter may    *)
(* open one, or the same voter both, one after the other has been confirmed.   *)
EXTENDS PollVoting, TLC

CONSTANTS ann, bob, m1, m2, m3, v1, v2, old, new

MCVoters == {ann, bob}
MCMedia == {m1, m2, m3}
MCCreatorOf == m1 :> bob @@ m2 :> NoVoter @@ m3 :> ann
MCNameOf == [m \in MCMedia |-> m]
MCNamesakes == m1 :> "Dune" @@ m2 :> "Dune" @@ m3 :> "Solaris"
MCViews == {v1, v2}
MCBotOf == v1 :> old @@ v2 :> new

SymmetricClicks == Permutations(Clicks)
=============================================================================
