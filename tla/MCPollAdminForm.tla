------------------------- MODULE MCPollAdminForm -------------------------
(* The two voters of MCPollVoting, and a member of the staff who edits the poll. *)
EXTENDS PollAdminForm, TLC

CONSTANTS ann, bob, m1, m2, v1, v2, old, new

MCVoters == {ann, bob}
MCMedia == {m1, m2}
MCCreatorOf == m1 :> bob @@ m2 :> NoVoter
MCNameOf == [m \in MCMedia |-> m]
MCViews == {v1, v2}
MCBotOf == v1 :> old @@ v2 :> new

SymmetricClicks == Permutations(Clicks)
=============================================================================
