--------------------------- MODULE MCBotCommands ---------------------------
(* Two accounts and three names, so that a name can change hands; two commands *)
(* in two processes, so that they can race; three media, so that two ratings of *)
(* each can be put in a wrong order.                                           *)
EXTENDS BotCommands, TLC

CONSTANTS c1, c2, p1, p2

MCKindsOf == c1 :> Kinds \ {"own"} @@ c2 :> {"mention"}
MCServedBy == c1 :> {p1} @@ c2 :> {p1, p2}
MCCompletedSets == {Media, Media \ {1}}
MCFirstName == [a \in Accounts |-> a]
=============================================================================
