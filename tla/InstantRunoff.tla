--------------------------- MODULE InstantRunoff ---------------------------
(* The count pyrankvote performs for Poll.resolve.  The library is external:  *)
(* only what resolve relies on is modelled.  A count is an elimination order: *)
(* the candidates leave the race one at a time, each with the fewest votes of *)
(* its round and only while nobody has a majority, and the last one standing  *)
(* wins.  Ties are broken by second choices and then at random; here any tied *)
(* candidate may leave, so the outcomes are a superset of the library's.      *)
EXTENDS Naturals, FiniteSets, Sequences

\* The ballot still has something to say about the candidates left in the race.
Alive(ballot, race) == \E i \in 1..Len(ballot) : ballot[i] \in race

\* The ballot's vote in this round goes to its first choice still in the race.
VotesFor(ballot, race, c) ==
  \E i \in 1..Len(ballot) : /\ ballot[i] = c
                            /\ \A j \in 1..(i-1) : ballot[j] \notin race

\* ballots is a function from voters to sequences of candidates.
Tally(ballots, race, c) ==
  Cardinality({v \in DOMAIN ballots : VotesFor(ballots[v], race, c)})

Live(ballots, race) == Cardinality({v \in DOMAIN ballots : Alive(ballots[v], race)})

HasMajority(ballots, race, c) == 2 * Tally(ballots, race, c) > Live(ballots, race)

\* c leaves this round: no candidate has a majority and none has fewer votes.
MayLeave(ballots, race, c) ==
  \A d \in race : /\ ~ HasMajority(ballots, race, d)
                  /\ Tally(ballots, race, c) <= Tally(ballots, race, d)

\* w wins with the candidates of race left: it has a majority or stands alone.
Decided(ballots, race, w) == race = {w} \/ HasMajority(ballots, race, w)

\* Everyone the count may elect, over all the ways its ties may be broken.
Winners(ballots, all) ==
  LET From[race \in SUBSET all] ==
        {w \in race : \/ Decided(ballots, race, w)
                      \/ \E c \in race \ {w} : /\ MayLeave(ballots, race, c)
                                               /\ w \in From[race \ {c}]}
  IN  From[all]
=============================================================================
