------------------------- MODULE PollVotingProofs -------------------------
(* Proofs about PollVoting and PollAdminForm, for any voters, media, views,    *)
(* clicks, processes and bounds that their assumptions allow.                  *)
EXTENDS PollAdminForm, FiniteSetTheorems, SequenceTheorems, TLAPS

\* A random order of a set of media, the view's candidates, is a sequence of
\* them, and not an empty one.
LEMMA OrdersAreSequences ==
  ASSUME NEW S \in SUBSET Media
  PROVE  /\ Orders(S) \subseteq Seq(Media)
         /\ S # {} => <<>> \notin Orders(S)
<1>1. IsFiniteSet(S)
  BY FS_Subset, PollAssumption
<1>2. Cardinality(S) \in Nat /\ (S # {} => Cardinality(S) # 0)
  BY <1>1, FS_CardinalityType, FS_EmptySet
<1>3. Orders(S) \subseteq Seq(Media)
  BY <1>2, IsASeq, SeqDef DEF Orders
<1>4. ASSUME S # {}, <<>> \in Orders(S) PROVE FALSE
  <2>1. <<>> \in [1..Cardinality(S) -> S]
    BY <1>4 DEF Orders
  <2>2. DOMAIN <<>> = 1..Cardinality(S)
    BY <2>1
  <2>3. 1 \in 1..Cardinality(S)
    BY <1>2, <1>4
  <2> QED
    BY <2>2, <2>3
<1> QED
  BY <1>3, <1>4

\* Moving a candidate past its neighbour leaves a ballot of the same length.
LEMMA SwapKeepsBallot ==
  ASSUME NEW s \in Seq(Media), NEW i \in 1..Cardinality(Media), i + 1 <= Len(s)
  PROVE  LET t == [s EXCEPT ![i] = s[i+1], ![i+1] = s[i]]
         IN  t \in Seq(Media) /\ Len(t) = Len(s)
<1> DEFINE t == [s EXCEPT ![i] = s[i+1]]
<1>1. Cardinality(Media) \in Nat
  BY FS_CardinalityType, PollAssumption
<1>2. Len(s) \in Nat /\ i \in 1..Len(s) /\ i + 1 \in 1..Len(s)
  BY <1>1, LenProperties
<1>3. s[i] \in Media /\ s[i+1] \in Media
  BY <1>2, ElementOfSeq
<1>4. t \in Seq(Media) /\ Len(t) = Len(s)
  BY <1>2, <1>3, ExceptSeq
<1>5. [t EXCEPT ![i+1] = s[i]] \in Seq(Media) /\ Len([t EXCEPT ![i+1] = s[i]]) = Len(t)
  BY <1>2, <1>3, <1>4, ExceptSeq
<1> QED
  BY <1>4, <1>5
-----------------------------------------------------------------------------
(* The count of InstantRunoff, for any finite set of candidates: its recursive *)
(* definition unfolds, and what follows for the winner.  A profile has one     *)
(* ballot of each voter.                                                       *)

\* One round of the count, given what the later rounds may elect.
Round(profile, From, race) ==
  {w \in race : \/ Decided(profile, race, w)
                \/ \E c \in race \ {w} : /\ MayLeave(profile, race, c)
                                         /\ w \in From[race \ {c}]}

\* f is the count of every race with candidates of all.
Counts(f, profile, all) == f = [race \in SUBSET all |-> Round(profile, f, race)]

Count(profile, all) == CHOOSE f : Counts(f, profile, all)

LEMMA CountIs ==
  ASSUME NEW profile, NEW all
  PROVE  Winners(profile, all) = Count(profile, all)[all]
  BY DEF Winners, Count, Counts, Round

\* Of races that have something in common, one is smallest: no part of it has it.
LEMMA SmallestRace ==
  ASSUME NEW all, IsFiniteSet(all), NEW T, T \subseteq SUBSET all, T # {}
  PROVE  \E race \in T : \A less \in SUBSET race : less # race => less \notin T
<1>1. IsWellFoundedOn(StrictSubsetOrdering(all), SUBSET all)
  BY FS_StrictSubsetOrderingWellFounded, FS_FiniteSubsetsOfFinite
<1>2. PICK race \in T : \A r \in T : ~ (<<r, race>> \in StrictSubsetOrdering(all))
  BY <1>1, WFMin
<1>3. ASSUME NEW less \in SUBSET race, less # race, less \in T PROVE FALSE
  <2>1. less \in SUBSET all /\ race \in SUBSET all
    BY <1>3
  <2>2. <<less, race>> \in StrictSubsetOrdering(all)
    BY <1>3, <2>1 DEF StrictSubsetOrdering
  <2> QED
    BY <1>2, <1>3, <2>2
<1> QED
  BY <1>3

LEMMA SameRound ==
  ASSUME NEW profile, NEW f, NEW g, NEW race,
         \A c \in race : f[race \ {c}] = g[race \ {c}]
  PROVE  Round(profile, f, race) = Round(profile, g, race)
  BY DEF Round

\* Two counts agree on every race both know.
LEMMA CountsAgree ==
  ASSUME NEW profile, NEW all, IsFiniteSet(all), NEW S \in SUBSET all, NEW R \in SUBSET all,
         NEW f, NEW g, Counts(f, profile, S), Counts(g, profile, R)
  PROVE  \A race \in SUBSET (S \cap R) : f[race] = g[race]
<1> DEFINE T == {race \in SUBSET (S \cap R) : f[race] # g[race]}
<1>1. SUFFICES ASSUME T # {} PROVE FALSE
  OBVIOUS
<1>2. PICK race \in T : \A less \in SUBSET race : less # race => less \notin T
  <2>1. T \subseteq SUBSET all
    OBVIOUS
  <2> HIDE DEF T
  <2> QED
    BY <1>1, <2>1, SmallestRace
<1>3. race \in SUBSET S /\ race \in SUBSET R
  OBVIOUS
<1>4. ASSUME NEW c \in race PROVE f[race \ {c}] = g[race \ {c}]
  <2>1. race \ {c} \in SUBSET race /\ race \ {c} # race
    OBVIOUS
  <2> QED
    BY <1>2, <1>3, <2>1
<1>5. Round(profile, f, race) = Round(profile, g, race)
  BY <1>4, SameRound
<1>6. f[race] = Round(profile, f, race)
  BY <1>3 DEF Counts
<1>7. g[race] = Round(profile, g, race)
  BY <1>3 DEF Counts
<1> QED
  BY <1>5, <1>6, <1>7

\* There is a count of every race, put together from the counts of smaller ones.
LEMMA CountExists ==
  ASSUME NEW profile, NEW all, IsFiniteSet(all)
  PROVE  \A race \in SUBSET all : Counts(Count(profile, race), profile, race)
<1> DEFINE T == {race \in SUBSET all : ~ Counts(Count(profile, race), profile, race)}
<1>1. SUFFICES ASSUME T # {} PROVE FALSE
  OBVIOUS
<1>2. PICK race \in T : \A less \in SUBSET race : less # race => less \notin T
  <2>1. T \subseteq SUBSET all
    OBVIOUS
  <2> HIDE DEF T
  <2> QED
    BY <1>1, <2>1, SmallestRace
<1>3. race \in SUBSET all /\ ~ Counts(Count(profile, race), profile, race)
  OBVIOUS
<1>4. \A less \in SUBSET race : less # race => Counts(Count(profile, less), profile, less)
  BY <1>2, <1>3
<1> DEFINE G == [r \in SUBSET race |-> Count(profile, r)[r]]
           f == [r \in SUBSET race |-> IF r = race THEN Round(profile, G, race) ELSE G[r]]
<1>5. ASSUME NEW r \in SUBSET race PROVE f[r] = Round(profile, f, r)
  <2>1. \A c \in r : r \ {c} \in SUBSET race /\ r \ {c} # race
    OBVIOUS
  <2>2. \A c \in r : f[r \ {c}] = Count(profile, r \ {c})[r \ {c}]
    BY <2>1
  <2>3. CASE r = race
    <3>1. \A c \in r : f[r \ {c}] = G[r \ {c}]
      BY <2>1
    <3>2. f[r] = Round(profile, G, r)
      BY <2>3
    <3> HIDE DEF f, G
    <3> QED
      BY <3>1, <3>2, SameRound
  <2>4. CASE r # race
    <3>1. Counts(Count(profile, r), profile, r)
      BY <1>4, <2>4
    <3>2. ASSUME NEW c \in r PROVE f[r \ {c}] = Count(profile, r)[r \ {c}]
      <4>1. Counts(Count(profile, r \ {c}), profile, r \ {c})
        BY <1>4, <2>1
      <4>2. r \ {c} \in SUBSET (r \cap (r \ {c})) /\ r \in SUBSET all /\ r \ {c} \in SUBSET all
        BY <1>3
      <4>3. Count(profile, r)[r \ {c}] = Count(profile, r \ {c})[r \ {c}]
        BY <3>1, <4>1, <4>2, CountsAgree
      <4> QED
        BY <2>2, <4>3
    <3>3. Round(profile, f, r) = Round(profile, Count(profile, r), r)
      <4> HIDE DEF f
      <4> QED
        BY <3>2, SameRound
    <3>4. Count(profile, r)[r] = Round(profile, Count(profile, r), r)
      <4>1. PICK g : g = Count(profile, r)
        OBVIOUS
      <4>2. g = [s \in SUBSET r |-> Round(profile, g, s)]
        BY <3>1, <4>1 DEF Counts
      <4>3. g[r] = Round(profile, g, r)
        BY <4>2
      <4> QED
        BY <4>1, <4>3
    <3>5. f[r] = Count(profile, r)[r]
      BY <2>4
    <3> QED
      BY <3>3, <3>4, <3>5
  <2> QED
    BY <2>3, <2>4
<1>6. Counts(f, profile, race)
  <2>1. f = [r \in SUBSET race |-> f[r]]
    OBVIOUS
  <2> HIDE DEF f
  <2> QED
    BY <1>5, <2>1 DEF Counts
<1>7. Counts(Count(profile, race), profile, race)
  <2> HIDE DEF f
  <2> QED
    BY <1>6, Zenon DEF Count
<1> QED
  BY <1>3, <1>7

\* What the count may elect, round by round: the recursive definition of Winners
\* means what it says.
LEMMA WinnersRound ==
  ASSUME NEW profile, NEW all, IsFiniteSet(all)
  PROVE  Winners(profile, all) =
           {w \in all : \/ Decided(profile, all, w)
                        \/ \E c \in all \ {w} : /\ MayLeave(profile, all, c)
                                                /\ w \in Winners(profile, all \ {c})}
<1>1. PICK f : f = Count(profile, all)
  OBVIOUS
<1>2. Counts(f, profile, all)
  BY <1>1, CountExists
<1>3. f[all] = Round(profile, f, all)
  BY <1>2 DEF Counts
<1>4. ASSUME NEW c \in all PROVE f[all \ {c}] = Winners(profile, all \ {c})
  <2>1. all \ {c} \in SUBSET all /\ all \in SUBSET all
    OBVIOUS
  <2>2. Counts(Count(profile, all \ {c}), profile, all \ {c})
    BY <2>1, CountExists
  <2>3. all \ {c} \in SUBSET (all \cap (all \ {c}))
    OBVIOUS
  <2>4. f[all \ {c}] = Count(profile, all \ {c})[all \ {c}]
    BY <1>2, <2>1, <2>2, <2>3, CountsAgree
  <2> QED
    BY <2>4, CountIs
<1> QED
  BY <1>1, <1>3, <1>4, CountIs DEF Round

\* A ballot that names someone left in the race has a first choice there.
LEMMA FirstChoice ==
  ASSUME NEW ballot, Len(ballot) \in Nat, NEW race, Alive(ballot, race)
  PROVE  \E c \in race : VotesFor(ballot, race, c)
<1> DEFINE T == {1..i : i \in {j \in 1..Len(ballot) : ballot[j] \in race}}
<1>1. PICK j \in 1..Len(ballot) : ballot[j] \in race
  BY DEF Alive
<1>2. PICK least \in T : \A less \in SUBSET least : less # least => less \notin T
  <2>1. IsFiniteSet(1..Len(ballot))
    BY FS_Interval
  <2>2. T # {} /\ T \subseteq SUBSET (1..Len(ballot))
    BY <1>1
  <2> HIDE DEF T
  <2> QED
    BY <2>1, <2>2, SmallestRace
<1>3. PICK i \in 1..Len(ballot) : ballot[i] \in race /\ least = 1..i
  OBVIOUS
<1>4. ASSUME NEW k \in 1..(i-1), ballot[k] \in race PROVE FALSE
  <2>1. 1..k \in SUBSET least
    BY <1>3
  <2>2. 1..k # least
    BY <1>3
  <2>3. 1..k \in T
    BY <1>3, <1>4
  <2> QED
    BY <1>2, <2>1, <2>2, <2>3
<1> QED
  BY <1>3, <1>4 DEF VotesFor

\* ... and only one.
LEMMA OneChoice ==
  ASSUME NEW ballot, Len(ballot) \in Nat, NEW race, NEW c \in race, NEW d \in race,
         VotesFor(ballot, race, c), VotesFor(ballot, race, d)
  PROVE  c = d
<1>1. PICK i \in 1..Len(ballot) : ballot[i] = c /\ \A k \in 1..(i-1) : ballot[k] \notin race
  BY DEF VotesFor
<1>2. PICK j \in 1..Len(ballot) : ballot[j] = d /\ \A k \in 1..(j-1) : ballot[k] \notin race
  BY DEF VotesFor
<1>3. ~ (i < j) /\ ~ (j < i)
  BY <1>1, <1>2
<1>4. i = j
  BY <1>3
<1> QED
  BY <1>1, <1>2, <1>4

LEMMA VotesAreAlive ==
  ASSUME NEW ballot, NEW race, NEW c \in race, VotesFor(ballot, race, c)
  PROVE  Alive(ballot, race)
  BY DEF VotesFor, Alive

\* Whoever wins was ranked by somebody, as long as some ballot has a say: the last
\* candidate that anybody ranked has a majority and does not leave.
LEMMA WinnerIsRanked ==
  ASSUME NEW profile, IsFiniteSet(DOMAIN profile), \A v \in DOMAIN profile : Len(profile[v]) \in Nat,
         NEW all, IsFiniteSet(all), Live(profile, all) > 0,
         NEW w \in Winners(profile, all)
  PROVE  \E v \in DOMAIN profile : \E i \in 1..Len(profile[v]) : profile[v][i] = w
<1> DEFINE Ranked(x) == \E v \in DOMAIN profile : \E i \in 1..Len(profile[v]) : profile[v][i] = x
           living(race) == {v \in DOMAIN profile : Alive(profile[v], race)}
           votes(race, c) == {v \in DOMAIN profile : VotesFor(profile[v], race, c)}
           T == {race \in SUBSET all : /\ Live(profile, race) > 0
                                       /\ \E x \in Winners(profile, race) : ~ Ranked(x)}
<1>1. SUFFICES ASSUME T # {} PROVE FALSE
  OBVIOUS
<1>2. PICK race \in T : \A less \in SUBSET race : less # race => less \notin T
  <2>1. T \subseteq SUBSET all
    OBVIOUS
  <2> HIDE DEF T
  <2> QED
    BY <1>1, <2>1, SmallestRace
<1>3. /\ race \in SUBSET all /\ IsFiniteSet(race) /\ Live(profile, race) > 0
  BY FS_Subset
<1>4. PICK x \in Winners(profile, race) : ~ Ranked(x)
  OBVIOUS
<1>5. \A r, c : /\ IsFiniteSet(living(r)) /\ Live(profile, r) = Cardinality(living(r))
                /\ IsFiniteSet(votes(r, c)) /\ Tally(profile, r, c) = Cardinality(votes(r, c))
                /\ Live(profile, r) \in Nat /\ Tally(profile, r, c) \in Nat
  BY FS_Subset, FS_CardinalityType DEF Live, Tally
<1>6. CASE Decided(profile, race, x)
  <2>1. CASE race = {x}
    <3>1. living(race) # {}
      BY <1>3, <1>5, FS_EmptySet
    <3>2. PICK v \in DOMAIN profile : Alive(profile[v], race)
      BY <3>1
    <3> QED
      BY <1>4, <2>1, <3>2 DEF Alive
  <2>2. CASE HasMajority(profile, race, x)
    <3>1. Tally(profile, race, x) # 0
      <4>1. PICK live \in Nat, tally \in Nat : live = Live(profile, race) /\ tally = Tally(profile, race, x)
        BY <1>5
      <4>2. live > 0 /\ 2 * tally > live
        BY <1>3, <2>2, <4>1 DEF HasMajority
      <4> QED
        BY <4>1, <4>2
    <3>2. votes(race, x) # {}
      BY <1>5, <3>1, FS_EmptySet
    <3>3. PICK v \in DOMAIN profile : VotesFor(profile[v], race, x)
      BY <3>2
    <3> QED
      BY <1>4, <3>3 DEF VotesFor
  <2> QED
    BY <1>6, <2>1, <2>2 DEF Decided
<1>7. ASSUME NEW c \in race \ {x}, MayLeave(profile, race, c), x \in Winners(profile, race \ {c})
      PROVE  FALSE
  <2>1. race \ {c} \in SUBSET race /\ race \ {c} # race /\ race \ {c} \in SUBSET all
    BY <1>3
  <2>2. race \ {c} \notin T
    BY <1>2, <2>1
  <2>3. ~ (Live(profile, race \ {c}) > 0)
    BY <1>4, <1>7, <2>1, <2>2
  <2>4. living(race \ {c}) = {}
    <3>1. PICK live \in Nat : live = Live(profile, race \ {c})
      BY <1>5
    <3>2. live = 0
      BY <2>3, <3>1
    <3>3. IsFiniteSet(living(race \ {c})) /\ Cardinality(living(race \ {c})) = 0
      BY <1>5, <3>1, <3>2
    <3> QED
      BY <3>3, FS_EmptySet
  <2>5. living(race) \subseteq votes(race, c)
    <3>1. SUFFICES ASSUME NEW v \in DOMAIN profile, Alive(profile[v], race)
                   PROVE  VotesFor(profile[v], race, c)
      OBVIOUS
    <3>2. PICK d \in race : VotesFor(profile[v], race, d)
      BY <3>1, FirstChoice
    <3>3. CASE d # c
      <4>1. Alive(profile[v], race \ {c})
        BY <3>2, <3>3 DEF VotesFor, Alive
      <4> QED
        BY <2>4, <4>1
    <3> QED
      BY <3>2, <3>3
  <2>6. Live(profile, race) <= Tally(profile, race, c)
    <3>1. IsFiniteSet(votes(race, c)) /\ living(race) \in SUBSET votes(race, c)
      BY <1>5, <2>5
    <3>2. Cardinality(living(race)) <= Cardinality(votes(race, c))
      BY <3>1, FS_Subset
    <3> QED
      BY <1>5, <3>2
  <2>7. HasMajority(profile, race, c)
    <3>1. PICK live \in Nat, tally \in Nat : live = Live(profile, race) /\ tally = Tally(profile, race, c)
      BY <1>5
    <3>2. live > 0 /\ live <= tally
      BY <1>3, <2>6, <3>1
    <3>3. 2 * tally > live
      BY <3>2
    <3> QED
      BY <3>1, <3>3 DEF HasMajority
  <2> QED
    BY <1>7, <2>7 DEF MayLeave
<1>8. Decided(profile, race, x) \/ \E c \in race \ {x} : MayLeave(profile, race, c) /\ x \in Winners(profile, race \ {c})
  BY <1>3, <1>4, WinnersRound
<1> QED
  BY <1>6, <1>7, <1>8

\* Whoever more than half of the voters put first wins at once, and alone.
LEMMA MajorityWins ==
  ASSUME NEW profile, IsFiniteSet(DOMAIN profile), \A v \in DOMAIN profile : Len(profile[v]) \in Nat \ {0},
         NEW all, IsFiniteSet(all), NEW n \in all,
         2 * Cardinality({v \in DOMAIN profile : profile[v][1] = n}) > Cardinality(DOMAIN profile),
         NEW w \in Winners(profile, all)
  PROVE  w = n
<1> DEFINE firsts == {v \in DOMAIN profile : profile[v][1] = n}
           living == {v \in DOMAIN profile : Alive(profile[v], all)}
           votes(c) == {v \in DOMAIN profile : VotesFor(profile[v], all, c)}
<1>1. /\ IsFiniteSet(living) /\ Cardinality(living) <= Cardinality(DOMAIN profile)
      /\ Live(profile, all) = Cardinality(living) /\ Cardinality(living) \in Nat
      /\ Cardinality(DOMAIN profile) \in Nat
  BY FS_Subset, FS_CardinalityType DEF Live
<1>2. \A c : /\ IsFiniteSet(votes(c)) /\ Tally(profile, all, c) = Cardinality(votes(c))
             /\ Cardinality(votes(c)) \in Nat
  BY FS_Subset, FS_CardinalityType DEF Tally
<1>3. firsts \subseteq votes(n)
  BY DEF VotesFor
<1>4. Cardinality(firsts) <= Cardinality(votes(n)) /\ Cardinality(firsts) \in Nat
  BY <1>2, <1>3, FS_Subset, FS_CardinalityType
<1>5. HasMajority(profile, all, n)
  <2>1. PICK first \in Nat, tally \in Nat, live \in Nat, voters \in Nat :
          /\ first = Cardinality(firsts) /\ tally = Tally(profile, all, n)
          /\ live = Live(profile, all) /\ voters = Cardinality(DOMAIN profile)
    BY <1>1, <1>2, <1>4
  <2>2. first <= tally /\ live <= voters /\ 2 * first > voters
    BY <1>1, <1>2, <1>4, <2>1
  <2>3. 2 * tally > live
    BY <2>2
  <2> QED
    BY <2>1, <2>3 DEF HasMajority
<1>6. \A c \in all : ~ MayLeave(profile, all, c)
  BY <1>5 DEF MayLeave
<1>7. w \in all /\ Decided(profile, all, w)
  <2>1. w \in {x \in all : \/ Decided(profile, all, x)
                         \/ \E c \in all \ {x} : /\ MayLeave(profile, all, c)
                                                 /\ x \in Winners(profile, all \ {c})}
    BY WinnersRound
  <2> QED
    BY <1>6, <2>1
<1>8. CASE HasMajority(profile, all, w)
  <2>1. votes(n) \in SUBSET living /\ votes(w) \in SUBSET living
    BY <1>7, VotesAreAlive
  <2>2. 2 * Cardinality(votes(n)) > Cardinality(living) /\ 2 * Cardinality(votes(w)) > Cardinality(living)
    BY <1>1, <1>2, <1>5, <1>8 DEF HasMajority
  <2>3. Cardinality(votes(n)) + Cardinality(votes(w)) > Cardinality(living)
    <3>1. PICK a \in Nat, b \in Nat, l \in Nat :
            a = Cardinality(votes(n)) /\ b = Cardinality(votes(w)) /\ l = Cardinality(living)
      BY <1>1, <1>2
    <3>2. 2 * a > l /\ 2 * b > l
      BY <2>2, <3>1
    <3>3. a + b > l
      BY <3>2
    <3> QED
      BY <3>1, <3>3
  <2>4. votes(n) \cap votes(w) # {}
    <3> HIDE DEF votes, living
    <3> QED
      BY <1>1, <2>1, <2>3, FS_MajoritiesIntersect
  <2>5. PICK v \in DOMAIN profile : VotesFor(profile[v], all, n) /\ VotesFor(profile[v], all, w)
    BY <2>4
  <2> QED
    BY <1>7, <2>5, OneChoice
<1> QED
  BY <1>7, <1>8 DEF Decided
-----------------------------------------------------------------------------
(* The inductive invariant, in named parts. *)

\* A view that was opened has a voter and something to rank.
ViewsAreReady ==
  \A v \in Views : viewState[v] # "unused" => viewUser[v] \in Voters /\ order[v] # <<>>

ClicksHaveViews ==
  \A c \in Clicks : pc[c] # "idle" => viewOf[c] \in Views /\ viewState[viewOf[c]] # "unused"

\* The row lock belongs to the one click inside the transaction, and the poll it
\* read as open stays open for as long.
LockIsHeld ==
  /\ \A c \in Clicks : pc[c] \in Locking => rowLock = c /\ status = "initial"
  /\ rowLock # NoClick => pc[rowLock] \in Locking

\* Past the check no ballot is missing, and none goes missing.
NothingGoesMissing ==
  \A c \in Clicks : /\ pc[c] \in {"candidates", "ballots", "commit"} => AllVoted
                    /\ pc[c] = "commit" => elected[c] \in Media

\* Only the click that decided the poll is about to announce it.
DeciderAnnounces ==
  /\ \A c \in Clicks : pc[c] = "announce" => decision.by = c /\ decisions = 1 /\ announced = 0
  /\ IF status = "completed" THEN winner \in Media ELSE winner = NoMedia

IInv == /\ TypeOK /\ ViewsAreReady /\ ClicksHaveViews
        /\ LockIsHeld /\ NothingGoesMissing
        /\ SingleDecision /\ DeciderAnnounces
        /\ NoSilentStall

\* The voter added none of the media on the ballot.
Impartial(ballot, u) == \A i \in 1..Len(ballot) : CreatorOf[ballot[i]] # u

BallotsAreImpartial ==
  /\ \A v \in Views : Impartial(order[v], viewUser[v])
  /\ \A u \in Voters : Impartial(ranks[u], u)

\* What HonestCount says of a decision.
Honest(over, cast, w) ==
  /\ \A u \in Voters : cast[u] # <<>> /\ Impartial(cast[u], u)
  /\ w \in over
  /\ \E u \in Voters : \E i \in 1..Len(cast[u]) : NameOf[cast[u][i]] = NameOf[w]
  /\ \A m \in over :
        2 * Cardinality({u \in Voters : NameOf[cast[u][1]] = NameOf[m]}) > Cardinality(Voters)
          => NameOf[m] = NameOf[w]

CommitsAreHonest == \A c \in Clicks : pc[c] = "commit" => Honest(field[c], ballots[c], elected[c])

\* The click was made by u, and it has saved or has been cut short.
Cast(c, u) ==
  /\ viewOf[c] \in Views /\ viewUser[viewOf[c]] = u
  /\ pc[c] \notin {"idle", "thinking", "save"}

Twice(u) ==
  \E c, d \in Clicks : /\ c # d /\ {viewOf[c], viewOf[d]} \subseteq Views
                       /\ viewUser[viewOf[c]] = u /\ viewUser[viewOf[d]] = u

\* A ballot in the row was put there by a click of its voter.
BallotsHaveClicks ==
  /\ \A c \in Clicks : pc[c] = "idle" => viewOf[c] = NoView
  /\ \A u \in Voters : ranks[u] # <<>> => \E c \in Clicks : Cast(c, u)

\* Between the count and its commit, as after it, only a second click changes a ballot.
CountedBallotsStand ==
  /\ \A c \in Clicks : pc[c] = "commit" => \A u \in Voters : ranks[u] = ballots[c][u] \/ Twice(u)
  /\ decisions > 0 => AllVoted

CInv == /\ BallotsAreImpartial /\ CommitsAreHonest /\ HonestCount
        /\ BallotsHaveClicks /\ CountedBallotsStand /\ RevisionNeedsSecondClick

\* A count is made over the candidates the poll still has when it commits.
FieldIsCurrent ==
  \A c \in Clicks :
    /\ pc[c] \in {"ballots", "commit"} => field[c] = candidates
    /\ pc[c] = "commit" => elected[c] \in field[c] /\ \A u \in Voters : ballots[c][u] # <<>>

\* Every opening of the form pays for one more decision: a form on the screen may
\* yet reopen the poll, an open poll may yet be decided.
OpeningsPay ==
  decisions + (IF status = "initial" THEN 1 ELSE 0) + (IF form # NoForm THEN 1 ELSE 0) <= 1 + opened

FormInv == /\ FormTypeOK /\ ViewsAreReady /\ ClicksHaveViews
           /\ LockIsHeld /\ NothingGoesMissing
           /\ FieldIsCurrent /\ OpeningsPay
-----------------------------------------------------------------------------
(* Who does what: of the actions, these alone change what the count rests on. *)

\* Only save_vote writes a ballot, and only in the row of the view's user.
LEMMA WhoSaves ==
  ASSUME [Next]_vars
  PROVE  UNCHANGED ranks \/ \E c \in Clicks : SaveVote(c)
  BY DEF Next, ServeClick, vars, pollVars, Vote, Swap, ViewTimeout, Confirm, ShowThinking,
         Acknowledge, StartResolve, LockPoll, CheckVotes, ReadCandidates, CountBallots,
         CommitWinner, Announce, DiscordError, Crash, MoveMedia

LEMMA WhoDecides ==
  ASSUME [Next]_vars
  PROVE  /\ UNCHANGED <<decisions, decision, status>> \/ \E c \in Clicks : CommitWinner(c)
         /\ UNCHANGED candidates
  BY DEF Next, ServeClick, vars, pollVars, historyVars, Vote, Swap, ViewTimeout, Confirm,
     ShowThinking,
         SaveVote, Acknowledge, StartResolve, LockPoll, CheckVotes, ReadCandidates, CountBallots,
         CommitWinner, Announce, DiscordError, Crash, MoveMedia

\* The count that d has just made, of the ballots in the table.
Counted(d) ==
  /\ pc[d] = "ballots" /\ Countable(d)
  /\ UNCHANGED <<ranks, field>> /\ ballots'[d] = ranks
  /\ elected'[d] \in field[d]
  /\ NameOf[elected'[d]] \in Winners([u \in Voters |-> Names(ranks[u])], NamesOf(field[d]))

\* A click about to commit was so before, with the same count, or has counted now.
LEMMA WhoCommits ==
  ASSUME TypeOK, [Next]_vars, NEW d \in Clicks, pc'[d] = "commit"
  PROVE  \/ /\ pc[d] = "commit"
            /\ field'[d] = field[d] /\ ballots'[d] = ballots[d] /\ elected'[d] = elected[d]
         \/ Counted(d)
<1> DEFINE Same == /\ pc[d] = "commit"
                   /\ field'[d] = field[d] /\ ballots'[d] = ballots[d] /\ elected'[d] = elected[d]
           Goal == Same \/ Counted(d)
<1> USE DEF TypeOK, Goto, localVars
<1>1. ASSUME NEW v \in Views, NEW u \in Voters, Vote(v, u) PROVE Goal
  BY <1>1 DEF Vote
<1>2. ASSUME NEW v \in Views, NEW i \in 1..Cardinality(Media), Swap(v, i) PROVE Goal
  BY <1>2 DEF Swap
<1>3. ASSUME NEW v \in Views, ViewTimeout(v) PROVE Goal
  BY <1>3 DEF ViewTimeout
<1>4. ASSUME NEW c \in Clicks, NEW v \in Views, Confirm(c, v) PROVE Goal
  BY <1>4 DEF Confirm
<1>5. ASSUME NEW c \in Clicks, ShowThinking(c) PROVE Goal
  BY <1>5 DEF ShowThinking
<1>6. ASSUME NEW c \in Clicks, SaveVote(c) PROVE Goal
  BY <1>6 DEF SaveVote
<1>7. ASSUME NEW c \in Clicks, Acknowledge(c) PROVE Goal
  BY <1>7 DEF Acknowledge
<1>8. ASSUME NEW c \in Clicks, StartResolve(c) PROVE Goal
  BY <1>8 DEF StartResolve
<1>9. ASSUME NEW c \in Clicks, LockPoll(c) PROVE Goal
  BY <1>9 DEF LockPoll
<1>10. ASSUME NEW c \in Clicks, CheckVotes(c) PROVE Goal
  BY <1>10 DEF CheckVotes
<1>11. ASSUME NEW c \in Clicks, ReadCandidates(c) PROVE Goal
  BY <1>11 DEF ReadCandidates
<1>12. ASSUME NEW c \in Clicks, CountBallots(c) PROVE Goal
  <2>1. CASE d = c
    <3>1. pc[c] = "ballots" /\ UNCHANGED <<ranks, viewVars>>
      BY <1>12 DEF CountBallots, Goto, pollVars
    <3>2. CASE Countable(c)
      <4>1. PICK m \in field[c] :
              /\ NameOf[m] \in Winners([u \in Voters |-> Names(ranks[u])], NamesOf(field[c]))
              /\ elected' = [elected EXCEPT ![c] = m]
        BY <1>12, <3>2 DEF CountBallots
      <4>2. ballots' = [ballots EXCEPT ![c] = ranks] /\ UNCHANGED field
        BY <1>12, <3>2 DEF CountBallots
      <4>3. elected'[d] = m /\ ballots'[d] = ranks
        BY <2>1, <4>1, <4>2
      <4> QED
        BY <2>1, <3>1, <3>2, <4>1, <4>2, <4>3 DEF Counted
    <3>3. CASE ~ Countable(c)
      <4>1. pc' = [pc EXCEPT ![c] = "failed"]
        BY <1>12, <3>3 DEF CountBallots, Goto
      <4> QED
        BY <2>1, <4>1
    <3> QED
      BY <3>2, <3>3
  <2>2. CASE d # c
    BY <1>12, <2>2 DEF CountBallots, Forget
  <2> QED
    BY <2>1, <2>2
<1>13. ASSUME NEW c \in Clicks, CommitWinner(c) PROVE Goal
  BY <1>13 DEF CommitWinner, Forget
<1>14. ASSUME NEW c \in Clicks, Announce(c) PROVE Goal
  BY <1>14 DEF Announce
<1>15. ASSUME NEW c \in Clicks, DiscordError(c) PROVE Goal
  BY <1>15 DEF DiscordError, Ended
<1>16. ASSUME NEW b \in Bots, Crash(b) PROVE Goal
  BY <1>16 DEF Crash, Ended
<1>17. ASSUME NEW m \in Handled, NEW s \in {"in_progress", "completed"}, MoveMedia(m, s) PROVE Goal
  BY <1>17 DEF MoveMedia
<1>18. CASE UNCHANGED vars
  BY <1>18 DEF vars
<1> QED
  BY <1>1, <1>2, <1>3, <1>4, <1>5, <1>6, <1>7, <1>8, <1>9,
     <1>10, <1>11, <1>12, <1>13, <1>14, <1>15, <1>16, <1>17, <1>18 DEF Next, ServeClick

\* A click that has its candidates has just read them, or has had them all along.
LEMMA WhoReads ==
  ASSUME TypeOK, [Next]_vars, NEW d \in Clicks, pc'[d] = "ballots"
  PROVE  field'[d] = candidates \/ (pc[d] = "ballots" /\ field'[d] = field[d])
<1> DEFINE Goal == field'[d] = candidates \/ (pc[d] = "ballots" /\ field'[d] = field[d])
<1> USE DEF TypeOK, Goto, localVars
<1>1. ASSUME NEW v \in Views, NEW u \in Voters, Vote(v, u) PROVE Goal
  BY <1>1 DEF Vote
<1>2. ASSUME NEW v \in Views, NEW i \in 1..Cardinality(Media), Swap(v, i) PROVE Goal
  BY <1>2 DEF Swap
<1>3. ASSUME NEW v \in Views, ViewTimeout(v) PROVE Goal
  BY <1>3 DEF ViewTimeout
<1>4. ASSUME NEW c \in Clicks, NEW v \in Views, Confirm(c, v) PROVE Goal
  BY <1>4 DEF Confirm
<1>5. ASSUME NEW c \in Clicks, ShowThinking(c) PROVE Goal
  BY <1>5 DEF ShowThinking
<1>6. ASSUME NEW c \in Clicks, SaveVote(c) PROVE Goal
  BY <1>6 DEF SaveVote
<1>7. ASSUME NEW c \in Clicks, Acknowledge(c) PROVE Goal
  BY <1>7 DEF Acknowledge
<1>8. ASSUME NEW c \in Clicks, StartResolve(c) PROVE Goal
  BY <1>8 DEF StartResolve
<1>9. ASSUME NEW c \in Clicks, LockPoll(c) PROVE Goal
  BY <1>9 DEF LockPoll
<1>10. ASSUME NEW c \in Clicks, CheckVotes(c) PROVE Goal
  BY <1>10 DEF CheckVotes
<1>11. ASSUME NEW c \in Clicks, ReadCandidates(c) PROVE Goal
  BY <1>11 DEF ReadCandidates
<1>12. ASSUME NEW c \in Clicks, CountBallots(c) PROVE Goal
  BY <1>12 DEF CountBallots, Forget
<1>13. ASSUME NEW c \in Clicks, CommitWinner(c) PROVE Goal
  BY <1>13 DEF CommitWinner, Forget
<1>14. ASSUME NEW c \in Clicks, Announce(c) PROVE Goal
  BY <1>14 DEF Announce
<1>15. ASSUME NEW c \in Clicks, DiscordError(c) PROVE Goal
  BY <1>15 DEF DiscordError, Ended
<1>16. ASSUME NEW b \in Bots, Crash(b) PROVE Goal
  BY <1>16 DEF Crash, Ended
<1>17. ASSUME NEW m \in Handled, NEW s \in {"in_progress", "completed"}, MoveMedia(m, s) PROVE Goal
  BY <1>17 DEF MoveMedia
<1>18. CASE UNCHANGED vars
  BY <1>18 DEF vars
<1> QED
  BY <1>1, <1>2, <1>3, <1>4, <1>5, <1>6, <1>7, <1>8, <1>9,
     <1>10, <1>11, <1>12, <1>13, <1>14, <1>15, <1>16, <1>17, <1>18 DEF Next, ServeClick

\* A click that waits to be made has been made by nobody yet.
LEMMA WhoWaits ==
  ASSUME TypeOK, [Next]_vars, NEW d \in Clicks, pc'[d] = "idle"
  PROVE  pc[d] = "idle" /\ viewOf'[d] = viewOf[d]
<1> DEFINE Goal == pc[d] = "idle" /\ viewOf'[d] = viewOf[d]
<1> USE DEF TypeOK, Goto
<1>1. ASSUME NEW v \in Views, NEW u \in Voters, Vote(v, u) PROVE Goal
  BY <1>1 DEF Vote
<1>2. ASSUME NEW v \in Views, NEW i \in 1..Cardinality(Media), Swap(v, i) PROVE Goal
  BY <1>2 DEF Swap
<1>3. ASSUME NEW v \in Views, ViewTimeout(v) PROVE Goal
  BY <1>3 DEF ViewTimeout
<1>4. ASSUME NEW c \in Clicks, NEW v \in Views, Confirm(c, v) PROVE Goal
  BY <1>4 DEF Confirm
<1>5. ASSUME NEW c \in Clicks, ShowThinking(c) PROVE Goal
  BY <1>5 DEF ShowThinking
<1>6. ASSUME NEW c \in Clicks, SaveVote(c) PROVE Goal
  BY <1>6 DEF SaveVote
<1>7. ASSUME NEW c \in Clicks, Acknowledge(c) PROVE Goal
  BY <1>7 DEF Acknowledge
<1>8. ASSUME NEW c \in Clicks, StartResolve(c) PROVE Goal
  BY <1>8 DEF StartResolve
<1>9. ASSUME NEW c \in Clicks, LockPoll(c) PROVE Goal
  BY <1>9 DEF LockPoll
<1>10. ASSUME NEW c \in Clicks, CheckVotes(c) PROVE Goal
  BY <1>10 DEF CheckVotes
<1>11. ASSUME NEW c \in Clicks, ReadCandidates(c) PROVE Goal
  BY <1>11 DEF ReadCandidates
<1>12. ASSUME NEW c \in Clicks, CountBallots(c) PROVE Goal
  BY <1>12 DEF CountBallots
<1>13. ASSUME NEW c \in Clicks, CommitWinner(c) PROVE Goal
  BY <1>13 DEF CommitWinner
<1>14. ASSUME NEW c \in Clicks, Announce(c) PROVE Goal
  BY <1>14 DEF Announce
<1>15. ASSUME NEW c \in Clicks, DiscordError(c) PROVE Goal
  BY <1>15 DEF DiscordError
<1>16. ASSUME NEW b \in Bots, Crash(b) PROVE Goal
  BY <1>16 DEF Crash, Ended
<1>17. ASSUME NEW m \in Handled, NEW s \in {"in_progress", "completed"}, MoveMedia(m, s) PROVE Goal
  BY <1>17 DEF MoveMedia
<1>18. CASE UNCHANGED vars
  BY <1>18 DEF vars
<1> QED
  BY <1>1, <1>2, <1>3, <1>4, <1>5, <1>6, <1>7, <1>8, <1>9,
     <1>10, <1>11, <1>12, <1>13, <1>14, <1>15, <1>16, <1>17, <1>18 DEF Next, ServeClick

LEMMA WhoOrders ==
  ASSUME [Next]_vars
  PROVE  \/ UNCHANGED <<order, viewUser>>
         \/ \E v \in Views : \/ \E u \in Voters : Vote(v, u)
                             \/ \E i \in 1..Cardinality(Media) : Swap(v, i)
  BY DEF Next, ServeClick, vars, viewVars, ViewTimeout, Confirm, ShowThinking,
         SaveVote, Acknowledge, StartResolve, LockPoll, CheckVotes, ReadCandidates, CountBallots,
         CommitWinner, Announce, DiscordError, Crash, MoveMedia
-----------------------------------------------------------------------------
(* Each part holds at the start and is kept by each action. *)

LEMMA TypeInit == Init => TypeOK
<1>1. NoBallots \in [Voters -> Seq(Media)]
  BY EmptySeq DEF NoBallots
<1> QED
  BY <1>1, EmptySeq, PollAssumption DEF Init, TypeOK, MediaStatuses, PCs, NoDecision

LEMMA TypeStep == TypeOK /\ ClicksHaveViews /\ [Next]_vars => TypeOK'
<1> SUFFICES ASSUME TypeOK, ClicksHaveViews, [Next]_vars PROVE TypeOK'
  OBVIOUS
<1> USE DEF TypeOK, pollVars, viewVars, localVars, historyVars
<1> DEFINE Goal == TypeOK'
<1>0. NoBallots \in [Voters -> Seq(Media)]
  BY EmptySeq DEF NoBallots
<1>1. ASSUME NEW v \in Views, NEW u \in Voters, Vote(v, u) PROVE Goal
  <2>1. Offered(u) \in SUBSET Media
    BY DEF Offered
  <2>2. PICK o \in Orders(Offered(u)) : order' = [order EXCEPT ![v] = o]
    BY <1>1 DEF Vote
  <2>3. o \in Seq(Media)
    BY <2>1, <2>2, OrdersAreSequences
  <2> QED
    BY <1>1, <2>2, <2>3 DEF Vote
<1>2. ASSUME NEW v \in Views, NEW i \in 1..Cardinality(Media), Swap(v, i) PROVE Goal
  <2> DEFINE t == [order[v] EXCEPT ![i] = order[v][i+1], ![i+1] = order[v][i]]
  <2>1. order' = [order EXCEPT ![v] = t]
    BY <1>2 DEF Swap
  <2>2. t \in Seq(Media)
    BY <1>2, SwapKeepsBallot DEF Swap
  <2> HIDE DEF t
  <2> QED
    BY <1>2, <2>1, <2>2 DEF Swap
<1>3. ASSUME NEW v \in Views, ViewTimeout(v) PROVE Goal
  BY <1>3 DEF ViewTimeout
<1>4. ASSUME NEW c \in Clicks, NEW v \in Views, Confirm(c, v) PROVE Goal
  BY <1>4 DEF Confirm, Goto, PCs, Awaiting
<1>5. ASSUME NEW c \in Clicks, ServeClick(c) PROVE Goal
  <2> USE DEF Goto, PCs, Awaiting, Synchronous, Locking, Ended
  <2>1. CASE ShowThinking(c)
    BY <2>1 DEF ShowThinking
  <2>2. CASE SaveVote(c)
    <3>1. order[viewOf[c]] \in Seq(Media)
      BY <2>2 DEF SaveVote, ClicksHaveViews
    <3> QED
      BY <2>2, <3>1 DEF SaveVote
  <2>3. CASE Acknowledge(c)
    BY <2>3 DEF Acknowledge
  <2>4. CASE StartResolve(c)
    BY <2>4 DEF StartResolve
  <2>5. CASE LockPoll(c)
    BY <2>5 DEF LockPoll
  <2>6. CASE CheckVotes(c)
    BY <2>6 DEF CheckVotes
  <2>7. CASE ReadCandidates(c)
    BY <2>7 DEF ReadCandidates
  <2>8. CASE CountBallots(c)
    <3>1. /\ field' \in [Clicks -> SUBSET Media]
          /\ ballots' \in [Clicks -> [Voters -> Seq(Media)]]
          /\ elected' \in [Clicks -> Media \cup {NoMedia}]
      <4>1. CASE Forget(c)
        BY <4>1, <1>0 DEF Forget
      <4>2. CASE /\ ballots' = [ballots EXCEPT ![c] = ranks]
                 /\ \E m \in field[c] : elected' = [elected EXCEPT ![c] = m]
                 /\ UNCHANGED field
        BY <4>2
      <4> QED
        BY <2>8, <4>1, <4>2 DEF CountBallots
    <3>2. pc' \in [Clicks -> PCs] /\ rowLock' \in Clicks \cup {NoClick}
      BY <2>8 DEF CountBallots
    <3> QED
      BY <2>8, <3>1, <3>2 DEF CountBallots
  <2>9. CASE CommitWinner(c)
    BY <2>9, <1>0 DEF CommitWinner, Forget
  <2>10. CASE Announce(c)
    BY <2>10 DEF Announce
  <2> QED
    BY <1>5, <2>1, <2>2, <2>3, <2>4, <2>5, <2>6, <2>7, <2>8, <2>9, <2>10 DEF ServeClick
<1>6. ASSUME NEW c \in Clicks, DiscordError(c) PROVE Goal
  BY <1>6 DEF DiscordError, Goto, PCs, Ended
<1>7. ASSUME NEW b \in Bots, Crash(b) PROVE Goal
  BY <1>7, <1>0 DEF Crash, PCs, Ended
<1>8. ASSUME NEW m \in Handled, NEW s \in {"in_progress", "completed"}, MoveMedia(m, s) PROVE Goal
  BY <1>8 DEF MoveMedia, MediaStatuses
<1>9. CASE UNCHANGED vars
  BY <1>9 DEF vars
<1> QED
  BY <1>1, <1>2, <1>3, <1>4, <1>5, <1>6, <1>7, <1>8, <1>9 DEF Next

LEMMA ReadyInit == Init => ViewsAreReady /\ ClicksHaveViews
  BY DEF Init, ViewsAreReady, ClicksHaveViews

LEMMA ReadyStep == TypeOK /\ ViewsAreReady /\ ClicksHaveViews /\ [Next]_vars => (ViewsAreReady /\ ClicksHaveViews)'
<1> SUFFICES ASSUME TypeOK, ViewsAreReady, ClicksHaveViews, [Next]_vars PROVE (ViewsAreReady /\ ClicksHaveViews)'
  OBVIOUS
<1> USE DEF TypeOK, ViewsAreReady, ClicksHaveViews, pollVars, viewVars, localVars, historyVars, Goto
<1>1. ASSUME NEW v \in Views, NEW u \in Voters, Vote(v, u) PROVE (ViewsAreReady /\ ClicksHaveViews)'
  <2>1. PICK o \in Orders(Offered(u)) : order' = [order EXCEPT ![v] = o]
    BY <1>1 DEF Vote
  <2>2. o # <<>>
    <3>1. Offered(u) \in SUBSET Media /\ Offered(u) # {}
      BY <1>1 DEF Vote, Offered
    <3>2. <<>> \notin Orders(Offered(u))
      BY <3>1, OrdersAreSequences
    <3> QED
      BY <2>1, <3>2
  <2> QED
    BY <1>1, <2>1, <2>2 DEF Vote
<1>2. ASSUME NEW v \in Views, NEW i \in 1..Cardinality(Media), Swap(v, i) PROVE (ViewsAreReady /\ ClicksHaveViews)'
  <2> DEFINE t == [order[v] EXCEPT ![i] = order[v][i+1], ![i+1] = order[v][i]]
  <2>1. order' = [order EXCEPT ![v] = t]
    BY <1>2 DEF Swap
  <2>2. t \in Seq(Media) /\ Len(t) = Len(order[v])
    BY <1>2, SwapKeepsBallot DEF Swap
  <2>3. t # <<>> \/ order[v] = <<>>
    BY <2>2, EmptySeq
  <2> HIDE DEF t
  <2> QED
    BY <1>2, <2>1, <2>3 DEF Swap
<1>3. ASSUME NEW v \in Views, ViewTimeout(v) PROVE (ViewsAreReady /\ ClicksHaveViews)'
  BY <1>3 DEF ViewTimeout
<1>4. ASSUME NEW c \in Clicks, NEW v \in Views, Confirm(c, v) PROVE (ViewsAreReady /\ ClicksHaveViews)'
  BY <1>4 DEF Confirm
<1>5. ASSUME NEW c \in Clicks, ShowThinking(c) PROVE (ViewsAreReady /\ ClicksHaveViews)'
  BY <1>5 DEF ShowThinking
<1>6. ASSUME NEW c \in Clicks, SaveVote(c) PROVE (ViewsAreReady /\ ClicksHaveViews)'
  BY <1>6 DEF SaveVote
<1>7. ASSUME NEW c \in Clicks, Acknowledge(c) PROVE (ViewsAreReady /\ ClicksHaveViews)'
  BY <1>7 DEF Acknowledge
<1>8. ASSUME NEW c \in Clicks, StartResolve(c) PROVE (ViewsAreReady /\ ClicksHaveViews)'
  BY <1>8 DEF StartResolve
<1>9. ASSUME NEW c \in Clicks, LockPoll(c) PROVE (ViewsAreReady /\ ClicksHaveViews)'
  BY <1>9 DEF LockPoll
<1>10. ASSUME NEW c \in Clicks, CheckVotes(c) PROVE (ViewsAreReady /\ ClicksHaveViews)'
  BY <1>10 DEF CheckVotes
<1>11. ASSUME NEW c \in Clicks, ReadCandidates(c) PROVE (ViewsAreReady /\ ClicksHaveViews)'
  BY <1>11 DEF ReadCandidates
<1>12. ASSUME NEW c \in Clicks, CountBallots(c) PROVE (ViewsAreReady /\ ClicksHaveViews)'
  BY <1>12 DEF CountBallots
<1>13. ASSUME NEW c \in Clicks, CommitWinner(c) PROVE (ViewsAreReady /\ ClicksHaveViews)'
  BY <1>13 DEF CommitWinner
<1>14. ASSUME NEW c \in Clicks, Announce(c) PROVE (ViewsAreReady /\ ClicksHaveViews)'
  BY <1>14 DEF Announce
<1>15. ASSUME NEW c \in Clicks, DiscordError(c) PROVE (ViewsAreReady /\ ClicksHaveViews)'
  BY <1>15 DEF DiscordError
<1>16. ASSUME NEW b \in Bots, Crash(b) PROVE (ViewsAreReady /\ ClicksHaveViews)'
  BY <1>16 DEF Crash
<1>17. ASSUME NEW m \in Handled, NEW s \in {"in_progress", "completed"}, MoveMedia(m, s) PROVE (ViewsAreReady /\ ClicksHaveViews)'
  BY <1>17 DEF MoveMedia
<1>18. CASE UNCHANGED vars
  BY <1>18 DEF vars
<1> QED
  BY <1>1, <1>2, <1>3, <1>4, <1>5, <1>6, <1>7, <1>8, <1>9,
     <1>10, <1>11, <1>12, <1>13, <1>14, <1>15, <1>16, <1>17, <1>18 DEF Next, ServeClick

LEMMA LockInit == Init => LockIsHeld
  BY DEF Init, LockIsHeld, Locking

LEMMA LockStep == TypeOK /\ LockIsHeld /\ [Next]_vars => LockIsHeld'
<1> SUFFICES ASSUME TypeOK, LockIsHeld, [Next]_vars PROVE LockIsHeld'
  OBVIOUS
<1>0. /\ pc \in [Clicks -> PCs] /\ rowLock \in Clicks \cup {NoClick}
      /\ status \in {"initial", "completed"} /\ NoClick \notin Clicks
  BY PollAssumption DEF TypeOK
<1> USE <1>0 DEF LockIsHeld
<1>1. ASSUME NEW v \in Views, NEW u \in Voters, Vote(v, u) PROVE LockIsHeld'
  BY <1>1 DEF Vote, Goto, Locking, pollVars, viewVars, localVars, historyVars
<1>2. ASSUME NEW v \in Views, NEW i \in 1..Cardinality(Media), Swap(v, i) PROVE LockIsHeld'
  BY <1>2 DEF Swap, Goto, Locking, pollVars, viewVars, localVars, historyVars
<1>3. ASSUME NEW v \in Views, ViewTimeout(v) PROVE LockIsHeld'
  BY <1>3 DEF ViewTimeout, Goto, Locking, pollVars, viewVars, localVars, historyVars
<1>4. ASSUME NEW c \in Clicks, NEW v \in Views, Confirm(c, v) PROVE LockIsHeld'
  BY <1>4 DEF Confirm, Goto, Locking, pollVars, viewVars, localVars, historyVars
<1>5. ASSUME NEW c \in Clicks, ShowThinking(c) PROVE LockIsHeld'
  BY <1>5 DEF ShowThinking, Goto, Locking, pollVars, viewVars, localVars, historyVars
<1>6. ASSUME NEW c \in Clicks, SaveVote(c) PROVE LockIsHeld'
  BY <1>6 DEF SaveVote, Goto, Locking, pollVars, viewVars, localVars, historyVars
<1>7. ASSUME NEW c \in Clicks, Acknowledge(c) PROVE LockIsHeld'
  BY <1>7 DEF Acknowledge, Goto, Locking, pollVars, viewVars, localVars, historyVars
<1>8. ASSUME NEW c \in Clicks, StartResolve(c) PROVE LockIsHeld'
  BY <1>8 DEF StartResolve, Goto, Locking, pollVars, viewVars, localVars, historyVars
<1>9. ASSUME NEW c \in Clicks, LockPoll(c) PROVE LockIsHeld'
  BY <1>9 DEF LockPoll, Goto, Locking, pollVars, viewVars, localVars, historyVars
<1>10. ASSUME NEW c \in Clicks, CheckVotes(c) PROVE LockIsHeld'
  BY <1>10 DEF CheckVotes, Goto, Locking, pollVars, viewVars, localVars, historyVars
<1>11. ASSUME NEW c \in Clicks, ReadCandidates(c) PROVE LockIsHeld'
  BY <1>11 DEF ReadCandidates, Goto, Locking, pollVars, viewVars, localVars, historyVars
<1>12. ASSUME NEW c \in Clicks, CountBallots(c) PROVE LockIsHeld'
  BY <1>12 DEF CountBallots, Goto, Locking, pollVars, viewVars, localVars, historyVars
<1>13. ASSUME NEW c \in Clicks, CommitWinner(c) PROVE LockIsHeld'
  BY <1>13 DEF CommitWinner, Goto, Locking, pollVars, viewVars, localVars, historyVars
<1>14. ASSUME NEW c \in Clicks, Announce(c) PROVE LockIsHeld'
  BY <1>14 DEF Announce, Goto, Locking, pollVars, viewVars, localVars, historyVars
<1>15. ASSUME NEW c \in Clicks, DiscordError(c) PROVE LockIsHeld'
  BY <1>15 DEF DiscordError, Goto, Locking, pollVars, viewVars, localVars, historyVars
<1>16. ASSUME NEW b \in Bots, Crash(b) PROVE LockIsHeld'
  BY <1>16 DEF Crash, Goto, Locking, Ended, pollVars, viewVars, localVars, historyVars
<1>17. ASSUME NEW m \in Handled, NEW s \in {"in_progress", "completed"}, MoveMedia(m, s) PROVE LockIsHeld'
  BY <1>17 DEF MoveMedia, Goto, Locking, pollVars, viewVars, localVars, historyVars
<1>18. CASE UNCHANGED vars
  BY <1>18 DEF vars, pollVars
<1> QED
  BY <1>1, <1>2, <1>3, <1>4, <1>5, <1>6, <1>7, <1>8, <1>9,
     <1>10, <1>11, <1>12, <1>13, <1>14, <1>15, <1>16, <1>17, <1>18 DEF Next, ServeClick

\* A voter who has cast a ballot keeps one: every view has something to rank.
LEMMA BallotsStay ==
  ASSUME TypeOK, ViewsAreReady, ClicksHaveViews, [Next]_vars
  PROVE  \A u \in Voters : ranks[u] # <<>> => ranks'[u] # <<>>
<1>1. ASSUME NEW c \in Clicks, SaveVote(c)
      PROVE  \A u \in Voters : ranks[u] # <<>> => ranks'[u] # <<>>
  BY <1>1 DEF SaveVote, Goto, TypeOK, ViewsAreReady, ClicksHaveViews
<1>2. CASE UNCHANGED ranks
  BY <1>2
<1>3. UNCHANGED ranks \/ \E c \in Clicks : SaveVote(c)
  BY WhoSaves
<1> QED
  BY <1>1, <1>2, <1>3

LEMMA MissingInit == Init => NothingGoesMissing
  BY DEF Init, NothingGoesMissing

LEMMA MissingStep ==
  TypeOK /\ ViewsAreReady /\ ClicksHaveViews /\ NothingGoesMissing /\ [Next]_vars => NothingGoesMissing'
<1> SUFFICES ASSUME TypeOK, ViewsAreReady, ClicksHaveViews, NothingGoesMissing, [Next]_vars
             PROVE  NothingGoesMissing'
  OBVIOUS
<1>0. /\ pc \in [Clicks -> PCs] /\ field \in [Clicks -> SUBSET Media]
      /\ elected \in [Clicks -> Media \cup {NoMedia}]
  BY DEF TypeOK
<1>a. \A u \in Voters : ranks[u] # <<>> => ranks'[u] # <<>>
  BY BallotsStay
<1> USE <1>0, <1>a DEF NothingGoesMissing, AllVoted, Goto, pollVars, viewVars, localVars, historyVars
<1>1. ASSUME NEW v \in Views, NEW u \in Voters, Vote(v, u) PROVE NothingGoesMissing'
  BY <1>1 DEF Vote
<1>2. ASSUME NEW v \in Views, NEW i \in 1..Cardinality(Media), Swap(v, i) PROVE NothingGoesMissing'
  BY <1>2 DEF Swap
<1>3. ASSUME NEW v \in Views, ViewTimeout(v) PROVE NothingGoesMissing'
  BY <1>3 DEF ViewTimeout
<1>4. ASSUME NEW c \in Clicks, NEW v \in Views, Confirm(c, v) PROVE NothingGoesMissing'
  BY <1>4 DEF Confirm
<1>5. ASSUME NEW c \in Clicks, ShowThinking(c) PROVE NothingGoesMissing'
  BY <1>5 DEF ShowThinking
<1>6. ASSUME NEW c \in Clicks, SaveVote(c) PROVE NothingGoesMissing'
  <2>1. UNCHANGED elected /\ \A d \in Clicks : pc'[d] = pc[d] \/ pc'[d] = "saved"
    BY <1>6 DEF SaveVote
  <2>2. ASSUME NEW d \in Clicks, pc'[d] \in {"candidates", "ballots", "commit"} PROVE pc'[d] = pc[d]
    BY <2>1, <2>2
  <2>3. \A d \in Clicks : pc'[d] \in {"candidates", "ballots", "commit"} => AllVoted'
    BY <2>2
  <2>4. \A d \in Clicks : pc'[d] = "commit" => elected'[d] \in Media
    BY <2>1, <2>2
  <2> QED
    BY <2>3, <2>4
<1>7. ASSUME NEW c \in Clicks, Acknowledge(c) PROVE NothingGoesMissing'
  BY <1>7 DEF Acknowledge
<1>8. ASSUME NEW c \in Clicks, StartResolve(c) PROVE NothingGoesMissing'
  BY <1>8 DEF StartResolve
<1>9. ASSUME NEW c \in Clicks, LockPoll(c) PROVE NothingGoesMissing'
  BY <1>9 DEF LockPoll
<1>10. ASSUME NEW c \in Clicks, CheckVotes(c) PROVE NothingGoesMissing'
  BY <1>10 DEF CheckVotes
<1>11. ASSUME NEW c \in Clicks, ReadCandidates(c) PROVE NothingGoesMissing'
  BY <1>11 DEF ReadCandidates
<1>12. ASSUME NEW c \in Clicks, CountBallots(c) PROVE NothingGoesMissing'
  <2>1. UNCHANGED ranks /\ pc[c] = "ballots"
    BY <1>12 DEF CountBallots
  <2>2. CASE pc' = [pc EXCEPT ![c] = "failed"] /\ elected' = [elected EXCEPT ![c] = NoMedia]
    BY <2>1, <2>2
  <2>3. CASE /\ pc' = [pc EXCEPT ![c] = "commit"]
             /\ \E m \in field[c] : elected' = [elected EXCEPT ![c] = m]
    BY <2>1, <2>3
  <2> QED
    BY <1>12, <2>2, <2>3 DEF CountBallots, Forget
<1>13. ASSUME NEW c \in Clicks, CommitWinner(c) PROVE NothingGoesMissing'
  BY <1>13 DEF CommitWinner, Forget
<1>14. ASSUME NEW c \in Clicks, Announce(c) PROVE NothingGoesMissing'
  BY <1>14 DEF Announce
<1>15. ASSUME NEW c \in Clicks, DiscordError(c) PROVE NothingGoesMissing'
  BY <1>15 DEF DiscordError
<1>16. ASSUME NEW b \in Bots, Crash(b) PROVE NothingGoesMissing'
  BY <1>16 DEF Crash, Ended
<1>17. ASSUME NEW m \in Handled, NEW s \in {"in_progress", "completed"}, MoveMedia(m, s) PROVE NothingGoesMissing'
  BY <1>17 DEF MoveMedia
<1>18. CASE UNCHANGED vars
  BY <1>18 DEF vars
<1> QED
  BY <1>1, <1>2, <1>3, <1>4, <1>5, <1>6, <1>7, <1>8, <1>9,
     <1>10, <1>11, <1>12, <1>13, <1>14, <1>15, <1>16, <1>17, <1>18 DEF Next, ServeClick

LEMMA DecisionInit == Init => SingleDecision /\ DeciderAnnounces
  BY DEF Init, SingleDecision, DeciderAnnounces, NoDecision

LEMMA DecisionStep ==
  TypeOK /\ LockIsHeld /\ NothingGoesMissing /\ SingleDecision /\ DeciderAnnounces /\ [Next]_vars
    => (SingleDecision /\ DeciderAnnounces)'
<1> DEFINE Goal == (SingleDecision /\ DeciderAnnounces)'
<1> SUFFICES ASSUME TypeOK, LockIsHeld, NothingGoesMissing, SingleDecision, DeciderAnnounces, [Next]_vars
             PROVE  Goal
  OBVIOUS
<1>0. /\ pc \in [Clicks -> PCs] /\ status \in {"initial", "completed"}
      /\ decisions \in Nat /\ announced \in Nat
  BY DEF TypeOK
<1> USE <1>0 DEF SingleDecision, DeciderAnnounces, Goto, pollVars, viewVars, localVars, historyVars
<1>1. ASSUME NEW v \in Views, NEW u \in Voters, Vote(v, u) PROVE Goal
  BY <1>1 DEF Vote
<1>2. ASSUME NEW v \in Views, NEW i \in 1..Cardinality(Media), Swap(v, i) PROVE Goal
  BY <1>2 DEF Swap
<1>3. ASSUME NEW v \in Views, ViewTimeout(v) PROVE Goal
  BY <1>3 DEF ViewTimeout
<1>4. ASSUME NEW c \in Clicks, NEW v \in Views, Confirm(c, v) PROVE Goal
  BY <1>4 DEF Confirm
<1>5. ASSUME NEW c \in Clicks, ShowThinking(c) PROVE Goal
  BY <1>5 DEF ShowThinking
<1>6. ASSUME NEW c \in Clicks, SaveVote(c) PROVE Goal
  BY <1>6 DEF SaveVote
<1>7. ASSUME NEW c \in Clicks, Acknowledge(c) PROVE Goal
  BY <1>7 DEF Acknowledge
<1>8. ASSUME NEW c \in Clicks, StartResolve(c) PROVE Goal
  BY <1>8 DEF StartResolve
<1>9. ASSUME NEW c \in Clicks, LockPoll(c) PROVE Goal
  BY <1>9 DEF LockPoll
<1>10. ASSUME NEW c \in Clicks, CheckVotes(c) PROVE Goal
  BY <1>10 DEF CheckVotes
<1>11. ASSUME NEW c \in Clicks, ReadCandidates(c) PROVE Goal
  BY <1>11 DEF ReadCandidates
<1>12. ASSUME NEW c \in Clicks, CountBallots(c) PROVE Goal
  BY <1>12 DEF CountBallots
<1>13. ASSUME NEW c \in Clicks, CommitWinner(c) PROVE Goal
  <2>0. pc[c] = "commit"
    BY <1>13 DEF CommitWinner
  <2>1. /\ status = "initial" /\ elected[c] \in Media
        /\ decisions = 0 /\ announced = 0
    <3>1. status = "initial"
      BY <2>0 DEF LockIsHeld, Locking
    <3>2. elected[c] \in Media
      BY <2>0 DEF NothingGoesMissing
    <3> QED
      BY <3>1, <3>2
  <2>2. /\ status' = "completed" /\ winner' = elected[c]
        /\ decisions' = decisions + 1 /\ announced' = announced
        /\ decision'.by = c /\ decision'.winner = elected[c]
    BY <1>13 DEF CommitWinner
  <2>3. SingleDecision'
    BY <2>1, <2>2
  <2>4. ASSUME NEW d \in Clicks, pc'[d] = "announce" PROVE d = c
    BY <1>13, <2>1, <2>4 DEF CommitWinner
  <2> QED
    BY <2>1, <2>2, <2>3, <2>4
<1>14. ASSUME NEW c \in Clicks, Announce(c) PROVE Goal
  BY <1>14 DEF Announce
<1>15. ASSUME NEW c \in Clicks, DiscordError(c) PROVE Goal
  BY <1>15 DEF DiscordError
<1>16. ASSUME NEW b \in Bots, Crash(b) PROVE Goal
  BY <1>16 DEF Crash, Ended
<1>17. ASSUME NEW m \in Handled, NEW s \in {"in_progress", "completed"}, MoveMedia(m, s) PROVE Goal
  BY <1>17 DEF MoveMedia
<1>18. CASE UNCHANGED vars
  BY <1>18 DEF vars
<1> QED
  BY <1>1, <1>2, <1>3, <1>4, <1>5, <1>6, <1>7, <1>8, <1>9,
     <1>10, <1>11, <1>12, <1>13, <1>14, <1>15, <1>16, <1>17, <1>18 DEF Next, ServeClick

LEMMA StallInit == Init => NoSilentStall
  BY PollAssumption DEF Init, NoSilentStall, AllVoted, NoBallots

LEMMA StallStep == TypeOK /\ NoSilentStall /\ [Next]_vars => NoSilentStall'
<1> SUFFICES ASSUME TypeOK, NoSilentStall, [Next]_vars, AllVoted', status' = "initial"
             PROVE  \E c \in Clicks : pc'[c] \in {"saved", "resolve", "failed"} \cup Synchronous
  BY DEF NoSilentStall
<1> DEFINE OnItsWay(p) == p \in {"saved", "resolve", "failed"} \cup Synchronous
<1>0. pc \in [Clicks -> PCs]
  BY DEF TypeOK
<1> USE <1>0 DEF Goto, pollVars, viewVars, localVars, historyVars, NoSilentStall, AllVoted, Synchronous, Locking
<1>1. ASSUME NEW v \in Views, NEW u \in Voters, Vote(v, u) PROVE \E d \in Clicks : OnItsWay(pc'[d])
  BY <1>1 DEF Vote
<1>2. ASSUME NEW v \in Views, NEW i \in 1..Cardinality(Media), Swap(v, i) PROVE \E d \in Clicks : OnItsWay(pc'[d])
  BY <1>2 DEF Swap
<1>3. ASSUME NEW v \in Views, ViewTimeout(v) PROVE \E d \in Clicks : OnItsWay(pc'[d])
  BY <1>3 DEF ViewTimeout
<1>4. ASSUME NEW c \in Clicks, NEW v \in Views, Confirm(c, v) PROVE \E d \in Clicks : OnItsWay(pc'[d])
  BY <1>4 DEF Confirm
<1>5. ASSUME NEW c \in Clicks, ShowThinking(c) PROVE \E d \in Clicks : OnItsWay(pc'[d])
  BY <1>5 DEF ShowThinking
<1>6. ASSUME NEW c \in Clicks, SaveVote(c) PROVE \E d \in Clicks : OnItsWay(pc'[d])
  BY <1>6 DEF SaveVote
<1>7. ASSUME NEW c \in Clicks, Acknowledge(c) PROVE \E d \in Clicks : OnItsWay(pc'[d])
  BY <1>7 DEF Acknowledge
<1>8. ASSUME NEW c \in Clicks, StartResolve(c) PROVE \E d \in Clicks : OnItsWay(pc'[d])
  BY <1>8 DEF StartResolve
<1>9. ASSUME NEW c \in Clicks, LockPoll(c) PROVE \E d \in Clicks : OnItsWay(pc'[d])
  BY <1>9 DEF LockPoll
<1>10. ASSUME NEW c \in Clicks, CheckVotes(c) PROVE \E d \in Clicks : OnItsWay(pc'[d])
  BY <1>10 DEF CheckVotes
<1>11. ASSUME NEW c \in Clicks, ReadCandidates(c) PROVE \E d \in Clicks : OnItsWay(pc'[d])
  BY <1>11 DEF ReadCandidates
<1>12. ASSUME NEW c \in Clicks, CountBallots(c) PROVE \E d \in Clicks : OnItsWay(pc'[d])
  BY <1>12 DEF CountBallots
<1>13. ASSUME NEW c \in Clicks, CommitWinner(c) PROVE \E d \in Clicks : OnItsWay(pc'[d])
  BY <1>13 DEF CommitWinner
<1>14. ASSUME NEW c \in Clicks, Announce(c) PROVE \E d \in Clicks : OnItsWay(pc'[d])
  BY <1>14 DEF Announce
<1>15. ASSUME NEW c \in Clicks, DiscordError(c) PROVE \E d \in Clicks : OnItsWay(pc'[d])
  BY <1>15 DEF DiscordError
<1>16. ASSUME NEW b \in Bots, Crash(b) PROVE \E d \in Clicks : OnItsWay(pc'[d])
  BY <1>16 DEF Crash, Ended
<1>17. ASSUME NEW m \in Handled, NEW s \in {"in_progress", "completed"}, MoveMedia(m, s) PROVE \E d \in Clicks : OnItsWay(pc'[d])
  BY <1>17 DEF MoveMedia
<1>18. CASE UNCHANGED vars
  BY <1>18 DEF vars
<1> QED
  BY <1>1, <1>2, <1>3, <1>4, <1>5, <1>6, <1>7, <1>8, <1>9,
     <1>10, <1>11, <1>12, <1>13, <1>14, <1>15, <1>16, <1>17, <1>18 DEF Next, ServeClick
-----------------------------------------------------------------------------
(* Every step of the poll is a step of its promise, or none. *)

LEMMA PromiseInit == Init => Promise!Init
  BY PollAssumption DEF Init, Promise!Init, NoBallots

\* Stutters: neither a ballot, nor the winner, nor an announcement.
LEMMA QuietStep ==
  ASSUME UNCHANGED <<ranks, winner, announced>>
  PROVE  UNCHANGED Promise!vars
  BY DEF Promise!vars

LEMMA PromiseStep == IInv /\ [Next]_vars => [Promise!Next]_(Promise!vars)
<1> SUFFICES ASSUME IInv, [Next]_vars PROVE [Promise!Next]_(Promise!vars)
  OBVIOUS
<1> DEFINE cast == {u \in Voters : ranks[u] # <<>>}
<1>0. NoMedia \notin Media
  BY PollAssumption
<1>1. ASSUME NEW c \in Clicks, SaveVote(c) PROVE Promise!Next
  <2>1. /\ viewUser[viewOf[c]] \in Voters /\ order[viewOf[c]] # <<>>
        /\ ranks' = [ranks EXCEPT ![viewUser[viewOf[c]]] = order[viewOf[c]]]
        /\ ranks \in [Voters -> Seq(Media)]
        /\ UNCHANGED <<winner, announced>>
    BY <1>1 DEF SaveVote, Goto, IInv, TypeOK, ViewsAreReady, ClicksHaveViews, historyVars
  <2>2. PICK u \in Voters : u = viewUser[viewOf[c]]
    BY <2>1
  <2>3. cast' = cast \cup {u}
    BY <2>1, <2>2
  <2>4. Promise!Cast(u)
    BY <2>1, <2>3 DEF Promise!Cast
  <2> QED
    BY <2>4 DEF Promise!Next
<1>2. ASSUME NEW c \in Clicks, CommitWinner(c) PROVE Promise!Next
  <2>1. pc[c] = "commit" /\ winner' = elected[c] /\ UNCHANGED <<ranks, announced>>
    BY <1>2 DEF CommitWinner, Goto
  <2>2. elected[c] \in Media /\ AllVoted
    BY <2>1 DEF IInv, NothingGoesMissing
  <2>3. status = "initial"
    BY <2>1 DEF IInv, LockIsHeld, Locking
  <2>4. winner = NoMedia
    BY <2>3 DEF IInv, DeciderAnnounces
  <2>5. Promise!Decide(elected[c])
    BY <2>1, <2>2, <2>4 DEF Promise!Decide, AllVoted
  <2> QED
    BY <2>2, <2>5 DEF Promise!Next
<1>3. ASSUME NEW c \in Clicks, Announce(c) PROVE Promise!Next
  <2>1. /\ pc[c] = "announce" /\ announced' = announced + 1
        /\ UNCHANGED <<ranks, winner>>
    BY <1>3 DEF Announce, Goto, pollVars
  <2>2. announced = 0 /\ decisions = 1
    BY <2>1 DEF IInv, DeciderAnnounces
  <2>3. winner \in Media
    BY <2>2 DEF IInv, DeciderAnnounces, SingleDecision, TypeOK
  <2>4. Promise!Tell
    BY <1>0, <2>1, <2>2, <2>3 DEF Promise!Tell
  <2> QED
    BY <2>4 DEF Promise!Next
<1>4. UNCHANGED <<ranks, winner, announced>> \/ \E c \in Clicks : SaveVote(c) \/ CommitWinner(c) \/ Announce(c)
  BY DEF Next, ServeClick, vars, pollVars, historyVars, Vote, Swap, ViewTimeout, Confirm,
         ShowThinking, Acknowledge, StartResolve, LockPoll, CheckVotes, ReadCandidates,
         CountBallots, DiscordError, Crash, MoveMedia
<1> QED
  BY <1>1, <1>2, <1>3, <1>4, QuietStep
-----------------------------------------------------------------------------
LEMMA InvariantInductive == (Init => IInv) /\ (IInv /\ [Next]_vars => IInv')
<1>1. Init => IInv
  BY TypeInit, ReadyInit, LockInit, MissingInit, DecisionInit, StallInit DEF IInv
<1>2. IInv /\ [Next]_vars => IInv'
  BY TypeStep, ReadyStep, LockStep, MissingStep, DecisionStep, StallStep DEF IInv
<1> QED
  BY <1>1, <1>2

LEMMA InvariantHolds == Spec => []IInv
  BY InvariantInductive, PTL DEF Spec

\* The rows, the views and the locals of every click keep their types: a stored
\* ballot is always a ranking of media, by media.
THEOREM TypeCorrect == Spec => []TypeOK
<1>1. IInv => TypeOK
  BY DEF IInv
<1> QED
  BY <1>1, InvariantHolds, PTL

\* However many voters confirm at once in however many processes, PollView.confirm
\* and Poll.resolve decide a poll once and announce the winner at most once.
THEOREM DecidedOnce == Spec => []SingleDecision
<1>1. IInv => SingleDecision
  BY DEF IInv
<1> QED
  BY <1>1, InvariantHolds, PTL

\* Unless a Confirm was cut short, a poll that everyone has voted in has a Confirm
\* that is still going to resolve it.
THEOREM NeverForgotten == Spec => []NoSilentStall
<1>1. IInv => NoSilentStall
  BY DEF IInv
<1> QED
  BY <1>1, InvariantHolds, PTL

\* The poll as the bot runs it, with its clicks, crashes and lost messages,
\* implements what it promises its voters.
THEOREM PromiseKept == Spec => KeepsPromise
<1>1. Init => Promise!Init
  BY PromiseInit
<1>2. IInv /\ [Next]_vars => [Promise!Next]_(Promise!vars)
  BY PromiseStep
<1> QED
  BY <1>1, <1>2, InvariantHolds, PTL DEF Spec, KeepsPromise, Promise!Spec
-----------------------------------------------------------------------------
(* No voter's own media get into a ballot. *)

LEMMA OrdersRank ==
  ASSUME NEW S \in SUBSET Media, NEW o \in Orders(S)
  PROVE  o \in Seq(Media) /\ \A i \in 1..Len(o) : o[i] \in S
<1>1. o \in Seq(Media)
  BY OrdersAreSequences
<1>2. o \in [1..Cardinality(S) -> S]
  BY DEF Orders
<1>3. DOMAIN o = 1..Len(o)
  BY <1>1, LenProperties
<1> QED
  BY <1>1, <1>2, <1>3

LEMMA ImpartialInit == Init => BallotsAreImpartial
  BY EmptySeq DEF Init, BallotsAreImpartial, Impartial, NoBallots

LEMMA ImpartialStep ==
  TypeOK /\ ClicksHaveViews /\ BallotsAreImpartial /\ [Next]_vars => BallotsAreImpartial'
<1> SUFFICES ASSUME TypeOK, ClicksHaveViews, BallotsAreImpartial, [Next]_vars
             PROVE  BallotsAreImpartial'
  OBVIOUS
<1>0. /\ order \in [Views -> Seq(Media)] /\ viewUser \in [Views -> Voters \cup {NoVoter}]
      /\ ranks \in [Voters -> Seq(Media)]
  BY DEF TypeOK
<1>1. ASSUME NEW v \in Views PROVE Impartial(order'[v], viewUser'[v])
  <2>1. Impartial(order[v], viewUser[v])
    BY DEF BallotsAreImpartial
  <2>2. CASE UNCHANGED <<order, viewUser>>
    BY <2>1, <2>2
  <2>3. ASSUME NEW w \in Views, NEW u \in Voters, Vote(w, u) PROVE Impartial(order'[v], viewUser'[v])
    <3>1. PICK o \in Orders(Offered(u)) : order' = [order EXCEPT ![w] = o]
      BY <2>3 DEF Vote
    <3>2. Offered(u) \in SUBSET Media
      BY DEF Offered, TypeOK
    <3>3. \A i \in 1..Len(o) : o[i] \in Offered(u)
      BY <3>1, <3>2, OrdersRank
    <3>4. Impartial(o, u)
      BY <3>3 DEF Impartial, Offered
    <3>5. viewUser' = [viewUser EXCEPT ![w] = u]
      BY <2>3 DEF Vote
    <3> QED
      BY <1>0, <2>1, <3>1, <3>4, <3>5
  <2>4. ASSUME NEW w \in Views, NEW i \in 1..Cardinality(Media), Swap(w, i)
        PROVE  Impartial(order'[v], viewUser'[v])
    <3> DEFINE t == [order[w] EXCEPT ![i] = order[w][i+1], ![i+1] = order[w][i]]
    <3>1. order' = [order EXCEPT ![w] = t] /\ UNCHANGED viewUser /\ i + 1 <= Len(order[w])
      BY <2>4 DEF Swap
    <3>2. order[w] \in Seq(Media) /\ t \in Seq(Media) /\ Len(t) = Len(order[w])
      BY <1>0, <3>1, SwapKeepsBallot
    <3>3. /\ DOMAIN order[w] = 1..Len(order[w]) /\ Len(order[w]) \in Nat
          /\ i \in 1..Len(order[w]) /\ i + 1 \in 1..Len(order[w])
      <4>1. Cardinality(Media) \in Nat
        BY FS_CardinalityType, PollAssumption
      <4> QED
        BY <3>1, <3>2, <4>1, LenProperties
    <3>4. \A k \in 1..Len(t) : \E j \in 1..Len(order[w]) : t[k] = order[w][j]
      BY <3>2, <3>3
    <3>5. Impartial(order[w], viewUser[w])
      BY DEF BallotsAreImpartial
    <3>6. Impartial(t, viewUser[w])
      <4> HIDE DEF t
      <4> QED
        BY <3>4, <3>5 DEF Impartial
    <3> HIDE DEF t
    <3> QED
      BY <1>0, <2>1, <3>1, <3>6
  <2> QED
    BY <2>2, <2>3, <2>4, WhoOrders
<1>2. ASSUME NEW u \in Voters PROVE Impartial(ranks'[u], u)
  <2>1. Impartial(ranks[u], u)
    BY DEF BallotsAreImpartial
  <2>2. ASSUME NEW c \in Clicks, SaveVote(c) PROVE Impartial(ranks'[u], u)
    <3>1. viewOf[c] \in Views /\ ranks' = [ranks EXCEPT ![viewUser[viewOf[c]]] = order[viewOf[c]]]
      BY <2>2 DEF SaveVote, Goto, ClicksHaveViews
    <3>2. Impartial(order[viewOf[c]], viewUser[viewOf[c]])
      BY <3>1 DEF BallotsAreImpartial
    <3> QED
      BY <1>0, <2>1, <3>1, <3>2
  <2> QED
    BY <2>1, <2>2, WhoSaves
<1> QED
  BY <1>1, <1>2 DEF BallotsAreImpartial
-----------------------------------------------------------------------------
(* The count is honest. *)

\* What pyrankvote makes of the ballots is a decision as HonestCount has it.
LEMMA CountIsHonest ==
  ASSUME NEW cast \in [Voters -> Seq(Media)], NEW over \in SUBSET Media, NEW w \in over,
         \A u \in Voters : cast[u] # <<>> /\ Impartial(cast[u], u),
         (\A u \in Voters : \A i \in 1..Len(cast[u]) : cast[u][i] \in over),
         NameOf[w] \in Winners([u \in Voters |-> Names(cast[u])], NamesOf(over))
  PROVE  Honest(over, cast, w)
<1> DEFINE named == [u \in Voters |-> Names(cast[u])]
           all == NamesOf(over)
<1>1. IsFiniteSet(over)
  BY FS_Subset, PollAssumption
<1>2. IsFiniteSet(all)
  <2> DEFINE f == [m \in over |-> NameOf[m]]
  <2>1. f \in Surjection(over, all)
    BY DEF Surjection, NamesOf
  <2> QED
    BY <1>1, <2>1, FS_Surjection
<1>3. ASSUME NEW u \in Voters
      PROVE  /\ Len(named[u]) = Len(cast[u]) /\ Len(cast[u]) \in Nat \ {0}
             /\ \A i \in 1..Len(cast[u]) : named[u][i] = NameOf[cast[u][i]] /\ named[u][i] \in all
  <2>1. Len(cast[u]) \in Nat /\ cast[u] # <<>> /\ cast[u] \in Seq(Media)
    BY LenProperties
  <2>2. Len(cast[u]) # 0
    BY <2>1, EmptySeq
  <2>3. named[u] = [i \in 1..Len(cast[u]) |-> NameOf[cast[u][i]]]
    BY DEF Names
  <2>4. \A i \in 1..Len(cast[u]) : named[u][i] = NameOf[cast[u][i]] /\ named[u][i] \in all
    BY <2>3 DEF NamesOf
  <2>5. named[u] \in Seq(all) /\ Len(named[u]) = Len(cast[u])
    <3>1. named[u] \in [1..Len(cast[u]) -> all]
      BY <2>3, <2>4
    <3> QED
      BY <2>1, <3>1, IsASeq, LenProperties
  <2> QED
    BY <2>1, <2>2, <2>4, <2>5
<1>4. DOMAIN named = Voters /\ IsFiniteSet(Voters)
  BY PollAssumption
<1> HIDE DEF named
<1>5. \E u \in Voters : \E i \in 1..Len(cast[u]) : NameOf[cast[u][i]] = NameOf[w]
  <2>1. Live(named, all) > 0
    <3> DEFINE living == {u \in Voters : Alive(named[u], all)}
    <3>1. PICK u \in Voters : TRUE
      BY PollAssumption
    <3>2. u \in living
      BY <1>3, <3>1 DEF Alive
    <3>3. IsFiniteSet(living) /\ living # {}
      BY <1>4, <3>2, FS_Subset
    <3>4. Cardinality(living) \in Nat /\ Cardinality(living) # 0
      BY <3>3, FS_EmptySet, FS_CardinalityType
    <3>5. Live(named, all) = Cardinality(living)
      BY <1>4 DEF Live
    <3> QED
      BY <3>4, <3>5
  <2>2. PICK u \in Voters : \E i \in 1..Len(named[u]) : named[u][i] = NameOf[w]
    <3>1. NameOf[w] \in Winners(named, all)
      BY DEF named
    <3>2. \A u \in DOMAIN named : Len(named[u]) \in Nat
      BY <1>3, <1>4
    <3> HIDE DEF all
    <3> QED
      BY <1>2, <1>4, <2>1, <3>1, <3>2, WinnerIsRanked
  <2> QED
    BY <1>3, <2>2
<1>6. ASSUME NEW m \in over,
             2 * Cardinality({u \in Voters : NameOf[cast[u][1]] = NameOf[m]}) > Cardinality(Voters)
      PROVE  NameOf[m] = NameOf[w]
  <2>1. {u \in DOMAIN named : named[u][1] = NameOf[m]} = {u \in Voters : NameOf[cast[u][1]] = NameOf[m]}
    <3>1. ASSUME NEW u \in Voters PROVE named[u][1] = NameOf[cast[u][1]]
      <4>1. 1 \in 1..Len(cast[u])
        BY <1>3
      <4> QED
        BY <1>3, <4>1
    <3> QED
      BY <1>4, <3>1
  <2>2. 2 * Cardinality({u \in DOMAIN named : named[u][1] = NameOf[m]}) > Cardinality(DOMAIN named)
    BY <1>4, <1>6, <2>1
  <2>3. NameOf[m] \in all
    BY DEF NamesOf
  <2>4. NameOf[w] \in Winners(named, all)
    BY DEF named
  <2>5. \A u \in DOMAIN named : Len(named[u]) \in Nat \ {0}
    BY <1>3, <1>4
  <2> HIDE DEF all
  <2> QED
    BY <1>2, <1>4, <2>2, <2>3, <2>4, <2>5, MajorityWins
<1> QED
  BY <1>5, <1>6 DEF Honest

LEMMA HonestDecision == HonestCount <=> (decisions > 0 => Honest(decision.over, decision.ballots, decision.winner))
  BY DEF HonestCount, Honest, Impartial

LEMMA HonestInit == Init => CommitsAreHonest /\ HonestCount
  BY DEF Init, CommitsAreHonest, HonestCount

LEMMA HonestStep ==
  TypeOK /\ BallotsAreImpartial /\ NothingGoesMissing /\ CommitsAreHonest /\ HonestCount /\ [Next]_vars
    => (CommitsAreHonest /\ HonestCount)'
<1> SUFFICES ASSUME TypeOK, BallotsAreImpartial, NothingGoesMissing, CommitsAreHonest, HonestCount, [Next]_vars
             PROVE  (CommitsAreHonest /\ HonestCount)'
  OBVIOUS
<1>1. ASSUME NEW d \in Clicks, pc'[d] = "commit" PROVE Honest(field'[d], ballots'[d], elected'[d])
  <2>1. CASE Counted(d)
    <3> DEFINE over == field[d]
    <3>1. ranks \in [Voters -> Seq(Media)] /\ over \in SUBSET Media
      BY DEF TypeOK
    <3>2. PICK w \in over : w = elected'[d]
      BY <2>1 DEF Counted
    <3>3. AllVoted
      BY <2>1 DEF Counted, NothingGoesMissing
    <3>4. \A u \in Voters : ranks[u] # <<>> /\ Impartial(ranks[u], u)
      BY <3>3 DEF AllVoted, BallotsAreImpartial
    <3>5. \A u \in Voters : \A i \in 1..Len(ranks[u]) : ranks[u][i] \in over
      BY <2>1 DEF Counted, Countable
    <3>6. NameOf[w] \in Winners([u \in Voters |-> Names(ranks[u])], NamesOf(over))
      BY <2>1, <3>2 DEF Counted
    <3>7. field'[d] = over /\ ballots'[d] = ranks
      BY <2>1 DEF Counted
    <3> HIDE DEF over
    <3>8. Honest(over, ranks, w)
      BY <3>1, <3>4, <3>5, <3>6, CountIsHonest
    <3> QED
      BY <3>2, <3>7, <3>8
  <2> QED
    BY <1>1, <2>1, WhoCommits DEF CommitsAreHonest
<1>2. HonestCount'
  <2>1. ASSUME NEW c \in Clicks, CommitWinner(c) PROVE HonestCount'
    <3>1. Honest(field[c], ballots[c], elected[c])
      BY <2>1 DEF CommitWinner, Goto, CommitsAreHonest
    <3>2. decision' = [by |-> c, over |-> field[c], ballots |-> ballots[c], winner |-> elected[c]]
      BY <2>1 DEF CommitWinner
    <3>3. Honest(decision'.over, decision'.ballots, decision'.winner)
      BY <3>1, <3>2
    <3> QED
      BY <3>3 DEF HonestCount, Honest, Impartial
  <2>2. CASE UNCHANGED <<decisions, decision>>
    BY <2>2 DEF HonestCount
  <2> QED
    BY <2>1, <2>2, WhoDecides
<1> QED
  BY <1>1, <1>2 DEF CommitsAreHonest
-----------------------------------------------------------------------------
(* A ballot in the row is of a click, and a changed one of another click. *)

LEMMA ClicksInit == Init => BallotsHaveClicks /\ CountedBallotsStand /\ RevisionNeedsSecondClick
  BY DEF Init, BallotsHaveClicks, CountedBallotsStand, RevisionNeedsSecondClick, NoBallots

\* The user of a view in use and the view of a click under way never change, and a
\* click that has saved has saved.
LEMMA ClicksStay ==
  ASSUME TypeOK, ViewsAreReady, ClicksHaveViews, BallotsHaveClicks, [Next]_vars, NEW d \in Clicks,
         viewOf[d] \in Views
  PROVE  /\ viewOf'[d] = viewOf[d] /\ viewUser'[viewOf[d]] = viewUser[viewOf[d]]
         /\ pc[d] \notin {"idle", "thinking", "save"} => pc'[d] \notin {"idle", "thinking", "save"}
<1> DEFINE Goal == /\ viewOf'[d] = viewOf[d] /\ viewUser'[viewOf[d]] = viewUser[viewOf[d]]
                   /\ pc[d] \notin {"idle", "thinking", "save"} => pc'[d] \notin {"idle", "thinking", "save"}
<1>0. pc[d] # "idle" /\ viewState[viewOf[d]] # "unused"
  BY PollAssumption DEF BallotsHaveClicks, ClicksHaveViews
<1> USE <1>0 DEF TypeOK, Goto, viewVars
<1>1. ASSUME NEW v \in Views, NEW u \in Voters, Vote(v, u) PROVE Goal
  BY <1>1 DEF Vote
<1>2. ASSUME NEW v \in Views, NEW i \in 1..Cardinality(Media), Swap(v, i) PROVE Goal
  BY <1>2 DEF Swap
<1>3. ASSUME NEW v \in Views, ViewTimeout(v) PROVE Goal
  BY <1>3 DEF ViewTimeout
<1>4. ASSUME NEW c \in Clicks, NEW v \in Views, Confirm(c, v) PROVE Goal
  BY <1>4 DEF Confirm
<1>5. ASSUME NEW c \in Clicks, ShowThinking(c) PROVE Goal
  BY <1>5 DEF ShowThinking
<1>6. ASSUME NEW c \in Clicks, SaveVote(c) PROVE Goal
  BY <1>6 DEF SaveVote
<1>7. ASSUME NEW c \in Clicks, Acknowledge(c) PROVE Goal
  BY <1>7 DEF Acknowledge
<1>8. ASSUME NEW c \in Clicks, StartResolve(c) PROVE Goal
  BY <1>8 DEF StartResolve
<1>9. ASSUME NEW c \in Clicks, LockPoll(c) PROVE Goal
  BY <1>9 DEF LockPoll
<1>10. ASSUME NEW c \in Clicks, CheckVotes(c) PROVE Goal
  BY <1>10 DEF CheckVotes
<1>11. ASSUME NEW c \in Clicks, ReadCandidates(c) PROVE Goal
  BY <1>11 DEF ReadCandidates
<1>12. ASSUME NEW c \in Clicks, CountBallots(c) PROVE Goal
  BY <1>12 DEF CountBallots
<1>13. ASSUME NEW c \in Clicks, CommitWinner(c) PROVE Goal
  BY <1>13 DEF CommitWinner
<1>14. ASSUME NEW c \in Clicks, Announce(c) PROVE Goal
  BY <1>14 DEF Announce
<1>15. ASSUME NEW c \in Clicks, DiscordError(c) PROVE Goal
  BY <1>15 DEF DiscordError, Ended
<1>16. ASSUME NEW b \in Bots, Crash(b) PROVE Goal
  BY <1>16 DEF Crash, Ended
<1>17. ASSUME NEW m \in Handled, NEW s \in {"in_progress", "completed"}, MoveMedia(m, s) PROVE Goal
  BY <1>17 DEF MoveMedia
<1>18. CASE UNCHANGED vars
  BY <1>18 DEF vars
<1> QED
  BY <1>1, <1>2, <1>3, <1>4, <1>5, <1>6, <1>7, <1>8, <1>9,
     <1>10, <1>11, <1>12, <1>13, <1>14, <1>15, <1>16, <1>17, <1>18 DEF Next, ServeClick

LEMMA TwiceStays ==
  ASSUME TypeOK, ViewsAreReady, ClicksHaveViews, BallotsHaveClicks, [Next]_vars, NEW u \in Voters
  PROVE  Twice(u) => Twice(u)'
  BY ClicksStay DEF Twice

LEMMA CastStays ==
  ASSUME TypeOK, ViewsAreReady, ClicksHaveViews, BallotsHaveClicks, [Next]_vars, NEW u \in Voters,
         NEW c \in Clicks, Cast(c, u)
  PROVE  Cast(c, u)'
  BY ClicksStay DEF Cast

\* save_vote over a ballot is the work of a second click.
LEMMA SecondClick ==
  ASSUME TypeOK, ViewsAreReady, ClicksHaveViews, BallotsHaveClicks, [Next]_vars, NEW u \in Voters,
         ranks[u] # <<>>
  PROVE  ranks'[u] = ranks[u] \/ Twice(u)
<1>1. ASSUME NEW d \in Clicks, SaveVote(d), viewUser[viewOf[d]] = u PROVE Twice(u)
  <2>1. PICK c \in Clicks : Cast(c, u)
    BY DEF BallotsHaveClicks
  <2>2. pc[d] = "save" /\ viewOf[d] \in Views
    BY <1>1 DEF SaveVote, Goto, ClicksHaveViews
  <2>3. c # d
    BY <2>1, <2>2 DEF Cast
  <2> QED
    BY <1>1, <2>1, <2>2, <2>3 DEF Cast, Twice
<1>2. ASSUME NEW d \in Clicks, SaveVote(d), viewUser[viewOf[d]] # u PROVE ranks'[u] = ranks[u]
  BY <1>2 DEF SaveVote, TypeOK
<1> QED
  BY <1>1, <1>2, WhoSaves

LEMMA ClicksStep ==
  TypeOK /\ ViewsAreReady /\ ClicksHaveViews /\ BallotsHaveClicks /\ [Next]_vars => BallotsHaveClicks'
<1> SUFFICES ASSUME TypeOK, ViewsAreReady, ClicksHaveViews, BallotsHaveClicks, [Next]_vars
             PROVE  BallotsHaveClicks'
  OBVIOUS
<1>1. ASSUME NEW c \in Clicks, pc'[c] = "idle" PROVE viewOf'[c] = NoView
  <2>1. pc[c] = "idle" /\ viewOf'[c] = viewOf[c]
    BY <1>1, WhoWaits
  <2> QED
    BY <2>1 DEF BallotsHaveClicks
<1>2. ASSUME NEW u \in Voters, ranks'[u] # <<>> PROVE \E c \in Clicks : Cast(c, u)'
  <2>1. CASE ranks[u] # <<>>
    <3>1. PICK c \in Clicks : Cast(c, u)
      BY <2>1 DEF BallotsHaveClicks
    <3> QED
      BY <3>1, CastStays
  <2>2. CASE ranks[u] = <<>>
    <3>1. PICK d \in Clicks : SaveVote(d)
      BY <1>2, <2>2, WhoSaves
    <3>2. viewOf[d] \in Views
      BY <3>1 DEF SaveVote, Goto, ClicksHaveViews
    <3>3. viewUser[viewOf[d]] = u
      BY <1>2, <2>2, <3>1 DEF SaveVote, TypeOK
    <3>4. pc'[d] = "saved" /\ UNCHANGED <<viewOf, viewUser>>
      BY <3>1 DEF SaveVote, Goto, TypeOK, viewVars
    <3>5. Cast(d, u)'
      BY <3>2, <3>3, <3>4 DEF Cast
    <3> QED
      BY <3>5
  <2> QED
    BY <2>1, <2>2
<1> QED
  BY <1>1, <1>2 DEF BallotsHaveClicks

\* A click that has counted leaves every ballot as it counted it, or a second click
\* of the voter is there; so does the decision.
LEMMA RevisionStep ==
  IInv /\ BallotsHaveClicks /\ CountedBallotsStand /\ RevisionNeedsSecondClick /\ [Next]_vars
    => (CountedBallotsStand /\ RevisionNeedsSecondClick)'
<1> SUFFICES ASSUME IInv, BallotsHaveClicks, CountedBallotsStand, RevisionNeedsSecondClick, [Next]_vars
             PROVE  (CountedBallotsStand /\ RevisionNeedsSecondClick)'
  OBVIOUS
<1>0. TypeOK /\ ViewsAreReady /\ ClicksHaveViews /\ NothingGoesMissing
  BY DEF IInv
<1>a. \A u \in Voters : ranks[u] # <<>> => ranks'[u] # <<>>
  BY <1>0, BallotsStay
<1>b. \A u \in Voters : ranks[u] # <<>> => ranks'[u] = ranks[u] \/ Twice(u)'
  BY <1>0, SecondClick, TwiceStays
<1>c. \A u \in Voters : Twice(u) => Twice(u)'
  BY <1>0, TwiceStays
<1>1. ASSUME NEW d \in Clicks, pc'[d] = "commit", NEW u \in Voters
      PROVE  ranks'[u] = ballots'[d][u] \/ Twice(u)'
  <2>1. CASE Counted(d)
    BY <2>1 DEF Counted
  <2>2. CASE pc[d] = "commit" /\ ballots'[d] = ballots[d]
    <3>1. ranks[u] = ballots[d][u] \/ Twice(u)
      BY <2>2 DEF CountedBallotsStand
    <3>2. ranks[u] # <<>>
      BY <1>0, <2>2 DEF NothingGoesMissing, AllVoted
    <3> QED
      BY <1>b, <1>c, <2>2, <3>1, <3>2
  <2> QED
    BY <1>0, <1>1, <2>1, <2>2, WhoCommits
<1>2. ASSUME decisions' > 0 PROVE AllVoted' /\ \A u \in Voters : ranks'[u] = decision'.ballots[u] \/ Twice(u)'
  <2>1. CASE UNCHANGED <<decisions, decision>>
    <3>1. decisions > 0
      BY <1>2, <2>1
    <3>2. AllVoted
      BY <3>1 DEF CountedBallotsStand
    <3>3. \A u \in Voters : ranks[u] = decision.ballots[u] \/ Twice(u)
      BY <3>1 DEF RevisionNeedsSecondClick, Twice
    <3> QED
      BY <1>a, <1>b, <1>c, <2>1, <3>2, <3>3 DEF AllVoted
  <2>2. ASSUME NEW c \in Clicks, CommitWinner(c)
        PROVE  AllVoted' /\ \A u \in Voters : ranks'[u] = decision'.ballots[u] \/ Twice(u)'
    <3>1. /\ pc[c] = "commit" /\ decision'.ballots = ballots[c]
          /\ UNCHANGED ranks
      BY <2>2 DEF CommitWinner, Goto
    <3>2. AllVoted
      BY <1>0, <3>1 DEF NothingGoesMissing
    <3>3. \A u \in Voters : ranks[u] = ballots[c][u] \/ Twice(u)
      BY <3>1 DEF CountedBallotsStand
    <3> QED
      BY <1>a, <1>c, <3>1, <3>2, <3>3 DEF AllVoted
  <2> QED
    BY <2>1, <2>2, WhoDecides
<1>3. CountedBallotsStand'
  BY <1>1, <1>2 DEF CountedBallotsStand
<1>4. RevisionNeedsSecondClick'
  BY <1>2 DEF RevisionNeedsSecondClick, Twice
<1> QED
  BY <1>3, <1>4
-----------------------------------------------------------------------------
LEMMA CountInvariantHolds == Spec => []CInv
<1>1. Init => CInv
  BY ImpartialInit, HonestInit, ClicksInit DEF CInv
<1>2. IInv /\ CInv /\ [Next]_vars => CInv'
  BY ImpartialStep, HonestStep, ClicksStep, RevisionStep DEF IInv, CInv
<1> QED
  BY <1>1, <1>2, InvariantHolds, PTL DEF Spec

\* Poll.resolve counts real ballots: one of every voter, none of which ranks what
\* the voter added, and elects a candidate that somebody ranked, and the one that
\* more than half put first if there is one.
THEOREM CountedHonestly == Spec => []HonestCount
<1>1. CInv => HonestCount
  BY DEF CInv
<1> QED
  BY <1>1, CountInvariantHolds, PTL

\* save_vote may replace a ballot after it was counted, but only for a voter who
\* confirmed a second time.
THEOREM RevisedByTheVoter == Spec => []RevisionNeedsSecondClick
<1>1. CInv => RevisionNeedsSecondClick
  BY DEF CInv
<1> QED
  BY <1>1, CountInvariantHolds, PTL
-----------------------------------------------------------------------------
(* The poll and its change form. *)

LEMMA FormInitHolds == FormInit => FormInv
<1> SUFFICES ASSUME FormInit PROVE FormInv
  OBVIOUS
<1>1. Init /\ form = NoForm /\ opened = 0
  BY DEF FormInit
<1>2. /\ TypeOK /\ ViewsAreReady /\ ClicksHaveViews /\ LockIsHeld /\ NothingGoesMissing
  BY <1>1, TypeInit, ReadyInit, LockInit, MissingInit
<1>3. FormTypeOK
  BY <1>1, <1>2, FormAssumption DEF FormTypeOK
<1>4. FieldIsCurrent /\ OpeningsPay
  BY <1>1 DEF Init, FieldIsCurrent, OpeningsPay
<1> QED
  BY <1>2, <1>3, <1>4 DEF FormInv

\* A step of the voters, their clicks or the staff who move media.
LEMMA FormPollStep == FormInv /\ [Next]_vars /\ UNCHANGED <<form, opened>> => FormInv'
<1> SUFFICES ASSUME FormInv, [Next]_vars, UNCHANGED <<form, opened>> PROVE FormInv'
  OBVIOUS
<1>0. /\ TypeOK /\ ViewsAreReady /\ ClicksHaveViews /\ LockIsHeld /\ NothingGoesMissing
      /\ FormTypeOK /\ FieldIsCurrent /\ OpeningsPay
  BY DEF FormInv, FormTypeOK
<1>1. (TypeOK /\ ViewsAreReady /\ ClicksHaveViews /\ LockIsHeld /\ NothingGoesMissing)'
  BY <1>0, TypeStep, ReadyStep, LockStep, MissingStep
<1>2. FormTypeOK'
  BY <1>0, <1>1 DEF FormTypeOK
<1>3. UNCHANGED candidates
  BY WhoDecides
<1>4. FieldIsCurrent'
  <2>1. ASSUME NEW d \in Clicks, pc'[d] = "ballots" PROVE field'[d] = candidates
    BY <1>0, <2>1, WhoReads DEF FieldIsCurrent
  <2>2. ASSUME NEW d \in Clicks, pc'[d] = "commit"
        PROVE  /\ field'[d] = candidates /\ elected'[d] \in field'[d]
               /\ \A u \in Voters : ballots'[d][u] # <<>>
    <3>1. CASE Counted(d)
      <4>1. AllVoted /\ field[d] = candidates
        BY <1>0, <3>1 DEF Counted, NothingGoesMissing, FieldIsCurrent
      <4>2. field'[d] = field[d] /\ ballots'[d] = ranks /\ elected'[d] \in field[d]
        BY <3>1 DEF Counted
      <4> QED
        BY <4>1, <4>2 DEF AllVoted
    <3> QED
      BY <1>0, <2>2, <3>1, WhoCommits DEF FieldIsCurrent
  <2> QED
    BY <1>3, <2>1, <2>2 DEF FieldIsCurrent
<1>5. OpeningsPay'
  <2>1. CASE UNCHANGED <<decisions, status>>
    BY <1>0, <2>1 DEF OpeningsPay
  <2>2. ASSUME NEW c \in Clicks, CommitWinner(c) PROVE OpeningsPay'
    <3>1. pc[c] = "commit" /\ decisions' = decisions + 1 /\ status' = "completed"
      BY <2>2 DEF CommitWinner, Goto
    <3>2. status = "initial"
      BY <1>0, <3>1 DEF LockIsHeld, Locking
    <3>3. decisions \in Nat /\ opened \in Nat
      BY <1>0, FormAssumption DEF FormTypeOK, TypeOK
    <3> QED
      BY <1>0, <3>1, <3>2, <3>3 DEF OpeningsPay
  <2> QED
    BY <2>1, <2>2, WhoDecides
<1> QED
  BY <1>1, <1>2, <1>4, <1>5 DEF FormInv

LEMMA FormOpenStep == FormInv /\ OpenForm => FormInv'
<1> SUFFICES ASSUME FormInv, OpenForm PROVE FormInv'
  OBVIOUS
<1>1. UNCHANGED vars
  BY DEF OpenForm
<1>2. (TypeOK /\ ViewsAreReady /\ ClicksHaveViews /\ LockIsHeld /\ NothingGoesMissing /\ FieldIsCurrent)'
  <2>1. (TypeOK /\ ViewsAreReady /\ ClicksHaveViews /\ LockIsHeld /\ NothingGoesMissing)'
    BY <1>1, TypeStep, ReadyStep, LockStep, MissingStep DEF FormInv, FormTypeOK
  <2>2. FieldIsCurrent'
    BY <1>1 DEF FormInv, FieldIsCurrent, vars, pollVars, localVars
  <2> QED
    BY <2>1, <2>2
<1>3. FormTypeOK'
  <2>1. opened \in Nat /\ opened < MaxForms /\ MaxForms \in Nat
    BY FormAssumption DEF OpenForm, FormInv, FormTypeOK
  <2>2. opened' \in 0..MaxForms
    BY <2>1 DEF OpenForm
  <2>3. form' \in [status : {"initial", "completed"}, winner : Media \cup {NoMedia}, ranks : [Voters -> Seq(Media)]]
    BY DEF OpenForm, FormInv, FormTypeOK, TypeOK
  <2> QED
    BY <1>2, <2>2, <2>3 DEF FormTypeOK
<1>4. OpeningsPay'
  <2>1. /\ decisions' = decisions /\ status' = status /\ form = NoForm /\ opened' = opened + 1
    BY <1>1 DEF OpenForm, vars, pollVars, historyVars
  <2>2. decisions \in Nat /\ opened \in Nat
    BY FormAssumption DEF FormInv, FormTypeOK, TypeOK
  <2> QED
    BY <2>1, <2>2 DEF FormInv, OpeningsPay
<1> QED
  BY <1>2, <1>3, <1>4 DEF FormInv

\* The form waits for the row lock, so no click stands between its reads and its
\* commit when the form writes.
LEMMA FormSaveStep == FormInv /\ SaveForm => FormInv'
<1> SUFFICES ASSUME FormInv, SaveForm PROVE FormInv'
  OBVIOUS
<1>0. /\ TypeOK /\ ViewsAreReady /\ ClicksHaveViews /\ LockIsHeld /\ FormTypeOK /\ OpeningsPay
  BY DEF FormInv, FormTypeOK
<1>1. \A c \in Clicks : pc[c] \notin Locking
  BY <1>0, PollAssumption DEF SaveForm, LockIsHeld
<1>2. /\ form \in [status : {"initial", "completed"}, winner : Media \cup {NoMedia}, ranks : [Voters -> Seq(Media)]]
      /\ form # NoForm /\ form' = NoForm /\ opened' = opened
  BY <1>0 DEF FormTypeOK, SaveForm
<1>3. /\ status' = form.status /\ winner' = form.winner /\ ranks' = form.ranks /\ candidates' \in SUBSET Media
      /\ UNCHANGED <<mediaStatus, rowLock, viewState, viewUser, order, pc, viewOf, field, ballots, elected,
                     faults, decisions, decision, announced>>
  BY DEF SaveForm, viewVars, localVars, historyVars
<1>4. TypeOK'
  BY <1>0, <1>2, <1>3 DEF TypeOK
<1>5. FormTypeOK'
  BY <1>0, <1>2, <1>4 DEF FormTypeOK
<1>6. (ViewsAreReady /\ ClicksHaveViews)'
  BY <1>0, <1>3 DEF ViewsAreReady, ClicksHaveViews
<1>7. (LockIsHeld /\ NothingGoesMissing /\ FieldIsCurrent)'
  <2>1. rowLock = NoClick
    BY DEF SaveForm
  <2> QED
    BY <1>1, <1>3, <2>1 DEF LockIsHeld, NothingGoesMissing, FieldIsCurrent, Locking
<1>8. OpeningsPay'
  <2>1. decisions \in Nat /\ opened \in Nat
    BY <1>0, FormAssumption DEF FormTypeOK, TypeOK
  <2> QED
    BY <1>0, <1>2, <1>3, <2>1 DEF OpeningsPay
<1> QED
  BY <1>4, <1>5, <1>6, <1>7, <1>8 DEF FormInv

LEMMA FormInvariantHolds == FormSpec => []FormInv
<1>1. FormInit => FormInv
  BY FormInitHolds
<1>2. FormInv /\ [FormNext]_formVars => FormInv'
  <2>1. [FormNext]_formVars => ([Next]_vars /\ UNCHANGED <<form, opened>>) \/ OpenForm \/ SaveForm
    BY DEF FormNext, formVars
  <2> QED
    BY <2>1, FormPollStep, FormOpenStep, FormSaveStep
<1> QED
  BY <1>1, <1>2, PTL DEF FormSpec

\* The row keeps its types through the form, which writes back what it has read.
THEOREM FormTypeCorrect == FormSpec => []FormTypeOK
<1>1. FormInv => FormTypeOK
  BY DEF FormInv
<1> QED
  BY <1>1, FormInvariantHolds, PTL

\* A poll is decided again only after its change form was opened again.
THEOREM FormReopens == FormSpec => []ReopenedOnlyByForm
<1>1. FormInv => ReopenedOnlyByForm
  <2>1. FormInv => decisions \in Nat /\ opened \in Nat
    BY FormAssumption DEF FormInv, FormTypeOK, TypeOK
  <2> QED
    BY <2>1 DEF FormInv, OpeningsPay, ReopenedOnlyByForm
<1> QED
  BY <1>1, FormInvariantHolds, PTL

\* Whatever the form writes and whenever, Poll.resolve commits over the candidates,
\* the ballots and the status of one and the same state of the poll.
THEOREM FormStaysOut == FormSpec => ResolvesOneState
<1> DEFINE OneState == decisions' # decisions =>
                         /\ status = "initial" /\ candidates' = candidates
                         /\ winner' \in candidates
                         /\ \A u \in Voters : decision'.ballots[u] # <<>>
<1>1. FormInv /\ [FormNext]_formVars => [OneState]_formVars
  <2>1. SUFFICES ASSUME FormInv, [FormNext]_formVars, decisions' # decisions PROVE OneState
    BY DEF formVars
  <2>2. [Next]_vars
    BY <2>1 DEF FormNext, formVars, OpenForm, SaveForm, vars, historyVars
  <2>3. PICK c \in Clicks : CommitWinner(c)
    BY <2>1, <2>2, WhoDecides
  <2>4. pc[c] = "commit" /\ winner' = elected[c] /\ decision'.ballots = ballots[c] /\ UNCHANGED candidates
    BY <2>3 DEF CommitWinner, Goto
  <2>5. status = "initial"
    BY <2>1, <2>4 DEF FormInv, LockIsHeld, Locking
  <2>6. field[c] = candidates /\ elected[c] \in field[c] /\ \A u \in Voters : ballots[c][u] # <<>>
    BY <2>1, <2>4 DEF FormInv, FieldIsCurrent
  <2> QED
    BY <2>4, <2>5, <2>6
<1> HIDE DEF OneState
<1>2. [][OneState]_formVars => ResolvesOneState
  BY DEF OneState, ResolvesOneState
<1> QED
  BY <1>1, <1>2, FormInvariantHolds, PTL DEF FormSpec
=============================================================================
