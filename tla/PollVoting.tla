---------------------------- MODULE PollVoting ----------------------------
(* One poll: its row and its votes in the database, the /vote views that     *)
(* Discord users rank candidates in, and the Confirm clicks being served.    *)
(* A click is a coroutine of a bot process.  Between two awaits the other    *)
(* clicks, the other bot process (an old one still running during a restart) *)
(* and the staff, who move media between statuses, may act.                  *)
EXTENDS Naturals, Sequences, FiniteSets, InstantRunoff

CONSTANTS
  Voters,      \* the users invited to the poll (one Vote row each)
  Media,       \* the media
  Nominated,   \* Poll.candidates when the poll is opened
  CreatorOf,   \* Media.creator
  NameOf,      \* Media.name, unique only within a category
  Views,       \* the PollViews that /vote may open
  Clicks,      \* the Confirm interactions that Discord may deliver
  Bots,        \* the bot processes
  BotOf,       \* the process that a view lives in
  Handled,     \* the media whose status the staff may change (bound)
  MaxFaults,   \* failed Discord calls and bot crashes, together (bound)
  NoClick, NoView, NoVoter, NoMedia

ASSUME PollAssumption ==
  /\ IsFiniteSet(Voters) /\ Voters # {} /\ NoVoter \notin Voters
  /\ IsFiniteSet(Media) /\ NoMedia \notin Media
  /\ Nominated \subseteq Media
  /\ BotOf \in [Views -> Bots]
  /\ NoClick \notin Clicks
  /\ NoView \notin Views
  /\ MaxFaults \in Nat

VARIABLES
  status, winner, candidates,    \* the Poll row and its many-to-many table
  ranks,                         \* Vote.ranks of each voter
  mediaStatus,                   \* Media.assessment_status
  rowLock,                       \* the click whose transaction locks the poll row
  viewState, viewUser, order,    \* PollView: alive or not, user, self.candidates
  pc, viewOf,                    \* each click: where it stands, its view
  field, ballots, elected,       \* each click: the locals of Poll.resolve
  faults,
  decisions, decision, announced \* history: commits of a result, the last one, announcements

pollVars == <<status, winner, candidates, ranks>>
viewVars == <<viewState, viewUser, order>>
localVars == <<field, ballots, elected>>
historyVars == <<decisions, decision, announced>>
vars == <<pollVars, mediaStatus, rowLock, viewVars, pc, viewOf, localVars, faults, historyVars>>
-----------------------------------------------------------------------------
MediaStatuses == {"initial", "in_progress", "completed"}

\* check_resolve holds the row lock from its first statement to its commit ...
Locking == {"check", "candidates", "ballots", "commit"}

\* ... and the one thread that runs a process's synchronous code, already while
\* it waits for the lock.
Synchronous == Locking \cup {"lock"}

Awaiting == {"thinking", "save", "saved", "resolve", "announce"}
Ended == {"done", "failed"}
PCs == {"idle"} \cup Awaiting \cup Synchronous \cup Ended

NoBallots == [u \in Voters |-> <<>>]
NoDecision == [by |-> NoClick, over |-> {}, ballots |-> NoBallots, winner |-> NoMedia]

\* Every ordering of a set of media.
Orders(S) == {o \in [1..Cardinality(S) -> S] : \A i, j \in 1..Cardinality(S) : o[i] = o[j] => i = j}

\* The ballot as pyrankvote sees it, which tells candidates apart by name.
Names(ballot) == [i \in 1..Len(ballot) |-> NameOf[ballot[i]]]
NamesOf(S) == {NameOf[m] : m \in S}

ThreadFree(b) == \A c \in Clicks : pc[c] \in Synchronous => BotOf[viewOf[c]] # b

\* Faulty: the first ballot is enough.
SomeVoted == \E u \in Voters : ranks[u] # <<>>

AllVoted == \A u \in Voters : ranks[u] # <<>>
-----------------------------------------------------------------------------
Init ==
  /\ status = "initial" /\ winner = NoMedia /\ candidates = Nominated
  /\ ranks = NoBallots
  /\ mediaStatus = [m \in Media |-> "initial"]
  /\ rowLock = NoClick
  /\ viewState = [v \in Views |-> "unused"]
  /\ viewUser = [v \in Views |-> NoVoter]
  /\ order = [v \in Views |-> <<>>]
  /\ pc = [c \in Clicks |-> "idle"]
  /\ viewOf = [c \in Clicks |-> NoView]
  /\ field = [c \in Clicks |-> {}]
  /\ ballots = [c \in Clicks |-> NoBallots]
  /\ elected = [c \in Clicks |-> NoMedia]
  /\ faults = 0
  /\ decisions = 0 /\ decision = NoDecision /\ announced = 0

\* What /vote offers u: the candidates still unassessed that u did not add.
Offered(u) == {m \in candidates : mediaStatus[m] = "initial" /\ CreatorOf[m] # u}

\* The /vote command and the choice of this poll from its list: only for an open
\* poll u is invited to, has not voted in and can rank something in.  The view
\* keeps the candidates it was opened with, in a random order.
Vote(v, u) ==
  /\ viewState[v] = "unused" /\ ThreadFree(BotOf[v])
  /\ status = "initial" /\ ranks[u] = <<>> /\ Offered(u) # {}
  /\ viewState' = [viewState EXCEPT ![v] = "open"]
  /\ viewUser' = [viewUser EXCEPT ![v] = u]
  /\ \E o \in Orders(Offered(u)) : order' = [order EXCEPT ![v] = o]
  /\ UNCHANGED <<pollVars, mediaStatus, rowLock, pc, viewOf, localVars, faults, historyVars>>

\* The voter moves one of the candidates past its neighbour.  Nothing stops this
\* while a Confirm of the same view is being served.
Swap(v, i) ==
  /\ viewState[v] = "open" /\ i + 1 <= Len(order[v])
  /\ order' = [order EXCEPT ![v][i] = order[v][i+1], ![v][i+1] = order[v][i]]
  /\ UNCHANGED <<pollVars, mediaStatus, rowLock, viewState, viewUser, pc, viewOf,
                 localVars, faults, historyVars>>

\* discord.py stops delivering clicks to a view that has been left alone.
ViewTimeout(v) ==
  /\ viewState[v] = "open"
  /\ viewState' = [viewState EXCEPT ![v] = "gone"]
  /\ UNCHANGED <<pollVars, mediaStatus, rowLock, viewUser, order, pc, viewOf,
                 localVars, faults, historyVars>>
-----------------------------------------------------------------------------
(* A Confirm click, one action per await and per statement.                  *)

Goto(c, from, to) == pc[c] = from /\ pc' = [pc EXCEPT ![c] = to]

Forget(c) ==
  /\ field' = [field EXCEPT ![c] = {}]
  /\ ballots' = [ballots EXCEPT ![c] = NoBallots]
  /\ elected' = [elected EXCEPT ![c] = NoMedia]

Confirm(c, v) ==
  /\ viewState[v] = "open"
  /\ Goto(c, "idle", "thinking")
  /\ viewOf' = [viewOf EXCEPT ![c] = v]
  /\ UNCHANGED <<pollVars, mediaStatus, rowLock, viewVars, localVars, faults, historyVars>>

ShowThinking(c) ==
  /\ Goto(c, "thinking", "save")
  /\ UNCHANGED <<pollVars, mediaStatus, rowLock, viewVars, viewOf, localVars, faults, historyVars>>

\* Faulty: stores the rows of the embed instead of the media they show.
SaveRows(c) ==
  /\ Goto(c, "save", "saved") /\ ThreadFree(BotOf[viewOf[c]])
  /\ ranks' = [ranks EXCEPT ![viewUser[viewOf[c]]] = [i \in DOMAIN order[viewOf[c]] |-> i]]
  /\ UNCHANGED <<status, winner, candidates, mediaStatus, rowLock, viewVars, viewOf,
                 localVars, faults, historyVars>>

\* Faulty: the UPDATE forgets to filter by voter.
SaveForEveryone(c) ==
  /\ Goto(c, "save", "saved") /\ ThreadFree(BotOf[viewOf[c]])
  /\ ranks' = [u \in Voters |-> order[viewOf[c]]]
  /\ UNCHANGED <<status, winner, candidates, mediaStatus, rowLock, viewVars, viewOf,
                 localVars, faults, historyVars>>

\* Poll.save_vote: one UPDATE, whatever the status of the poll and of the vote.
SaveVote(c) ==
  /\ Goto(c, "save", "saved") /\ ThreadFree(BotOf[viewOf[c]])
  /\ ranks' = [ranks EXCEPT ![viewUser[viewOf[c]]] = order[viewOf[c]]]
  /\ UNCHANGED <<status, winner, candidates, mediaStatus, rowLock, viewVars, viewOf,
                 localVars, faults, historyVars>>

\* Faulty: gives up when the view has meanwhile timed out.
AcknowledgeOpen(c) ==
  /\ Goto(c, "saved", IF viewState[viewOf[c]] = "open" THEN "resolve" ELSE "done")
  /\ UNCHANGED <<pollVars, mediaStatus, rowLock, viewVars, viewOf, localVars, faults, historyVars>>

Acknowledge(c) ==
  /\ Goto(c, "saved", "resolve")
  /\ UNCHANGED <<pollVars, mediaStatus, rowLock, viewVars, viewOf, localVars, faults, historyVars>>

StartResolve(c) ==
  /\ Goto(c, "resolve", "lock") /\ ThreadFree(BotOf[viewOf[c]])
  /\ UNCHANGED <<pollVars, mediaStatus, rowLock, viewVars, viewOf, localVars, faults, historyVars>>

\* Faulty: reads the row without FOR UPDATE.
ReadPoll(c) ==
  /\ Goto(c, "lock", IF status = "completed" THEN "done" ELSE "check")
  /\ UNCHANGED <<pollVars, mediaStatus, rowLock, viewVars, viewOf, localVars, faults, historyVars>>

\* SELECT ... FOR UPDATE reads the status once the lock is granted; a completed
\* poll ends the transaction there and then.
LockPoll(c) ==
  /\ rowLock = NoClick
  /\ \/ /\ status = "completed"
        /\ Goto(c, "lock", "done")
        /\ UNCHANGED rowLock
     \/ /\ status # "completed"
        /\ Goto(c, "lock", "check")
        /\ rowLock' = c
  /\ UNCHANGED <<pollVars, mediaStatus, viewVars, viewOf, localVars, faults, historyVars>>

\* Faulty: the early return leaves the transaction open.
CheckVotesNoRelease(c) ==
  /\ Goto(c, "check", IF AllVoted THEN "candidates" ELSE "done")
  /\ UNCHANGED <<pollVars, mediaStatus, rowLock, viewVars, viewOf, localVars, faults, historyVars>>

CheckVotes(c) ==
  /\ \/ /\ ~ AllVoted
        /\ Goto(c, "check", "done")
        /\ rowLock' = NoClick
     \/ /\ AllVoted
        /\ Goto(c, "check", "candidates")
        /\ UNCHANGED rowLock
  /\ UNCHANGED <<pollVars, mediaStatus, viewVars, viewOf, localVars, faults, historyVars>>

ReadCandidates(c) ==
  /\ Goto(c, "candidates", "ballots")
  /\ field' = [field EXCEPT ![c] = candidates]
  /\ UNCHANGED <<pollVars, mediaStatus, rowLock, viewVars, viewOf, ballots, elected,
                 faults, historyVars>>

\* Every ranked id is still a candidate (KeyError otherwise), and no ballot
\* names two candidates alike (DuplicateCandidatesError otherwise).
Countable(c) ==
  \A u \in Voters :
    /\ \A i \in 1..Len(ranks[u]) : ranks[u][i] \in field[c]
    /\ \A i, j \in 1..Len(ranks[u]) : NameOf[ranks[u][i]] = NameOf[ranks[u][j]] => i = j

\* The count itself, and the search for the candidate that bears the winning name.
CountBallots(c) ==
  /\ \/ /\ Countable(c)
        /\ Goto(c, "ballots", "commit")
        /\ ballots' = [ballots EXCEPT ![c] = ranks]
        /\ \E m \in field[c] :
             /\ NameOf[m] \in Winners([u \in Voters |-> Names(ranks[u])], NamesOf(field[c]))
             /\ elected' = [elected EXCEPT ![c] = m]
        /\ UNCHANGED <<rowLock, field>>
     \/ /\ ~ Countable(c)
        /\ Goto(c, "ballots", "failed")
        /\ rowLock' = NoClick
        /\ Forget(c)
  /\ UNCHANGED <<pollVars, mediaStatus, viewVars, viewOf, faults, historyVars>>

\* Faulty: complete() sets the winner and forgets the status.
CommitNoStatus(c) ==
  /\ Goto(c, "commit", "announce")
  /\ winner' = elected[c]
  /\ rowLock' = NoClick
  /\ decisions' = decisions + 1
  /\ decision' = [by |-> c, over |-> field[c], ballots |-> ballots[c], winner |-> elected[c]]
  /\ Forget(c)
  /\ UNCHANGED <<status, candidates, ranks, mediaStatus, viewVars, viewOf, faults, announced>>

\* Poll.complete and the commit of check_resolve's transaction.
CommitWinner(c) ==
  /\ Goto(c, "commit", "announce")
  /\ status' = "completed"
  /\ winner' = elected[c]
  /\ rowLock' = NoClick
  /\ decisions' = decisions + 1
  /\ decision' = [by |-> c, over |-> field[c], ballots |-> ballots[c], winner |-> elected[c]]
  /\ Forget(c)
  /\ UNCHANGED <<candidates, ranks, mediaStatus, viewVars, viewOf, faults, announced>>

Announce(c) ==
  /\ Goto(c, "announce", "done")
  /\ announced' = announced + 1
  /\ UNCHANGED <<pollVars, mediaStatus, rowLock, viewVars, viewOf, localVars, faults,
                 decisions, decision>>

\* A Discord call raises: on_error replaces the message and the click is over.
DiscordError(c) ==
  /\ faults < MaxFaults
  /\ pc[c] \in {"thinking", "saved", "announce"}
  /\ Goto(c, pc[c], "failed")
  /\ faults' = faults + 1
  /\ UNCHANGED <<pollVars, mediaStatus, rowLock, viewVars, viewOf, localVars, historyVars>>

\* The process dies: its views and coroutines with it; the database rolls back
\* its open transaction.
Crash(b) ==
  LET Lost == {c \in Clicks : pc[c] \notin Ended \cup {"idle"} /\ BotOf[viewOf[c]] = b} IN
  /\ faults < MaxFaults
  /\ faults' = faults + 1
  /\ viewState' = [v \in Views |-> IF BotOf[v] = b /\ viewState[v] = "open" THEN "gone" ELSE viewState[v]]
  /\ pc' = [c \in Clicks |-> IF c \in Lost THEN "failed" ELSE pc[c]]
  /\ rowLock' = IF rowLock \in Lost THEN NoClick ELSE rowLock
  /\ field' = [c \in Clicks |-> IF c \in Lost THEN {} ELSE field[c]]
  /\ ballots' = [c \in Clicks |-> IF c \in Lost THEN NoBallots ELSE ballots[c]]
  /\ elected' = [c \in Clicks |-> IF c \in Lost THEN NoMedia ELSE elected[c]]
  /\ UNCHANGED <<pollVars, mediaStatus, viewUser, order, viewOf, historyVars>>

\* The admin actions start_assessment and finish_assessment, from any status.
MoveMedia(m, s) ==
  /\ mediaStatus[m] # s
  /\ mediaStatus' = [mediaStatus EXCEPT ![m] = s]
  /\ UNCHANGED <<pollVars, rowLock, viewVars, pc, viewOf, localVars, faults, historyVars>>
-----------------------------------------------------------------------------
ServeClick(c) ==
  \/ ShowThinking(c) \/ SaveVote(c) \/ Acknowledge(c)
  \/ StartResolve(c) \/ LockPoll(c) \/ CheckVotes(c) \/ ReadCandidates(c)
  \/ CountBallots(c) \/ CommitWinner(c) \/ Announce(c)

Next ==
  \/ \E v \in Views : \/ \E u \in Voters : Vote(v, u)
                      \/ \E i \in 1..Cardinality(Media) : Swap(v, i)
                      \/ ViewTimeout(v)
  \/ \E c \in Clicks : \/ \E v \in Views : Confirm(c, v)
                       \/ ServeClick(c)
                       \/ DiscordError(c)
  \/ \E b \in Bots : Crash(b)
  \/ \E m \in Handled, s \in {"in_progress", "completed"} : MoveMedia(m, s)

Spec == Init /\ [][Next]_vars

\* The event loop resumes every coroutine whose await has returned, and the
\* database grants a free row lock.  Nothing makes a user vote or click.
Fairness == \A c \in Clicks : WF_vars(ServeClick(c))

FairSpec == Spec /\ Fairness
-----------------------------------------------------------------------------
TypeOK ==
  /\ status \in {"initial", "completed"} /\ winner \in Media \cup {NoMedia}
  /\ candidates \subseteq Media
  /\ ranks \in [Voters -> Seq(Media)]
  /\ mediaStatus \in [Media -> MediaStatuses]
  /\ rowLock \in Clicks \cup {NoClick}
  /\ viewState \in [Views -> {"unused", "open", "gone"}]
  /\ viewUser \in [Views -> Voters \cup {NoVoter}]
  /\ order \in [Views -> Seq(Media)]
  /\ pc \in [Clicks -> PCs]
  /\ viewOf \in [Clicks -> Views \cup {NoView}]
  /\ field \in [Clicks -> SUBSET Media]
  /\ ballots \in [Clicks -> [Voters -> Seq(Media)]]
  /\ elected \in [Clicks -> Media \cup {NoMedia}]
  /\ faults \in Nat /\ decisions \in Nat /\ announced \in Nat
  /\ decision \in [by : Clicks \cup {NoClick}, over : SUBSET Media,
                   ballots : [Voters -> Seq(Media)], winner : Media \cup {NoMedia}]

\* However the clicks of the last voters interleave, in however many processes,
\* Poll.resolve commits a result once, the row keeps it, and it is announced at
\* most once (PollView.check_resolve takes the row lock for this).
SingleDecision ==
  /\ decisions <= 1 /\ announced <= decisions
  /\ decisions = 0 <=> status = "initial"
  /\ winner = decision.winner

\* The ballots counted are real ones: cast by every voter, ranking nothing the
\* voter added to the catalogue, and their winner is a name somebody ranked; it
\* is the name that more than half of them put first, if there is one.
HonestCount ==
  decisions > 0 =>
    LET cast == decision.ballots
        First(n) == {u \in Voters : NameOf[cast[u][1]] = n}
    IN  /\ \A u \in Voters : /\ cast[u] # <<>>
                             /\ \A i \in 1..Len(cast[u]) : CreatorOf[cast[u][i]] # u
        /\ decision.winner \in decision.over
        /\ \E u \in Voters : \E i \in 1..Len(cast[u]) :
              NameOf[cast[u][i]] = NameOf[decision.winner]
        /\ \A m \in decision.over :
              2 * Cardinality(First(NameOf[m])) > Cardinality(Voters)
                => NameOf[m] = NameOf[decision.winner]

\* A poll everybody has voted in is not forgotten: while it is still open, some
\* Confirm is on its way to resolve it, unless a Confirm was cut short.  /vote
\* no longer shows the poll to anyone, so nobody else would.
NoSilentStall ==
  AllVoted /\ status = "initial" =>
    \E c \in Clicks : pc[c] \in {"saved", "resolve", "failed"} \cup Synchronous

\* save_vote never asks whether the poll is over.  Even so a stored ballot differs
\* from the one that was counted only for a voter who confirmed more than once.
RevisionNeedsSecondClick ==
  decisions > 0 =>
    \A u \in Voters :
      \/ ranks[u] = decision.ballots[u]
      \/ \E c, d \in Clicks : /\ c # d /\ {viewOf[c], viewOf[d]} \subseteq Views
                            /\ viewUser[viewOf[c]] = u /\ viewUser[viewOf[d]] = u

Promise == INSTANCE PollPromise WITH
  cast <- {u \in Voters : ranks[u] # <<>>},
  outcome <- winner,
  told <- announced > 0

\* Every behaviour of the poll keeps the promise made to its voters.
KeepsPromise == Promise!Spec

\* When no Discord call fails and no process dies, the promise is kept with its
\* fairness: the poll that everybody has voted in gets its winner.
KeepsFairPromise == Promise!FairSpec

\* ... and the winner is announced.
Resolved == AllVoted ~> announced > 0
=============================================================================
