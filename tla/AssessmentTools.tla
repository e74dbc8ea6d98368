-------------------------- MODULE AssessmentTools --------------------------
(* The MCP tools on a person's own ratings: list_assessments page by page,     *)
(* retrieve_assessment and update_review, each call behind verify_token.  The  *)
(* tools of several clients, new ratings and the staff run between one         *)
(* another's database statements.                                              *)
EXTENDS Naturals, FiniteSets

CONSTANTS
  Users,
  Callers,       \* MCP clients: each makes one call, or turns the pages of one list
  SubjectOf,     \* the user a client's access token speaks for
  Texts, Empty,  \* reviews
  PageSize,
  InitialRows,   \* ratings there at first, at most (bound)
  MaxRows,       \* ratings ever stored (bound)
  MaxChanges,    \* what others do to the ratings and the accounts (bound)
  MaxFaults,     \* failed statements and dying workers (bound)
  NoOne, Nothing

ASSUME ToolsAssumption ==
  /\ SubjectOf \in [Callers -> Users]
  /\ Empty \notin Texts /\ Nothing \notin Texts \cup {Empty}
  /\ NoOne \notin Users \cup Callers
  /\ PageSize \in Nat \ {0}
  /\ {InitialRows, MaxRows, MaxChanges, MaxFaults} \subseteq Nat /\ InitialRows <= MaxRows

VARIABLES
  active,                  \* users with is_active
  made, there,             \* ratings are numbered as created; those in the table
  owner, review,           \* Assessment.user and .review
  newest, rowLock,         \* the newest version of each review, which is the call's own
                           \* whose transaction has updated the row, and that call
  pc, goal, page, total,   \* a call: where it stands, the tool and its arguments
  got,                     \* its answer: a review
  changes, faults,
  seen, start, disturbed,  \* history of a walk through the pages: ratings listed,
                           \* ratings there at its start, and whether it was cut
  wrote                    \* history: the rating an update_review has changed

table == <<made, there, owner, review>>
versions == <<newest, rowLock>>
call == <<pc, goal, page, total, got>>
history == <<seen, start, disturbed, wrote>>
vars == <<active, table, versions, call, changes, faults, history>>
-----------------------------------------------------------------------------
Ids == 1..MaxRows
Reviews == Texts \cup {Empty}
Filters == {"all", "reviewed", "unreviewed"}

Goals == [tool : {"list"}, filter : Filters]
         \cup [tool : {"retrieve"}, id : Ids]
         \cup [tool : {"update"}, id : Ids, text : Reviews]

Ended == {"walked", "answered", "failed", "refused"}
Statements == {"verify", "count", "slice", "retrieve", "update", "read"}

Own(u) == {i \in there : owner[i] = u}

\* A review is there or not; the filters on what no tool changes narrow "all".
Matching(u, f) == {i \in Own(u) : /\ f = "reviewed" => review[i] # Empty
                                  /\ f = "unreviewed" => review[i] = Empty}

Listed(c) == Matching(SubjectOf[c], goal[c].filter)

\* Newest first, in pages numbered from one.
PageOf(S, p) ==
  {i \in S : LET newer == Cardinality({j \in S : j > i})
             IN  (p - 1) * PageSize <= newer /\ newer < p * PageSize}

Goto(c, from, to) == pc[c] = from /\ pc' = [pc EXCEPT ![c] = to]

Init ==
  /\ active = Users
  /\ made \in 0..InitialRows /\ there = 1..made
  /\ owner \in {o \in [Ids -> Users \cup {NoOne}] : \A i \in Ids : o[i] = NoOne <=> i > made}
  /\ review \in {r \in [Ids -> Reviews] : \A i \in Ids : i > made => r[i] = Empty}
  /\ newest = review /\ rowLock = [i \in Ids |-> NoOne]
  /\ pc = [c \in Callers |-> "idle"]
  /\ goal = [c \in Callers |-> [tool |-> "list", filter |-> "all"]]
  /\ page = [c \in Callers |-> 1]
  /\ total = [c \in Callers |-> 0]
  /\ got = [c \in Callers |-> Nothing]
  /\ changes = 0 /\ faults = 0
  /\ seen = [c \in Callers |-> {}] /\ start = [c \in Callers |-> {}]
  /\ disturbed = [c \in Callers |-> FALSE]
  /\ wrote = [c \in Callers |-> {}]
-----------------------------------------------------------------------------
(* A call, one action per statement *)

Call(c, g) ==
  /\ Goto(c, "idle", "verify")
  /\ goal' = [goal EXCEPT ![c] = g]
  /\ UNCHANGED <<active, table, versions, page, total, got, changes, faults, history>>

\* The client has been told that another page exists.
NextPage(c) ==
  /\ Goto(c, "more", "verify")
  /\ page' = [page EXCEPT ![c] = @ + 1]
  /\ UNCHANGED <<active, table, versions, goal, total, got, changes, faults, history>>

\* verify_token, for every request: the user must be active at that moment.  A
\* token that has expired is refused as well.
Verify(c) ==
  /\ \/ /\ SubjectOf[c] \in active
        /\ Goto(c, "verify", CASE goal[c].tool = "list" -> "count"
                               [] goal[c].tool = "retrieve" -> "retrieve"
                               [] goal[c].tool = "update" -> "update")
     \/ Goto(c, "verify", "refused")
  /\ UNCHANGED <<active, table, versions, goal, page, total, got, changes, faults, history>>

\* Faulty: whether there is more is judged by a page too many.
AfterPageShort(c, n) == IF (page[c] + 1) * PageSize < n THEN "more" ELSE "walked"

AfterPage(c, n) == IF page[c] * PageSize < n THEN "more" ELSE "walked"

\* A page past the end is answered without the second query.
Count(c) ==
  LET n == Cardinality(Listed(c)) IN
  /\ pc[c] = "count"
  /\ Goto(c, "count", IF (page[c] - 1) * PageSize < n THEN "slice" ELSE AfterPage(c, n))
  /\ total' = [total EXCEPT ![c] = n]
  /\ start' = [start EXCEPT ![c] = IF page[c] = 1 THEN Listed(c) ELSE @]
  /\ disturbed' = [disturbed EXCEPT ![c] = page[c] > 1 /\ @]
  /\ UNCHANGED <<active, table, versions, goal, page, got, changes, faults, seen, wrote>>

Slice(c) ==
  /\ pc[c] = "slice"
  /\ Goto(c, "slice", AfterPage(c, total[c]))
  /\ seen' = [seen EXCEPT ![c] = @ \cup PageOf(Listed(c), page[c])]
  /\ UNCHANGED <<active, table, versions, goal, page, total, got, changes, faults,
                 start, disturbed, wrote>>

\* Faulty: any rating of that id.
Anyones(c) == there

\* What the tools filter by: user_id=authenticated_user_id().
Readable(c) == Own(SubjectOf[c])

Retrieve(c) ==
  /\ pc[c] = "retrieve"
  /\ \/ /\ goal[c].id \in Readable(c)
        /\ Goto(c, "retrieve", "answered")
        /\ got' = [got EXCEPT ![c] = review[goal[c].id]]
        /\ seen' = [seen EXCEPT ![c] = {goal[c].id}]
     \/ /\ goal[c].id \notin Readable(c)
        /\ Goto(c, "retrieve", "failed")
        /\ UNCHANGED <<got, seen>>
  /\ UNCHANGED <<active, table, versions, goal, page, total, changes, faults,
                 start, disturbed, wrote>>

\* What becomes of the other walks when the ratings change: one that lost a rating
\* it lists, or that got another between the count and the slice of its last page,
\* may miss ratings from now on.
Disturb ==
  disturbed' = [c \in Callers |->
    \/ disturbed[c]
    \/ /\ goal[c].tool = "list" /\ pc[c] \in {"verify", "count", "slice", "more"}
       /\ \/ Listed(c) \ Listed(c)' # {}
          \/ /\ Listed(c)' \ Listed(c) # {}
             /\ pc[c] = "slice" /\ total[c] <= page[c] * PageSize]

\* Faulty: outside a transaction, an UPDATE is committed at once.
UpdateAlone(c) ==
  /\ pc[c] = "update" /\ goal[c].id \in Own(SubjectOf[c])
  /\ Goto(c, "update", "read")
  /\ review' = [review EXCEPT ![goal[c].id] = goal[c].text]
  /\ newest' = [newest EXCEPT ![goal[c].id] = goal[c].text]
  /\ wrote' = [wrote EXCEPT ![c] = {goal[c].id}]
  /\ UNCHANGED <<active, made, there, owner, rowLock, goal, page, total, got, changes, faults,
                 seen, start>>
  /\ Disturb

\* Faulty: an empty text is stored as NULL.
NullIfEmpty(text) == IF text = Empty THEN Nothing ELSE text

\* trim_review leaves an empty text what it is.
Stored(text) == text

\* The UPDATE of save_review.  It waits for a row that another transaction has
\* updated; until its own is committed nobody else sees the new version.
Update(c) ==
  /\ pc[c] = "update"
  /\ \/ /\ goal[c].id \in Readable(c) /\ rowLock[goal[c].id] = NoOne
        /\ Goto(c, "update", "read")
        /\ newest' = [newest EXCEPT ![goal[c].id] = Stored(goal[c].text)]
        /\ rowLock' = [rowLock EXCEPT ![goal[c].id] = c]
        /\ wrote' = [wrote EXCEPT ![c] = {goal[c].id}]
     \/ /\ goal[c].id \notin Readable(c)
        /\ Goto(c, "update", "failed")
        /\ UNCHANGED <<versions, wrote>>
  /\ UNCHANGED <<active, table, goal, page, total, got, changes, faults, seen, start, disturbed>>

\* The versions of the transaction are dropped.
Rollback(c) ==
  /\ newest' = [i \in Ids |-> IF rowLock[i] = c THEN review[i] ELSE newest[i]]
  /\ rowLock' = [i \in Ids |-> IF rowLock[i] = c THEN NoOne ELSE rowLock[i]]
  /\ wrote' = [wrote EXCEPT ![c] = {i \in @ : rowLock[i] # c}]

\* The row is read back and the transaction committed; without the row, get() raises.
Read(c) ==
  /\ pc[c] = "read"
  /\ \/ /\ goal[c].id \in Readable(c)
        /\ Goto(c, "read", "answered")
        /\ got' = [got EXCEPT ![c] = newest[goal[c].id]]
        /\ review' = [review EXCEPT ![goal[c].id] = newest[goal[c].id]]
        /\ rowLock' = [rowLock EXCEPT ![goal[c].id] = NoOne]
        /\ UNCHANGED <<newest, wrote>>
     \/ /\ goal[c].id \notin Readable(c)
        /\ Goto(c, "read", "failed")
        /\ Rollback(c)
        /\ UNCHANGED <<got, review>>
  /\ UNCHANGED <<active, made, there, owner, goal, page, total, changes, faults, seen, start>>
  /\ Disturb

\* A statement fails or the worker dies.
Fail(c) ==
  /\ faults < MaxFaults /\ faults' = faults + 1
  /\ pc[c] \in Statements
  /\ Goto(c, pc[c], "failed")
  /\ Rollback(c)
  /\ UNCHANGED <<active, table, goal, page, total, got, changes, seen, start, disturbed>>
-----------------------------------------------------------------------------
(* The others *)

Change == changes < MaxChanges /\ changes' = changes + 1

\* A new rating, from Discord.
Rate(u, text) ==
  /\ Change /\ made < MaxRows
  /\ made' = made + 1 /\ there' = there \cup {made'}
  /\ owner' = [owner EXCEPT ![made'] = u]
  /\ review' = [review EXCEPT ![made'] = text]
  /\ newest' = [newest EXCEPT ![made'] = text]
  /\ UNCHANGED <<active, rowLock, call, faults, seen, start, wrote>>
  /\ Disturb

\* Faulty: the form is saved without a wait for the row.
SaveFormAtOnce(i, text) ==
  /\ Change /\ i \in there /\ review[i] # text
  /\ review' = [review EXCEPT ![i] = text]
  /\ newest' = [newest EXCEPT ![i] = text]
  /\ UNCHANGED <<active, made, there, owner, rowLock, call, faults, seen, start, wrote>>
  /\ Disturb

\* The staff remove a rating, or save its change form; either waits for the row.
Remove(i) ==
  /\ Change /\ i \in there /\ rowLock[i] = NoOne
  /\ there' = there \ {i}
  /\ UNCHANGED <<active, made, owner, review, versions, call, faults, seen, start, wrote>>
  /\ Disturb

SaveForm(i, text) ==
  /\ Change /\ i \in there /\ rowLock[i] = NoOne /\ review[i] # text
  /\ review' = [review EXCEPT ![i] = text]
  /\ newest' = [newest EXCEPT ![i] = text]
  /\ UNCHANGED <<active, made, there, owner, rowLock, call, faults, seen, start, wrote>>
  /\ Disturb

SetActive(u) ==
  /\ Change
  /\ active' = IF u \in active THEN active \ {u} ELSE active \cup {u}
  /\ UNCHANGED <<table, versions, call, faults, history>>
-----------------------------------------------------------------------------
Serve(c) == \/ Verify(c) \/ Count(c) \/ Slice(c) \/ Retrieve(c) \/ Update(c) \/ Read(c)

Next ==
  \/ \E c \in Callers : \/ \E g \in Goals : Call(c, g)
                        \/ NextPage(c) \/ Serve(c) \/ Fail(c)
  \/ \E u \in Users, text \in Reviews : Rate(u, text)
  \/ \E i \in Ids : Remove(i) \/ \E text \in Reviews : SaveForm(i, text)
  \/ \E u \in Users : SetActive(u)

Spec == Init /\ [][Next]_vars
-----------------------------------------------------------------------------
TypeOK ==
  /\ active \subseteq Users
  /\ made \in 0..MaxRows /\ there \subseteq 1..made
  /\ owner \in [Ids -> Users \cup {NoOne}] /\ review \in [Ids -> Reviews]
  /\ newest \in [Ids -> Reviews] /\ rowLock \in [Ids -> Callers \cup {NoOne}]
  /\ pc \in [Callers -> {"idle", "more"} \cup Statements \cup Ended]
  /\ goal \in [Callers -> Goals]
  /\ page \in [Callers -> Nat \ {0}] /\ total \in [Callers -> Nat]
  /\ got \in [Callers -> Reviews \cup {Nothing}]
  /\ changes \in Nat /\ faults \in Nat
  /\ seen \in [Callers -> SUBSET Ids] /\ start \in [Callers -> SUBSET Ids]
  /\ disturbed \in [Callers -> BOOLEAN] /\ wrote \in [Callers -> SUBSET Ids]

\* A client that turns the pages until has_next is false has been shown every
\* rating that was there at its start, though each page is counted and read in two
\* statements and new ratings come in at the front: unless a rating left the list
\* meanwhile, or one entered it between the two statements of the last page.
NothingSkipped == \A c \in Callers : pc[c] = "walked" /\ ~ disturbed[c] => start[c] \subseteq seen[c]

\* No tool shows or changes a rating of anybody but its token's subject, whatever
\* ids it is asked for and whatever happens between its statements.
OwnOnly == \A c \in Callers : \A i \in seen[c] \cup wrote[c] : owner[i] = SubjectOf[c]

\* update_review answers with the row it has read back, which holds the review it was
\* given, or with an error and has stored nothing: neither the staff nor another client
\* of that person comes between the UPDATE and the SELECT, and whatever fails after the
\* UPDATE takes it back.
AllOrNothing ==
  \A c \in Callers : goal[c].tool = "update" =>
    /\ pc[c] = "answered" => got[c] = goal[c].text /\ wrote[c] = {goal[c].id}
    /\ pc[c] \in {"failed", "refused"} => wrote[c] = {}
=============================================================================
