----------------------- MODULE AssessmentToolsProofs -----------------------
(* Proofs about AssessmentTools, for any number of users, clients and ratings. *)
EXTENDS AssessmentTools, FiniteSetTheorems, TLAPS

(* The inductive invariant: what holds of each call, in named parts. *)

\* A call stands where its tool can stand.
ToolFits(c) ==
  /\ pc[c] \in {"count", "slice", "more", "walked"} => goal[c].tool = "list"
  /\ pc[c] = "retrieve" => goal[c].tool = "retrieve"
  /\ pc[c] \in {"update", "read"} => goal[c].tool = "update"

\* What it has listed, read or changed is its subject's.
OwnRows(c) == \A i \in seen[c] \cup wrote[c] : i <= made /\ owner[i] = SubjectOf[c]

\* An update keeps its row, in the version it has written, until it has read it back;
\* no other call has a row.
HoldsRow(c) ==
  /\ pc[c] = "read" =>
       /\ goal[c].id \in Readable(c) /\ rowLock[goal[c].id] = c
       /\ newest[goal[c].id] = goal[c].text
  /\ \A i \in Ids : rowLock[i] = c => pc[c] = "read" /\ i = goal[c].id

\* Nothing is written but by an update that is under way or answered.
WritesWhole(c) ==
  /\ pc[c] \notin {"read", "answered"} => wrote[c] = {}
  /\ pc[c] = "read" => wrote[c] = {goal[c].id}
  /\ pc[c] = "answered" /\ goal[c].tool = "update" =>
       got[c] = goal[c].text /\ wrote[c] = {goal[c].id}

\* How many ratings of a list are newer than one, and how many the walk has behind it.
Newer(S, i) == Cardinality({j \in S : j > i})
Behind(c) == IF pc[c] = "more" THEN page[c] * PageSize ELSE (page[c] - 1) * PageSize

Walking == {"verify", "count", "slice", "more"}

\* As long as nothing disturbs it, a walk has the ratings of its start still in the
\* list, and those it has not seen lie ahead of it; the count of what it takes for
\* its last page still stands.
OnTheWay(c) ==
  /\ pc[c] \in Walking =>
       /\ start[c] \subseteq Listed(c)
       /\ \A i \in start[c] \ seen[c] : Behind(c) <= Newer(Listed(c), i)
  /\ pc[c] = "slice" /\ total[c] <= page[c] * PageSize => Cardinality(Listed(c)) <= total[c]
  /\ pc[c] = "walked" => start[c] \subseteq seen[c]

Walks(c) ==
  /\ pc[c] = "idle" => start[c] = {}
  /\ goal[c].tool = "list" /\ ~ disturbed[c] => OnTheWay(c)

Stands(c) == ToolFits(c) /\ OwnRows(c) /\ HoldsRow(c) /\ WritesWhole(c) /\ Walks(c)

EachStands == \A c \in Callers : Stands(c)

IInv == TypeOK /\ EachStands
-----------------------------------------------------------------------------
(* Ratings newer than one, in a list. *)

\* There are no more of them than of the list, nor in a part of the list.
LEMMA NewerCounts ==
  ASSUME NEW S \in SUBSET Ids, NEW i
  PROVE  Newer(S, i) \in Nat /\ IsFiniteSet(S) /\ Cardinality(S) \in Nat
<1>1. IsFiniteSet(Ids)
  BY ToolsAssumption, FS_Interval DEF Ids
<1>2. IsFiniteSet(S) /\ IsFiniteSet({j \in S : j > i})
  BY <1>1, FS_Subset
<1> QED
  BY <1>2, FS_CardinalityType DEF Newer

LEMMA NewerGrows ==
  ASSUME NEW T \in SUBSET Ids, NEW S \in SUBSET T, NEW i
  PROVE  Newer(S, i) <= Newer(T, i)
<1>1. IsFiniteSet({j \in T : j > i})
  BY NewerCounts, FS_Subset
<1>2. {j \in S : j > i} \subseteq {j \in T : j > i}
  OBVIOUS
<1> QED
  BY <1>1, <1>2, FS_Subset DEF Newer

LEMMA NewerBelow ==
  ASSUME NEW S \in SUBSET Ids, NEW i \in S
  PROVE  Newer(S, i) < Cardinality(S)
<1>1. IsFiniteSet(S) /\ Newer(S, i) \in Nat /\ Cardinality(S) \in Nat
  BY NewerCounts
<1>2. i \notin {j \in S : j > i} /\ {j \in S : j > i} \subseteq S
  BY ToolsAssumption DEF Ids
<1>3. {j \in S : j > i} # S
  BY <1>2
<1>4. Newer(S, i) <= Cardinality(S) /\ Newer(S, i) # Cardinality(S)
  BY <1>1, <1>2, <1>3, FS_Subset DEF Newer
<1> QED
  BY <1>1, <1>4

\* The ratings in the table are numbered ones.
LEMMA ThereOwn == TypeOK => there \subseteq Ids /\ \A i \in there : i <= made
<1> SUFFICES ASSUME TypeOK, NEW i \in there PROVE i \in Ids /\ i <= made
  OBVIOUS
<1>1. made \in 0..MaxRows /\ i \in 1..made /\ MaxRows \in Nat
  BY ToolsAssumption DEF TypeOK
<1> QED
  BY <1>1 DEF Ids

\* What a client lists are numbered ratings of its subject.
LEMMA ListedOwn ==
  ASSUME TypeOK, NEW c \in Callers
  PROVE  /\ Listed(c) \in SUBSET Ids /\ Listed(c) \subseteq there
         /\ \A i \in Listed(c) : i <= made /\ owner[i] = SubjectOf[c]
         /\ Cardinality(Listed(c)) \in Nat
<1>1. there \subseteq Ids /\ \A i \in there : i <= made
  BY ThereOwn
<1>2. Listed(c) \subseteq there /\ \A i \in Listed(c) : owner[i] = SubjectOf[c]
  BY DEF Listed, Matching, Own
<1> QED
  BY <1>1, <1>2, NewerCounts
-----------------------------------------------------------------------------
LEMMA TypeInit == Init => TypeOK
<1> SUFFICES ASSUME Init PROVE TypeOK
  OBVIOUS
<1>1. [tool |-> "list", filter |-> "all"] \in Goals
  BY DEF Goals, Filters
<1>2. made \in 0..MaxRows /\ there \subseteq 1..made
  BY ToolsAssumption DEF Init
<1> QED
  BY <1>1, <1>2, ToolsAssumption DEF Init, TypeOK

LEMMA StandsInit == Init => EachStands
<1> SUFFICES ASSUME Init, NEW c \in Callers PROVE Stands(c)
  BY DEF EachStands
<1>1. /\ pc[c] = "idle" /\ seen[c] = {} /\ wrote[c] = {} /\ start[c] = {}
      /\ \A i \in Ids : rowLock[i] # c
  BY ToolsAssumption DEF Init
<1> QED
  BY <1>1 DEF Stands, ToolFits, OwnRows, HoldsRow, WritesWhole, Walks, OnTheWay, Walking
-----------------------------------------------------------------------------
(* A step seen from a call that does not take it. *)

\* Everything the call itself has is as it was.
Aside(c) ==
  /\ pc'[c] = pc[c] /\ goal'[c] = goal[c] /\ page'[c] = page[c] /\ total'[c] = total[c]
  /\ got'[c] = got[c] /\ seen'[c] = seen[c] /\ start'[c] = start[c] /\ wrote'[c] = wrote[c]

\* The list of an undisturbed walk has only grown, and not after its last count.
Quiet(c) ==
  ~ disturbed'[c] =>
    /\ ~ disturbed[c]
    /\ goal[c].tool = "list" /\ pc[c] \in Walking =>
         /\ Listed(c) \subseteq Listed(c)'
         /\ pc[c] = "slice" /\ total[c] <= page[c] * PageSize => Listed(c)' \subseteq Listed(c)

\* The rows it has are left alone.
Guarded(c) == \A i \in Ids :
  /\ rowLock'[i] = c <=> rowLock[i] = c
  /\ rowLock[i] = c => newest'[i] = newest[i] /\ (i \in there => i \in there')

\* Ratings are numbered on, and keep their users.
RowsLast ==
  /\ made <= made'
  /\ \A i \in Ids : i <= made => owner'[i] = owner[i]

\* What Disturb records.
LEMMA DisturbQuiet ==
  ASSUME NEW c \in Callers, Disturb
  PROVE  Quiet(c)
  BY DEF Disturb, Quiet, Walking

\* A step that changes no rating leaves every list as it was.
LEMMA SameQuiet ==
  ASSUME NEW c \in Callers, UNCHANGED table, goal'[c] = goal[c], disturbed'[c] = disturbed[c]
  PROVE  Quiet(c)
  BY DEF Quiet, table, Listed, Matching, Own

\* The call's own steps.
Steps(c) == (\E g \in Goals : Call(c, g)) \/ NextPage(c) \/ Serve(c) \/ Fail(c)

\* The steps of the others: the other calls, the staff and Discord.
LEMMA OthersAside ==
  ASSUME TypeOK, NEW c \in Callers, NEW d \in Callers, c # d, Steps(d)
  PROVE  Aside(c) /\ Quiet(c)
<1> USE DEF Aside, TypeOK, Goto, call, history
<1>1. ASSUME NEW g \in Goals, Call(d, g) PROVE Aside(c) /\ UNCHANGED table /\ disturbed'[c] = disturbed[c]
  BY <1>1 DEF Call
<1>2. CASE NextPage(d) \/ Verify(d) \/ Update(d) \/ Fail(d)
  <2>1. Aside(c) /\ UNCHANGED table /\ disturbed'[c] = disturbed[c]
    BY <1>2 DEF NextPage, Verify, Update, Fail, Rollback
  <2> QED
    BY <2>1, SameQuiet
<1>3. CASE Count(d) \/ Slice(d) \/ Retrieve(d)
  <2>1. Aside(c) /\ UNCHANGED table /\ disturbed'[c] = disturbed[c]
    BY <1>3 DEF Count, Slice, Retrieve
  <2> QED
    BY <2>1, SameQuiet
<1>4. CASE Read(d)
  <2>1. Aside(c) /\ Disturb
    BY <1>4 DEF Read, Rollback
  <2> QED
    BY <2>1, DisturbQuiet
<1> QED
  BY <1>1, <1>2, <1>3, <1>4, SameQuiet DEF Steps, Serve

\* A row is updated by the call that has it or when nobody has.
LEMMA OthersGuarded ==
  ASSUME TypeOK, NEW c \in Callers, NEW d \in Callers, c # d, HoldsRow(d), ToolFits(d), Steps(d)
  PROVE  Guarded(c)
<1> USE DEF Guarded
<1>0. NoOne \notin Callers /\ (pc[d] \in {"update", "read"} => goal[d].id \in Ids)
  BY ToolsAssumption DEF ToolFits, TypeOK, Goals
<1>1. CASE UNCHANGED <<there, newest, rowLock>>
  BY <1>1
<1>2. CASE Rollback(d) /\ UNCHANGED there
  BY <1>2, <1>0 DEF Rollback, TypeOK
<1>3. CASE Update(d)
  <2>1. CASE UNCHANGED <<there, newest, rowLock>>
    BY <2>1
  <2>2. CASE /\ rowLock[goal[d].id] = NoOne /\ rowLock' = [rowLock EXCEPT ![goal[d].id] = d]
             /\ newest' = [newest EXCEPT ![goal[d].id] = Stored(goal[d].text)] /\ UNCHANGED there
    BY <1>0, <2>2 DEF TypeOK
  <2> QED
    BY <1>3, <2>1, <2>2 DEF Update, table, versions
<1>4. CASE Read(d)
  <2>1. pc[d] = "read" /\ rowLock[goal[d].id] = d
    BY <1>4 DEF Read, HoldsRow
  <2>2. CASE rowLock' = [rowLock EXCEPT ![goal[d].id] = NoOne] /\ UNCHANGED <<there, newest>>
    BY <1>0, <2>1, <2>2 DEF TypeOK
  <2> QED
    BY <1>2, <1>4, <2>2 DEF Read
<1>5. Fail(d) => Rollback(d) /\ UNCHANGED there
  BY DEF Fail, table
<1>6. (\E g \in Goals : Call(d, g)) \/ NextPage(d) => UNCHANGED <<there, newest, rowLock>>
  BY DEF Call, NextPage, table, versions
<1>7. Verify(d) \/ Count(d) \/ Slice(d) \/ Retrieve(d) => UNCHANGED <<there, newest, rowLock>>
  BY DEF Verify, Count, Slice, Retrieve, table, versions
<1> QED
  BY <1>1, <1>2, <1>3, <1>4, <1>5, <1>6, <1>7 DEF Steps, Serve

LEMMA StepSeen ==
  ASSUME IInv, [Next]_vars, NEW c \in Callers
  PROVE  Steps(c) \/ (Aside(c) /\ Quiet(c) /\ Guarded(c))
<1>0. TypeOK /\ HoldsRow(c) /\ \A d \in Callers : HoldsRow(d) /\ ToolFits(d)
  BY DEF IInv, EachStands, Stands
<1>1. CASE UNCHANGED vars
  BY <1>1, SameQuiet DEF vars, versions, table, call, history, Aside, Guarded
<1>2. ASSUME NEW d \in Callers, Steps(d) PROVE Steps(c) \/ (Aside(c) /\ Quiet(c) /\ Guarded(c))
  BY <1>0, <1>2, OthersAside, OthersGuarded
<1>3. ASSUME NEW u \in Users, NEW text \in Reviews, Rate(u, text) PROVE Aside(c) /\ Quiet(c) /\ Guarded(c)
  <2>1. Aside(c) /\ Quiet(c)
    BY <1>3, DisturbQuiet DEF Rate, Aside, call
  <2>2. /\ made' = made + 1 /\ there \subseteq there' /\ rowLock' = rowLock
        /\ newest' = [newest EXCEPT ![made'] = text]
    BY <1>3 DEF Rate
  <2>3. made \in Nat
    BY <1>0, ToolsAssumption DEF TypeOK
  <2>4. ASSUME NEW i \in Ids, rowLock[i] = c PROVE i # made'
    <3>1. i \in there /\ i \in Nat
      BY <1>0, <2>4, ToolsAssumption DEF HoldsRow, Readable, Own, Ids
    <3>2. i <= made
      BY <1>0, <3>1, ThereOwn
    <3> QED
      BY <2>2, <2>3, <3>1, <3>2
  <2> QED
    BY <1>0, <2>1, <2>2, <2>4 DEF Guarded, TypeOK
<1>4. ASSUME NEW i \in Ids, Remove(i) PROVE Aside(c) /\ Quiet(c) /\ Guarded(c)
  <2>1. Aside(c) /\ Quiet(c)
    BY <1>4, DisturbQuiet DEF Remove, Aside, call
  <2> QED
    BY <1>4, <2>1, ToolsAssumption DEF Remove, versions, Guarded
<1>5. ASSUME NEW i \in Ids, NEW text \in Reviews, SaveForm(i, text)
      PROVE  Aside(c) /\ Quiet(c) /\ Guarded(c)
  <2>1. Aside(c) /\ Quiet(c)
    BY <1>5, DisturbQuiet DEF SaveForm, Aside, call
  <2> QED
    BY <1>0, <1>5, <2>1, ToolsAssumption DEF SaveForm, Guarded, TypeOK
<1>6. ASSUME NEW u \in Users, SetActive(u) PROVE Aside(c) /\ Quiet(c) /\ Guarded(c)
  BY <1>6, SameQuiet DEF SetActive, Aside, versions, table, call, history, Guarded
<1> QED
  BY <1>1, <1>2, <1>3, <1>4, <1>5, <1>6 DEF Next, Steps

LEMMA RowsKept ==
  ASSUME TypeOK, [Next]_vars
  PROVE  RowsLast
<1>1. made \in Nat
  BY ToolsAssumption DEF TypeOK
<1>2. CASE UNCHANGED <<made, owner>>
  BY <1>1, <1>2 DEF RowsLast
<1>3. ASSUME NEW u \in Users, NEW text \in Reviews, Rate(u, text) PROVE RowsLast
  <2>1. made' = made + 1 /\ owner' = [owner EXCEPT ![made'] = u]
    BY <1>3 DEF Rate
  <2> QED
    BY <1>1, <2>1, ToolsAssumption DEF RowsLast, TypeOK, Ids
<1>4. ASSUME NEW d \in Callers, Steps(d) PROVE UNCHANGED <<made, owner>>
  BY <1>4 DEF Steps, Serve, Call, NextPage, Verify, Count, Slice, Retrieve, Update, Read, Fail,
     table
<1>5. (\E i \in Ids : Remove(i) \/ \E text \in Reviews : SaveForm(i, text)) => UNCHANGED <<made, owner>>
  BY DEF Remove, SaveForm
<1>6. (\E u \in Users : SetActive(u)) => UNCHANGED <<made, owner>>
  BY DEF SetActive, table
<1> QED
  BY <1>2, <1>3, <1>4, <1>5, <1>6 DEF Next, Steps, vars, table
-----------------------------------------------------------------------------
\* Every variable keeps its type.
LEMMA TypeStep == TypeOK /\ (\A c \in Callers : ToolFits(c)) /\ [Next]_vars => TypeOK'
<1> SUFFICES ASSUME TypeOK, (\A c \in Callers : ToolFits(c)), [Next]_vars PROVE TypeOK'
  OBVIOUS
<1> USE ToolsAssumption
<1>1. CASE UNCHANGED vars
  BY <1>1 DEF TypeOK, vars, versions, table, call, history
<1>2. ASSUME NEW c \in Callers, NEW g \in Goals, Call(c, g) PROVE TypeOK'
  BY <1>2 DEF Call, Goto, TypeOK, versions, table, history, Statements
<1>3. ASSUME NEW c \in Callers, NextPage(c) PROVE TypeOK'
  BY <1>3 DEF NextPage, Goto, TypeOK, versions, table, history, Statements
<1>4. ASSUME NEW c \in Callers, Verify(c) PROVE TypeOK'
  <2>1. pc' \in [Callers -> {"idle", "more"} \cup Statements \cup Ended]
    BY <1>4 DEF Verify, Goto, TypeOK, Statements, Ended, Goals
  <2> QED
    BY <1>4, <2>1 DEF Verify, TypeOK, versions, table, history
<1>5. ASSUME NEW c \in Callers, Count(c) PROVE TypeOK'
  <2>1. Listed(c) \in SUBSET Ids /\ Cardinality(Listed(c)) \in Nat
    BY ListedOwn
  <2>2. pc' \in [Callers -> {"idle", "more"} \cup Statements \cup Ended]
    BY <1>5 DEF Count, Goto, AfterPage, TypeOK, Statements, Ended
  <2>3. /\ total' \in [Callers -> Nat] /\ start' \in [Callers -> SUBSET Ids]
        /\ disturbed' \in [Callers -> BOOLEAN]
    BY <1>5, <2>1 DEF Count, TypeOK
  <2> QED
    BY <1>5, <2>2, <2>3 DEF Count, TypeOK, versions, table
<1>6. ASSUME NEW c \in Callers, Slice(c) PROVE TypeOK'
  <2>1. PageOf(Listed(c), page[c]) \in SUBSET Ids
    BY ListedOwn DEF PageOf
  <2>2. pc' \in [Callers -> {"idle", "more"} \cup Statements \cup Ended]
    BY <1>6 DEF Slice, Goto, AfterPage, TypeOK, Statements, Ended
  <2>3. seen' \in [Callers -> SUBSET Ids]
    BY <1>6, <2>1 DEF Slice, TypeOK
  <2> QED
    BY <1>6, <2>2, <2>3 DEF Slice, TypeOK, versions, table
<1>7. ASSUME NEW c \in Callers, Retrieve(c) PROVE TypeOK'
  <2>1. goal[c].id \in Ids
    BY <1>7 DEF Retrieve, ToolFits, TypeOK, Goals
  <2>2. pc' \in [Callers -> {"idle", "more"} \cup Statements \cup Ended]
    BY <1>7 DEF Retrieve, Goto, TypeOK, Statements, Ended
  <2>3. seen' \in [Callers -> SUBSET Ids] /\ got' \in [Callers -> Reviews \cup {Nothing}]
    BY <1>7, <2>1 DEF Retrieve, TypeOK
  <2> QED
    BY <1>7, <2>2, <2>3 DEF Retrieve, TypeOK, versions, table
<1>7a. ASSUME NEW c \in Callers, Rollback(c)
       PROVE  /\ newest' \in [Ids -> Reviews] /\ rowLock' \in [Ids -> Callers \cup {NoOne}]
              /\ wrote' \in [Callers -> SUBSET Ids]
  BY <1>7a DEF Rollback, TypeOK
<1>8. ASSUME NEW c \in Callers, Update(c) PROVE TypeOK'
  <2>1. goal[c].id \in Ids /\ goal[c].text \in Reviews
    BY <1>8 DEF Update, ToolFits, TypeOK, Goals
  <2>2. pc' \in [Callers -> {"idle", "more"} \cup Statements \cup Ended]
    BY <1>8 DEF Update, Goto, TypeOK, Statements, Ended
  <2>3. /\ newest' \in [Ids -> Reviews] /\ rowLock' \in [Ids -> Callers \cup {NoOne}]
        /\ wrote' \in [Callers -> SUBSET Ids]
    BY <1>8, <2>1 DEF Update, Stored, TypeOK, versions
  <2> QED
    BY <1>8, <2>2, <2>3 DEF Update, TypeOK, table
<1>9. ASSUME Disturb PROVE disturbed' \in [Callers -> BOOLEAN]
  BY <1>9 DEF Disturb
<1>10. ASSUME NEW c \in Callers, Read(c) PROVE TypeOK'
  <2>1. goal[c].id \in Ids
    BY <1>10 DEF Read, ToolFits, TypeOK, Goals
  <2>2. pc' \in [Callers -> {"idle", "more"} \cup Statements \cup Ended]
    BY <1>10 DEF Read, Goto, TypeOK, Statements, Ended
  <2>3. /\ newest' \in [Ids -> Reviews] /\ rowLock' \in [Ids -> Callers \cup {NoOne}]
        /\ wrote' \in [Callers -> SUBSET Ids]
    BY <1>7a, <1>10, <2>1 DEF Read, TypeOK
  <2>4. review' \in [Ids -> Reviews] /\ got' \in [Callers -> Reviews \cup {Nothing}]
    BY <1>10, <2>1 DEF Read, TypeOK
  <2> QED
    BY <1>10, <1>9, <2>2, <2>3, <2>4 DEF Read, TypeOK
<1>11. ASSUME NEW c \in Callers, Fail(c) PROVE TypeOK'
  <2>1. pc' \in [Callers -> {"idle", "more"} \cup Statements \cup Ended]
    BY <1>11 DEF Fail, Goto, TypeOK, Statements, Ended
  <2> QED
    BY <1>7a, <1>11, <2>1 DEF Fail, TypeOK, table
<1>12. ASSUME NEW u \in Users, NEW text \in Reviews, Rate(u, text) PROVE TypeOK'
  <2>1. made' = made + 1 /\ made' \in Ids /\ there' \subseteq 1..made' /\ made' \in 0..MaxRows
    <3>1. made' = made + 1 /\ made < MaxRows /\ there' = there \cup {made + 1}
      BY <1>12 DEF Rate
    <3>2. made \in 0..MaxRows /\ there \subseteq 1..made /\ MaxRows \in Nat
      BY DEF TypeOK
    <3>3. made + 1 \in 1..MaxRows /\ 1..made \subseteq 1..(made + 1) /\ made + 1 \in 1..(made + 1)
      BY <3>1, <3>2
    <3> QED
      BY <3>1, <3>2, <3>3 DEF Ids
  <2> QED
    BY <1>9, <1>12, <2>1 DEF Rate, Change, TypeOK, call
<1>13. ASSUME NEW i \in Ids, Remove(i) PROVE TypeOK'
  BY <1>9, <1>13 DEF Remove, Change, TypeOK, versions, call
<1>14. ASSUME NEW i \in Ids, NEW text \in Reviews, SaveForm(i, text) PROVE TypeOK'
  BY <1>9, <1>14 DEF SaveForm, Change, TypeOK, call
<1>15. ASSUME NEW u \in Users, SetActive(u) PROVE TypeOK'
  BY <1>15 DEF SetActive, Change, TypeOK, versions, table, call, history
<1> QED
  BY <1>1, <1>2, <1>3, <1>4, <1>5, <1>6, <1>7, <1>8, <1>10, <1>11, <1>12, <1>13, <1>14, <1>15
  DEF Next, Serve
-----------------------------------------------------------------------------
\* A call that takes no step stands as it did.
LEMMA AsideStands ==
  ASSUME IInv, [Next]_vars, TypeOK', NEW c \in Callers, Aside(c), Quiet(c), Guarded(c)
  PROVE  Stands(c)'
<1>0. TypeOK /\ Stands(c) /\ RowsLast
  BY RowsKept DEF IInv, EachStands
<1>1. ToolFits(c)' /\ WritesWhole(c)'
  BY <1>0 DEF Aside, Stands, ToolFits, WritesWhole
<1>2. OwnRows(c)'
  <2>1. made \in Nat /\ made' \in Nat /\ seen[c] \subseteq Ids /\ wrote[c] \subseteq Ids
    BY ToolsAssumption DEF TypeOK, IInv
  <2>2. \A i \in Ids : i <= made => i <= made' /\ owner'[i] = owner[i]
    BY <1>0, <2>1 DEF RowsLast, Ids
  <2> QED
    BY <1>0, <2>1, <2>2 DEF Aside, Stands, OwnRows
<1>2a. HoldsRow(c)'
  <2>1. ASSUME pc[c] = "read"
        PROVE  /\ goal[c].id \in Readable(c)' /\ rowLock'[goal[c].id] = c
               /\ newest'[goal[c].id] = goal[c].text
    <3>1. /\ goal[c].id \in there /\ owner[goal[c].id] = SubjectOf[c] /\ goal[c].id \in Ids
          /\ rowLock[goal[c].id] = c /\ newest[goal[c].id] = goal[c].text
      BY <1>0, <2>1 DEF Stands, ToolFits, HoldsRow, Readable, Own, TypeOK, Goals
    <3>2. owner'[goal[c].id] = owner[goal[c].id]
      BY <1>0, <3>1, ThereOwn DEF RowsLast
    <3> QED
      BY <3>1, <3>2 DEF Guarded, Readable, Own
  <2> QED
    BY <1>0, <2>1 DEF Aside, Guarded, Stands, HoldsRow
<1>3. Walks(c)'
  <2>1. CASE ~ (goal[c].tool = "list" /\ ~ disturbed'[c])
    BY <1>0, <2>1 DEF Aside, Stands, Walks
  <2>2. CASE goal[c].tool = "list" /\ ~ disturbed'[c]
    <3>1. OnTheWay(c)
      BY <1>0, <2>2 DEF Quiet, Stands, Walks
    <3>2. Listed(c) \in SUBSET Ids /\ Listed(c)' \in SUBSET Ids
      <4>1. there' \subseteq Ids
        BY ToolsAssumption DEF TypeOK, Ids
      <4> QED
        BY <1>0, <4>1, ListedOwn DEF Listed, Matching, Own
    <3>3. Behind(c) \in Int /\ Behind(c)' = Behind(c)
      BY <1>0, ToolsAssumption DEF Behind, Aside, TypeOK
    <3>4. ASSUME pc[c] \in Walking, NEW i \in start[c] \ seen[c]
          PROVE  Behind(c) <= Newer(Listed(c)', i)
      <4>1. Listed(c) \subseteq Listed(c)' /\ Behind(c) <= Newer(Listed(c), i)
        BY <2>2, <3>1, <3>4 DEF Quiet, OnTheWay
      <4> QED
        BY <3>2, <3>3, <4>1, NewerGrows, NewerCounts
    <3>5. pc[c] \in Walking => start[c] \subseteq Listed(c)'
      BY <2>2, <3>1 DEF Quiet, OnTheWay
    <3>6. pc[c] = "slice" /\ total[c] <= page[c] * PageSize => Listed(c)' = Listed(c)
      BY <2>2 DEF Quiet, Walking
    <3>7. OnTheWay(c)'
      BY <3>1, <3>3, <3>4, <3>5, <3>6 DEF OnTheWay, Aside, Newer
    <3> QED
      BY <1>0, <3>7 DEF Walks, Aside, Stands
  <2> QED
    BY <2>1, <2>2
<1> QED
  BY <1>1, <1>2, <1>2a, <1>3 DEF Stands
-----------------------------------------------------------------------------
(* A call's own steps, part by part. *)

LEMMA FitsStep ==
  ASSUME IInv, NEW c \in Callers, Steps(c)
  PROVE  ToolFits(c)'
<1>0. TypeOK /\ ToolFits(c)
  BY DEF IInv, EachStands, Stands
<1> USE <1>0 DEF ToolFits, Goto, TypeOK
<1>1. ASSUME NEW g \in Goals, Call(c, g) PROVE ToolFits(c)'
  BY <1>1 DEF Call
<1>2. CASE NextPage(c)
  BY <1>2 DEF NextPage
<1>3. CASE Verify(c)
  <2>1. goal[c].tool \in {"list", "retrieve", "update"}
    BY DEF Goals
  <2>2. goal'[c] = goal[c]
    BY <1>3 DEF Verify
  <2>3. pc'[c] = "refused" \/ pc'[c] = (CASE goal[c].tool = "list" -> "count"
                                         [] goal[c].tool = "retrieve" -> "retrieve"
                                         [] goal[c].tool = "update" -> "update")
    BY <1>3 DEF Verify
  <2> QED
    BY <2>1, <2>2, <2>3
<1>4. CASE Count(c)
  BY <1>4 DEF Count, AfterPage
<1>5. CASE Slice(c)
  BY <1>5 DEF Slice, AfterPage
<1>6. CASE Retrieve(c)
  BY <1>6 DEF Retrieve
<1>7. CASE Update(c)
  BY <1>7 DEF Update
<1>8. CASE Read(c)
  BY <1>8 DEF Read
<1>9. CASE Fail(c)
  BY <1>9 DEF Fail
<1> QED
  BY <1>1, <1>2, <1>3, <1>4, <1>5, <1>6, <1>7, <1>8, <1>9 DEF Steps, Serve

LEMMA OwnStep ==
  ASSUME IInv, [Next]_vars, NEW c \in Callers, Steps(c)
  PROVE  OwnRows(c)'
<1>0. TypeOK /\ ToolFits(c) /\ OwnRows(c) /\ RowsLast /\ made \in Nat
  BY RowsKept, ToolsAssumption DEF IInv, EachStands, Stands, TypeOK
<1>1. UNCHANGED <<made, owner>>
  BY DEF Steps, Serve, Call, NextPage, Verify, Count, Slice, Retrieve, Update, Read, Fail, table
<1> USE <1>0, <1>1 DEF OwnRows, Goto, TypeOK
<1>2. CASE (\E g \in Goals : Call(c, g)) \/ NextPage(c) \/ Fail(c)
  BY <1>2 DEF Call, NextPage, Fail, Rollback, history
<1>3. CASE Verify(c)
  BY <1>3 DEF Verify, history
<1>4. CASE Count(c)
  BY <1>4 DEF Count
<1>5. CASE Slice(c)
  <2>1. \A i \in PageOf(Listed(c), page[c]) : i <= made /\ owner[i] = SubjectOf[c]
    BY ListedOwn DEF PageOf
  <2>2. seen'[c] = seen[c] \cup PageOf(Listed(c), page[c]) /\ wrote' = wrote
    BY <1>5 DEF Slice
  <2> QED
    BY <2>1, <2>2
<1>6. CASE Retrieve(c)
  <2>1. \A i \in Own(SubjectOf[c]) : i <= made /\ owner[i] = SubjectOf[c]
    BY ThereOwn DEF Own
  <2> QED
    BY <1>6, <2>1 DEF Retrieve, Readable
<1>7. CASE Update(c)
  <2>1. \A i \in Own(SubjectOf[c]) : i <= made /\ owner[i] = SubjectOf[c]
    BY ThereOwn DEF Own
  <2> QED
    BY <1>7, <2>1 DEF Update, Readable
<1>8. CASE Read(c)
  BY <1>8 DEF Read, Rollback
<1> QED
  BY <1>2, <1>3, <1>4, <1>5, <1>6, <1>7, <1>8 DEF Steps, Serve

LEMMA HoldsStep ==
  ASSUME IInv, NEW c \in Callers, Steps(c)
  PROVE  HoldsRow(c)'
<1>0. TypeOK /\ ToolFits(c) /\ HoldsRow(c) /\ NoOne \notin Callers
  BY ToolsAssumption DEF IInv, EachStands, Stands
<1>1. ASSUME pc[c] # "read", pc'[c] # "read", UNCHANGED rowLock PROVE HoldsRow(c)'
  BY <1>0, <1>1 DEF HoldsRow
<1>2. ASSUME Rollback(c), pc'[c] = "failed" PROVE HoldsRow(c)'
  BY <1>0, <1>2 DEF Rollback, HoldsRow
<1>3. CASE (\E g \in Goals : Call(c, g)) \/ NextPage(c)
  BY <1>0, <1>1, <1>3 DEF Call, NextPage, Goto, TypeOK, versions
<1>4. CASE Verify(c) \/ Count(c) \/ Slice(c) \/ Retrieve(c)
  <2>1. pc[c] # "read" /\ UNCHANGED rowLock
    BY <1>4 DEF Verify, Count, Slice, Retrieve, Goto, versions
  <2>2. pc'[c] # "read"
    BY <1>0, <1>4 DEF Verify, Count, Slice, Retrieve, Goto, AfterPage, TypeOK, Goals
  <2> QED
    BY <1>1, <2>1, <2>2
<1>5. CASE Update(c)
  <2>1. goal[c].id \in Ids /\ UNCHANGED <<there, owner, goal>>
    BY <1>0, <1>5 DEF Update, ToolFits, TypeOK, Goals, table
  <2>2. CASE /\ goal[c].id \in Readable(c) /\ rowLock' = [rowLock EXCEPT ![goal[c].id] = c]
             /\ newest' = [newest EXCEPT ![goal[c].id] = goal[c].text] /\ pc'[c] = "read"
             /\ pc[c] = "update"
    <3>1. Readable(c)' = Readable(c)
      BY <2>1 DEF Readable, Own
    <3> QED
      BY <1>0, <2>1, <2>2, <3>1 DEF HoldsRow, TypeOK
  <2>3. CASE Goto(c, "update", "failed") /\ UNCHANGED versions
    BY <1>0, <1>1, <2>3 DEF Goto, TypeOK, versions
  <2> QED
    BY <1>0, <1>5, <2>2, <2>3 DEF Update, Stored, Goto, TypeOK
<1>6. CASE Read(c)
  <2>1. CASE rowLock' = [rowLock EXCEPT ![goal[c].id] = NoOne] /\ pc'[c] = "answered"
    BY <1>0, <2>1 DEF HoldsRow, TypeOK
  <2> QED
    BY <1>0, <1>2, <1>6, <2>1 DEF Read, Goto, TypeOK
<1>7. CASE Fail(c)
  BY <1>0, <1>2, <1>7 DEF Fail, Goto, TypeOK
<1> QED
  BY <1>3, <1>4, <1>5, <1>6, <1>7 DEF Steps, Serve

LEMMA WritesStep ==
  ASSUME IInv, NEW c \in Callers, Steps(c)
  PROVE  WritesWhole(c)'
<1>0. TypeOK /\ ToolFits(c) /\ HoldsRow(c) /\ WritesWhole(c)
  BY DEF IInv, EachStands, Stands
<1>1. ASSUME Rollback(c), pc[c] # "answered", pc'[c] = "failed" PROVE WritesWhole(c)'
  <2>1. wrote'[c] = {i \in wrote[c] : rowLock[i] # c}
    BY <1>0, <1>1 DEF Rollback, TypeOK
  <2>2. wrote'[c] = {}
    BY <1>0, <1>1, <2>1 DEF WritesWhole, HoldsRow
  <2> QED
    BY <1>1, <2>2 DEF WritesWhole
<1>2. ASSUME NEW g \in Goals, Call(c, g) PROVE WritesWhole(c)'
  BY <1>0, <1>2 DEF Call, Goto, history, WritesWhole, TypeOK
<1>3. CASE NextPage(c)
  BY <1>0, <1>3 DEF NextPage, Goto, history, WritesWhole, TypeOK
<1>4. CASE Verify(c)
  <2>1. pc[c] = "verify" /\ pc'[c] \notin {"read", "answered"} /\ wrote' = wrote
    BY <1>0, <1>4 DEF Verify, Goto, Goals, history, TypeOK
  <2> QED
    BY <1>0, <2>1 DEF WritesWhole
<1>5. CASE Count(c) \/ Slice(c)
  <2>1. pc[c] \in {"count", "slice"} /\ pc'[c] \notin {"read", "answered"} /\ wrote' = wrote
    BY <1>0, <1>5 DEF Count, Slice, AfterPage, Goto, TypeOK
  <2> QED
    BY <1>0, <2>1 DEF WritesWhole
<1>6. CASE Retrieve(c)
  BY <1>0, <1>6 DEF Retrieve, Goto, ToolFits, WritesWhole, TypeOK
<1>7. CASE Update(c)
  BY <1>0, <1>7 DEF Update, Goto, WritesWhole, TypeOK
<1>8. CASE Read(c)
  <2>1. goal[c].id \in Readable(c) /\ newest[goal[c].id] = goal[c].text /\ wrote[c] = {goal[c].id}
    BY <1>0, <1>8 DEF Read, HoldsRow, WritesWhole
  <2> QED
    BY <1>0, <1>8, <2>1 DEF Read, Goto, WritesWhole, TypeOK
<1>9. CASE Fail(c)
  BY <1>0, <1>1, <1>9 DEF Fail, Goto, TypeOK, Statements
<1> QED
  BY <1>2, <1>3, <1>4, <1>5, <1>6, <1>7, <1>8, <1>9 DEF Steps, Serve

\* A walk begins with the whole list before it.
LEMMA FirstCount ==
  ASSUME IInv, TypeOK', NEW c \in Callers, Count(c), page[c] = 1
  PROVE  OnTheWay(c)'
<1>0. TypeOK
  BY DEF IInv
<1>1. /\ start'[c] = Listed(c) /\ Listed(c)' = Listed(c) /\ page'[c] = 1
      /\ total'[c] = Cardinality(Listed(c))
  BY <1>0 DEF Count, TypeOK, table, Listed, Matching, Own
<1>2. Listed(c) \in SUBSET Ids /\ Cardinality(Listed(c)) \in Nat
  BY <1>0, ListedOwn
<1>3. \/ pc'[c] = "slice"
      \/ ~ (0 < Cardinality(Listed(c))) /\ pc'[c] \in {"more", "walked"}
  BY <1>0, ToolsAssumption DEF Count, Goto, AfterPage, TypeOK
<1>4. CASE pc'[c] = "slice"
  <2>1. Behind(c)' = 0
    BY <1>1, <1>4, ToolsAssumption DEF Behind
  <2>2. \A i \in Listed(c) : 0 <= Newer(Listed(c), i)
    BY <1>2, NewerCounts
  <2> QED
    BY <1>1, <1>2, <1>4, <2>1, <2>2 DEF OnTheWay, Newer
<1>5. CASE ~ (0 < Cardinality(Listed(c))) /\ pc'[c] \in {"more", "walked"}
  <2>1. Listed(c) = {}
    <3>1. SUFFICES ASSUME NEW i \in Listed(c) PROVE FALSE
      OBVIOUS
    <3> QED
      BY <1>2, <1>5, <3>1, NewerBelow, NewerCounts
  <2> QED
    BY <1>1, <1>5, <2>1 DEF OnTheWay
<1> QED
  BY <1>3, <1>4, <1>5

\* A walk that has no more ratings ahead has seen all of those of its start.
LEMMA NothingAhead ==
  ASSUME IInv, NEW c \in Callers, OnTheWay(c), pc[c] \in Walking,
         Cardinality(Listed(c)) <= Behind(c)
  PROVE  start[c] \subseteq seen[c]
<1>1. TypeOK
  BY DEF IInv
<1>2. Behind(c) \in Int
  BY <1>1, ToolsAssumption DEF Behind, TypeOK
<1> SUFFICES ASSUME NEW i \in start[c] \ seen[c] PROVE FALSE
  OBVIOUS
<1>3. i \in Listed(c) /\ Behind(c) <= Newer(Listed(c), i)
  BY DEF OnTheWay
<1>4. Newer(Listed(c), i) < Cardinality(Listed(c)) /\ Newer(Listed(c), i) \in Nat
  BY <1>1, <1>3, ListedOwn, NewerBelow, NewerCounts
<1> QED
  BY <1>1, <1>2, <1>3, <1>4, ListedOwn

LEMMA LaterCount ==
  ASSUME IInv, TypeOK', NEW c \in Callers, Count(c), page[c] # 1, OnTheWay(c)
  PROVE  OnTheWay(c)'
<1>0. TypeOK
  BY DEF IInv
<1>1. /\ start'[c] = start[c] /\ seen'[c] = seen[c] /\ Listed(c)' = Listed(c)
      /\ page'[c] = page[c] /\ total'[c] = Cardinality(Listed(c)) /\ pc[c] = "count"
  BY <1>0 DEF Count, TypeOK, table, Listed, Matching, Own
<1>2. Behind(c) = (page[c] - 1) * PageSize
  BY <1>1 DEF Behind
<1>3. Cardinality(Listed(c)) \in Nat /\ Behind(c) \in Int
  BY <1>0, <1>2, ListedOwn, ToolsAssumption DEF TypeOK
<1>4. \/ pc'[c] = "slice"
      \/ ~ (Behind(c) < Cardinality(Listed(c))) /\ pc'[c] \in {"more", "walked"}
  BY <1>0, <1>2 DEF Count, Goto, AfterPage, TypeOK
<1>5. CASE pc'[c] = "slice"
  <2>1. Behind(c)' = Behind(c)
    BY <1>1, <1>2, <1>5 DEF Behind
  <2> QED
    BY <1>1, <1>3, <1>5, <2>1 DEF OnTheWay, Newer, Walking
<1>6. CASE ~ (Behind(c) < Cardinality(Listed(c))) /\ pc'[c] \in {"more", "walked"}
  <2>1. start[c] \subseteq seen[c]
    BY <1>1, <1>3, <1>6, NothingAhead DEF Walking
  <2> QED
    BY <1>1, <1>6, <2>1 DEF OnTheWay, Walking
<1> QED
  BY <1>4, <1>5, <1>6

\* A slice leaves only ratings of later pages unseen.
LEMMA SlicePasses ==
  ASSUME IInv, TypeOK', NEW c \in Callers, Slice(c), OnTheWay(c)
  PROVE  OnTheWay(c)'
<1>0. TypeOK
  BY DEF IInv
<1>1. /\ start'[c] = start[c] /\ Listed(c)' = Listed(c) /\ page'[c] = page[c]
      /\ seen'[c] = seen[c] \cup PageOf(Listed(c), page[c]) /\ pc[c] = "slice"
  BY <1>0 DEF Slice, TypeOK, table, Listed, Matching, Own
<1> DEFINE past == page[c] * PageSize
           before == (page[c] - 1) * PageSize
<1>2. /\ past \in Int /\ before \in Int /\ total[c] \in Nat
      /\ Listed(c) \in SUBSET Ids /\ Cardinality(Listed(c)) \in Nat
  BY <1>0, ListedOwn, ToolsAssumption DEF TypeOK
<1>3. Behind(c) = before
  BY <1>1 DEF Behind
<1>4. ASSUME NEW i \in start[c] \ seen'[c]
      PROVE  i \in Listed(c) /\ past <= Newer(Listed(c), i)
  <2>1. i \in Listed(c) /\ before <= Newer(Listed(c), i) /\ i \notin PageOf(Listed(c), page[c])
    BY <1>1, <1>3, <1>4 DEF OnTheWay, Walking
  <2>2. ~ (before <= Newer(Listed(c), i) /\ Newer(Listed(c), i) < past)
    BY <2>1 DEF PageOf, Newer
  <2>3. Newer(Listed(c), i) \in Nat
    BY <1>2, NewerCounts
  <2> HIDE DEF past, before
  <2> QED
    BY <1>2, <2>1, <2>2, <2>3
<1>5. \/ pc'[c] = "more"
      \/ pc'[c] = "walked" /\ ~ (past < total[c])
  BY <1>0 DEF Slice, Goto, AfterPage, TypeOK
<1>6. CASE pc'[c] = "more"
  <2>1. Behind(c)' = past
    BY <1>1, <1>6 DEF Behind
  <2> QED
    BY <1>1, <1>4, <1>6, <2>1 DEF OnTheWay, Newer, Walking
<1>7. CASE pc'[c] = "walked" /\ ~ (past < total[c])
  <2>1. Cardinality(Listed(c)) <= past
    <3>1. Cardinality(Listed(c)) <= total[c] \/ ~ (total[c] <= past)
      BY <1>1 DEF OnTheWay
    <3> HIDE DEF past
    <3> QED
      BY <1>2, <1>7, <3>1
  <2>2. start[c] \subseteq seen'[c]
    <3> SUFFICES ASSUME NEW i \in start[c] \ seen'[c] PROVE FALSE
      OBVIOUS
    <3>1. i \in Listed(c) /\ past <= Newer(Listed(c), i)
      BY <1>4
    <3>2. Newer(Listed(c), i) < Cardinality(Listed(c)) /\ Newer(Listed(c), i) \in Nat
      BY <1>2, <3>1, NewerBelow, NewerCounts
    <3> HIDE DEF past
    <3> QED
      BY <1>2, <2>1, <3>1, <3>2
  <2> QED
    BY <1>1, <1>7, <2>2 DEF OnTheWay, Walking
<1> QED
  BY <1>5, <1>6, <1>7

\* The next page begins where the last one ended.
LEMMA PageTurns ==
  ASSUME IInv, NEW c \in Callers, NextPage(c), OnTheWay(c)
  PROVE  OnTheWay(c)'
<1>0. TypeOK
  BY DEF IInv
<1>1. /\ start'[c] = start[c] /\ seen'[c] = seen[c] /\ Listed(c)' = Listed(c)
      /\ page'[c] = page[c] + 1 /\ pc[c] = "more" /\ pc'[c] = "verify"
  BY <1>0 DEF NextPage, Goto, TypeOK, table, history, Listed, Matching, Own
<1>2. Behind(c)' = Behind(c)
  <2>1. page'[c] - 1 = page[c]
    BY <1>0, <1>1 DEF TypeOK
  <2> QED
    BY <1>1, <2>1 DEF Behind
<1> QED
  BY <1>1, <1>2 DEF OnTheWay, Newer, Walking

LEMMA WalksStep ==
  ASSUME IInv, TypeOK', NEW c \in Callers, Steps(c)
  PROVE  Walks(c)'
<1>0. TypeOK /\ ToolFits(c) /\ Walks(c)
  BY DEF IInv, EachStands, Stands
<1> USE <1>0
<1>1. pc'[c] # "idle"
  BY DEF Steps, Serve, Call, NextPage, Verify, Count, Slice, Retrieve, Update, Read, Fail, Goto,
         AfterPage, TypeOK, Goals
<1>2. ASSUME NEW g \in Goals, Call(c, g) PROVE Walks(c)'
  <2>1. start'[c] = {} /\ pc'[c] = "verify"
    BY <1>2 DEF Call, Goto, history, Walks, TypeOK
  <2> QED
    BY <2>1 DEF Walks, OnTheWay
<1>3. CASE NextPage(c)
  <2>1. goal' = goal /\ disturbed' = disturbed
    BY <1>3 DEF NextPage, history
  <2> QED
    BY <1>1, <1>3, <2>1, PageTurns DEF Walks
<1>4. CASE Verify(c)
  <2>1. /\ start' = start /\ seen' = seen /\ disturbed' = disturbed /\ goal' = goal /\ total' = total
        /\ page' = page /\ Listed(c)' = Listed(c) /\ pc[c] = "verify"
    BY <1>4 DEF Verify, Goto, table, history, Listed, Matching, Own
  <2>2. goal[c].tool = "list" => pc'[c] \in {"count", "refused"}
    BY <1>4 DEF Verify, Goto, TypeOK
  <2>3. Behind(c)' = Behind(c) \/ pc'[c] # "count"
    BY <2>1 DEF Behind
  <2>4. goal[c].tool = "list" /\ OnTheWay(c) => OnTheWay(c)'
    BY <2>1, <2>2, <2>3 DEF OnTheWay, Newer, Walking
  <2> QED
    BY <1>1, <2>1, <2>4 DEF Walks
<1>5. CASE Count(c)
  <2>1. goal' = goal /\ disturbed'[c] = (page[c] > 1 /\ disturbed[c])
    BY <1>5 DEF Count, TypeOK
  <2>2. page[c] # 1 => page[c] > 1
    <3>1. page[c] \in Nat \ {0}
      BY <1>0 DEF TypeOK
    <3> QED
      BY <3>1
  <2> QED
    BY <1>1, <1>5, <2>1, <2>2, FirstCount, LaterCount DEF Walks
<1>6. CASE Slice(c)
  <2>1. goal' = goal /\ disturbed' = disturbed
    BY <1>6 DEF Slice
  <2> QED
    BY <1>1, <1>6, <2>1, SlicePasses DEF Walks
<1>7. CASE Retrieve(c) \/ Update(c) \/ Read(c)
  <2>1. goal'[c].tool # "list"
    BY <1>7 DEF Retrieve, Update, Read, Goto, ToolFits
  <2> QED
    BY <1>1, <2>1 DEF Walks
<1>8. CASE Fail(c)
  <2>1. pc'[c] = "failed"
    BY <1>8 DEF Fail, Goto, TypeOK
  <2> QED
    BY <2>1 DEF Walks, OnTheWay, Walking
<1> QED
  BY <1>2, <1>3, <1>4, <1>5, <1>6, <1>7, <1>8 DEF Steps, Serve

LEMMA InvariantStep == IInv /\ [Next]_vars => IInv'
<1> SUFFICES ASSUME IInv, [Next]_vars PROVE IInv'
  OBVIOUS
<1>1. TypeOK'
  BY TypeStep DEF IInv, EachStands, Stands
<1>2. ASSUME NEW c \in Callers PROVE Stands(c)'
  <2>1. CASE Steps(c)
    BY <1>1, <2>1, FitsStep, OwnStep, HoldsStep, WritesStep, WalksStep DEF Stands
  <2>2. CASE Aside(c) /\ Quiet(c) /\ Guarded(c)
    BY <1>1, <2>2, AsideStands
  <2> QED
    BY <2>1, <2>2, StepSeen
<1> QED
  BY <1>1, <1>2 DEF IInv, EachStands

LEMMA InvariantHolds == Spec => []IInv
<1>1. Init => IInv
  BY TypeInit, StandsInit DEF IInv
<1> QED
  BY <1>1, InvariantStep, PTL DEF Spec
-----------------------------------------------------------------------------
\* Every variable keeps its type.
THEOREM TypeCorrect == Spec => []TypeOK
<1>1. IInv => TypeOK
  BY DEF IInv
<1> QED
  BY <1>1, InvariantHolds, PTL

\* A client that turns the pages of list_assessments to the end, undisturbed, has
\* been shown every rating that was in the list when it began.
THEOREM WalkIsComplete == Spec => []NothingSkipped
<1>1. IInv => NothingSkipped
  BY DEF IInv, EachStands, Stands, ToolFits, Walks, OnTheWay, NothingSkipped
<1> QED
  BY <1>1, InvariantHolds, PTL

\* The tools list, read and change ratings of their token's subject only.
THEOREM OnlyTheSubjects == Spec => []OwnOnly
<1>1. IInv => OwnOnly
  BY DEF IInv, EachStands, Stands, OwnRows, OwnOnly
<1> QED
  BY <1>1, InvariantHolds, PTL

\* update_review answers with the row it reads back, which nobody has changed since its
\* UPDATE, or stores nothing, for any number of clients and of failing statements.
THEOREM WholeUpdate == Spec => []AllOrNothing
<1>1. IInv => AllOrNothing
  BY DEF IInv, EachStands, Stands, WritesWhole, AllOrNothing
<1> QED
  BY <1>1, InvariantHolds, PTL
=============================================================================
