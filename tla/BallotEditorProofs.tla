------------------------ MODULE BallotEditorProofs ------------------------
(* Proofs about BallotEditor, for any number of candidates, clicks and faults. *)
EXTENDS BallotEditor, FiniteSetTheorems, TLAPS

(* The inductive invariant, in named parts; SelectionFollows is one of them. *)

\* A click builds no embed before it changes the view.
Unbuilt == \A c \in Clicks : pc[c] \in {"idle", "defer"} => embed[c].kind = "none"

\* Clicks that have been served one at a time: the screen shows the ballot until a
\* click has moved a candidate, and the click that has brings it up to date, unless
\* neither of its edits arrives; what is saved is what Confirm was pressed on, and
\* nothing is pressed after it.
OneByOne ==
  /\ \A c, d \in Busy : c = d
  /\ \A c \in Clicks :
       /\ pc[c] = "edit" => embed[c].order = order
       /\ pc[c] \in {"thinking", "save"} /\ ~ unshown => seen = order
       /\ pc[c] \in {"save", "saved"} => shown.kind # "ballot"
       /\ saved # <<>> => pc[c] \notin {"defer", "edit", "thinking", "save"}
  /\ (\A c \in Busy : ~ Moved(c)) /\ shown.kind = "ballot" /\ ~ unshown =>
       shown.order = order
  /\ saved # <<>> => shown.kind # "ballot" /\ (unshown \/ saved = seen)

IInv == TypeOK /\ SelectionFollows /\ Unbuilt /\ (~ overlapped => OneByOne)
-----------------------------------------------------------------------------
(* Ballots *)

LEMMA RowsFinite ==
  /\ Cardinality(Candidates) \in Nat /\ IsFiniteSet(Rows)
  /\ Cardinality(Rows) = Cardinality(Candidates) /\ 0 \notin Rows /\ 1 \in Rows
<1>1. Cardinality(Candidates) \in Nat /\ Cardinality(Candidates) # 0
  BY EditorAssumption, FS_CardinalityType, FS_EmptySet
<1>2. IsFiniteSet(1..Cardinality(Candidates))
      /\ Cardinality(1..Cardinality(Candidates)) = Cardinality(Candidates)
  BY <1>1, FS_Interval
<1> QED
  BY <1>1, <1>2 DEF Rows

\* A ballot ranks every candidate.
LEMMA EachRanked ==
  ASSUME NEW o \in Ballots, NEW m \in Candidates
  PROVE  \E row \in Rows : o[row] = m
<1>1. o \in Injection(Rows, Candidates)
  BY DEF Ballots, Injection, IsInjective
<1>2. o \in Surjection(Rows, Candidates)
  BY <1>1, RowsFinite, EditorAssumption, FS_Injection
<1> QED
  BY <1>2 DEF Surjection

\* It is a ballot still after two candidates have changed their rows.
LEMMA SwapBallot ==
  ASSUME NEW o \in Ballots, NEW i \in Rows, NEW j \in Rows
  PROVE  [o EXCEPT ![i] = o[j], ![j] = o[i]] \in Ballots
  BY DEF Ballots

LEMMA EmbedType ==
  ASSUME NEW o \in Ballots, NEW row \in {0} \cup Rows
  PROVE  Embed(o, row) \in Messages /\ Embed(o, row).order = o
  BY DEF Embed, Messages

LEMMA PlainType ==
  ASSUME NEW kind \in {"none", "thinking", "saved", "error"}
  PROVE  Plain(kind) \in Messages /\ Plain(kind).kind # "ballot"
  BY DEF Plain, Messages

\* A ballot is not the empty one.
LEMMA BallotNotEmpty == <<>> \notin Ballots
<1>1. ASSUME <<>> \in Ballots PROVE FALSE
  <2>1. DOMAIN <<>> = Rows
    BY <1>1 DEF Ballots
  <2> QED
    BY <2>1, RowsFinite
<1> QED
  BY <1>1
-----------------------------------------------------------------------------
(* What a served click does to the view *)

LEMMA RowOfType ==
  ASSUME TypeOK, NEW c \in Clicks, goal[c] \in Candidates
  PROVE  RowOf(c) \in Rows /\ order[RowOf(c)] = goal[c]
  BY EachRanked DEF TypeOK, RowOf

\* A swap leaves a ballot, with the same candidate at the arrow.
LEMMA SwapEffect ==
  ASSUME TypeOK, NEW c \in Clicks, selectedRow # 0, NewRow(c) \in Rows,
         order' = [order EXCEPT ![selectedRow] = order[NewRow(c)],
                                ![NewRow(c)] = order[selectedRow]]
  PROVE  order' \in Ballots /\ order'[NewRow(c)] = order[selectedRow]
<1>1. order \in Ballots /\ selectedRow \in Rows
  BY DEF TypeOK
<1>2. order' \in Ballots
  BY <1>1, SwapBallot
<1>3. order'[NewRow(c)] = order[selectedRow]
  BY <1>1 DEF Ballots
<1> QED
  BY <1>2, <1>3

LEMMA ChangeType ==
  ASSUME TypeOK, NEW c \in Clicks, NEW o \in Ballots, NEW row \in Rows, Change(c, o, row)
  PROVE  /\ order' \in Ballots /\ selectedRow' \in {0} \cup Rows
         /\ pc' \in [Clicks -> {"idle", "defer", "edit", "thinking", "save", "saved", "error", "done"}]
         /\ embed' \in [Clicks -> Messages]
<1>1. Embed(o, row) \in Messages
  BY EmbedType
<1> QED
  BY <1>1 DEF Change, Step, TypeOK

LEMMA TypeInit == Init => TypeOK
<1> SUFFICES ASSUME Init PROVE TypeOK
  OBVIOUS
<1>1. Plain("none") \in Messages /\ Embed(order, 0) \in Messages
  BY PlainType, EmbedType DEF Init
<1> QED
  BY <1>1 DEF Init, TypeOK

LEMMA TypeStep == TypeOK /\ [Next]_vars => TypeOK'
<1> SUFFICES ASSUME TypeOK, [Next]_vars PROVE TypeOK'
  OBVIOUS
<1>0. /\ pc \in [Clicks -> {"idle", "defer", "edit", "thinking", "save", "saved", "error", "done"}]
      /\ Plain("thinking") \in Messages /\ Plain("saved") \in Messages /\ Plain("error") \in Messages
  BY PlainType DEF TypeOK
<1>1. CASE UNCHANGED vars
  BY <1>1 DEF TypeOK, vars, view, click, history
<1>2. ASSUME NEW c \in Clicks, NEW what \in Candidates \cup {"up", "down", "confirm"}, Press(c, what)
      PROVE  TypeOK'
  <2>1. shown.order \in Ballots \cup {<<>>}
    BY DEF TypeOK, Messages
  <2>2. pc' \in [Clicks -> {"idle", "defer", "edit", "thinking", "save", "saved", "error", "done"}]
    BY <1>0, <1>2 DEF Press, Step
  <2>3. overlapped' \in BOOLEAN /\ seen' \in Ballots \cup {<<>>}
    BY <1>2, <2>1 DEF Press, TypeOK
  <2>4. goal' \in [Clicks -> Candidates \cup {"up", "down", "confirm", Nothing}]
    BY <1>2 DEF Press, TypeOK
  <2> QED
    BY <1>2, <2>2, <2>3, <2>4 DEF Press, TypeOK, view
<1>3. ASSUME NEW c \in Clicks, SelectCandidate(c) PROVE TypeOK'
  <2>1. RowOf(c) \in Rows /\ goal[c] \in Candidates /\ Change(c, order, RowOf(c))
    BY <1>3, RowOfType DEF SelectCandidate
  <2>2. order \in Ballots
    BY DEF TypeOK
  <2> QED
    BY <1>3, <2>1, <2>2, ChangeType DEF SelectCandidate, TypeOK
<1>4. ASSUME NEW c \in Clicks, SwapItem(c) PROVE TypeOK'
  <2>1. CASE /\ selectedRow # 0 /\ NewRow(c) \in Rows
             /\ Change(c, [order EXCEPT ![selectedRow] = order[NewRow(c)],
                                        ![NewRow(c)] = order[selectedRow]], RowAfter(c))
    <3>1. order' \in Ballots /\ NewRow(c) \in Rows /\ Change(c, order', NewRow(c))
      BY <2>1, SwapEffect DEF Change, RowAfter
    <3>2. PICK o \in Ballots : Change(c, o, NewRow(c))
      BY <3>1, <2>1, SwapBallot DEF RowAfter, TypeOK
    <3> QED
      BY <1>4, <3>1, <3>2, ChangeType DEF SwapItem, TypeOK, history
  <2>2. CASE Step(c, "defer", "done") /\ UNCHANGED <<view, embed>>
    BY <1>4, <2>2 DEF SwapItem, Step, TypeOK, view, history
  <2> QED
    BY <1>4, <2>1, <2>2 DEF SwapItem
<1>5. ASSUME NEW c \in Clicks,
             Refresh(c) \/ ShowThinking(c) \/ SaveVote(c) \/ Acknowledge(c) \/ DiscordError(c) \/ OnError(c)
      PROVE  TypeOK'
  <2>1. pc' \in [Clicks -> {"idle", "defer", "edit", "thinking", "save", "saved", "error", "done"}]
    BY <1>0, <1>5 DEF Refresh, ShowThinking, SaveVote, Acknowledge, DiscordError, OnError, Step
  <2>2. shown' \in Messages
    BY <1>0, <1>5 DEF Refresh, ShowThinking, SaveVote, Acknowledge, DiscordError, OnError, TypeOK
  <2>3. saved' \in Ballots \cup {<<>>} /\ faults' \in Nat
    BY <1>5 DEF Refresh, ShowThinking, SaveVote, Acknowledge, DiscordError, OnError, TypeOK
  <2>4. UNCHANGED <<view, goal, embed, chosen, seen, overlapped>> /\ unshown' \in BOOLEAN
    BY <1>5 DEF Refresh, ShowThinking, SaveVote, Acknowledge, DiscordError, OnError, Moved,
       TypeOK,
                history
  <2> QED
    BY <2>1, <2>2, <2>3, <2>4 DEF TypeOK, view
<1> QED
  BY <1>1, <1>2, <1>3, <1>4, <1>5 DEF Next

\* Only a click on the list or on an arrow touches the view, and the arrow ends up
\* where the candidate chosen last is.
LEMMA FollowsStep == TypeOK /\ SelectionFollows /\ [Next]_vars => SelectionFollows'
<1> SUFFICES ASSUME TypeOK, SelectionFollows, [Next]_vars PROVE SelectionFollows'
  OBVIOUS
<1>1. CASE UNCHANGED <<order, selectedRow, chosen>>
  BY <1>1 DEF SelectionFollows
<1>2. ASSUME NEW c \in Clicks, SelectCandidate(c) PROVE SelectionFollows'
  <2>1. order' = order /\ selectedRow' = RowOf(c) /\ chosen' = goal[c] /\ goal[c] \in Candidates
    BY <1>2 DEF SelectCandidate, Change
  <2> QED
    BY <2>1, RowOfType DEF SelectionFollows
<1>3. ASSUME NEW c \in Clicks, SwapItem(c), ~ UNCHANGED view PROVE SelectionFollows'
  <2>1. /\ selectedRow # 0 /\ NewRow(c) \in Rows /\ selectedRow' = NewRow(c) /\ chosen' = chosen
        /\ order' = [order EXCEPT ![selectedRow] = order[NewRow(c)],
                                  ![NewRow(c)] = order[selectedRow]]
    BY <1>3 DEF SwapItem, Change, RowAfter, history
  <2> QED
    BY <2>1, SwapEffect DEF SelectionFollows
<1> QED
  BY <1>1, <1>2, <1>3 DEF Next, vars, view, history, Press, SwapItem, Refresh, ShowThinking,
     SaveVote,
     Acknowledge, DiscordError, OnError

LEMMA UnbuiltStep == TypeOK /\ Unbuilt /\ [Next]_vars => Unbuilt'
<1> SUFFICES ASSUME TypeOK, Unbuilt, [Next]_vars PROVE Unbuilt'
  OBVIOUS
<1>1. CASE UNCHANGED <<pc, embed>>
  BY <1>1 DEF Unbuilt
<1>2. ASSUME NEW c \in Clicks, NEW from, NEW to, Step(c, from, to), to \in {"idle", "defer"} => from = "idle",
             \A d \in Clicks : d # c => embed'[d] = embed[d],
             to \in {"idle", "defer"} => embed'[c] = embed[c]
      PROVE  Unbuilt'
  BY <1>2 DEF Unbuilt, Step, TypeOK
<1>3. ASSUME NEW c \in Clicks, NEW what \in Candidates \cup {"up", "down", "confirm"}, Press(c, what)
      PROVE  Unbuilt'
  <2>1. PICK to : Step(c, "idle", to)
    BY <1>3 DEF Press
  <2> QED
    BY <1>2, <1>3, <2>1 DEF Press
<1>4. ASSUME NEW c \in Clicks, SelectCandidate(c) \/ SwapItem(c) PROVE Unbuilt'
  <2>1. CASE /\ Step(c, "defer", "edit")
             /\ \E message : embed' = [embed EXCEPT ![c] = message]
    BY <1>2, <2>1 DEF TypeOK
  <2>2. CASE Step(c, "defer", "done") /\ UNCHANGED embed
    BY <1>2, <2>2
  <2> QED
    BY <1>4, <2>1, <2>2 DEF SelectCandidate, SwapItem, Change
<1>5. ASSUME NEW c \in Clicks,
             Refresh(c) \/ ShowThinking(c) \/ SaveVote(c) \/ Acknowledge(c) \/ DiscordError(c) \/ OnError(c)
      PROVE  Unbuilt'
  <2>1. PICK from, to : Step(c, from, to) /\ to \notin {"idle", "defer"}
    BY <1>5 DEF Refresh, ShowThinking, SaveVote, Acknowledge, DiscordError, OnError
  <2>2. UNCHANGED embed
    BY <1>5 DEF Refresh, ShowThinking, SaveVote, Acknowledge, DiscordError, OnError
  <2> QED
    BY <1>2, <2>1, <2>2
<1> QED
  BY <1>1, <1>3, <1>4, <1>5 DEF Next, vars, click
-----------------------------------------------------------------------------
\* A click that is served moves on, and no other.
LEMMA BusyMoves ==
  ASSUME TypeOK, NEW c \in Clicks, NEW from, NEW to, Step(c, from, to)
  PROVE  /\ pc[c] = from /\ pc'[c] = to /\ \A d \in Clicks : d # c => pc'[d] = pc[d]
         /\ \A d \in Clicks : d \in Busy <=> pc[d] \notin {"idle", "done"}
         /\ \A d \in Clicks : d \in Busy' <=> pc'[d] \notin {"idle", "done"}
  BY DEF TypeOK, Step, Busy

\* While clicks are served one at a time, the rest of them are idle or done.
LEMMA Alone ==
  ASSUME OneByOne, NEW c \in Clicks, pc[c] \notin {"idle", "done"}
  PROVE  \A d \in Clicks : d # c => pc[d] \in {"idle", "done"}
  BY DEF OneByOne, Busy

\* So what the invariant says is about the one that is served.
LEMMA OneAfter ==
  ASSUME TypeOK, NEW c \in Clicks, NEW from, NEW to, Step(c, from, to),
         \A d \in Clicks : d # c => pc[d] \in {"idle", "done"},
         to = "edit" => embed'[c].order = order',
         to \in {"thinking", "save"} /\ ~ unshown' => seen' = order',
         to \in {"save", "saved"} => shown'.kind # "ballot",
         saved' # <<>> => to \notin {"defer", "edit", "thinking", "save"},
         to \in {"idle", "done"} \/ ~ Moved(c)' =>
           (shown'.kind = "ballot" /\ ~ unshown' => shown'.order = order'),
         saved' # <<>> => shown'.kind # "ballot" /\ (unshown' \/ saved' = seen')
  PROVE  OneByOne'
<1>1. /\ pc'[c] = to /\ \A d \in Clicks : d # c => pc'[d] \in {"idle", "done"}
      /\ \A d \in Clicks : d \in Busy' <=> pc'[d] \notin {"idle", "done"}
  BY BusyMoves
<1>2. \A d \in Busy' : d = c
  BY <1>1 DEF Busy
<1>3. (\A d \in Busy' : ~ Moved(d)') => to \in {"idle", "done"} \/ ~ Moved(c)'
  BY <1>1
<1>4. (\A d \in Busy : ~ Moved(d))' <=> \A d \in Busy' : ~ Moved(d)'
  OBVIOUS
<1> QED
  BY <1>1, <1>2, <1>3, <1>4 DEF OneByOne

LEMMA PressOne ==
  ASSUME IInv, NEW c \in Clicks, NEW what \in Candidates \cup {"up", "down", "confirm"},
         Press(c, what), ~ overlapped'
  PROVE  OneByOne'
<1>1. TypeOK /\ OneByOne /\ Busy = {} /\ ~ overlapped
  BY DEF IInv, Press, TypeOK
<1>2. PICK to \in {"thinking", "defer"} : Step(c, "idle", to) /\ (to = "thinking" <=> what = "confirm")
  BY DEF Press
<1>3. \A d \in Clicks : d # c => pc[d] \in {"idle", "done"}
  BY <1>1 DEF Busy
<1>4. shown.kind = "ballot" /\ (~ unshown => shown.order = order) /\ saved = <<>>
  BY <1>1 DEF Press, OneByOne
<1>5. /\ UNCHANGED <<order, embed, shown, saved, unshown>>
      /\ to = "thinking" => seen' = shown.order
  BY <1>2 DEF Press, view
<1> QED
  BY <1>1, <1>2, <1>3, <1>4, <1>5, OneAfter

\* A step of the only click there is.
LEMMA ServeOne ==
  ASSUME IInv, ~ overlapped, NEW c \in Clicks,
         \/ SelectCandidate(c) \/ SwapItem(c) \/ Refresh(c) \/ ShowThinking(c) \/ SaveVote(c)
         \/ Acknowledge(c) \/ DiscordError(c) \/ OnError(c)
  PROVE  OneByOne'
<1>0. TypeOK /\ OneByOne
  BY DEF IInv
<1>1. pc[c] \notin {"idle", "done"}
  BY DEF SelectCandidate, SwapItem, Refresh, ShowThinking, SaveVote, Acknowledge, DiscordError,
     OnError,
         Change, Step
<1>2. \A d \in Clicks : d # c => pc[d] \in {"idle", "done"}
  BY <1>0, <1>1, Alone
<1>3. \A kind \in {"none", "thinking", "saved", "error"} : Plain(kind).kind # "ballot"
  BY DEF Plain
<1>4. /\ pc[c] = "edit" => embed[c].order = order
      /\ pc[c] \in {"thinking", "save"} /\ ~ unshown => seen = order
      /\ pc[c] \in {"save", "saved"} => shown.kind # "ballot"
      /\ saved # <<>> => pc[c] \notin {"defer", "edit", "thinking", "save"}
      /\ saved # <<>> => shown.kind # "ballot" /\ (unshown \/ saved = seen)
  BY <1>0 DEF OneByOne
<1>5. ~ Moved(c) => (shown.kind = "ballot" /\ ~ unshown => shown.order = order)
  BY <1>0, <1>2 DEF OneByOne, Busy
<1>5a. pc[c] = "defer" => ~ Moved(c)
  BY DEF IInv, Unbuilt, Moved
<1>6. CASE SelectCandidate(c)
  <2>1. /\ Step(c, "defer", "edit") /\ pc[c] = "defer" /\ embed'[c] = Embed(order, RowOf(c))
        /\ UNCHANGED <<order, shown, saved, seen, unshown>>
    BY <1>0, <1>6 DEF SelectCandidate, Change, Step, TypeOK
  <2>2. embed'[c].order = order'
    BY <2>1 DEF Embed
  <2> QED
    BY <1>0, <1>2, <1>4, <1>5, <1>5a, <2>1, <2>2, OneAfter
<1>7. CASE SwapItem(c)
  <2>1. UNCHANGED <<goal, shown, saved, seen, unshown>> /\ pc[c] = "defer" /\ goal[c] \in {"up", "down"}
    BY <1>7 DEF SwapItem, Change, Step, history
  <2>2. CASE Step(c, "defer", "edit") /\ embed' = [embed EXCEPT ![c] = Embed(order', selectedRow')]
    <3>1. embed'[c].order = order' /\ embed'[c].kind = "ballot"
      BY <1>0, <2>2 DEF Embed, TypeOK
    <3>2. Moved(c)'
      BY <2>1, <3>1 DEF Moved
    <3> QED
      BY <1>0, <1>2, <1>4, <2>1, <2>2, <3>1, <3>2, OneAfter
  <2>3. CASE Step(c, "defer", "done") /\ UNCHANGED <<order, embed>>
    BY <1>0, <1>2, <1>4, <1>5, <1>5a, <2>1, <2>3, OneAfter
  <2> QED
    BY <1>7, <2>2, <2>3 DEF SwapItem, Change, view
<1>8. CASE Refresh(c)
  <2>1. /\ Step(c, "edit", "done") /\ pc[c] = "edit" /\ shown' = embed[c]
        /\ UNCHANGED <<order, embed, saved, seen>>
    BY <1>8 DEF Refresh, Step, view
  <2> QED
    BY <1>0, <1>2, <1>4, <2>1, OneAfter
<1>9. CASE ShowThinking(c)
  <2>1. /\ Step(c, "thinking", "save") /\ pc[c] = "thinking" /\ shown'.kind # "ballot"
        /\ UNCHANGED <<order, embed, saved, seen, unshown>>
    BY <1>3, <1>9 DEF ShowThinking, Step, view, history
  <2> QED
    BY <1>0, <1>2, <1>4, <2>1, OneAfter
<1>10. CASE SaveVote(c)
  <2>1. /\ Step(c, "save", "saved") /\ pc[c] = "save" /\ saved' = order
        /\ UNCHANGED <<order, embed, shown, seen, unshown>>
    BY <1>10 DEF SaveVote, Step, view, history
  <2> QED
    BY <1>0, <1>2, <1>4, <2>1, OneAfter
<1>11. CASE Acknowledge(c)
  <2>1. /\ Step(c, "saved", "done") /\ shown'.kind # "ballot"
        /\ UNCHANGED <<order, embed, saved, seen, unshown>>
    BY <1>3, <1>11 DEF Acknowledge, view, history
  <2> QED
    BY <1>0, <1>2, <1>4, <2>1, OneAfter
<1>12. CASE DiscordError(c)
  <2>1. Step(c, pc[c], "error") /\ UNCHANGED <<order, goal, embed, shown, saved, seen, unshown>>
    BY <1>12 DEF DiscordError, view, history
  <2>2. Moved(c)' <=> Moved(c)
    BY <2>1 DEF Moved
  <2> QED
    BY <1>0, <1>2, <1>4, <1>5, <2>1, <2>2, OneAfter
<1>13. CASE OnError(c)
  <2>1. Step(c, "error", "done") /\ UNCHANGED <<order, embed, saved, seen>>
    BY <1>13 DEF OnError, view
  <2>2. CASE shown' = Plain("error") /\ UNCHANGED unshown
    BY <1>0, <1>2, <1>3, <1>4, <2>1, <2>2, OneAfter
  <2>3. CASE unshown' = (unshown \/ Moved(c)) /\ UNCHANGED shown
    BY <1>0, <1>2, <1>4, <1>5, <2>1, <2>3, OneAfter
  <2> QED
    BY <1>13, <2>2, <2>3 DEF OnError
<1> QED
  BY <1>6, <1>7, <1>8, <1>9, <1>10, <1>11, <1>12, <1>13

LEMMA OneStep == IInv /\ [Next]_vars /\ ~ overlapped' => OneByOne'
<1> SUFFICES ASSUME IInv, [Next]_vars, ~ overlapped' PROVE OneByOne'
  OBVIOUS
<1>1. CASE UNCHANGED vars
  BY <1>1 DEF IInv, OneByOne, Busy, Moved, vars, view, click, history
<1>2. ASSUME NEW c \in Clicks, NEW what \in Candidates \cup {"up", "down", "confirm"}, Press(c, what)
      PROVE  OneByOne'
  BY <1>2, PressOne
<1>3. ASSUME NEW c \in Clicks,
             \/ SelectCandidate(c) \/ SwapItem(c) \/ Refresh(c) \/ ShowThinking(c) \/ SaveVote(c)
             \/ Acknowledge(c) \/ DiscordError(c) \/ OnError(c)
      PROVE  OneByOne'
  <2>1. overlapped' = overlapped
    BY <1>3 DEF SelectCandidate, SwapItem, Refresh, ShowThinking, SaveVote, Acknowledge,
       DiscordError,
                OnError, history
  <2> QED
    BY <1>3, <2>1, ServeOne
<1> QED
  BY <1>1, <1>2, <1>3 DEF Next

LEMMA InvariantHolds == Spec => []IInv
<1>1. Init => IInv
  <2> SUFFICES ASSUME Init PROVE IInv
    OBVIOUS
  <2>1. TypeOK
    BY TypeInit
  <2>2. selectedRow = 0 /\ saved = <<>> /\ Busy = {} /\ \A c \in Clicks : pc[c] = "idle"
    BY DEF Init, Busy
  <2>3. shown.order = order /\ \A c \in Clicks : embed[c].kind = "none"
    BY DEF Init, Embed, Plain
  <2> QED
    BY <2>1, <2>2, <2>3 DEF IInv, SelectionFollows, Unbuilt, OneByOne
<1>2. IInv /\ [Next]_vars => IInv'
  BY TypeStep, FollowsStep, UnbuiltStep, OneStep DEF IInv
<1> QED
  BY <1>1, <1>2, PTL DEF Spec
-----------------------------------------------------------------------------
\* Every variable keeps its type; in particular order is a ballot of all candidates.
THEOREM TypeCorrect == Spec => []TypeOK
<1>1. IInv => TypeOK
  BY DEF IInv
<1> QED
  BY <1>1, InvariantHolds, PTL

\* However the clicks are served between one another, the arrow is on the candidate
\* chosen last.
THEOREM ArrowFollows == Spec => []SelectionFollows
<1>1. IInv => SelectionFollows
  BY DEF IInv
<1> QED
  BY <1>1, InvariantHolds, PTL

\* A voter who waits for each click stores the ballot Confirm was pressed on, for any
\* number of failing calls, unless a move reached the screen neither by its edit nor by
\* that of on_error and no later edit has shown the ballot since.
THEOREM SavesWhatIsShown == Spec => []ConfirmedAsShown
<1>1. IInv => ConfirmedAsShown
  BY DEF IInv, OneByOne, ConfirmedAsShown
<1> QED
  BY <1>1, InvariantHolds, PTL
=============================================================================
