---------------------------- MODULE BallotEditor ----------------------------
(* One PollView from the inside: the voter chooses a candidate in the list,     *)
(* moves it up and down the ballot and confirms.  Each of these is a click with *)
(* a coroutine of its own; self.candidates and self.selected_row are shared,    *)
(* and every coroutine edits the same Discord message.                          *)
EXTENDS Naturals, Sequences, FiniteSets

CONSTANTS
  Candidates,   \* the candidates of the view
  Clicks,       \* the clicks Discord delivers
  MaxFaults,    \* failed Discord calls (bound)
  NoOne, Nothing

ASSUME EditorAssumption ==
  /\ IsFiniteSet(Candidates) /\ Candidates # {} /\ NoOne \notin Candidates
  /\ {"up", "down", "confirm"} \cap Candidates = {}
  /\ MaxFaults \in Nat

VARIABLES
  order, selectedRow,   \* PollView.candidates, selected_row (0 is None)
  pc, goal, embed,      \* a click: where it stands, what it is for, the embed it built
  shown,                \* the message
  saved,                \* the ranks stored last, or an empty ballot
  faults,
  chosen, seen, overlapped,  \* history: the candidate chosen last; what was on the
                             \* screen at the last Confirm; clicks served together;
  unshown                    \* a move that neither its edit nor its error reached the
                             \* screen for, nor any edit since

view == <<order, selectedRow>>
click == <<pc, goal, embed>>
history == <<chosen, seen, overlapped, unshown>>
vars == <<view, click, shown, saved, faults, history>>
-----------------------------------------------------------------------------
Rows == 1..Cardinality(Candidates)
Ballots == {o \in [Rows -> Candidates] : \A i, j \in Rows : o[i] = o[j] => i = j}
Busy == {c \in Clicks : pc[c] \notin {"idle", "done"}}

\* The numbered list, with an arrow at the selected row.
Embed(o, row) == [kind |-> "ballot", order |-> o, row |-> row]
Plain(kind) == [kind |-> kind, order |-> <<>>, row |-> 0]

Init ==
  /\ order \in Ballots /\ selectedRow = 0
  /\ pc = [c \in Clicks |-> "idle"]
  /\ goal = [c \in Clicks |-> Nothing]
  /\ embed = [c \in Clicks |-> Plain("none")]
  /\ shown = Embed(order, 0)
  /\ saved = <<>> /\ faults = 0
  /\ chosen = NoOne /\ seen = <<>> /\ overlapped = FALSE /\ unshown = FALSE

Step(c, from, to) == pc[c] = from /\ pc' = [pc EXCEPT ![c] = to]

\* A click on the candidate list (the goal is a candidate), on an arrow or on Confirm.
Press(c, what) ==
  /\ shown.kind = "ballot"
  /\ Step(c, "idle", IF what = "confirm" THEN "thinking" ELSE "defer")
  /\ goal' = [goal EXCEPT ![c] = what]
  /\ seen' = IF what = "confirm" THEN shown.order ELSE seen
  /\ overlapped' = (overlapped \/ Busy # {})
  /\ UNCHANGED <<view, embed, shown, saved, faults, chosen, unshown>>

\* Faulty: the embed is built before the change.
ChangeLate(c, o, row) ==
  /\ Step(c, "defer", "edit")
  /\ order' = o /\ selectedRow' = row
  /\ embed' = [embed EXCEPT ![c] = Embed(order, selectedRow)]

\* The view changes and the embed for it is built before anything else runs.
Change(c, o, row) ==
  /\ Step(c, "defer", "edit")
  /\ order' = o /\ selectedRow' = row
  /\ embed' = [embed EXCEPT ![c] = Embed(o, row)]

\* Faulty: rows are counted from zero and from one.
RowBelow(c) == 1 + CHOOSE row \in Rows : order[row] = goal[c]

RowOf(c) == CHOOSE row \in Rows : order[row] = goal[c]

SelectCandidate(c) ==
  /\ goal[c] \in Candidates
  /\ Change(c, order, RowOf(c))
  /\ chosen' = goal[c]
  /\ UNCHANGED <<goal, shown, saved, faults, seen, overlapped, unshown>>

NewRow(c) == IF goal[c] = "up" THEN selectedRow - 1 ELSE selectedRow + 1

\* Faulty: the arrow stays behind when its candidate moves.
RowBefore(c) == selectedRow

\* The arrow moves with its candidate.
RowAfter(c) == NewRow(c)

\* Without a selection and at either end of the ballot the click does nothing.
SwapItem(c) ==
  /\ goal[c] \in {"up", "down"}
  /\ \/ /\ selectedRow # 0 /\ NewRow(c) \in Rows
        /\ Change(c, [order EXCEPT ![selectedRow] = order[NewRow(c)],
                                   ![NewRow(c)] = order[selectedRow]], RowAfter(c))
     \/ /\ selectedRow = 0 \/ NewRow(c) \notin Rows
        /\ Step(c, "defer", "done")
        /\ UNCHANGED <<view, embed>>
  /\ UNCHANGED <<goal, shown, saved, faults, history>>

Refresh(c) ==
  /\ Step(c, "edit", "done")
  /\ shown' = embed[c]
  /\ unshown' = FALSE
  /\ UNCHANGED <<view, goal, embed, saved, faults, chosen, seen, overlapped>>

ShowThinking(c) ==
  /\ Step(c, "thinking", "save")
  /\ shown' = Plain("thinking")
  /\ UNCHANGED <<view, goal, embed, saved, faults, history>>

SaveVote(c) ==
  /\ Step(c, "save", "saved")
  /\ saved' = order
  /\ UNCHANGED <<view, goal, embed, shown, faults, history>>

Acknowledge(c) ==
  /\ Step(c, "saved", "done")
  /\ shown' = Plain("saved")
  /\ UNCHANGED <<view, goal, embed, saved, faults, history>>

DiscordError(c) ==
  /\ faults < MaxFaults /\ faults' = faults + 1
  /\ pc[c] \in {"defer", "edit", "thinking", "saved"} /\ Step(c, pc[c], "error")
  /\ UNCHANGED <<view, goal, embed, shown, saved, history>>

\* The click has moved a candidate and was on its way to the screen.
Moved(c) == goal[c] \in {"up", "down"} /\ embed[c].kind = "ballot"

\* on_error is an edit of the message itself: when it fails too, the message and its
\* buttons stay what they are.
OnError(c) ==
  /\ Step(c, "error", "done")
  /\ \/ /\ shown' = Plain("error")
        /\ UNCHANGED <<faults, unshown>>
     \/ /\ faults < MaxFaults /\ faults' = faults + 1
        /\ unshown' = (unshown \/ Moved(c))
        /\ UNCHANGED shown
  /\ UNCHANGED <<view, goal, embed, saved, chosen, seen, overlapped>>

Next == \E c \in Clicks :
  \/ \E what \in Candidates \cup {"up", "down", "confirm"} : Press(c, what)
  \/ SelectCandidate(c) \/ SwapItem(c) \/ Refresh(c)
  \/ ShowThinking(c) \/ SaveVote(c) \/ Acknowledge(c)
  \/ DiscordError(c) \/ OnError(c)

Spec == Init /\ [][Next]_vars
-----------------------------------------------------------------------------
Messages == [kind : {"ballot", "none", "thinking", "saved", "error"},
             order : Ballots \cup {<<>>}, row : {0} \cup Rows]

TypeOK ==
  /\ order \in Ballots /\ selectedRow \in {0} \cup Rows
  /\ pc \in [Clicks -> {"idle", "defer", "edit", "thinking", "save", "saved", "error", "done"}]
  /\ goal \in [Clicks -> Candidates \cup {"up", "down", "confirm", Nothing}]
  /\ embed \in [Clicks -> Messages] /\ shown \in Messages
  /\ saved \in Ballots \cup {<<>>} /\ seen \in Ballots \cup {<<>>}
  /\ faults \in Nat /\ chosen \in Candidates \cup {NoOne} /\ overlapped \in BOOLEAN
  /\ unshown \in BOOLEAN

\* The arrow is on the candidate chosen last, however clicks on the list and on the
\* arrows are served between one another: what moves is what the voter chose.
SelectionFollows == selectedRow # 0 => order[selectedRow] = chosen

\* A voter who waits for each click to be served stores the ballot on the screen,
\* whichever calls to Discord fail, but for one case: the edit after a move and the
\* edit that should report it both fail, and no click on the list or an arrow shows the
\* ballot again before Confirm.  Without the wait a move still being served may get
\* into the stored ballot.
ConfirmedAsShown == saved # <<>> /\ ~ overlapped /\ ~ unshown => saved = seen
=============================================================================
