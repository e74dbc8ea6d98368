------------------------- MODULE CreateModalProofs -------------------------
(* Proofs about CreateModal, for any number of submissions, media and faults. *)
EXTENDS CreateModal, TLAPS

(* The inductive invariant: what holds of each submission, in named parts. *)

\* The submission has stored the row of its key.
Stored(s) == sub[s].key # NoKey /\ author[sub[s].key] = s

Before == {"idle", "modal", "thinking", "validate", "enrich", "save"}

\* A submission's row is that of its key, stored once on_submit has got that far.
RowStands(s) ==
  /\ \A k \in Keys : author[k] = s => sub[s].key = k
  /\ sub[s].pc \in Before => ~ Stored(s)
  /\ sub[s].pc = "complete" => Stored(s)
  /\ sub[s].pc # "idle" => sub[s].key \in Keys

\* The outcome on_submit leaves its body with is what happened to the row, and
\* the message shown is that outcome, or an error after a failure.
OutcomeStands(s) ==
  /\ sub[s].outcome = "saved" => Stored(s)
  /\ sub[s].outcome = "flaws" => ~ Stored(s)
  /\ sub[s].outcome = "raised" /\ Stored(s) => s \in broken
  /\ sub[s].pc \in Before \cup {"complete"} => sub[s].outcome = "none"
  /\ sub[s].pc \in {"finalize", "answer"} => sub[s].outcome # "none"
  /\ sub[s].pc = "answer" => sub[s].outcome # "raised"
  /\ sub[s].pc = "error" /\ Stored(s) => s \in broken
  /\ sub[s].shown \in Final => sub[s].pc = "done"
  /\ sub[s].shown \in {"saved", "flaws"} => sub[s].outcome = sub[s].shown
  /\ sub[s].shown = "error" /\ Stored(s) => s \in broken

\* The task lives while the body runs, on_submit waits for its end, and it is
\* registered just as long as it runs.
TaskStands(s) ==
  /\ sub[s].pc \in {"idle", "modal", "thinking"} => sub[s].loop = "none"
  /\ sub[s].pc \in {"answer", "error", "done"} => sub[s].loop \in {"none", "ended"}
  /\ s \in registry <=> sub[s].loop \in {"awake", "editing"}

Stands(s) == RowStands(s) /\ OutcomeStands(s) /\ TaskStands(s)

EachStands == \A s \in Submissions : Stands(s)

IInv == TypeOK /\ EachStands
-----------------------------------------------------------------------------
\* The invariant holds at first.
LEMMA TypeInit == Init => TypeOK
  BY ModalAssumption DEF Init, TypeOK, Idle, SubStates, Stages, Outcomes, Loops, Screens, MaybeKeys

LEMMA StandsInit == Init => EachStands
<1> SUFFICES ASSUME Init, NEW s \in Submissions PROVE Stands(s)
  BY DEF EachStands
<1>1. /\ sub[s].pc = "idle" /\ sub[s].key = NoKey /\ sub[s].outcome = "none" /\ sub[s].loop = "none"
      /\ sub[s].shown = "form" /\ registry = {}
  BY DEF Init, Idle
<1>2. \A k \in Keys : author[k] # s
  BY ModalAssumption DEF Init
<1> QED
  BY <1>1, <1>2 DEF Stands, RowStands, OutcomeStands, TaskStands, Stored, Before, Final

(* What the steps do to a submission, and that they leave the others alone. *)

\* Everything about the others is as it was.
Aside(s) == \A t \in Submissions : t # s => sub'[t] = sub[t]

LEMMA GotoEffect ==
  ASSUME TypeOK, NEW s \in Submissions, NEW from, NEW to \in Stages, Goto(s, from, to)
  PROVE  /\ sub' \in [Submissions -> SubStates] /\ Aside(s)
         /\ sub[s].pc = from /\ sub'[s].pc = to
         /\ sub'[s].key = sub[s].key /\ sub'[s].outcome = sub[s].outcome
         /\ sub'[s].loop = sub[s].loop /\ sub'[s].shown = sub[s].shown
  BY DEF Goto, TypeOK, SubStates, Aside

LEMMA LeaveEffect ==
  ASSUME TypeOK, NEW s \in Submissions, NEW from, NEW what \in Outcomes, Leave(s, from, what)
  PROVE  /\ sub' \in [Submissions -> SubStates] /\ Aside(s)
         /\ sub[s].pc = from /\ sub'[s].pc = "finalize" /\ sub'[s].outcome = what
         /\ sub'[s].key = sub[s].key /\ sub'[s].loop = sub[s].loop /\ sub'[s].shown = sub[s].shown
  <1>1. "finalize" \in Stages
    BY DEF Stages
  <1> QED
    BY <1>1 DEF Leave, Message, TypeOK, SubStates, Aside

LEMMA OpenEffect ==
  ASSUME TypeOK, NEW s \in Submissions, NEW k \in Keys, Open(s, k)
  PROVE  /\ sub' \in [Submissions -> SubStates] /\ Aside(s)
         /\ sub[s].pc = "idle" /\ sub'[s].pc = "modal" /\ sub'[s].key = k
         /\ sub'[s].outcome = sub[s].outcome /\ sub'[s].loop = sub[s].loop /\ sub'[s].shown = sub[s].shown
  <1>1. "modal" \in Stages /\ k \in MaybeKeys
    BY DEF Stages, MaybeKeys
  <1> QED
    BY <1>1 DEF Open, TypeOK, SubStates, Aside

LEMMA ThinkingEffect ==
  ASSUME TypeOK, NEW s \in Submissions, ShowThinking(s)
  PROVE  /\ sub' \in [Submissions -> SubStates] /\ Aside(s)
         /\ sub[s].pc = "thinking" /\ sub'[s].pc = "validate"
         /\ sub'[s].key = sub[s].key /\ sub'[s].outcome = sub[s].outcome
         /\ sub'[s].loop = "awake" /\ sub'[s].shown = "thinking"
  <1>1. "validate" \in Stages /\ "thinking" \in Screens /\ "awake" \in Loops
    BY DEF Stages, Screens, Loops
  <1> QED
    BY <1>1 DEF ShowThinking, TypeOK, SubStates, Aside

LEMMA ShowEffect ==
  ASSUME TypeOK, NEW s \in Submissions, NEW from, NEW what \in Screens, Show(s, from, what)
  PROVE  /\ sub' \in [Submissions -> SubStates] /\ Aside(s)
         /\ sub[s].pc = from /\ sub'[s].pc = "done" /\ sub'[s].shown = what
         /\ sub'[s].key = sub[s].key /\ sub'[s].outcome = sub[s].outcome /\ sub'[s].loop = sub[s].loop
  <1>1. "done" \in Stages
    BY DEF Stages
  <1> QED
    BY <1>1 DEF Show, TypeOK, SubStates, Aside

\* The task only changes its own state and the progress shown.
LEMMA LoopEffect ==
  ASSUME TypeOK, NEW s \in Submissions,
         LoopTurn(s) \/ LoopEdit(s) \/ LoopTimeout(s) \/ StrayEdit(s)
  PROVE  /\ sub' \in [Submissions -> SubStates] /\ Aside(s)
         /\ sub'[s].pc = sub[s].pc /\ sub'[s].key = sub[s].key /\ sub'[s].outcome = sub[s].outcome
         /\ \/ /\ sub'[s].loop = sub[s].loop /\ sub'[s].shown = "progress" /\ s \in stray
               /\ UNCHANGED registry
            \/ /\ sub[s].loop \in {"awake", "editing"} /\ sub'[s].loop \in {"awake", "editing"}
               /\ \/ sub'[s].shown = sub[s].shown
                  \/ sub[s].loop = "editing" /\ sub'[s].shown = "progress"
               /\ UNCHANGED registry
            \/ /\ sub[s].loop \in {"awake", "editing"} /\ sub'[s].loop = "ended"
               /\ sub'[s].shown = sub[s].shown /\ registry' = registry \ {s}
  <1>1. "progress" \in Screens /\ "awake" \in Loops /\ "editing" \in Loops /\ "ended" \in Loops
    BY DEF Screens, Loops
  <1>0. sub \in [Submissions -> SubStates]
    BY DEF TypeOK
  <1>2. ASSUME End(s), sub[s].loop \in Timed
        PROVE  /\ sub' \in [Submissions -> SubStates] /\ Aside(s)
               /\ sub'[s].pc = sub[s].pc /\ sub'[s].key = sub[s].key /\ sub'[s].outcome = sub[s].outcome
               /\ sub[s].loop \in {"awake", "editing"} /\ sub'[s].loop = "ended"
               /\ sub'[s].shown = sub[s].shown /\ registry' = registry \ {s}
    BY <1>0, <1>1, <1>2 DEF End, Timed, SubStates, Aside
  <1>3. CASE UNCHANGED registry /\ sub[s].loop = "awake" /\ sub' = [sub EXCEPT ![s].loop = "editing"]
    BY <1>0, <1>1, <1>3 DEF SubStates, Aside
  <1>4. CASE /\ UNCHANGED registry /\ sub[s].loop = "editing"
             /\ sub' = [sub EXCEPT ![s].shown = "progress", ![s].loop = "awake"]
    <2>1. sub' \in [Submissions -> SubStates]
      BY <1>0, <1>1, <1>4 DEF SubStates
    <2>2. /\ sub'[s].pc = sub[s].pc /\ sub'[s].key = sub[s].key /\ sub'[s].outcome = sub[s].outcome
          /\ sub'[s].loop = "awake" /\ sub'[s].shown = "progress"
      BY <1>0, <1>4 DEF SubStates
    <2>3. Aside(s)
      BY <1>0, <1>4 DEF Aside
    <2> QED
      BY <1>4, <2>1, <2>2, <2>3
  <1>5. CASE StrayEdit(s)
    BY <1>0, <1>1, <1>5 DEF StrayEdit, SubStates, Aside
  <1>6. CASE End(s) /\ sub[s].loop \in Timed
    BY <1>2, <1>6
  <1> QED
    BY <1>3, <1>4, <1>5, <1>6 DEF LoopTurn, LoopEdit, LoopTimeout, Timed
-----------------------------------------------------------------------------
\* Only an INSERT changes the rows, and it gives the submission a row nobody had.
Inserts(s) == \E k \in Keys : author[k] = NoOne /\ author' = [author EXCEPT ![k] = s]

\* The other submissions stand as they did.
LEMMA OthersStand ==
  ASSUME IInv, NEW s \in Submissions, Aside(s), author' = author \/ Inserts(s),
         broken \subseteq broken', registry' \ {s} = registry \ {s},
         NEW t \in Submissions, t # s
  PROVE  Stands(t)'
<1>1. sub'[t] = sub[t] /\ (t \in registry' <=> t \in registry)
  BY DEF Aside
<1>2. \A k \in Keys : author'[k] = t <=> author[k] = t
  BY ModalAssumption DEF Inserts, IInv, TypeOK
<1>3. sub[t].key # NoKey => sub[t].key \in Keys
  BY DEF IInv, TypeOK, SubStates, MaybeKeys
<1>4. Stored(t)' <=> Stored(t)
  BY <1>1, <1>2, <1>3 DEF Stored
<1> QED
  BY <1>1, <1>2, <1>4 DEF IInv, EachStands, Stands, RowStands, OutcomeStands, TaskStands

\* A submission's own steps.
LEMMA KeepsRow ==
  ASSUME IInv, NEW s \in Submissions, UNCHANGED author, sub'[s].key = sub[s].key
  PROVE  /\ Stored(s)' <=> Stored(s)
         /\ \A k \in Keys : author'[k] = s => sub'[s].key = k
  BY DEF IInv, EachStands, Stands, RowStands, Stored

\* A submission that has not got to its INSERT has stored nothing.
LEMMA NothingStored ==
  ASSUME IInv, NEW s \in Submissions, sub[s].pc \in Before
  PROVE  \A k \in Keys : author[k] # s
  BY ModalAssumption DEF IInv, EachStands, Stands, RowStands, Stored

\* What a step of s must see to for the invariant to go on holding.
Good(s) ==
  /\ sub' \in [Submissions -> SubStates] /\ Aside(s) /\ Stands(s)'
  /\ author' = author \/ Inserts(s)
  /\ broken \subseteq broken' /\ registry' \ {s} = registry \ {s}
  /\ sub[s].pc = "done" /\ sub'[s].shown # sub[s].shown => s \in stray

\* The form is opened, submitted and thought about.
LEMMA OpeningGood ==
  ASSUME IInv, NEW s \in Submissions,
         (\E k \in Keys : Open(s, k)) \/ Submit(s) \/ ShowThinking(s)
  PROVE  Good(s)
<1>0. TypeOK /\ Stands(s)
  BY DEF IInv, EachStands
<1> USE DEF Stands, RowStands, OutcomeStands, TaskStands, Before, Final
<1>1. ASSUME NEW k \in Keys, Open(s, k) PROVE Good(s)
  <2>1. \A l \in Keys : author[l] # s
    BY <1>1, NothingStored DEF Open
  <2>2. UNCHANGED <<author, registry, broken>>
    BY <1>1 DEF Open, rows, tasks
  <2> QED
    BY <1>0, <1>1, <2>1, <2>2, OpenEffect DEF Good, Stored
<1>2. CASE Submit(s)
  <2>1. UNCHANGED <<author, registry, broken>> /\ Goto(s, "modal", "thinking") /\ "thinking" \in Stages
    BY <1>2 DEF Submit, rows, tasks, Stages
  <2> QED
    BY <1>0, <2>1, GotoEffect DEF Good, Stored
<1>3. CASE ShowThinking(s)
  <2>1. UNCHANGED <<author, broken>> /\ registry' = registry \cup {s}
    BY <1>3 DEF ShowThinking, rows
  <2> QED
    BY <1>0, <1>3, <2>1, ThinkingEffect DEF Good, Stored
<1> QED
  BY <1>1, <1>2, <1>3

\* The body goes on, or ends with what is true of its row.
LEMMA OnwardGood ==
  ASSUME IInv, NEW s \in Submissions, NEW from \in Before \ {"idle", "modal", "thinking"}, NEW to \in Before,
         to \notin {"idle", "modal", "thinking"}, Goto(s, from, to), UNCHANGED <<author, registry, broken>>
  PROVE  Good(s)
<1>0. TypeOK /\ Stands(s) /\ to \in Stages
  BY DEF IInv, EachStands, Stages, Before
<1> QED
  BY <1>0, GotoEffect DEF Good, Stored, Stands, RowStands, OutcomeStands, TaskStands, Before, Final

LEMMA LeavingGood ==
  ASSUME IInv, NEW s \in Submissions, NEW from \in {"validate", "enrich", "save", "complete"},
         NEW what \in Outcomes \ {"none"}, Leave(s, from, what),
         UNCHANGED registry, author' = author \/ Inserts(s), broken \subseteq broken',
         \A k \in Keys : author'[k] = s => sub[s].key = k,
         what = "saved" => Stored(s)', what = "flaws" => ~ Stored(s)',
         what = "raised" /\ Stored(s)' => s \in broken'
  PROVE  Good(s)
<1>1. TypeOK /\ Stands(s) /\ what \in Outcomes
  BY DEF IInv, EachStands
<1> QED
  BY <1>1, LeaveEffect
  DEF Good, Stored, Stands, RowStands, OutcomeStands, TaskStands, Before, Final

\* The INSERT is the first of the submission, and of its key.
LEMMA Inserted ==
  ASSUME IInv, NEW s \in Submissions, sub[s].pc = "save", Free(sub[s].key),
         author' = [author EXCEPT ![sub[s].key] = s], sub'[s].key = sub[s].key
  PROVE  /\ Inserts(s) /\ Stored(s)'
         /\ \A k \in Keys : author'[k] = s => sub[s].key = k
<1>1. sub[s].key \in Keys /\ sub[s].key # NoKey
  BY ModalAssumption DEF IInv, EachStands, Stands, RowStands
<1>2. author'[sub[s].key] = s /\ \A k \in Keys : k # sub[s].key => author'[k] = author[k]
  BY <1>1 DEF IInv, TypeOK
<1>3. \A k \in Keys : author[k] # s
  BY NothingStored DEF Before
<1> QED
  BY <1>1, <1>2, <1>3 DEF Inserts, Stored, Free

\* The steps of the body, from show_thinking to the finally of start_task.
LEMMA BodyGood ==
  ASSUME IInv, NEW s \in Submissions,
         \/ \E ok \in BOOLEAN : Validate(s, ok)
         \/ \E mark \in Marks : Enrich(s, mark)
         \/ \E ticked \in BOOLEAN : Save(s, ticked)
         \/ \E completion \in Completions : Complete(s, completion)
  PROVE  Good(s)
<1>0. TypeOK /\ Stands(s)
  BY DEF IInv, EachStands
<1>1. {"saved", "flaws", "raised"} \subseteq Outcomes \ {"none"}
  BY DEF Outcomes
<1>2. ASSUME NEW from \in {"validate", "enrich", "save"}, NEW what \in {"flaws", "raised"},
             Leave(s, from, what), UNCHANGED <<author, registry, broken>>
      PROVE  Good(s)
  <2>1. sub[s].pc \in Before
    BY <1>2 DEF Leave, Before
  <2>2. \A k \in Keys : author'[k] # s
    BY <1>2, <2>1, NothingStored
  <2>3. ~ Stored(s)'
    <3>1. sub'[s].key = sub[s].key
      BY <1>0, <1>1, <1>2, LeaveEffect
    <3>2. sub[s].key \in Keys \cup {NoKey}
      BY <1>0 DEF TypeOK, SubStates, MaybeKeys
    <3> QED
      BY <2>2, <3>1, <3>2 DEF Stored
  <2> QED
    BY <1>1, <1>2, <2>2, <2>3, LeavingGood
<1>3. ASSUME NEW ok \in BOOLEAN, Validate(s, ok) PROVE Good(s)
  <2>1. UNCHANGED <<author, registry, broken>>
    BY <1>3 DEF Validate, rows, tasks
  <2>2. CASE Goto(s, "validate", IF IsRating(s) THEN "save" ELSE "enrich")
    BY <2>1, <2>2, OnwardGood DEF Before
  <2>3. CASE Leave(s, "validate", "flaws")
    BY <1>2, <2>1, <2>3
  <2> QED
    BY <1>3, <2>2, <2>3 DEF Validate
<1>4. ASSUME NEW mark \in Marks, Enrich(s, mark) PROVE Good(s)
  <2>1. UNCHANGED <<author, registry, broken>>
    BY <1>4 DEF Enrich, rows, tasks
  <2>2. CASE Goto(s, "enrich", "save")
    BY <2>1, <2>2, OnwardGood DEF Before
  <2>3. CASE Leave(s, "enrich", "raised")
    BY <1>2, <2>1, <2>3
  <2> QED
    BY <1>4, <2>2, <2>3 DEF Enrich
<1>5. ASSUME NEW ticked \in BOOLEAN, Save(s, ticked) PROVE Good(s)
  <2>1. sub[s].pc = "save" /\ UNCHANGED <<registry, broken>>
    BY <1>5 DEF Save, tasks
  <2>2. CASE Free(sub[s].key) /\ author' = [author EXCEPT ![sub[s].key] = s] /\ Goto(s, "save", "complete")
    <3>1. "complete" \in Stages
      BY DEF Stages
    <3>2. /\ sub' \in [Submissions -> SubStates] /\ Aside(s) /\ sub'[s].pc = "complete"
          /\ sub'[s].key = sub[s].key /\ sub'[s].outcome = sub[s].outcome
          /\ sub'[s].loop = sub[s].loop /\ sub'[s].shown = sub[s].shown
      BY <1>0, <2>2, <3>1, GotoEffect
    <3>3. /\ Inserts(s) /\ Stored(s)'
          /\ \A k \in Keys : author'[k] = s => sub[s].key = k
      BY <2>1, <2>2, <3>2, Inserted
    <3> QED
      BY <1>0, <2>1, <3>2, <3>3
      DEF Good, Stands, RowStands, OutcomeStands, TaskStands, Before, Final
  <2>3. CASE Free(sub[s].key) /\ author' = [author EXCEPT ![sub[s].key] = s] /\ Leave(s, "save", "saved")
    <3>1. sub'[s].key = sub[s].key
      BY <1>0, <1>1, <2>3, LeaveEffect
    <3>2. /\ Inserts(s) /\ Stored(s)'
          /\ \A k \in Keys : author'[k] = s => sub[s].key = k
      BY <2>1, <2>3, <3>1, Inserted
    <3>3. "saved" \in Outcomes \ {"none"} /\ "save" \in {"validate", "enrich", "save", "complete"}
      BY <1>1
    <3> QED
      BY <2>1, <2>3, <3>2, <3>3, LeavingGood
  <2>4. CASE Leave(s, "save", "raised") /\ UNCHANGED author
    BY <1>2, <2>1, <2>4
  <2> QED
    BY <1>5, <2>2, <2>3, <2>4 DEF Save, rows
<1>6. ASSUME NEW completion \in Completions, Complete(s, completion) PROVE Good(s)
  <2>1. UNCHANGED <<author, registry>>
    BY <1>6 DEF Complete, rows, tasks
  <2>2. ASSUME NEW what \in {"saved", "raised"}, Leave(s, "complete", what) PROVE sub'[s].key = sub[s].key
    BY <1>0, <1>1, <2>2, LeaveEffect
  <2>3. CASE Leave(s, "complete", "saved") /\ UNCHANGED broken
    <3>1. Stored(s)
      BY <1>0, <2>3 DEF Leave, Stands, RowStands
    <3> QED
      BY <1>1, <2>1, <2>2, <2>3, <3>1, KeepsRow, LeavingGood
  <2>4. CASE Leave(s, "complete", "raised") /\ broken' = broken \cup {s}
    BY <1>1, <2>1, <2>2, <2>4, KeepsRow, LeavingGood
  <2> QED
    BY <1>6, <2>3, <2>4 DEF Complete
<1> QED
  BY <1>3, <1>4, <1>5, <1>6

\* The steps after the body: the task is awaited, and the last word said.
LEMMA LastGood ==
  ASSUME IInv, NEW s \in Submissions,
         Finalize(s) \/ Answer(s) \/ ShowError(s) \/ DiscordError(s)
  PROVE  Good(s)
<1>0. TypeOK /\ Stands(s)
  BY DEF IInv, EachStands
<1>1. UNCHANGED <<author, registry>> /\ broken \subseteq broken'
  BY DEF Finalize, Answer, ShowError, Show, DiscordError, rows, tasks
<1>2. {"error", "answer", "done"} \subseteq Stages
  BY DEF Stages
<1> USE DEF Stands, RowStands, OutcomeStands, TaskStands, Before, Final
<1>3. CASE Finalize(s)
  <2>1. PICK to \in {"error", "answer"} : Goto(s, "finalize", to) /\ (to = "error" <=> sub[s].outcome = "raised")
    BY <1>3 DEF Finalize
  <2>2. sub[s].loop = "ended" /\ UNCHANGED broken
    BY <1>3 DEF Finalize, TaskDone
  <2> QED
    BY <1>0, <1>1, <1>2, <2>1, <2>2, GotoEffect DEF Good, Stored
<1>4. CASE Answer(s)
  <2>1. sub[s].outcome \in {"saved", "flaws"} /\ sub[s].outcome \in Screens /\ UNCHANGED broken
    BY <1>0, <1>4 DEF Answer, Show, TypeOK, SubStates, Outcomes, Screens
  <2>2. Show(s, "answer", sub[s].outcome)
    BY <1>4 DEF Answer
  <2> QED
    BY <1>0, <1>1, <1>2, <2>1, <2>2, ShowEffect DEF Good, Stored
<1>5. CASE ShowError(s)
  <2>1. "error" \in Screens /\ UNCHANGED broken /\ Show(s, "error", "error")
    BY <1>5 DEF ShowError, Show, Screens
  <2> QED
    BY <1>0, <1>1, <1>2, <2>1, ShowEffect DEF Good, Stored
<1>6. CASE DiscordError(s)
  <2>1. PICK from \in {"thinking", "answer", "error"}, to \in {"error", "done"} : Goto(s, from, to)
    BY <1>6 DEF DiscordError
  <2>2. sub[s].key \in Keys \cup {NoKey}
    BY <1>0 DEF TypeOK, SubStates, MaybeKeys
  <2>3. Stored(s) => s \in broken'
    BY <1>6, <2>2 DEF DiscordError, Stored
  <2> QED
    BY <1>0, <1>1, <1>2, <2>1, <2>3, GotoEffect DEF Good, Stored
<1> QED
  BY <1>3, <1>4, <1>5, <1>6

\* The steps of the task.
LEMMA LoopGood ==
  ASSUME IInv, NEW s \in Submissions, LoopTurn(s) \/ LoopEdit(s) \/ LoopTimeout(s) \/ StrayEdit(s)
  PROVE  Good(s)
<1>0. TypeOK /\ Stands(s)
  BY DEF IInv, EachStands
<1>1. UNCHANGED <<author, broken>>
  BY DEF LoopTurn, LoopEdit, LoopTimeout, StrayEdit, rows
<1> QED
  BY <1>0, <1>1, LoopEffect DEF Good, Stored, Stands, RowStands, OutcomeStands, TaskStands, Before, Final

\* Every step is one of a submission, which keeps what the invariant says of it,
\* or leaves all of them alone.
LEMMA StepGood ==
  ASSUME IInv, [Next]_vars
  PROVE  \/ \E s \in Submissions : Good(s)
         \/ UNCHANGED <<author, sub, registry, broken>>
<1>1. CASE UNCHANGED vars
  BY <1>1 DEF vars, rows, tasks
<1>2. ASSUME NEW m \in Media, MoveMedia(m) PROVE UNCHANGED <<author, sub, registry, broken>>
  BY <1>2 DEF MoveMedia, tasks
<1>3. ASSUME NEW s \in Submissions,
             \/ \E m \in Media : OpenRating(s, m) \/ OpenAddition(s, m)
             \/ Submit(s) \/ OnSubmit(s) \/ DiscordError(s)
             \/ LoopTurn(s) \/ LoopEdit(s) \/ LoopTimeout(s) \/ StrayEdit(s)
      PROVE  Good(s)
  <2>1. (\E m \in Media : OpenRating(s, m) \/ OpenAddition(s, m)) => \E k \in Keys : Open(s, k)
    BY DEF OpenRating, OpenAddition, Keys, RatingKeys, MediaKeys
  <2> QED
    BY <1>3, <2>1, OpeningGood, BodyGood, LastGood, LoopGood DEF OnSubmit
<1> QED
  BY <1>1, <1>2, <1>3 DEF Next

\* The fields the invariant says nothing of keep their types.
LEMMA RestStep ==
  ASSUME IInv, [Next]_vars
  PROVE  /\ open' \subseteq Media /\ author' \in [Keys -> Submissions \cup {Others, NoOne}]
         /\ registry' \subseteq Submissions /\ stray' \subseteq Submissions
         /\ broken' \subseteq Submissions /\ faults' \in Nat
<1>1. TypeOK
  BY DEF IInv
<1> USE <1>1 DEF TypeOK, rows, tasks, vars
<1>2. CASE UNCHANGED vars
  BY <1>2
<1>3. ASSUME NEW m \in Media, MoveMedia(m) PROVE UNCHANGED <<author, registry, stray, broken, faults>> /\ open' \subseteq Media
  BY <1>3 DEF MoveMedia
<1>4. ASSUME NEW s \in Submissions, NEW ticked \in BOOLEAN, Save(s, ticked)
      PROVE  /\ open' \subseteq Media /\ author' \in [Keys -> Submissions \cup {Others, NoOne}]
             /\ UNCHANGED <<registry, stray, broken, faults>>
  <2>1. sub[s].key \in Keys
    BY <1>4 DEF Save, IInv, EachStands, Stands, RowStands
  <2>2. sub[s].key[2] \in Media
    BY <2>1 DEF Keys, RatingKeys, MediaKeys
  <2> QED
    BY <1>4, <2>1, <2>2 DEF Save
<1>5. ASSUME NEW s \in Submissions, NEW k, Open(s, k) \/ Submit(s) \/ Finalize(s) \/ Answer(s) \/ ShowError(s)
      PROVE  UNCHANGED <<open, author, registry, stray, broken, faults>>
  BY <1>5 DEF Open, Submit, Finalize, Answer, ShowError, Show
<1>6. ASSUME NEW s \in Submissions, NEW x, Validate(s, x) \/ Enrich(s, x)
      PROVE  UNCHANGED <<open, author, registry, stray, broken, faults>>
  BY <1>6 DEF Validate, Enrich
<1>7. ASSUME NEW s \in Submissions, NEW x, ShowThinking(s) \/ Complete(s, x) \/ DiscordError(s)
      PROVE  /\ UNCHANGED <<open, author, stray>> /\ broken' \subseteq Submissions
             /\ registry' \subseteq Submissions /\ faults' \in Nat
  BY <1>7 DEF ShowThinking, Complete, DiscordError
<1>8. ASSUME NEW s \in Submissions, LoopTurn(s) \/ LoopEdit(s) \/ LoopTimeout(s) \/ StrayEdit(s)
      PROVE  /\ UNCHANGED <<open, author, broken, faults>> /\ stray' \subseteq Submissions
             /\ registry' \subseteq Submissions
  BY <1>8 DEF LoopTurn, LoopEdit, LoopTimeout, StrayEdit, End
<1> QED
  BY <1>2, <1>3, <1>4, <1>5, <1>6, <1>7, <1>8 DEF Next, OnSubmit, OpenRating, OpenAddition

LEMMA InvariantStep == IInv /\ [Next]_vars => IInv'
<1> SUFFICES ASSUME IInv, [Next]_vars PROVE IInv'
  OBVIOUS
<1>1. CASE \E s \in Submissions : Good(s)
  <2>1. PICK s \in Submissions : Good(s)
    BY <1>1
  <2>2. \A t \in Submissions : t # s => Stands(t)'
    BY <2>1, OthersStand DEF Good
  <2> QED
    BY <2>1, <2>2, RestStep DEF Good, IInv, TypeOK, EachStands
<1>2. CASE UNCHANGED <<author, sub, registry, broken>>
  <2>1. EachStands'
    BY <1>2 DEF IInv, EachStands, Stands, RowStands, OutcomeStands, TaskStands, Stored
  <2> QED
    BY <1>2, <2>1, RestStep DEF IInv, TypeOK
<1> QED
  BY <1>1, <1>2, StepGood

LEMMA InvariantHolds == Spec => []IInv
<1>1. Init => IInv
  BY TypeInit, StandsInit DEF IInv
<1> QED
  BY <1>1, InvariantStep, PTL DEF Spec
-----------------------------------------------------------------------------
\* Every variable keeps its type.
THEOREM TypeCorrect == Spec => []TypeOK
<1>1. IInv => TypeOK
  BY DEF IInv
<1> QED
  BY <1>1, InvariantHolds, PTL

\* A user is told "saved" only if this submission stored the row, the flaws only
\* if it did not, and an error after the row was stored only if something failed.
THEOREM NobodyIsMisled == Spec => []ToldTheTruth
<1>1. IInv => ToldTheTruth
  BY DEF IInv, EachStands, Stands, OutcomeStands, Stored, ToldTheTruth
<1> QED
  BY <1>1, InvariantHolds, PTL

\* However the body of on_submit ends, its task is over when it answers, and the
\* registry holds the running tasks and no others.
THEOREM TasksEnd == Spec => []NothingLeftBehind
<1>1. ASSUME IInv PROVE NothingLeftBehind
  <2>1. registry \subseteq Submissions
    BY <1>1 DEF IInv, TypeOK
  <2>2. \A s \in Submissions : TaskStands(s)
    BY <1>1 DEF IInv, EachStands, Stands
  <2> QED
    BY <2>1, <2>2 DEF TaskStands, NothingLeftBehind
<1> QED
  BY <1>1, InvariantHolds, PTL

\* Once on_submit has said its last word, only an edit that was on its way when
\* the task timed out can replace the message.
THEOREM LastWord == Spec => FinalWordStands
<1> DEFINE Replaced(s) == sub[s].shown \in Final /\ sub'[s].shown # sub[s].shown
           Kept == \A s \in Submissions : Replaced(s) => s \in stray
<1>1. ASSUME IInv, [Next]_vars, NEW s \in Submissions, Replaced(s) PROVE s \in stray
  <2>1. sub[s].pc = "done" /\ sub'[s] # sub[s]
    BY <1>1 DEF IInv, EachStands, Stands, OutcomeStands
  <2>2. PICK t \in Submissions : Good(t)
    BY <1>1, <2>1, StepGood
  <2>3. t = s
    BY <2>1, <2>2 DEF Good, Aside
  <2> QED
    BY <1>1, <2>1, <2>2, <2>3 DEF Good
<1>2. IInv /\ [Next]_vars => [Kept]_vars
  BY <1>1
<1>3. Spec => [][Kept]_vars
  BY <1>2, InvariantHolds, PTL DEF Spec
<1> QED
  BY <1>3 DEF FinalWordStands
=============================================================================
