---------------------------- MODULE CreateModal ----------------------------
(* The two modals that store a row: AssessmentModal (a user's rating of a      *)
(* medium) and MediaModal (a medium for the future).  Both are BaseCreateModal: *)
(* while on_submit validates, saves and waits for an outside service, a task    *)
(* of the ThinkingRegistry keeps editing the same Discord message.              *)
EXTENDS Naturals, FiniteSets, ServiceClients

CONSTANTS
  Submissions,  \* submissions of either modal (bound)
  Media,        \* the (name, category) pairs: uq_media_name_currency
  MaxFaults,    \* failed Discord calls of on_submit (bound)
  NoKey, NoOne, Others

\* The rows the modals store: a medium, or a user's rating of a medium, which
\* uq_assessment_media_user keeps unique.
MediaKeys == {"medium"} \X Media
RatingKeys == {"rating"} \X Media
Keys == MediaKeys \cup RatingKeys

ASSUME ModalAssumption ==
  /\ NoOne \notin Submissions \cup {Others} /\ Others \notin Submissions
  /\ NoKey \notin Keys
  /\ MaxFaults \in Nat

VARIABLES
  open,      \* the media being assessed
  author,    \* rows: which submission stored the row of a key, Others or NoOne
  sub,       \* each submission: where it stands, its key, its message, its thinking
             \* task, the task's cancel_event and the Discord message shown
  registry,  \* ThinkingRegistry._tasks
  stray,     \* submissions with an edit sent by a task that timed out
  faults,
  broken     \* history: submissions that failed after their INSERT

rows == <<open, author>>
tasks == <<registry, stray>>
vars == <<rows, sub, tasks, faults, broken>>
-----------------------------------------------------------------------------
Final == {"saved", "flaws", "error"}

Idle == [pc |-> "idle", key |-> NoKey, outcome |-> "none", loop |-> "none",
         cancelled |-> FALSE, shown |-> "form"]

Init ==
  /\ \E stored \in SUBSET Media :
       /\ open \in SUBSET stored
       /\ author = [k \in Keys |-> IF k[1] = "medium" /\ k[2] \in stored THEN Others ELSE NoOne]
  /\ sub = [s \in Submissions |-> Idle]
  /\ registry = {} /\ stray = {}
  /\ faults = 0 /\ broken = {}

IsRating(s) == sub[s].key \in RatingKeys

Goto(s, from, to) == sub[s].pc = from /\ sub' = [sub EXCEPT ![s].pc = to]

\* Faulty: the text of the message is not returned.
NoMessage(what) == "none"

\* What form_valid or form_invalid returns, or the exception instead.
Message(what) == what

\* Leaving the body of "async with start_task" sets the cancel event, whether
\* the body has a message or an exception to leave with.
Leave(s, from, what) ==
  /\ sub[s].pc = from
  /\ sub' = [sub EXCEPT ![s].pc = "finalize", ![s].outcome = Message(what), ![s].cancelled = TRUE]
-----------------------------------------------------------------------------
\* /rate lists the open media its user has not rated, once; nothing asks again
\* before the row is stored.
Offered(m) == m \in open /\ author[<<"rating", m>>] = NoOne

Open(s, k) ==
  /\ sub[s].pc = "idle"
  /\ sub' = [sub EXCEPT ![s].pc = "modal", ![s].key = k]
  /\ UNCHANGED <<rows, tasks, faults, broken>>

OpenRating(s, m) == Offered(m) /\ Open(s, <<"rating", m>>)
OpenAddition(s, m) == Open(s, <<"medium", m>>)

Submit(s) ==
  /\ Goto(s, "modal", "thinking")
  /\ UNCHANGED <<rows, tasks, faults, broken>>

\* show_thinking has returned: start_task creates the task and registers it.
ShowThinking(s) ==
  /\ sub[s].pc = "thinking"
  /\ sub' = [sub EXCEPT ![s].pc = "validate", ![s].shown = "thinking", ![s].loop = "awake"]
  /\ registry' = registry \cup {s}
  /\ UNCHANGED <<rows, stray, faults, broken>>

\* Faulty: no constraint on the table.
NotUnique(k) == TRUE

\* The unique constraints, for the INSERT and for MediaForm's validate_constraints.
Free(k) == author[k] = NoOne

\* form.is_valid.  The media form asks the database whether its key is taken, the
\* assessment form leaves media and user out and cannot.
Validate(s, ok) ==
  LET valid == ok /\ (IsRating(s) \/ Free(sub[s].key)) IN
  /\ sub[s].pc = "validate"
  /\ \/ valid /\ Goto(s, "validate", IF IsRating(s) THEN "save" ELSE "enrich")
     \/ ~ valid /\ Leave(s, "validate", "flaws")
  /\ UNCHANGED <<rows, tasks, faults, broken>>

\* Media.populate_meta_mark, for the medium about to be stored.
Enrich(s, mark) ==
  /\ \/ mark # "raised" /\ Goto(s, "enrich", "save")
     \/ mark = "raised" /\ Leave(s, "enrich", "raised")
  /\ UNCHANGED <<rows, tasks, faults, broken>>

\* The INSERT, or its IntegrityError.  A medium staff tick is assessed at once.
Save(s, ticked) ==
  LET k == sub[s].key IN
  /\ sub[s].pc = "save"
  /\ \/ /\ Free(k)
        /\ author' = [author EXCEPT ![k] = s]
        /\ open' = IF ticked /\ ~ IsRating(s) THEN open \cup {k[2]} ELSE open
        /\ \/ IsRating(s) /\ Goto(s, "save", "complete")
           \/ ~ IsRating(s) /\ Leave(s, "save", "saved")
     \/ /\ ~ Free(k)
        /\ Leave(s, "save", "raised")
        /\ UNCHANGED rows
  /\ UNCHANGED <<tasks, faults, broken>>

\* run_create_completion: a verdict or the default message, or an exception.
Complete(s, completion) ==
  /\ \/ /\ completion # "raised" /\ Leave(s, "complete", "saved")
        /\ UNCHANGED broken
     \/ /\ completion = "raised" /\ Leave(s, "complete", "raised")
        /\ broken' = broken \cup {s}
  /\ UNCHANGED <<rows, tasks, faults>>

\* Faulty: does not wait for the task.
NoWait(s) == TRUE

\* ThinkingTask.finalize awaits the task.
TaskDone(s) == sub[s].loop = "ended"

Finalize(s) ==
  /\ TaskDone(s)
  /\ Goto(s, "finalize", IF sub[s].outcome = "raised" THEN "error" ELSE "answer")
  /\ UNCHANGED <<rows, tasks, faults, broken>>

\* The last edit, or that of BaseModal.on_error.
Show(s, from, what) ==
  /\ sub[s].pc = from
  /\ sub' = [sub EXCEPT ![s].pc = "done", ![s].shown = what]
  /\ UNCHANGED <<rows, tasks, faults, broken>>

Answer(s) == Show(s, "answer", sub[s].outcome)
ShowError(s) == Show(s, "error", "error")

\* A Discord call of on_submit raises, and then that of on_error may.
DiscordError(s) ==
  /\ faults < MaxFaults /\ faults' = faults + 1
  /\ Goto(s, "thinking", "error") \/ Goto(s, "answer", "error") \/ Goto(s, "error", "done")
  /\ broken' = IF \E k \in Keys : author[k] = s THEN broken \cup {s} ELSE broken
  /\ UNCHANGED <<rows, tasks>>
-----------------------------------------------------------------------------
(* show_thinking_with_loop, inside _run_task *)

\* The task is done: its done callback takes it out of the registry.
End(s) == /\ sub' = [sub EXCEPT ![s].loop = "ended"]
          /\ registry' = registry \ {s}

\* It starts, or has slept for a second: it goes on unless it has been cancelled.
LoopTurn(s) ==
  /\ sub[s].loop = "awake"
  /\ \/ /\ ~ sub[s].cancelled
        /\ sub' = [sub EXCEPT ![s].loop = "editing"]
        /\ UNCHANGED registry
     \/ /\ sub[s].cancelled
        /\ End(s)
  /\ UNCHANGED <<rows, stray, faults, broken>>

\* Discord has taken the edit, or has refused it, which ends the task.
LoopEdit(s) ==
  /\ sub[s].loop = "editing"
  /\ \/ /\ sub' = [sub EXCEPT ![s].shown = "progress", ![s].loop = "awake"]
        /\ UNCHANGED registry
     \/ End(s)
  /\ UNCHANGED <<rows, stray, faults, broken>>

\* Faulty: the timeout covers the sleep only.
TimedAsleep == {"awake"}

\* asyncio.timeout(60) strikes at any await of the loop.
Timed == {"awake", "editing"}

\* A request already on its way stays on its way.
LoopTimeout(s) ==
  /\ sub[s].loop \in Timed
  /\ End(s)
  /\ stray' = IF sub[s].loop = "editing" THEN stray \cup {s} ELSE stray
  /\ UNCHANGED <<rows, faults, broken>>

StrayEdit(s) ==
  /\ s \in stray
  /\ stray' = stray \ {s}
  /\ sub' = [sub EXCEPT ![s].shown = "progress"]
  /\ UNCHANGED <<rows, registry, faults, broken>>

\* The staff open or finish the assessment of a medium.
MoveMedia(m) ==
  /\ author[<<"medium", m>>] # NoOne
  /\ open' = IF m \in open THEN open \ {m} ELSE open \cup {m}
  /\ UNCHANGED <<author, sub, tasks, faults, broken>>
-----------------------------------------------------------------------------
OnSubmit(s) ==
  \/ ShowThinking(s) \/ (\E ok \in BOOLEAN : Validate(s, ok))
  \/ (\E mark \in Marks : Enrich(s, mark)) \/ (\E ticked \in BOOLEAN : Save(s, ticked))
  \/ (\E completion \in Completions : Complete(s, completion))
  \/ Finalize(s) \/ Answer(s) \/ ShowError(s)

Next ==
  \/ \E s \in Submissions :
       \/ \E m \in Media : OpenRating(s, m) \/ OpenAddition(s, m)
       \/ Submit(s) \/ OnSubmit(s) \/ DiscordError(s)
       \/ LoopTurn(s) \/ LoopEdit(s) \/ LoopTimeout(s) \/ StrayEdit(s)
  \/ \E m \in Media : MoveMedia(m)

Spec == Init /\ [][Next]_vars

\* The event loop runs on_submit and the loop; the task times out in the end.
\* Nothing says that Discord ever answers an edit of the loop.
Fairness == \A s \in Submissions :
  WF_vars(OnSubmit(s)) /\ WF_vars(LoopTurn(s)) /\ WF_vars(LoopTimeout(s))

FairSpec == Spec /\ Fairness
-----------------------------------------------------------------------------
Stages == {"idle", "modal", "thinking", "validate", "enrich", "save", "complete",
           "finalize", "answer", "error", "done"}
Outcomes == {"none", "saved", "flaws", "raised"}
Loops == {"none", "awake", "editing", "ended"}
Screens == {"form", "thinking", "progress"} \cup Final
MaybeKeys == Keys \cup {NoKey}

SubStates == [pc : Stages, key : MaybeKeys, outcome : Outcomes, loop : Loops,
              cancelled : BOOLEAN, shown : Screens]

TypeOK ==
  /\ open \subseteq Media
  /\ author \in [Keys -> Submissions \cup {Others, NoOne}]
  /\ sub \in [Submissions -> SubStates]
  /\ registry \subseteq Submissions /\ stray \subseteq Submissions /\ broken \subseteq Submissions
  /\ faults \in Nat

\* What a user is told is what happened to the row: "saved" means that this very
\* submission stored it (so for one key nobody else is told so), a list of flaws
\* that it did not, and an error that it did not either, or that something failed
\* after the INSERT.  The last is real: a stored rating whose completion raises
\* ends in "Try again".
ToldTheTruth ==
  \A s \in Submissions :
    LET stored == sub[s].key # NoKey /\ author[sub[s].key] = s
    IN  /\ "saved" \in {sub[s].outcome, sub[s].shown} => stored
        /\ sub[s].shown = "flaws" => ~ stored
        /\ sub[s].shown = "error" /\ stored => s \in broken

\* A submission that has left the body has left no task behind, running or
\* registered, however the body ended.
NothingLeftBehind ==
  /\ \A s \in Submissions : sub[s].pc \in {"answer", "done"} => sub[s].loop \in {"none", "ended"}
  /\ registry = {s \in Submissions : sub[s].loop \in {"awake", "editing"}}

\* The last word is on_submit's: no progress message replaces it, except the edit
\* that was on its way when the task timed out.
FinalWordStands ==
  [][\A s \in Submissions : sub[s].shown \in Final /\ sub'[s].shown # sub[s].shown => s \in stray]_vars

\* A Discord that never answers the loop's edits does not keep a submission from
\* its end.
Finishes == \A s \in Submissions : sub[s].pc = "thinking" ~> sub[s].pc = "done"
=============================================================================
