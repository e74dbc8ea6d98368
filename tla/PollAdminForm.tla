--------------------------- MODULE PollAdminForm ---------------------------
(* The poll's change form in the Django admin, beside the voters' clicks.  The *)
(* form shows the row, its candidates and the inline votes as they are when it *)
(* is opened, and writes all of them back when it is saved.                    *)
EXTENDS PollVoting

CONSTANTS MaxForms,   \* how many times the form is opened (bound)
          NoForm

ASSUME FormAssumption == MaxForms \in Nat

VARIABLES form, opened

formVars == <<vars, form, opened>>

FormInit == Init /\ form = NoForm /\ opened = 0

OpenForm ==
  /\ form = NoForm /\ opened < MaxForms
  /\ form' = [status |-> status, winner |-> winner, ranks |-> ranks]
  /\ opened' = opened + 1
  /\ UNCHANGED vars

\* One transaction that begins with the UPDATE of the poll row, and so waits for
\* the row lock.  The staff may have changed the candidates (one at least).
SaveForm ==
  /\ form # NoForm /\ rowLock = NoClick
  /\ status' = form.status /\ winner' = form.winner /\ ranks' = form.ranks
  /\ candidates' \in SUBSET Media \ {{}}
  /\ form' = NoForm
  /\ UNCHANGED <<opened, mediaStatus, rowLock, viewVars, pc, viewOf, localVars, faults, historyVars>>

FormNext == \/ Next /\ UNCHANGED <<form, opened>>
            \/ OpenForm \/ SaveForm

FormSpec == FormInit /\ [][FormNext]_formVars
-----------------------------------------------------------------------------
FormTypeOK ==
  /\ TypeOK
  /\ form \in {NoForm} \cup [status : {"initial", "completed"}, winner : Media \cup {NoMedia},
                             ranks : [Voters -> Seq(Media)]]
  /\ opened \in 0..MaxForms

\* A resolution works on one state of the poll: while it holds the row lock the
\* form cannot slip in, so what it commits is the first result of an open poll,
\* elects one of its candidates, and counts a ballot of every voter.
ResolvesOneState ==
  [][decisions' # decisions =>
       /\ status = "initial" /\ candidates' = candidates
       /\ winner' \in candidates
       /\ \A u \in Voters : decision'.ballots[u] # <<>>]_formVars

\* A form opened before the end and saved after it reopens the poll.  Then, and
\* only then, a poll is decided again: never twice for one opening of the form.
ReopenedOnlyByForm == decisions <= 1 + opened
=============================================================================
