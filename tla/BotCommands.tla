---------------------------- MODULE BotCommands ----------------------------
(* A slash command or a mention from its arrival to its answer: the check of    *)
(* BaseCog, the "thinking" message, the user row of its author, the work, the   *)
(* answer, and the handlers that must tell of any error.  Users change their    *)
(* Discord names, and two processes of the bot may serve at once.               *)
EXTENDS Comparison, ServiceClients

CONSTANTS
  Commands,       \* the commands and mentions served (bound)
  KindsOf,        \* what each of them may be (bound)
  ServedBy,       \* the bot processes that may serve it: an old and a new one overlap
  Accounts,       \* Discord accounts: a user row's external_id
  Names,          \* Discord names
  FirstName,      \* the name each account begins with
  Media,          \* all media
  CompletedSets,  \* what media may be completed when they are compared (bound)
  Marked,         \* those with a meta mark
  MaxChanges,     \* names changed and users added by the staff (bound)
  MaxFaults,      \* commands a failure of Discord strikes (bound)
  Nobody

Kinds == {"own", "add_future_media", "compare", "compare_meta", "mention"}

ASSUME CommandsAssumption ==
  /\ KindsOf \in [Commands -> SUBSET Kinds] /\ DOMAIN ServedBy = Commands
  /\ Accounts \cup Names \cup Media \subseteq Nat /\ MetaUser \notin Accounts
  /\ IsFiniteSet(Accounts) /\ IsFiniteSet(Media)
  /\ FirstName \in [Accounts -> Names]
  /\ \A a, b \in Accounts : FirstName[a] = FirstName[b] => a = b
  /\ Marked \subseteq Media /\ CompletedSets \subseteq SUBSET Media
  /\ MaxChanges \in Nat /\ MaxFaults \in Nat
  /\ Nobody \notin Accounts

VARIABLES
  name,      \* the Discord name of each account
  users,     \* User rows [external_id, username]
  cmd,       \* each command: its state and its locals
  changes

vars == <<name, users, cmd, changes>>
-----------------------------------------------------------------------------
Final == {"answer", "error"}

\* "name" is author.name as Discord sent it with the command, "row" the user row
\* found, "raised" the exception on its way, "shown" the answer as the user sees it.
Idle == [pc |-> "idle", kind |-> "own", process |-> Nobody,
         author |-> Nobody, name |-> 0, compared |-> {}, row |-> Nobody, raised |-> "none",
         shown |-> "nothing", lines |-> {}, hurt |-> FALSE]

Init ==
  /\ name = FirstName
  /\ users \in {{}, {[external_id |-> a, username |-> FirstName[a]] : a \in Accounts}}
  /\ cmd = [c \in Commands |-> Idle]
  /\ changes = 0

Goto(c, from, to) ==
  /\ cmd[c].pc = from
  /\ cmd' = [cmd EXCEPT ![c].pc = to]

\* The command is over and its locals are gone.
End(c, from, shown, hurt) ==
  /\ cmd[c].pc = from
  /\ cmd' = [cmd EXCEPT ![c] = [Idle EXCEPT !.pc = "done", !.shown = shown, !.hurt = hurt]]

Raise(c, from, what) ==
  /\ cmd[c].pc = from
  /\ cmd' = [cmd EXCEPT ![c].pc = "error", ![c].raised = what, ![c].lines = {}]

\* Synchronous code of one process runs in one thread, and get_or_create keeps it.
ThreadFree(c) ==
  \A d \in Commands \ {c} :
    cmd[d].process = cmd[c].process => cmd[d].pc \notin {"insert", "get_again"}

\* A command of an account.  compare takes one user or two and the author for the
\* second by default, compare_meta one or the author; after that they have no use
\* for their author.
Arrive(c, p, a, kind, compared) ==
  /\ cmd[c].pc = "idle" /\ kind \in KindsOf[c]
  /\ Cardinality(compared) \in CASE kind = "compare" -> 1..2
                                 [] kind = "compare_meta" -> {1}
                                 [] OTHER -> {0}
  /\ cmd' = [cmd EXCEPT ![c] = [Idle EXCEPT
       !.pc = IF kind = "mention" THEN "get" ELSE "check",
       !.kind = kind, !.process = p, !.compared = compared,
       !.author = IF compared = {} THEN a ELSE @, !.name = IF compared = {} THEN name[a] ELSE @]]
  /\ UNCHANGED <<name, users, changes>>

\* interaction_check closes the connections; the cooldown is the other check.
Check(c) ==
  /\ \/ Goto(c, "check", "thinking")
     \/ cmd[c].kind = "add_future_media" /\ Raise(c, "check", "CommandOnCooldown")
  /\ UNCHANGED <<name, users, changes>>

ShowThinking(c) ==
  /\ cmd[c].pc = "thinking"
  /\ cmd' = [cmd EXCEPT ![c].shown = "thinking",
       ![c].pc = IF cmd[c].kind \in {"compare", "compare_meta"} THEN "check_users" ELSE "get"]
  /\ UNCHANGED <<name, users, changes>>
-----------------------------------------------------------------------------
(* UserManager.aget_or_create_by_discord *)

\* Faulty: looks the user up by name.
RowsNamed(c) == {u \in users : u.username = cmd[c].name}

RowsOf(c) == {u \in users : u.external_id = cmd[c].author}

\* A mention reads the ratings and the history of its prompt on the way.
Work(c) == IF cmd[c].kind = "mention" THEN "complete" ELSE "query"

Found(c, from, row) ==
  /\ cmd[c].pc = from
  /\ cmd' = [cmd EXCEPT ![c].row = row.external_id, ![c].pc = Work(c)]

Get(c) ==
  /\ ThreadFree(c)
  /\ \/ \E row \in RowsOf(c) : Found(c, "get", row)
     \/ RowsOf(c) = {} /\ Goto(c, "get", "insert")
  /\ UNCHANGED <<name, users, changes>>

\* Faulty: external_id alone is unique.
ClashesOnId(row) == \E u \in users : u.external_id = row.external_id

\* The unique constraints of external_id and username.
Clashes(row) == \E u \in users : u.external_id = row.external_id \/ u.username = row.username

Insert(c) ==
  LET row == [external_id |-> cmd[c].author, username |-> cmd[c].name] IN
  \/ /\ ~ Clashes(row)
     /\ Found(c, "insert", row)
     /\ users' = users \cup {row}
     /\ UNCHANGED <<name, changes>>
  \/ /\ Clashes(row)
     /\ Goto(c, "insert", "get_again")
     /\ UNCHANGED <<name, users, changes>>

\* Faulty: create does not look a second time.
NotAgain(c) == {}
RowsAgain(c) == RowsOf(c)

\* After an IntegrityError get_or_create looks once more before it raises it.
GetAgain(c) ==
  /\ \/ \E row \in RowsAgain(c) : Found(c, "get_again", row)
     \/ RowsAgain(c) = {} /\ Raise(c, "get_again", "IntegrityError")
  /\ UNCHANGED <<name, users, changes>>
-----------------------------------------------------------------------------
(* The work *)

\* What a command reads of its own user; lists, forms and ballots follow from it.
Query(c) ==
  /\ ThreadFree(c) /\ Goto(c, "query", "answer")
  /\ UNCHANGED <<name, users, changes>>

\* compare_check_users: different people, all of them known.
Different(c) == cmd[c].kind = "compare" => Cardinality(cmd[c].compared) = 2
Known(c) == cmd[c].compared \subseteq {u.external_id : u \in users}

CheckUsers(c) ==
  /\ ThreadFree(c)
  /\ \/ Different(c) /\ Known(c) /\ Goto(c, "check_users", "compare")
     \/ ~ (Different(c) /\ Known(c)) /\ Goto(c, "check_users", "answer")
  /\ UNCHANGED <<name, users, changes>>

Username ==
  [a \in {u.external_id : u \in users} |-> (CHOOSE u \in users : u.external_id = a).username]

\* One statement reads the ratings as they are by then, whatever they were before.
Compare(c, rated, completed) ==
  LET ids == cmd[c].compared
      rows == IF cmd[c].kind = "compare"
              THEN CompareRows(rated, completed, ids, Username)
              ELSE CompareMetaRows(rated, completed, Marked, ids, Username)
      groups == IF cmd[c].kind = "compare" THEN CompareGroups(rows)
                                           ELSE CompareMetaGroups(rows)
  IN
  /\ cmd[c].pc = "compare" /\ ThreadFree(c)
  /\ \/ Len(rows) < 2 * Cardinality(ids) /\ Goto(c, "compare", "answer")
     \/ /\ Len(rows) >= 2 * Cardinality(ids) /\ Comparable(groups)
        /\ cmd' = [cmd EXCEPT ![c].pc = "complete", ![c].lines = Lines(groups)]
     \/ /\ Len(rows) >= 2 * Cardinality(ids) /\ ~ Comparable(groups)
        /\ Raise(c, "compare", "ValueError")
  /\ UNCHANGED <<name, users, changes>>

\* run_create_completion, for a comparison or a mention.  The lines go into the text.
Complete(c, completion) ==
  /\ \/ /\ completion # "raised"
        /\ cmd[c].pc = "complete"
        /\ cmd' = [cmd EXCEPT ![c].pc = "answer", ![c].lines = {}]
     \/ completion = "raised" /\ Raise(c, "complete", "service")
  /\ UNCHANGED <<name, users, changes>>

\* edit_original_response, or the reply to a mention.
Answer(c) ==
  /\ End(c, "answer", "answer", cmd[c].hurt)
  /\ UNCHANGED <<name, users, changes>>

\* Faulty: always the first response.
AlwaysFirst(c) == cmd[c].kind # "mention"

\* on_app_command_error sends a first response for a cooldown and edits the one
\* there is for anything else; Discord accepts the one only if there is none yet
\* and the other only if there is one.  on_error replies to a mention.
SendsFirst(c) == cmd[c].raised = "CommandOnCooldown"
Accepted(c) ==
  \/ cmd[c].kind = "mention"
  \/ SendsFirst(c) /\ cmd[c].shown = "nothing"
  \/ ~ SendsFirst(c) /\ cmd[c].shown # "nothing"

HandleError(c) ==
  /\ \/ Accepted(c) /\ End(c, "error", "error", cmd[c].hurt)
     \/ ~ Accepted(c) /\ End(c, "error", cmd[c].shown, cmd[c].hurt)
  /\ UNCHANGED <<name, users, changes>>
-----------------------------------------------------------------------------
\* A call to Discord raises, or Discord hands over a command that no longer fits
\* its signature, which is an error before the callback and its first response.
DiscordError(c) ==
  /\ Cardinality({d \in Commands : cmd[d].hurt}) < MaxFaults
  /\ \/ /\ cmd[c].pc \in {"check", "thinking", "answer"}
        /\ cmd' = [cmd EXCEPT ![c].hurt = TRUE, ![c].pc = "error", ![c].raised = "discord"]
     \/ End(c, "error", cmd[c].shown, TRUE)
  /\ UNCHANGED <<name, users, changes>>

\* An account changes its Discord name; its row keeps the old one.
Rename(a, n) ==
  /\ changes < MaxChanges /\ changes' = changes + 1
  /\ \A b \in Accounts : name[b] # n
  /\ name' = [name EXCEPT ![a] = n]
  /\ UNCHANGED <<users, cmd>>

\* The staff add a user, under the name the account bears by then.
AddUser(a) ==
  LET row == [external_id |-> a, username |-> name[a]] IN
  /\ changes < MaxChanges /\ changes' = changes + 1
  /\ ~ Clashes(row)
  /\ users' = users \cup {row}
  /\ UNCHANGED <<name, cmd>>

RatingsOf(ids) == [user : ids, media : Media]

Serve(c) ==
  \/ Check(c) \/ ShowThinking(c) \/ Get(c) \/ Insert(c) \/ GetAgain(c) \/ Query(c)
  \/ CheckUsers(c)
  \/ /\ cmd[c].pc = "compare"
     /\ \E rated \in SUBSET RatingsOf(cmd[c].compared), completed \in CompletedSets :
          Compare(c, rated, completed)
  \/ \E completion \in Completions : Complete(c, completion)
  \/ Answer(c) \/ HandleError(c)

Next ==
  \/ \E c \in Commands :
       \/ \E p \in ServedBy[c], a \in Accounts, kind \in Kinds, compared \in SUBSET Accounts :
            Arrive(c, p, a, kind, compared)
       \/ Serve(c) \/ DiscordError(c)
  \/ \E a \in Accounts : AddUser(a) \/ \E n \in Names : Rename(a, n)

Spec == Init /\ [][Next]_vars

\* The event loop and the thread of a process go on; nobody must send a command.
FairSpec == Spec /\ \A c \in Commands : WF_vars(Serve(c))
-----------------------------------------------------------------------------
States == {"idle", "check", "thinking", "get", "insert", "get_again", "query", "check_users",
           "compare", "complete", "answer", "error", "done"}
Processes == (UNION {ServedBy[c] : c \in Commands}) \cup {Nobody}
Failures == {"none", "CommandOnCooldown", "IntegrityError", "ValueError", "service", "discord"}
Answers == {"nothing", "thinking"} \cup Final
Rating == [user : Accounts \cup {MetaUser}, media : Media]

Command ==
  [pc : States, kind : Kinds, process : Processes, author : Accounts \cup {Nobody},
   name : Names \cup {0}, compared : SUBSET Accounts, row : Accounts \cup {Nobody},
   raised : Failures, shown : Answers, lines : SUBSET SUBSET Rating, hurt : BOOLEAN]

TypeOK ==
  /\ name \in [Accounts -> Names]
  /\ users \subseteq [external_id : Accounts, username : Names]
  /\ \A u, v \in users : u.external_id = v.external_id \/ u.username = v.username => u = v
  /\ cmd \in [Commands -> Command]
  /\ changes \in Nat

\* A command works with the row of its own author, though names change hands, the
\* row may bear another name by now and two first commands may race to create it.
RowIsAuthors == \A c \in Commands : cmd[c].row \in {Nobody, cmd[c].author}

\* Nobody is turned away from the directory but for the name: another account's
\* row has it.  A lost race for one's own row is no reason, nor are statistics.
TurnedAwayForName ==
  \A c \in Commands :
    /\ cmd[c].raised # "ValueError"
    /\ cmd[c].raised = "IntegrityError" =>
         \E u \in users : u.username = cmd[c].name /\ u.external_id # cmd[c].author

\* Each line of a comparison sets side by side one rating of each of the two, of
\* one and the same medium.
ComparesLikeWithLike ==
  \A c \in Commands : \A line \in cmd[c].lines :
    /\ {r.user : r \in line} = cmd[c].compared \cup
                               (IF cmd[c].kind = "compare" THEN {} ELSE {MetaUser})
    /\ \A r, s \in line : r.media = s.media

\* Every command gets its answer, unless a failure of Discord struck it.
Answered ==
  \A c \in Commands : cmd[c].pc # "idle" ~> (cmd[c].shown \in Final \/ cmd[c].hurt)
=============================================================================
