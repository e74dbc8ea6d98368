------------------------- MODULE BotCommandsProofs -------------------------
(* Proofs about BotCommands, for any accounts, names, media, commands and      *)
(* processes, and any number of changes and failures.                          *)
EXTENDS BotCommands, ComparisonProofs

(* The inductive invariant: what holds of each command, given the user rows.  *)

Comparisons == {"compare", "compare_meta"}

KnownIds(rows) == {u.external_id : u \in rows}

\* Only a comparison has no use for its author, and only it compares.
RightKind(r) ==
  /\ r.kind \in Comparisons =>
       Cardinality(r.compared) \in IF r.kind = "compare" THEN 1..2 ELSE {1}
  /\ r.kind \notin Comparisons /\ r.pc \notin {"idle", "done"} =>
       r.author \in Accounts /\ r.name \in Names
  /\ r.pc \in {"get", "insert", "get_again"} => r.kind \notin Comparisons
  /\ r.pc \in {"check_users", "compare"} => r.kind \in Comparisons

\* What was found out of the users when they were looked up: rows are never deleted.
FoundOut(r, rows) ==
  /\ r.pc = "compare" =>
       /\ r.compared \subseteq KnownIds(rows)
       /\ r.kind = "compare" => Cardinality(r.compared) = 2
  /\ r.pc = "get_again" =>
       \E u \in rows : u.external_id = r.author \/ u.username = r.name

OwnRow(r) == r.row \in {Nobody, r.author}

ForName(r, rows) ==
  /\ r.raised # "ValueError"
  /\ r.raised = "IntegrityError" =>
       \E u \in rows : u.username = r.name /\ u.external_id # r.author

Compared(r) == r.compared \cup (IF r.kind = "compare" THEN {} ELSE {MetaUser})

LikeWithLike(r) ==
  \A line \in r.lines : /\ {s.user : s \in line} = Compared(r)
                        /\ \A s, t \in line : s.media = t.media

Fits(r, rows) ==
  RightKind(r) /\ FoundOut(r, rows) /\ OwnRow(r) /\ ForName(r, rows) /\ LikeWithLike(r)

EachFits == \A c \in Commands : Fits(cmd[c], users)

IInv == TypeOK /\ EachFits
-----------------------------------------------------------------------------
LEMMA IdleIs ==
  /\ Idle \in Command
  /\ Idle.pc = "idle" /\ Idle.kind = "own" /\ Idle.author = Nobody /\ Idle.compared = {}
  /\ Idle.row = Nobody /\ Idle.raised = "none" /\ Idle.lines = {}
<1>1. /\ "idle" \in States /\ "own" \in Kinds /\ Nobody \in Processes
      /\ "none" \in Failures /\ "nothing" \in Answers /\ {} \in SUBSET SUBSET Rating
  BY DEF States, Kinds, Processes, Failures, Answers
<1> QED
  BY <1>1 DEF Idle, Command

\* The invariant holds at first.
LEMMA TypeInit == Init => TypeOK
<1> SUFFICES ASSUME Init PROVE TypeOK
  OBVIOUS
<1>1. name \in [Accounts -> Names] /\ cmd \in [Commands -> Command] /\ changes \in Nat
  BY CommandsAssumption, IdleIs DEF Init
<1>2. \A a \in Accounts : FirstName[a] \in Names
  BY CommandsAssumption
<1>3. users \subseteq [external_id : Accounts, username : Names]
  BY <1>2 DEF Init
<1>4. \A u \in users : u.external_id \in Accounts /\ u.username = FirstName[u.external_id]
                       /\ u = [external_id |-> u.external_id, username |-> u.username]
  BY DEF Init
<1>5. \A u, v \in users : u.external_id = v.external_id \/ u.username = v.username => u = v
  BY <1>4, CommandsAssumption
<1> QED
  BY <1>1, <1>3, <1>5 DEF TypeOK

LEMMA FitsInit == Init => EachFits
<1> SUFFICES ASSUME Init, NEW c \in Commands PROVE Fits(Idle, users)
  BY DEF EachFits, Init
<1> QED
  BY IdleIs DEF Fits, RightKind, FoundOut, OwnRow, ForName, LikeWithLike, Comparisons

(* What the steps do: to a command, and to the user rows, which only grow. *)

\* What held of a command, holds when there are more rows.
LEMMA MoreRows ==
  ASSUME NEW r, NEW rows, NEW more, rows \subseteq more, Fits(r, rows)
  PROVE  Fits(r, more)
<1>1. KnownIds(rows) \subseteq KnownIds(more)
  BY DEF KnownIds
<1> QED
  BY <1>1 DEF Fits, FoundOut, ForName

\* A step of one command.
Becomes(c, r) == cmd' = [cmd EXCEPT ![c] = r]

LEMMA CommandStep ==
  ASSUME IInv, NEW c \in Commands, NEW r \in Command, Becomes(c, r), Fits(r, users),
         UNCHANGED <<name, users, changes>>
  PROVE  IInv'
<1>1. cmd' \in [Commands -> Command] /\ cmd'[c] = r /\ \A d \in Commands \ {c} : cmd'[d] = cmd[d]
  BY DEF Becomes, IInv, TypeOK
<1>2. TypeOK'
  BY <1>1 DEF IInv, TypeOK
<1>3. \A d \in Commands : Fits(cmd'[d], users')
  BY <1>1 DEF IInv, EachFits
<1> QED
  BY <1>2, <1>3 DEF IInv, EachFits

\* A new row.
LEMMA NewRow ==
  ASSUME TypeOK, NEW row \in [external_id : Accounts, username : Names], ~ Clashes(row),
         users' = users \cup {row}
  PROVE  /\ users' \subseteq [external_id : Accounts, username : Names]
         /\ (\A u, v \in users : u.external_id = v.external_id \/ u.username = v.username => u = v)'
<1>1. \A u \in users : u.external_id # row.external_id /\ u.username # row.username
  BY DEF Clashes
<1>2. \A u, v \in users : u.external_id = v.external_id \/ u.username = v.username => u = v
  BY DEF TypeOK
<1>3. users' \subseteq [external_id : Accounts, username : Names]
  BY DEF TypeOK
<1>4. \A u, v \in users' : u.external_id = v.external_id \/ u.username = v.username => u = v
  <2> SUFFICES ASSUME NEW u \in users', NEW v \in users', u.external_id = v.external_id \/ u.username = v.username
               PROVE  u = v
    OBVIOUS
  <2>1. u = row \/ u \in users
    OBVIOUS
  <2>2. v = row \/ v \in users
    OBVIOUS
  <2> QED
    BY <1>1, <1>2, <2>1, <2>2
<1> QED
  BY <1>3, <1>4
-----------------------------------------------------------------------------
(* The steps of a command. *)

\* A jump leaves all but the state as it was; these are the jumps there are.
MayGo(c, from, to) ==
  /\ from \notin {"idle", "done"} /\ to \in States \ {"idle", "get", "check_users"}
  /\ to \in {"insert", "get_again"} => from \in {"get", "insert"}
  /\ to = "get_again" => Clashes([external_id |-> cmd[c].author, username |-> cmd[c].name])
  /\ to = "compare" => from = "check_users" /\ Different(c) /\ Known(c)

LEMMA GotoStep ==
  ASSUME IInv, NEW c \in Commands, NEW from, NEW to, Goto(c, from, to), MayGo(c, from, to),
         UNCHANGED <<name, users, changes>>
  PROVE  IInv'
<1> DEFINE r == [cmd[c] EXCEPT !.pc = to]
<1>1. cmd[c] \in Command /\ Fits(cmd[c], users) /\ cmd[c].pc = from
  BY DEF IInv, TypeOK, EachFits, Goto
<1>2. to \in States
  BY DEF MayGo
<1>3. /\ r \in Command /\ r.pc = to
      /\ r.kind = cmd[c].kind /\ r.author = cmd[c].author /\ r.name = cmd[c].name
      /\ r.compared = cmd[c].compared /\ r.row = cmd[c].row /\ r.raised = cmd[c].raised
      /\ r.lines = cmd[c].lines
  BY <1>1, <1>2 DEF Command
<1>4. Becomes(c, r)
  BY DEF Becomes, Goto, IInv, TypeOK
<1> HIDE DEF r
<1>5. RightKind(r)
  BY <1>1, <1>3 DEF Fits, RightKind, MayGo
<1>6. FoundOut(r, users)
  <2>1. to = "get_again" => \E u \in users : u.external_id = cmd[c].author \/ u.username = cmd[c].name
    BY DEF MayGo, Clashes
  <2>2. to = "compare" => /\ cmd[c].compared \subseteq KnownIds(users)
                          /\ cmd[c].kind = "compare" => Cardinality(cmd[c].compared) = 2
    BY DEF MayGo, Known, Different, KnownIds
  <2> QED
    BY <1>3, <2>1, <2>2 DEF FoundOut
<1>7. OwnRow(r) /\ ForName(r, users) /\ LikeWithLike(r)
  BY <1>1, <1>3 DEF Fits, OwnRow, ForName, LikeWithLike, Compared
<1> QED
  BY <1>3, <1>4, <1>5, <1>6, <1>7, CommandStep DEF Fits

\* Nothing stays of a command that is over.
LEMMA EndStep ==
  ASSUME IInv, NEW c \in Commands, NEW from, NEW shown \in Answers, NEW hurt \in BOOLEAN,
         End(c, from, shown, hurt), UNCHANGED <<name, users, changes>>
  PROVE  IInv'
<1> DEFINE r == [Idle EXCEPT !.pc = "done", !.shown = shown, !.hurt = hurt]
<1>1. "done" \in States
  BY DEF States
<1>2. /\ r \in Command /\ r.pc = "done" /\ r.kind = "own" /\ r.author = Nobody
      /\ r.row = Nobody /\ r.raised = "none" /\ r.lines = {}
  BY <1>1, IdleIs DEF Command
<1>3. Becomes(c, r)
  BY DEF Becomes, End
<1> HIDE DEF r
<1>4. Fits(r, users)
  BY <1>2 DEF Fits, RightKind, FoundOut, OwnRow, ForName, LikeWithLike, Comparisons
<1> QED
  BY <1>2, <1>3, <1>4, CommandStep

\* An exception on its way is no ValueError, and an IntegrityError has its reason.
LEMMA RaiseStep ==
  ASSUME IInv, NEW c \in Commands, NEW from, NEW what \in Failures \ {"ValueError"}, Raise(c, from, what),
         what = "IntegrityError" => \E u \in users : u.username = cmd[c].name /\ u.external_id # cmd[c].author,
         from \notin {"idle", "done"}, UNCHANGED <<name, users, changes>>
  PROVE  IInv'
<1> DEFINE r == [cmd[c] EXCEPT !.pc = "error", !.raised = what, !.lines = {}]
<1>1. cmd[c] \in Command /\ Fits(cmd[c], users) /\ cmd[c].pc = from
  BY DEF IInv, TypeOK, EachFits, Raise
<1>2. "error" \in States /\ {} \in SUBSET SUBSET Rating
  BY DEF States
<1>3. /\ r \in Command /\ r.pc = "error" /\ r.kind = cmd[c].kind /\ r.author = cmd[c].author
      /\ r.name = cmd[c].name /\ r.compared = cmd[c].compared /\ r.row = cmd[c].row
      /\ r.raised = what /\ r.lines = {}
  BY <1>1, <1>2 DEF Command
<1>4. Becomes(c, r)
  BY DEF Becomes, Raise, IInv, TypeOK
<1> HIDE DEF r
<1>5. Fits(r, users)
  BY <1>1, <1>3 DEF Fits, RightKind, FoundOut, OwnRow, ForName, LikeWithLike
<1> QED
  BY <1>3, <1>4, <1>5, CommandStep

\* A row of the author is found.
LEMMA FoundStep ==
  ASSUME TypeOK, EachFits, NEW c \in Commands, NEW from, NEW row, Found(c, from, row),
         row.external_id = cmd[c].author, from \notin {"idle", "done"}
  PROVE  \E r \in Command : Becomes(c, r) /\ Fits(r, users)
<1> DEFINE r == [cmd[c] EXCEPT !.row = row.external_id, !.pc = Work(c)]
<1>1. cmd[c] \in Command /\ Fits(cmd[c], users) /\ cmd[c].pc = from
  BY DEF TypeOK, EachFits, Found
<1>2. Work(c) \in States /\ Work(c) \in {"complete", "query"}
  BY DEF Work, States
<1>3. row.external_id \in Accounts \cup {Nobody}
  BY <1>1 DEF Command
<1>4. /\ r \in Command /\ r.pc = Work(c) /\ r.row = row.external_id
      /\ r.kind = cmd[c].kind /\ r.author = cmd[c].author /\ r.name = cmd[c].name
      /\ r.compared = cmd[c].compared /\ r.raised = cmd[c].raised /\ r.lines = cmd[c].lines
  BY <1>1, <1>2, <1>3 DEF Command
<1>5. Becomes(c, r)
  BY DEF Becomes, Found, TypeOK
<1> HIDE DEF r
<1>6. Fits(r, users)
  BY <1>1, <1>2, <1>4 DEF Fits, RightKind, FoundOut, OwnRow, ForName, LikeWithLike, Compared
<1> QED
  BY <1>4, <1>5, <1>6

-----------------------------------------------------------------------------
(* The actions *)

LEMMA ArriveStep ==
  ASSUME IInv, NEW c \in Commands, NEW p \in ServedBy[c], NEW a \in Accounts, NEW kind \in Kinds,
         NEW compared \in SUBSET Accounts, Arrive(c, p, a, kind, compared)
  PROVE  IInv'
<1> DEFINE r == [Idle EXCEPT
       !.pc = IF kind = "mention" THEN "get" ELSE "check",
       !.kind = kind, !.process = p, !.compared = compared,
       !.author = IF compared = {} THEN a ELSE @, !.name = IF compared = {} THEN name[a] ELSE @]
<1>1. /\ kind = "compare" => Cardinality(compared) \in 1..2
      /\ kind = "compare_meta" => Cardinality(compared) = 1
      /\ kind \notin Comparisons => Cardinality(compared) = 0
  BY DEF Arrive, Comparisons
<1>2. Becomes(c, r)
  BY DEF Arrive, Becomes
<1>3. kind \notin Comparisons => compared = {}
  BY <1>1, CommandsAssumption, FS_Subset, FS_EmptySet
<1>4. /\ r.kind = kind /\ r.compared = compared /\ r.row = Nobody /\ r.raised = "none"
      /\ r.lines = {} /\ r.pc = (IF kind = "mention" THEN "get" ELSE "check")
      /\ compared = {} => r.author = a /\ r.name = name[a]
  BY IdleIs DEF Command
<1>5. r \in Command
  <2>1. {"get", "check"} \subseteq States /\ p \in Processes
    BY DEF States, Processes
  <2>2. name[a] \in Names
    BY DEF IInv, TypeOK
  <2> QED
    BY <2>1, <2>2, IdleIs DEF Command
<1>6. name[a] \in Names
  BY DEF IInv, TypeOK
<1> HIDE DEF r
<1>7. RightKind(r)
  BY <1>1, <1>3, <1>4, <1>6 DEF RightKind, Comparisons
<1>8. FoundOut(r, users) /\ OwnRow(r) /\ ForName(r, users) /\ LikeWithLike(r)
  BY <1>4 DEF FoundOut, OwnRow, ForName, LikeWithLike
<1> QED
  BY <1>2, <1>5, <1>7, <1>8, CommandStep DEF Fits, Arrive

LEMMA CheckStep ==
  ASSUME IInv, NEW c \in Commands, Check(c)
  PROVE  IInv'
<1>1. MayGo(c, "check", "thinking")
  BY DEF MayGo, States
<1>2. "CommandOnCooldown" \in Failures \ {"ValueError"}
  BY DEF Failures
<1> QED
  BY <1>1, <1>2, GotoStep, RaiseStep DEF Check

LEMMA ShowThinkingStep ==
  ASSUME IInv, NEW c \in Commands, ShowThinking(c)
  PROVE  IInv'
<1> DEFINE to == IF cmd[c].kind \in {"compare", "compare_meta"} THEN "check_users" ELSE "get"
           r == [cmd[c] EXCEPT !.shown = "thinking", !.pc = to]
<1>1. cmd[c] \in Command /\ Fits(cmd[c], users) /\ cmd[c].pc = "thinking"
  BY DEF IInv, TypeOK, EachFits, ShowThinking
<1>2. to \in States /\ "thinking" \in Answers
  BY DEF States, Answers
<1>3. Becomes(c, r)
  BY DEF Becomes, ShowThinking, IInv, TypeOK
<1>4. to \in {"check_users", "get"} /\ (to = "check_users" <=> cmd[c].kind \in Comparisons)
  BY DEF Comparisons
<1> HIDE DEF to
<1>5. /\ r \in Command /\ r.pc = to
      /\ r.kind = cmd[c].kind /\ r.author = cmd[c].author /\ r.name = cmd[c].name
      /\ r.compared = cmd[c].compared /\ r.row = cmd[c].row /\ r.raised = cmd[c].raised
      /\ r.lines = cmd[c].lines
  BY <1>1, <1>2 DEF Command
<1> HIDE DEF r
<1>6. Fits(r, users)
  BY <1>1, <1>4, <1>5 DEF Fits, RightKind, FoundOut, OwnRow, ForName, LikeWithLike, Compared
<1> QED
  BY <1>3, <1>5, <1>6, CommandStep DEF ShowThinking

LEMMA GetStep ==
  ASSUME IInv, NEW c \in Commands, Get(c)
  PROVE  IInv'
<1>1. CASE \E row \in RowsOf(c) : Found(c, "get", row)
  <2>1. PICK row \in RowsOf(c) : Found(c, "get", row)
    BY <1>1
  <2>2. PICK r \in Command : Becomes(c, r) /\ Fits(r, users)
    BY <2>1, FoundStep DEF IInv, RowsOf
  <2> QED
    BY <2>2, CommandStep DEF Get
<1>2. CASE Goto(c, "get", "insert")
  <2>1. MayGo(c, "get", "insert")
    BY DEF MayGo, States
  <2> QED
    BY <1>2, <2>1, GotoStep DEF Get
<1> QED
  BY <1>1, <1>2 DEF Get

\* A row is added, and whatever a command becomes at the same time.
LEMMA RowStep ==
  ASSUME IInv, NEW row \in [external_id : Accounts, username : Names], ~ Clashes(row),
         users' = users \cup {row}, UNCHANGED name, changes' \in Nat,
         cmd' \in [Commands -> Command], \A c \in Commands : cmd'[c] = cmd[c] \/ Fits(cmd'[c], users)
  PROVE  IInv'
<1>1. TypeOK'
  <2>1. /\ users' \subseteq [external_id : Accounts, username : Names]
        /\ (\A u, v \in users : u.external_id = v.external_id \/ u.username = v.username => u = v)'
    BY NewRow DEF IInv
  <2>2. name' \in [Accounts -> Names]
    BY DEF IInv, TypeOK
  <2> QED
    BY <2>1, <2>2 DEF TypeOK
<1>2. \A c \in Commands : Fits(cmd'[c], users)
  BY DEF IInv, EachFits
<1>3. \A c \in Commands : Fits(cmd'[c], users')
  BY <1>2, MoreRows
<1> QED
  BY <1>1, <1>3 DEF IInv, EachFits

LEMMA InsertStep ==
  ASSUME IInv, NEW c \in Commands, Insert(c)
  PROVE  IInv'
<1> DEFINE row == [external_id |-> cmd[c].author, username |-> cmd[c].name]
<1>1. CASE Clashes(row)
  <2>1. Goto(c, "insert", "get_again") /\ UNCHANGED <<name, users, changes>>
    BY <1>1 DEF Insert
  <2>2. MayGo(c, "insert", "get_again")
    BY <1>1 DEF MayGo, States
  <2> QED
    BY <2>1, <2>2, GotoStep
<1>2. CASE ~ Clashes(row)
  <2>1. Found(c, "insert", row) /\ users' = users \cup {row} /\ UNCHANGED <<name, changes>>
    BY <1>2 DEF Insert
  <2>2. cmd[c].pc = "insert" /\ Fits(cmd[c], users)
    BY <2>1 DEF Found, IInv, EachFits
  <2>3. row \in [external_id : Accounts, username : Names]
    BY <2>2 DEF Fits, RightKind
  <2>4. row.external_id = cmd[c].author
    OBVIOUS
  <2> HIDE DEF row
  <2>5. PICK r \in Command : Becomes(c, r) /\ Fits(r, users)
    BY <2>1, <2>4, FoundStep DEF IInv
  <2>6. cmd' \in [Commands -> Command] /\ \A d \in Commands : cmd'[d] = cmd[d] \/ cmd'[d] = r
    BY <2>5 DEF Becomes, IInv, TypeOK
  <2>7. changes' \in Nat
    BY <2>1 DEF IInv, TypeOK
  <2> QED
    BY <1>2, <2>1, <2>3, <2>5, <2>6, <2>7, RowStep
<1> QED
  BY <1>1, <1>2

\* The row that was in the way of the author's is another's, or it is found now.
LEMMA GetAgainStep ==
  ASSUME IInv, NEW c \in Commands, GetAgain(c)
  PROVE  IInv'
<1>1. CASE \E row \in RowsAgain(c) : Found(c, "get_again", row)
  <2>1. PICK row \in RowsOf(c) : Found(c, "get_again", row)
    BY <1>1 DEF RowsAgain
  <2>2. PICK r \in Command : Becomes(c, r) /\ Fits(r, users)
    BY <2>1, FoundStep DEF IInv, RowsOf
  <2> QED
    BY <2>2, CommandStep DEF GetAgain
<1>2. CASE RowsAgain(c) = {} /\ Raise(c, "get_again", "IntegrityError")
  <2>1. cmd[c].pc = "get_again" /\ Fits(cmd[c], users)
    BY <1>2 DEF Raise, IInv, EachFits
  <2>2. PICK u \in users : u.external_id = cmd[c].author \/ u.username = cmd[c].name
    BY <2>1 DEF Fits, FoundOut
  <2>3. u.external_id # cmd[c].author
    BY <1>2 DEF RowsAgain, RowsOf
  <2>4. "IntegrityError" \in Failures \ {"ValueError"}
    BY DEF Failures
  <2> QED
    BY <1>2, <2>2, <2>3, <2>4, RaiseStep DEF GetAgain
<1> QED
  BY <1>1, <1>2 DEF GetAgain

LEMMA QueryStep ==
  ASSUME IInv, NEW c \in Commands, Query(c)
  PROVE  IInv'
<1>1. MayGo(c, "query", "answer")
  BY DEF MayGo, States
<1> QED
  BY <1>1, GotoStep DEF Query

LEMMA CheckUsersStep ==
  ASSUME IInv, NEW c \in Commands, CheckUsers(c)
  PROVE  IInv'
<1>1. MayGo(c, "check_users", "answer")
  BY DEF MayGo, States
<1>2. Different(c) /\ Known(c) => MayGo(c, "check_users", "compare")
  BY DEF MayGo, States
<1> QED
  BY <1>1, <1>2, GotoStep DEF CheckUsers

(* The comparison *)

\* Users that are known have names, and different ones.
LEMMA Usernames ==
  ASSUME TypeOK
  PROVE  /\ \A a \in KnownIds(users) : Username[a] \in Nat
         /\ \A a, b \in KnownIds(users) : Username[a] = Username[b] => a = b
<1>1. \A a \in KnownIds(users) : \E u \in users : u.external_id = a /\ Username[a] = u.username
  <2> SUFFICES ASSUME NEW a \in KnownIds(users)
               PROVE  \E u \in users : u.external_id = a /\ Username[a] = u.username
    OBVIOUS
  <2> DEFINE v == CHOOSE u \in users : u.external_id = a
  <2>1. \E u \in users : u.external_id = a
    BY DEF KnownIds
  <2>2. v \in users /\ v.external_id = a
    BY <2>1, Zenon
  <2>3. Username[a] = v.username
    BY DEF Username, KnownIds
  <2> HIDE DEF v
  <2> QED
    BY <2>2, <2>3
<1>2. \A u \in users : u.username \in Nat
  BY CommandsAssumption DEF TypeOK
<1>3. \A u, v \in users : u.username = v.username => u = v
  BY DEF TypeOK
<1> QED
  BY <1>1, <1>2, <1>3

RowsRead(r, rated, completed, username) ==
  IF r.kind = "compare" THEN CompareRows(rated, completed, r.compared, username)
                        ELSE CompareMetaRows(rated, completed, Marked, r.compared, username)

Groups(r, rows) == IF r.kind = "compare" THEN CompareGroups(rows) ELSE CompareMetaGroups(rows)

\* With enough ratings the view has two groups of one length.
LEMMA Aligns ==
  ASSUME IInv, NEW c \in Commands, cmd[c].pc = "compare", NEW completed \in CompletedSets,
         NEW rated \in SUBSET RatingsOf(cmd[c].compared), NEW rows,
         rows = RowsRead(cmd[c], rated, completed, Username),
         Len(rows) >= 2 * Cardinality(cmd[c].compared)
  PROVE  AlignedOf(Groups(cmd[c], rows), Compared(cmd[c]), Media)
<1> DEFINE ids == cmd[c].compared
<1>1. PICK username : username = Username
  OBVIOUS
<1>2. /\ \A a \in KnownIds(users) : username[a] \in Nat
      /\ \A a, b \in KnownIds(users) : username[a] = username[b] => a = b
  BY <1>1, Usernames DEF IInv
<1>3. /\ Fits(cmd[c], users) /\ ids \subseteq KnownIds(users) /\ ids \subseteq Accounts
      /\ cmd[c].kind \in Comparisons
      /\ cmd[c].kind = "compare" => Cardinality(ids) = 2
      /\ cmd[c].kind # "compare" => Cardinality(ids) = 1
  BY DEF IInv, TypeOK, EachFits, Fits, RightKind, FoundOut, Command, Comparisons
<1>4. IsFiniteSet(ids) /\ IsFiniteSet(Media) /\ Media \subseteq Nat /\ completed \subseteq Media
  BY <1>3, CommandsAssumption, FS_Subset
<1>5. rated \subseteq [user : ids, media : Media]
  BY DEF RatingsOf
<1> HIDE DEF ids
<1>6. CASE cmd[c].kind = "compare"
  <2>1. Two(ids, Media, rated, completed, username)
    BY <1>2, <1>3, <1>4, <1>5, <1>6 DEF Two
  <2>2. rows = CompareRows(rated, completed, ids, username)
    BY <1>1, <1>6 DEF RowsRead, ids
  <2>3. Len(CompareRows(rated, completed, ids, username)) >= 2 * Cardinality(ids)
    BY <2>2 DEF ids
  <2>4. AlignedOf(CompareGroups(CompareRows(rated, completed, ids, username)), ids, Media)
    BY <2>1, <2>3, CompareAligns
  <2>5. Groups(cmd[c], rows) = CompareGroups(rows) /\ Compared(cmd[c]) = ids
    BY <1>6 DEF Groups, Compared, ids
  <2> QED
    BY <2>2, <2>4, <2>5
<1>7. CASE cmd[c].kind # "compare"
  <2>1. PICK u : ids = {u}
    BY <1>3, <1>4, <1>7, FS_Singleton
  <2>2. u # MetaUser /\ username[u] \in Nat
    BY <1>2, <1>3, <2>1, CommandsAssumption
  <2>3. rows = CompareMetaRows(rated, completed, Marked, {u}, username)
    BY <1>1, <1>7, <2>1 DEF RowsRead, ids
  <2>4. Len(CompareMetaRows(rated, completed, Marked, {u}, username)) >= 2
    <3>1. Cardinality(ids) = 1
      BY <1>3, <1>7
    <3>2. Len(rows) >= 2
      BY <3>1 DEF ids
    <3> QED
      BY <2>3, <3>2
  <2>5. rated \subseteq [user : {u}, media : Media]
    BY <1>5, <2>1
  <2>6. AlignedOf(CompareMetaGroups(CompareMetaRows(rated, completed, Marked, {u}, username)), {u, MetaUser}, Media)
    BY <1>4, <2>2, <2>4, <2>5, CompareMetaAligns
  <2>7. Groups(cmd[c], rows) = CompareMetaGroups(rows) /\ Compared(cmd[c]) = {u, MetaUser}
    BY <1>7, <2>1 DEF Groups, Compared, ids
  <2> QED
    BY <2>3, <2>6, <2>7
<1> QED
  BY <1>6, <1>7

LEMMA CompareStep ==
  ASSUME IInv, NEW c \in Commands, NEW completed \in CompletedSets,
         NEW rated \in SUBSET RatingsOf(cmd[c].compared), Compare(c, rated, completed)
  PROVE  IInv'
<1>1. PICK rows : rows = RowsRead(cmd[c], rated, completed, Username)
  OBVIOUS
<1>2. PICK groups : groups = Groups(cmd[c], rows)
  OBVIOUS
<1>3. /\ cmd[c].pc = "compare" /\ UNCHANGED <<name, users, changes>>
      /\ \/ Goto(c, "compare", "answer")
         \/ /\ Len(rows) >= 2 * Cardinality(cmd[c].compared)
            /\ cmd' = [cmd EXCEPT ![c].pc = "complete", ![c].lines = Lines(groups)]
         \/ /\ Len(rows) >= 2 * Cardinality(cmd[c].compared) /\ ~ Comparable(groups)
  BY <1>1, <1>2 DEF Compare, RowsRead, Groups
<1>4. Len(rows) >= 2 * Cardinality(cmd[c].compared) => AlignedOf(groups, Compared(cmd[c]), Media)
  BY <1>1, <1>2, <1>3, Aligns
<1>5. CASE Goto(c, "compare", "answer")
  <2>1. MayGo(c, "compare", "answer")
    BY DEF MayGo, States
  <2> QED
    BY <1>3, <1>5, <2>1, GotoStep
<1>6. CASE /\ Len(rows) >= 2 * Cardinality(cmd[c].compared)
           /\ cmd' = [cmd EXCEPT ![c].pc = "complete", ![c].lines = Lines(groups)]
  <2> DEFINE r == [cmd[c] EXCEPT !.pc = "complete", !.lines = Lines(groups)]
  <2>1. cmd[c] \in Command /\ Fits(cmd[c], users)
    BY DEF IInv, TypeOK, EachFits
  <2>2. \A line \in Lines(groups) :
          /\ {s.user : s \in line} = Compared(cmd[c])
          /\ \A s, t \in line : s.media = t.media
          /\ \A s \in line : s \in [user : Compared(cmd[c]), media : Media]
    BY <1>4, <1>6 DEF AlignedOf
  <2>3. Compared(cmd[c]) \subseteq Accounts \cup {MetaUser}
    BY <2>1 DEF Command, Compared
  <2>4. Lines(groups) \in SUBSET SUBSET Rating
    BY <2>2, <2>3 DEF Rating
  <2>5. Becomes(c, r)
    BY <1>6 DEF Becomes, IInv, TypeOK
  <2>6. "complete" \in States
    BY DEF States
  <2>7. /\ r \in Command /\ r.pc = "complete"
        /\ r.kind = cmd[c].kind /\ r.author = cmd[c].author /\ r.name = cmd[c].name
        /\ r.compared = cmd[c].compared /\ r.row = cmd[c].row /\ r.raised = cmd[c].raised
        /\ r.lines = Lines(groups)
    BY <2>1, <2>4, <2>6 DEF Command
  <2> HIDE DEF r
  <2>8. RightKind(r) /\ FoundOut(r, users) /\ OwnRow(r) /\ ForName(r, users)
    BY <1>3, <2>1, <2>7 DEF Fits, RightKind, FoundOut, OwnRow, ForName
  <2>9. LikeWithLike(r)
    BY <2>2, <2>7 DEF LikeWithLike, Compared
  <2> QED
    BY <1>3, <2>5, <2>7, <2>8, <2>9, CommandStep DEF Fits
<1>7. CASE Len(rows) >= 2 * Cardinality(cmd[c].compared) /\ ~ Comparable(groups)
  BY <1>4, <1>7 DEF AlignedOf
<1> QED
  BY <1>3, <1>5, <1>6, <1>7

LEMMA CompleteStep ==
  ASSUME IInv, NEW c \in Commands, NEW completion \in Completions, Complete(c, completion)
  PROVE  IInv'
<1>1. CASE cmd[c].pc = "complete" /\ cmd' = [cmd EXCEPT ![c].pc = "answer", ![c].lines = {}]
  <2> DEFINE r == [cmd[c] EXCEPT !.pc = "answer", !.lines = {}]
  <2>1. cmd[c] \in Command /\ Fits(cmd[c], users)
    BY DEF IInv, TypeOK, EachFits
  <2>2. "answer" \in States /\ {} \in SUBSET SUBSET Rating
    BY DEF States
  <2>3. Becomes(c, r)
    BY <1>1 DEF Becomes, IInv, TypeOK
  <2>4. /\ r \in Command /\ r.pc = "answer"
        /\ r.kind = cmd[c].kind /\ r.author = cmd[c].author /\ r.name = cmd[c].name
        /\ r.compared = cmd[c].compared /\ r.row = cmd[c].row /\ r.raised = cmd[c].raised
        /\ r.lines = {}
    BY <2>1, <2>2 DEF Command
  <2> HIDE DEF r
  <2>5. Fits(r, users)
    BY <1>1, <2>1, <2>4 DEF Fits, RightKind, FoundOut, OwnRow, ForName, LikeWithLike
  <2> QED
    BY <2>3, <2>4, <2>5, CommandStep DEF Complete
<1>2. CASE Raise(c, "complete", "service")
  <2>1. "service" \in Failures \ {"ValueError"}
    BY DEF Failures
  <2> QED
    BY <1>2, <2>1, RaiseStep DEF Complete
<1> QED
  BY <1>1, <1>2 DEF Complete

\* Whatever a command shows, and whether a failure struck it, has its type.
LEMMA ShownType ==
  ASSUME IInv, NEW c \in Commands
  PROVE  cmd[c].shown \in Answers /\ cmd[c].hurt \in BOOLEAN /\ {"answer", "error"} \subseteq Answers
<1>1. cmd[c] \in Command
  BY DEF IInv, TypeOK
<1> QED
  BY <1>1 DEF Command, Answers, Final

LEMMA LastSteps ==
  ASSUME IInv, NEW c \in Commands, Answer(c) \/ HandleError(c)
  PROVE  IInv'
<1>1. CASE Answer(c)
  BY <1>1, ShownType, EndStep DEF Answer
<1>2. CASE HandleError(c)
  BY <1>2, ShownType, EndStep DEF HandleError
<1> QED
  BY <1>1, <1>2

LEMMA DiscordErrorStep ==
  ASSUME IInv, NEW c \in Commands, DiscordError(c)
  PROVE  IInv'
<1>1. CASE End(c, "error", cmd[c].shown, TRUE)
  BY <1>1, ShownType, EndStep DEF DiscordError
<1>2. CASE /\ cmd[c].pc \in {"check", "thinking", "answer"}
           /\ cmd' = [cmd EXCEPT ![c].hurt = TRUE, ![c].pc = "error", ![c].raised = "discord"]
  <2> DEFINE r == [cmd[c] EXCEPT !.hurt = TRUE, !.pc = "error", !.raised = "discord"]
  <2>1. cmd[c] \in Command /\ Fits(cmd[c], users)
    BY DEF IInv, TypeOK, EachFits
  <2>2. "error" \in States /\ "discord" \in Failures
    BY DEF States, Failures
  <2>3. Becomes(c, r)
    BY <1>2 DEF Becomes, IInv, TypeOK
  <2>4. /\ r \in Command /\ r.pc = "error"
        /\ r.kind = cmd[c].kind /\ r.author = cmd[c].author /\ r.name = cmd[c].name
        /\ r.compared = cmd[c].compared /\ r.row = cmd[c].row /\ r.raised = "discord"
        /\ r.lines = cmd[c].lines
    BY <2>1, <2>2 DEF Command
  <2> HIDE DEF r
  <2>5. Fits(r, users)
    BY <1>2, <2>1, <2>4 DEF Fits, RightKind, FoundOut, OwnRow, ForName, LikeWithLike, Compared
  <2> QED
    BY <2>3, <2>4, <2>5, CommandStep DEF DiscordError
<1> QED
  BY <1>1, <1>2 DEF DiscordError

LEMMA ServeStep ==
  ASSUME IInv, NEW c \in Commands, Serve(c)
  PROVE  IInv'
<1>1. CASE Check(c) \/ ShowThinking(c) \/ Get(c) \/ Insert(c) \/ GetAgain(c) \/ Query(c) \/ CheckUsers(c)
  BY <1>1, CheckStep, ShowThinkingStep, GetStep, InsertStep, GetAgainStep, QueryStep, CheckUsersStep
<1>2. CASE \E rated \in SUBSET RatingsOf(cmd[c].compared), completed \in CompletedSets :
             Compare(c, rated, completed)
  BY <1>2, CompareStep
<1>3. CASE \E completion \in Completions : Complete(c, completion)
  BY <1>3, CompleteStep
<1>4. CASE Answer(c) \/ HandleError(c)
  BY <1>4, LastSteps
<1> QED
  BY <1>1, <1>2, <1>3, <1>4 DEF Serve

LEMMA RenameStep ==
  ASSUME IInv, NEW a \in Accounts, NEW n \in Names, Rename(a, n)
  PROVE  IInv'
<1>1. TypeOK'
  BY DEF Rename, IInv, TypeOK
<1> QED
  BY <1>1 DEF Rename, IInv, EachFits

LEMMA AddUserStep ==
  ASSUME IInv, NEW a \in Accounts, AddUser(a)
  PROVE  IInv'
<1> DEFINE row == [external_id |-> a, username |-> name[a]]
<1>1. row \in [external_id : Accounts, username : Names] /\ changes' \in Nat
  BY DEF IInv, TypeOK, AddUser
<1>2. ~ Clashes(row) /\ users' = users \cup {row} /\ UNCHANGED name /\ UNCHANGED cmd
  BY DEF AddUser
<1>3. cmd' \in [Commands -> Command]
  BY <1>2 DEF IInv, TypeOK
<1> HIDE DEF row
<1> QED
  BY <1>1, <1>2, <1>3, RowStep
-----------------------------------------------------------------------------
\* Every step keeps the invariant.
LEMMA NextStep ==
  ASSUME IInv, [Next]_vars
  PROVE  IInv'
<1>1. CASE \E c \in Commands : Serve(c) \/ DiscordError(c)
  BY <1>1, ServeStep, DiscordErrorStep
<1>2. CASE \E c \in Commands : \E p \in ServedBy[c], a \in Accounts, kind \in Kinds, compared \in SUBSET Accounts :
             Arrive(c, p, a, kind, compared)
  BY <1>2, ArriveStep
<1>3. CASE \E a \in Accounts : AddUser(a) \/ \E n \in Names : Rename(a, n)
  BY <1>3, AddUserStep, RenameStep
<1>4. CASE UNCHANGED vars
  BY <1>4 DEF vars, IInv, TypeOK, EachFits
<1> QED
  BY <1>1, <1>2, <1>3, <1>4 DEF Next

LEMMA Invariance == Spec => []IInv
<1>1. Init => IInv
  BY TypeInit, FitsInit DEF IInv
<1>2. IInv /\ [Next]_vars => IInv'
  BY NextStep
<1> QED
  BY <1>1, <1>2, PTL DEF Spec

\* Every command has its state and its locals in their types, and no account and no
\* name has two user rows, whichever processes add them.
THEOREM TypeCorrect == Spec => []TypeOK
<1>1. IInv => TypeOK
  BY DEF IInv
<1> QED
  BY <1>1, Invariance, PTL

\* get_or_create: a command has the row of its author, whatever names change hands
\* and whoever else is about to create it.
THEOREM ServesItsAuthor == Spec => []RowIsAuthors
<1>1. IInv => RowIsAuthors
  BY DEF IInv, EachFits, Fits, OwnRow, RowIsAuthors
<1> QED
  BY <1>1, Invariance, PTL

\* An IntegrityError means that the name is taken by another's row, and the views of
\* the comparisons never raise.
THEOREM OnlyForAName == Spec => []TurnedAwayForName
<1>1. IInv => TurnedAwayForName
  BY DEF IInv, EachFits, Fits, ForName, TurnedAwayForName
<1> QED
  BY <1>1, Invariance, PTL

\* A line of a comparison has one rating of each side, of one medium, for any ratings.
THEOREM LineByLine == Spec => []ComparesLikeWithLike
<1>1. IInv => ComparesLikeWithLike
  BY DEF IInv, EachFits, Fits, LikeWithLike, Compared, ComparesLikeWithLike
<1> QED
  BY <1>1, Invariance, PTL
=============================================================================
