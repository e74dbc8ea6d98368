# A TLA+ model of the assessment bot

The assessment bot lets the members of one Discord server rate media (films,
series, games), vote on what to assess next, and read their ratings from an MCP
client. This directory holds TLA+ modules that model its core, the TLC runs that
check them, and proofs that TLAPS checks. `PROJECT.json` says line by line which
code a definition stands for.

All paths below are relative to `src/`.

## The system

Two kinds of process share one PostgreSQL database.

* The **bot** (`bot/`): one discord.py process, supervised by a script that
  restarts it. Every interaction (command, click, submitted form) is a coroutine on
  one event loop. The ORM is called through `sync_to_async`, whose thread-sensitive
  executor is a single thread per process: at most one synchronous section runs, or
  waits for the database, at a time.
* The **web server** (`api/`): Django under ASGI with several workers; the admin
  site, the OAuth server for MCP clients, and the MCP tools.

| Component | Code | State it keeps | Operations | What is hard |
| --- | --- | --- | --- | --- |
| Poll voting and resolution | `bot/commands/poll.py`, `bot/views/poll.py`, `api/assessment/models.py` | `Poll` (status, winner, candidates), `Vote.ranks`, the open views | /vote, Confirm, `save_vote`, `check_resolve`, `resolve`, announcement | Confirms of the last voters at once, in one process or two; a crash or a failed call between the stored vote and the resolution; views older than the poll's result |
| Ballot editor | `bot/views/poll.py` | order and selected row of one view, its message | select, up, down, Confirm | coroutines of one view between one another's awaits |
| Administration site | `api/assessment/admin.py`, `api/user/admin.py`, `api/mcp/admin.py` | an open change form | poll form; bulk status actions; ratings, users and clients changed | the form writes back what it showed; rows change under the bot and the clients |
| Creation modals | `bot/modals/`, `bot/commands/{rate,media}.py`, `bot/views/{assessment_rate,media}.py` | the row being stored, its message | submit, validate, OMDb, INSERT, completion, answer, error | check-then-insert over two services; an error after the INSERT |
| Thinking registry | `bot/thinking.py` | running tasks and their cancel events | start, progress edits, timeout, cancel, finalize | two coroutines edit one message; an edit in flight when the timeout strikes |
| Paginated lists | `bot/views/base.py`, `assessment_list.py`, `media_list.py` | page, total, queryset, message | open, Prev, Next, Search, Clear | check, await, act on the page; a list that shrinks |
| OAuth sign-in and tokens | `api/mcp/{authorization,callback,handlers,provider,tokens,managers,models}.py` | `OAuthNonce` rows; signed stateless credentials and cookies | /authorize, Discord callback, /token | one-time use over several workers; lifetimes checked awaits earlier; a worker that dies after spending a code |
| OAuth client registration | `api/mcp/{client_auth,validation,context}.py` | `OAuthClient` rows | register, authenticate, check redirects | rows older than today's policy; a client deleted between two requests |
| MCP tools | `api/mcp/tools/`, `api/mcp/schemas/`, `verify_token` | none of their own; `Assessment` rows | list, retrieve, update a review | a page counted and read in two statements; offsets into a list that changes; an UPDATE and the row read back |
| LLM, OMDb, HTTP | `core/clients.py`, `api/llm/clients.py`, `api/assessment/clients.py`, `api/mcp/clients.py` | none | one request each | which replies are an answer, which a default and which an exception |
| Analytics, mentions | `bot/commands/analytics.py`, `bot/views/analytics.py`, `bot/messages.py` | none | compare, compare_meta, on_message | rows that are grouped as neighbours and paired by index |
| Users | `api/user/` | `User` rows | create at the first command, (de)activate | names that change hands; first commands that race |
| Error handlers | `bot/bot.py`, `bot/cog.py` | none | on_app_command_error, on_error, interaction_check | whether a first response has been sent |
| Supervision, settings, logging | `bot/management/`, `core/` | none | restart loop | the overlap of an old and a new bot |

The components meet in the database (the poll row, media statuses, user rows) and
on Discord messages, which several coroutines edit and nobody locks.

What makes each correct:

* **Polls**: decided once, by the ballots that were cast, after everyone has voted;
  announced at most once and only then; never left open with nobody to decide it.
* **Ballot editor**: what moves is what was chosen; what is stored is what was seen.
* **Administration**: a resolution works on one state of the poll, whatever forms
  are saved around it.
* **Modals**: what the user is told is what happened to the row; the final
  message stays; no task is left behind; each submission ends.
* **Lists**: the page is one the list has, the message shows that page, and "No
  items found" means there are none.
* **MCP tools**: turning the pages misses nothing; no tool leaves its owner's ratings;
  an update is stored as answered, or not at all.
* **OAuth**: each state and code is used once, within its lifetime; a token speaks
  for the person, client and resource of its own sign-in; a code is not wasted; a
  deleted client gets nothing more.
* **Commands**: each works with the row of its author and is answered; a comparison
  sets beside one another what two people said of the same medium.

## Modules

| Module | Models | Composed with |
| --- | --- | --- |
| `InstantRunoff` | instant-runoff counting (pyrankvote, external): which candidates may win, ties drawn at random | extended by `PollVoting` |
| `PollVoting` | one poll, its views and Confirm clicks | `InstantRunoff`, `PollPromise` |
| `PollPromise` | abstract: what a poll promises its voters | refined by `PollVoting` |
| `PollAdminForm` | the admin change form beside `PollVoting` | extends `PollVoting` |
| `PollVotingProofs` | the theorems about `PollVoting`, `InstantRunoff` and `PollAdminForm` | extends `PollAdminForm` |
| `BallotEditor` | one `PollView` from the inside | - |
| `ServiceClients` | the HTTP clients: what becomes of each kind of reply | extended by `CreateModal`, `BotCommands`, `OAuthServer` |
| `CreateModal` | both creation modals and the thinking registry | `ServiceClients` |
| `BotCommands` | a command or a mention from its arrival to its answer, and the user directory | `ServiceClients`, `Comparison` |
| `Comparison` | how ratings are read, grouped and lined up for a comparison | extended by `BotCommands` |
| `Paginator` | one `BaseFilterPaginator` and its message | - |
| `OAuthServer` | clients, sign-in and token requests | `ServiceClients`, `OneTimeGrant` |
| `AssessmentTools` | the MCP tools and `verify_token` | - |
| `OneTimeGrant` | abstract: the five stages of a sign-in | refined by `OAuthServer` |
| `OAuthServerProofs`, `CreateModalProofs`, `AssessmentToolsProofs`, `BallotEditorProofs`, `ComparisonProofs`, `BotCommandsProofs`, `PaginatorProofs` | the theorems about each of these modules | each extends its module; `BotCommandsProofs` extends `ComparisonProofs` too |

Each `MC...` module gives constants and symmetry for TLC. A definition whose comment
begins with "Faulty:" is not part of a model: it is a plausible bug, which
`PROJECT.json` substitutes for the real definition to see that a property notices.

### Conventions

* A coroutine has a program counter `pc`; it names what the coroutine does *next*.
  An action runs to the next await, or to the next SQL statement where a
  transaction spans several. The actions of other coroutines come in between.
* A Discord call takes effect when the call's action happens; it may raise instead
  (`DiscordError`, at most `MaxFaults` times), and `on_error` is then the rest. It is
  a Discord call itself and may fail too: the message is then what it was.
* A pool of interactions (`Clicks`, `Requests`, `Submissions`, `Commands`) bounds how
  many there are; except `Requests`, none is used again.
* Texts, embeds and logs are left out; a message is its kind, and the data a
  property compares.

### PollVoting

`status`, `winner`, `candidates` are the `Poll` row, `ranks` the `Vote` rows,
`mediaStatus` the media's. `viewState`, `viewUser`, `order` are the `PollView`s; `pc`,
`viewOf` and the locals `field`, `ballots`, `elected` belong to the clicks.
A Confirm is `ShowThinking`, `SaveVote` (an UPDATE without any condition),
`Acknowledge`, `StartResolve` (entering the synchronous thread), `LockPoll` (SELECT
FOR UPDATE, and the return when completed), `CheckVotes`, `ReadCandidates`,
`CountBallots`, `CommitWinner`, `Announce`.

* `rowLock` is the lock of SELECT FOR UPDATE. `ThreadFree` is the single synchronous
  thread of a process, held already while `LockPoll` waits.
* `CountBallots` fails where the code raises: `KeyError` when a ballot ranks a medium
  that is no candidate any more, `DuplicateCandidatesError` when it ranks two of one
  name. `Countable` is the condition.
* pyrankvote tells candidates apart by **name**, and the code looks the winner up by
  name; names are unique only within a category. So `elected` is *any* candidate
  of the winning name, and `HonestCount` is stated over names.
* Two processes (`Bots`) stand for an old and a new bot during a restart, the only
  time the code runs twice; `Crash` ends one.
* `decisions`, `decision`, `announced` are history: no action reads them.

### PollAdminForm

`OpenForm` shows status, winner and votes; `SaveForm` writes them back in one
transaction, which begins with the UPDATE of the poll row and therefore waits for
`rowLock`, with any non-empty set of candidates. In this module a completed poll
can be opened again; `SingleDecision` does not hold in it, `ReopenedOnlyByForm` does.

### BallotEditor

`order` and `selectedRow` are shared by the clicks, each of which changes them when
it is served and later edits the message with the embed it built. `chosen` is the
candidate last selected, `seen` the order shown when Confirm was clicked, and
`overlapped` whether a click ever arrived while another was being served. A move
happens before its edit. When that edit fails and the edit of `on_error` does too, the
screen keeps the old order and its live buttons: `unshown` says so until the next edit.

### CreateModal

A submission is a record: `pc`, its key, the `outcome` its form handler returned or
raised, its thinking task (`loop`), the task's cancel event and the message `shown`.
Which modal it is of is settled when it is opened (`OpenRating` for a medium that
/rate offers, `OpenAddition` for a name anyone may type). `on_submit` is `ShowThinking`,
`Validate`, `Enrich` (OMDb, additions only), `Save` (the INSERT under its unique
constraint), `Complete` (the completion, ratings only), `Finalize` (leaving the context
manager: cancel and wait for the task), `Answer`, and `ShowError`. The task is
`LoopTurn`, `LoopEdit`, `LoopTimeout`; an edit in flight when the timeout strikes
becomes `stray` and may land at any time after (`StrayEdit`). What OMDb and the model
answer comes from `ServiceClients`. The done callback, which takes the task out of the
registry, is atomic with the task's end: nothing awaits between. A medium that the
staff add by the modal is open for rating at once.

### ServiceClients

`Replies` are the kinds of reply an HTTP service can give. `Fetch` is the base client
(the status counts before the content, and an empty body is `None`, which fails only
where it is used); `Completion`, `MetaMark` and `Identified` are what the callers see. So
`raised`, `default` and `text` are not free choices of the callers' models but what
the clients make of some reply.

### BotCommands and Comparison

A command is `Check` (interaction_check and the cooldown), `ShowThinking` (its first
response), then `Get`, `Insert`, `GetAgain` (`aget_or_create_by_discord`: SELECT, INSERT,
and one more SELECT after an IntegrityError, all in the one synchronous thread), and
`Query`; or `CheckUsers` and `Compare` for a comparison. `Complete` is the completion,
`Answer` the edit or the reply, `HandleError` the two error handlers. `compared`
holds the accounts compared: `compare` with itself is a set of one. `shown` is what
the user sees; Discord refuses a first response where there is one and the edit of
one that is not there (`Accepted`). Accounts `Rename` themselves and the staff
`AddUser`; a row keeps the name it was made with.

`Comparison` has the one statement of each command and its order, the grouping of
neighbours (`LastRun`: a later run of a user replaces an earlier one in the dict) and
`Lines`, which pairs the groups by index. Ratings are read in one statement, so
`Compare` takes *any* set of ratings as read instead of a table that changes. The
progress task of a comparison is the one of `CreateModal` and is not repeated here;
the typing indicator and the history a mention reads are left out.

### Paginator

`rows` gives the number of rows of each queryset (items are counted, not named);
`page`, `total`, `query` are the paginator; each click has its own `count` and `embed`.
The buttons are gone once `ShowThinking` has reached Discord, so clicks sent before
that overlap. `AtATime` bounds how many are served at once. When `on_error` fails as
well, the message stays as it is: a page whose buttons were never taken away, or
"Thinking" for good.

### OAuthServer

Credentials are signed and stateless: a credential exists when its claims are not
`Unsigned`. `nonce` and `redirects` (the clients' rows) are the state in the database;
consuming is one conditional UPDATE (`Consumable`, `Consume`). The time in its WHERE
clause is read when the statement is built, and the statement runs an await later: a
request keeps what it read (`at`), the clock may tick in between, and a nonce may be
spent after it has expired. `Callback` reads it together with the cookie, `BuildUpdate`
once the user of a code is found. `spent` is history: when the request that spent a
nonce asked for it, and when it was done. `jar` holds the cookies,
`given` the codes that reached a client and the redirect URI they went to. A request
is a record `req[r]`: where it stands and its locals. `Register` asks the redirect
policy (`RedirectAllowed`), and so does `Authorize`, because a row may be older than
today's list of hosts (`Rows`) or edited by the staff, whom no policy is asked of
(`Edit`). At /token, `Authenticate` asks for the client's row once, and the request
keeps the answer; `Remove` is a deletion by the staff in between.
`proven` abstracts what the client proves itself by, and whether redirect URI,
resource, verifier and scopes fit. `Answers` are Discord's two replies, through
`ServiceClients`. `Die` is both a worker's death and a lost response: either way the
client has nothing. `now` is the clock; the lifetimes are constants. `SetAccount` is
the bot creating a user, and the staff (de)activating one. `world` is what a request
itself never changes.

### AssessmentTools

A call is `Verify` (for every request), then `Count` and `Slice`, `Retrieve`, or `Update`
and `Read`. Ratings are numbered as they are created, so "newest first" is descending.
A client makes one call, or walks through the pages of one list as long as `has_next`
says so (`NextPage`). `Update` takes the row lock (`rowLock`) and writes a version of the
row that others do not see (`newest`; `review` is what is committed); `Read` answers with
the row it finds and commits, or rolls back when it finds none. So what comes back is
what `Update` wrote only because the staff's forms, removals and other updates wait for
the lock. `Fail` is a failed statement or a worker's death; it rolls back (`Rollback`).
Others rate, remove, edit and
(de)activate (`MaxChanges`). `seen`, `start`, `disturbed`, `wrote` are history.

## Runs

All passing runs disable the deadlock check: each system may really stop, when
every click has been served, every vote is in or a bound is reached. What must not
stop is stated as liveness where fairness is justified, and as `NoSilentStall`.

| Run | Bounds | Properties |
| --- | --- | --- |
| `poll_votes` | 2 voters, 3 media, two of one name, one moved by staff, 2 views, 3 clicks, 2 processes | `TypeOK`, `HonestCount`, `RevisionNeedsSecondClick` |
| `poll_faults` | the same with 2 clicks and 1 fault | `SingleDecision`, `NoSilentStall`, `KeepsPromise` |
| `poll_live` | 2 clicks, no faults, fairness | `KeepsFairPromise`, `Resolved` |
| `poll_forms` | 3 clicks, one form | `FormTypeOK`, `ReopenedOnlyByForm`, `ResolvesOneState` |
| `ballot` | 3 candidates, 4 clicks, 2 faults | `TypeOK`, `SelectionFollows`, `ConfirmedAsShown` |
| `modal` | 2 submissions of either kind, 1 medium, 1 fault, fairness | `TypeOK`, `ToldTheTruth`, `NothingLeftBehind`, `FinalWordStands`, `Finishes` |
| `lists` | up to 5 rows by 2 (3 pages), 1 search, 3 clicks one at a time, 1 change, 2 faults | `TypeOK`, `PageInRange`, `MessageAgrees`, `NothingFoundMeansEmpty` |
| `lists_overlap` | the same, 2 clicks at once, no change, no fault | `NothingFoundMeansEmpty` is **violated** |
| `tools` | 2 clients of one user, up to 3 ratings of 2 users and a 4th, pages of 2, 1 change by others, 1 fault | `TypeOK`, `NothingSkipped`, `OwnOnly`, `AllOrNothing` |
| `oauth` | 1 sign-in, 2 codes, 2 token pairs, 2 requests at a time, 1 client registered, edited and deleted, 3 ticks, 2 faults | `TypeOK`, `SingleUse`, `Chronology`, `CodeNotWasted`, `GivenIsRecorded`, `KeepsGrant`, `RemovedForGood` |
| `oauth_two` | 2 sign-ins, people, browsers, clients and resources, 2 requests, no time, no faults | `Provenance` |
| `commands` | 2 accounts, 3 names, 3 media, a command and a mention, 2 processes, 2 changes, 1 fault, fairness | `TypeOK`, `RowIsAuthors`, `TurnedAwayForName`, `ComparesLikeWithLike`, `Answered` |

Why the bounds are enough to be interesting:

* A race over a result takes two last voters, in one process and in two, and a
  revision takes a third Confirm. Two voters already tie.
* One fault is a stored vote without a resolution; more repeat it. A medium moved by
  the staff between two views is one whose voters rank different candidates.
* Three pages are the fewest with a page that is neither first nor last.
* Four clicks on a ballot are a choice, two moves between one another, and a Confirm.
  Two faults are an edit and the `on_error` that reports it.
* Two submissions of one key race for the constraint, as ratings and as additions.
* The tools need two pages, one of them partial, another person's rating, and a second
  client for the same row; one change by others already falls between any two steps.
* Two requests compete for one nonce, and a request that has been served makes room
  for one that comes later; a client deleted once is one that never comes back; a
  clock of three ticks with a lifetime of one for the context and of two for codes and
  refresh tokens lets each expire at each stage: loaded and then refused, or asked
  for in time and spent too late.
* Mixing up identities takes two people at once, but neither time nor faults.
* Names change hands with two accounts and a third, free name: one takes it, the
  other takes what it left. Three shared media can be in a wrong order. A command and
  a mention race for one row from two processes; more would only repeat that.

### The finding: `lists_overlap`

`BasePaginator.next` compares the page with the last one (`bot/views/base.py:81`),
waits for Discord (line 85) and then turns the page (line 86). Two clicks
on Next that both reach the bot before the buttons are gone pass the check and turn
two pages: the list says "No items found" although it has items. The tests expect
that text for a list without pages
(`bot/tests/test_views_assessment_list_review_pagination.py:133`, with line 135), and
expect `next` to do nothing on the last page. A further Prev leads back, and Clear
or Search reset the page. The same happens below page zero, where Django refuses the
slice and `on_error` shows an error.

### What some properties allow, and why

These are the code's real limits; each property names them instead of hiding them.

* `NoSilentStall` excuses a poll whose Confirm was cut short (a crash, a failed edit,
  a `KeyError`): everyone has voted, /vote no longer offers the poll, and only the
  staff can help. That is real.
* `KeepsPromise` does not promise that the winner is told; after a lost announcement
  nothing repeats it. Without faults it is told (`Resolved`).
* `RevisionNeedsSecondClick`: `save_vote` does not ask whether the poll is over; the
  stored ballot of someone who confirms twice may differ from the counted one.
* `ToldTheTruth` lets an error be shown for a stored row when something failed after
  the INSERT.
* `FinalWordStands` lets the one edit through that was in flight at the timeout.
* `Chronology` is about when a state or code was asked for: that must be within its
  lifetime. The UPDATE may come later, and then spends a nonce that has expired,
  because its WHERE clause compares with a time read before the await.
* `CodeNotWasted` lets a code be lost with the request that died after spending it.
* `NothingSkipped` excuses a walk that lost a rating (the rest moves up a page), and one
  whose last page got another between its count and its slice (the oldest moves
  off the page, and `has_next` says that nothing follows).
* `TurnedAwayForName` has a limit of the code as the one reason: a user whose Discord
  name another account's row still bears cannot be created.
* `Answered` excuses a command that Discord struck (`hurt`). One that fails before its
  first response stays unanswered for good: the handler edits a response there is not.
* `RemovedForGood` is about new tokens. A request past its authentication goes on, and
  access tokens given before stay valid until they expire: `verify_token` does not
  ask for the client.
* `ConfirmedAsShown` is about voters who wait for each click to be served; the code
  promises nothing about clicks sent together. It excuses a Confirm pressed while a
  move is `unshown`: the voter then stores an order the screen never showed.
* `MessageAgrees`, `PageInRange` and `NothingFoundMeansEmpty` are for one click at a time.

## Fairness

* `PollVoting!Fairness`: WF of `ServeClick(c)`, for each Confirm. The event loop resumes
  a coroutine whose await has returned, the executor runs its queue, and PostgreSQL
  grants a free row lock. Nothing makes anyone vote or click; faults are excluded
  in `poll_live` (`MaxFaults = 0`), because a Confirm cut short is never resumed.
  Weak fairness is enough: a click that waits for the lock is continuously
  enabled once the holder ends, since clicks are finitely many.
* `CreateModal!Fairness`: WF of `OnSubmit`, `LoopTurn` and `LoopTimeout` (asyncio's own
  clock), and none for `LoopEdit`: `Finishes` holds even if Discord never answers an
  edit of the progress loop. That the calls `on_submit` itself awaits are answered or
  refused in the end is assumed; for OMDb and the LLM, `core/clients.py` sets a timeout.
* `BotCommands!FairSpec`: WF of `Serve(c)` for each command, for the same reasons; nobody
  must send one, and no failure or change is fair.
* `PollPromise!FairSpec` asks that a due decision is made.
* The OAuth server, the MCP tools, the lists and the ballot editor have no fairness: whether a
  browser, a client or a user comes back is up to them.

## Proofs

The runs check small instances. The theorems below hold for **every** value of the
constants that the modules' assumptions allow: any number of voters, clicks, forms,
clients, requests and rows, any bounds on faults and changes. TLC evaluates the
assumptions on every run. They say that people, media and candidates are finite sets,
that "none" is none of the values, that ids and names are ordered (they are compared
as numbers), and that bounds are numbers. Every invariant, action property and
refinement that the passing runs check is proved, except what needs fairness.

| Module | Theorem | States |
| --- | --- | --- |
| `PollVotingProofs` | `TypeCorrect` | `Spec => []TypeOK` |
| | `DecidedOnce` | `Spec => []SingleDecision` |
| | `NeverForgotten` | `Spec => []NoSilentStall` |
| | `PromiseKept` | `Spec => KeepsPromise`: the poll implements `PollPromise` |
| | `CountedHonestly` | `Spec => []HonestCount` |
| | `RevisedByTheVoter` | `Spec => []RevisionNeedsSecondClick` |
| | `FormTypeCorrect` | `FormSpec => []FormTypeOK` |
| | `FormReopens` | `FormSpec => []ReopenedOnlyByForm` |
| | `FormStaysOut` | `FormSpec => ResolvesOneState` |
| `OAuthServerProofs` | `TypeCorrect` | `Spec => []TypeOK` |
| | `IssuedOnce` | `Spec => []SingleUse` |
| | `SpeaksForItsUser` | `Spec => []Provenance` |
| | `InTime` | `Spec => []Chronology` |
| | `SpentForTokens` | `Spec => []CodeNotWasted` |
| | `RowBeforeCode` | `Spec => []GivenIsRecorded` |
| | `DeletedForGood` | `Spec => RemovedForGood` |
| | `GrantKept` | `Spec => KeepsGrant`: the server implements `OneTimeGrant` |
| `CreateModalProofs` | `TypeCorrect` | `Spec => []TypeOK` |
| | `NobodyIsMisled` | `Spec => []ToldTheTruth` |
| | `TasksEnd` | `Spec => []NothingLeftBehind` |
| | `LastWord` | `Spec => FinalWordStands` |
| `AssessmentToolsProofs` | `TypeCorrect` | `Spec => []TypeOK` |
| | `WalkIsComplete` | `Spec => []NothingSkipped` |
| | `OnlyTheSubjects` | `Spec => []OwnOnly` |
| | `WholeUpdate` | `Spec => []AllOrNothing` |
| `BallotEditorProofs` | `TypeCorrect` | `Spec => []TypeOK` |
| | `ArrowFollows` | `Spec => []SelectionFollows` |
| | `SavesWhatIsShown` | `Spec => []ConfirmedAsShown` |
| `BotCommandsProofs` | `TypeCorrect` | `Spec => []TypeOK` |
| | `ServesItsAuthor` | `Spec => []RowIsAuthors` |
| | `OnlyForAName` | `Spec => []TurnedAwayForName` |
| | `LineByLine` | `Spec => []ComparesLikeWithLike` |
| `ComparisonProofs` | `CompareAligns`, `CompareMetaAligns` | for all ratings, the groups are of one length and the lines pair like with like |
| `PaginatorProofs` | `TypeCorrect` | `Spec => []TypeOK` |
| | `StaysInRange` | `AtATime = 1`: `Spec => []PageInRange` |
| | `ShowsItsPage` | `AtATime = 1`: `Spec => []MessageAgrees` |
| | `SaysNothingOfNothing` | `AtATime = 1`: `Spec => []NothingFoundMeansEmpty` |

`AtATime = 1` says that the clicks of one list are served one at a time. It is a
hypothesis because without it the properties are false: `lists_overlap` shows how.

### How

Few of the properties are inductive alone. Each module defines, at its head, an
invariant in named parts that contains them; a lemma for each part (or for each
action) shows that it is kept, `InvariantHolds` (`Invariance` for the lists) joins them,
and the theorems follow by PTL. What the parts add, and why they are needed:

**Polls** (`IInv`, `CInv`, `FormInv`)

* `ViewsAreReady`, `ClicksHaveViews`: an opened view has a voter and something to
  rank, and a served click has such a view. Hence a stored ballot is a non-empty
  sequence of media: votes are never withdrawn, and `AllVoted` stays true.
* `LockIsHeld`: whoever stands inside the transaction holds the row lock, and the
  status it read stays "initial" until it commits. Hence at most one commits.
* `NothingGoesMissing`: past the check everyone has voted, and at the commit the
  elected one is a medium. Hence the step is `PollPromise!Decide`.
* `DeciderAnnounces`: only the click that decided is about to announce, and nothing
  has been announced yet. Hence at most one announcement.
* `BallotsAreImpartial`, `CommitsAreHonest`: no view and no row ranks a medium its voter
  added, and a click that has counted has counted honestly.
* `BallotsHaveClicks`, `CountedBallotsStand`: a ballot in the row was put there by a click
  of its voter, and stays as it was counted until there is a second. Hence a ballot
  that differs took two.
* `FieldIsCurrent`: the candidates a click has read are those of the row until it
  commits, because the form's first statement waits for the lock.
* `OpeningsPay`: decisions made, plus one for an open poll, plus one for a form that
  may yet reopen it, are at most one more than the form was opened.

The count is an external library, modelled by a recursive function on sets of
candidates. `WinnersRound` shows that the function is well defined and unfolds: the
smallest race for which it would not (`SmallestRace`, from the well-foundedness of
strict inclusion) can be put together from those of smaller races. Two facts follow:
`MajorityWins` (a majority of first choices wins, and alone: two majorities share
a voter) and `WinnerIsRanked` (the last candidate anyone ranked has a majority and does not
leave, so nobody wins by default).

**OAuth** (`IInv`)

* `RequestsHandleSigned`, `CodesDescend`, `TokensDescend`, `AccessDescends`,
  `SentWhereAllowed`: a request handles a credential that was signed, and each
  credential bears the claims of the one it descends from. Hence `Provenance`.
* `RowsComeFirst`: no nonce has a row before its credential is signed, and nobody is
  told of one before its row. Hence `GivenIsRecorded`, and a nonce that is consumed
  was pending.
* `OneSpends`: at most one request stands between consuming a nonce and issuing what
  it pays for, and none once that is issued. Hence `SingleUse` and `KeepsGrant`.
* `AsksAfter`: the time a request has read is not before its credential was signed, and
  not in the future; `DatesAgree`: nothing is dated in the future, and a nonce that is
  spent was asked for within the lifetime. Hence `Chronology`.
* `RemovedAreGone`: a deleted client has no row, so no later request passes for it.

`GrantStep` maps each step to a stage of `OneTimeGrant` or to a stutter.

**Modals** (`EachStands`): for each submission, `RowStands` (it has stored the row of its key,
after `save` and not before), `OutcomeStands` (what it is about to answer is what became
of that row) and `TaskStands` (its progress loop lives only in the body and is registered
just as long).

**MCP tools** (`EachStands`): `OwnRows`; `HoldsRow`, an update has the lock of its row from
its UPDATE until it has read it back, nobody else has, and the newest version is its own;
`WritesWhole`, what it answers is what it has read, and a rollback leaves nothing of it;
and for a walk through the pages
`OnTheWay`: what it has not seen of the list it started with lies at or after the
offset of the next page, counted from the newest (`Newer`, `Behind`); a new rating at
the front only moves it further, and on the last page the count still stands.

**Ballot editor**: `SelectionFollows` is inductive with the types. `ConfirmedAsShown` needs
`OneByOne`, which says of clicks that did not overlap when the screen, the ballot
and what is about to be saved agree, as far as nothing is `unshown`; and `Unbuilt`: a
click has no embed before it has changed the view, so `Moved` is true of moves only.

**Commands** (`EachFits`): what a command found out of the rows stays true because no
step deletes one (`MoreRows`). `ComparisonProofs` is about the rows alone: `order_by`
puts them in a strict order, so that `groupby` finds each user's rows in one run (`TwoRuns`)
and both runs list the shared media in the same order (`Parallel`). There is no induction
over the rows: a row's place is its rank, and ranks are counted by pigeonhole.

**Lists** (`IInv`, for `AtATime = 1`): `Alone` (one click is being served), and where the page,
the count and the embed stand at each of its awaits (`Turns`, `Counts`, `Builds`, `Opens`,
`Covers`: the buttons are gone before the paginator changes). `PageShown` is `MessageAgrees`
without its condition that the click is served, and is what the steps keep;
`TotalRight`: between clicks the number of pages is that of the list, unless others
have changed it.

### What is only model-checked

* Liveness: `Resolved`, `KeepsFairPromise`, `Finishes`, `Answered`. Reasoning about fairness and
  ENABLED is beyond the prover.
* That the lists misbehave when clicks overlap (`lists_overlap`): a counterexample.

## Not modelled

* Creation and deletion of polls, votes and media in the admin, and votes added in
  the poll's inline form. The change form of media. Of the change form of an assessment,
  only the review: it can also change the user and the media, and a rating that the
  staff give to somebody else leaves its owner's tools, which the models do not have.
* The poll form as the staff fill it in: `SaveForm` writes back the status, winner and
  ranks it showed, with other candidates. Other values are the staff's own decision.
* The statistics of a comparison (numpy), and the count of completed media its embed
  shows, which a second statement reads.
* Contents of requests, headers and answers of the services: only what becomes of each
  kind of reply matters. What a client proves itself by (digests, basic or posted
  secrets) is one choice.
* Users renamed or deleted by the staff, a client's secret or a nonce changed by hand.
* Settings, logging, middleware, wiring, migrations: no state of their own.
* The growth of the nonce table: no code deletes a row, and nothing depends on it.

## Plan

Done: polls, the ballot editor and the poll form; modals and the registry; lists;
OAuth clients, sign-in and tokens; the MCP tools; commands, mentions, comparisons and
the user directory; the service clients; theorems for every safety property of the runs.

1. Model more: creation and deletion in the admin; users renamed by the staff.
2. Prove more: that `ToldTheTruth` holds of the two forms' texts once validation
   and enrichment are modelled field by field; the safety half of `Answered` (a command
   is answered at most once); what a list still promises when clicks overlap (the page
   is off by at most the number of clicks under way).
