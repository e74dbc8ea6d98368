----------------------------- MODULE Paginator -----------------------------
(* The lists of /rates, /my_rates and /future_media: one BaseFilterPaginator,  *)
(* its Discord message, and the clicks being served.  The message loses its    *)
(* buttons while a click is served, but only once the edit that removes them    *)
(* has reached Discord: a second click, or a search form opened before, may     *)
(* come in between.                                                             *)
EXTENDS Integers, FiniteSets

CONSTANTS
  Command,      \* the command that opens the list
  Clicks,       \* the clicks on its buttons
  Searches,     \* the names searched for
  Everything,   \* the unfiltered list
  PerPage,
  MaxRows,      \* rows in the list (bound)
  AtATime,      \* clicks served at the same time (bound)
  MaxChanges,   \* changes of the list by others (bound)
  MaxFaults,    \* failed Discord calls (bound)
  Nowhere

ASSUME PaginatorAssumption ==
  /\ Command \notin Clicks /\ Everything \notin Searches
  /\ {"previous", "next"} \cap (Searches \cup {Everything}) = {}
  /\ PerPage \in Nat \ {0} /\ AtATime \in Nat \ {0}
  /\ {MaxRows, MaxChanges, MaxFaults} \subseteq Nat

VARIABLES
  rows,                \* the rows each queryset has in the database
  page, total, query,  \* BasePaginator.page, total_pages, items_queryset
  pc, goal,            \* a click: where it stands; the page or list it goes to
  count, embed,        \* its locals: the item count, the embed being built
  shown,               \* the message
  changes, faults

paginator == <<page, total, query>>
click == <<pc, goal, count, embed>>
vars == <<rows, paginator, click, shown, changes, faults>>
-----------------------------------------------------------------------------
Queries == Searches \cup {Everything}
Served == Clicks \cup {Command}
Busy == {c \in Served : pc[c] \notin {"idle", "form", "done"}}

Pages(n) == (n + PerPage - 1) \div PerPage

\* Faulty: a slice without its end.
ItemsToTheEnd(q, p) == Cardinality({i \in 1..rows[q] : p * PerPage < i})

\* What the slice of a page holds.
Items(q, p) == Cardinality({i \in 1..rows[q] : p * PerPage < i /\ i <= (p + 1) * PerPage})

\* An embed is built from the slice of page "from"; its footer names a page and a
\* total.  Without items it says "No items found" and has no footer.
Embeds == [query : Queries, from : Nat, items : 0..PerPage, page : Int, total : Nat]
NoEmbed == [query |-> Everything, from |-> 0, items |-> 0, page |-> 0, total |-> 0]

WithButtons(e) == [kind |-> "page", embed |-> e]
Plain(kind) == [kind |-> kind, embed |-> NoEmbed]

Step(c, from, to) == pc[c] = from /\ pc' = [pc EXCEPT ![c] = to]

\* The beginning of get_embed.  Django refuses a negative slice.
Slice(c, from, p, q) ==
  \/ /\ p >= 0
     /\ Step(c, from, "query")
     /\ embed' = [embed EXCEPT ![c] = [NoEmbed EXCEPT !.query = q, !.from = p]]
  \/ /\ p < 0
     /\ Step(c, from, "error")
     /\ UNCHANGED embed

Init ==
  /\ rows \in [Queries -> 0..MaxRows] /\ \A q \in Queries : rows[q] <= rows[Everything]
  /\ page = 0 /\ total = 0 /\ query = Everything
  /\ pc = [c \in Served |-> IF c = Command THEN "command" ELSE "idle"]
  /\ goal = [c \in Served |-> Nowhere]
  /\ count = [c \in Served |-> 0]
  /\ embed = [c \in Served |-> NoEmbed]
  /\ shown = Plain("thinking")
  /\ changes = 0 /\ faults = 0

\* The command counts the rows and opens the paginator, if there are any.
OpenList ==
  /\ \/ /\ rows[Everything] > 0
        /\ total' = Pages(rows[Everything])
        /\ Slice(Command, "command", 0, Everything)
        /\ UNCHANGED shown
     \/ /\ rows[Everything] = 0
        /\ Step(Command, "command", "done")
        /\ shown' = Plain("nothing")
        /\ UNCHANGED <<total, embed>>
  /\ UNCHANGED <<rows, page, query, goal, count, changes, faults>>
-----------------------------------------------------------------------------
MayPress(c) == /\ pc[c] \in {"idle", "form"} /\ c \in Clicks
               /\ Cardinality(Busy) < AtATime

\* Faulty: one page too many.
PageOrEnd(button) == IF button = "next" THEN page < total ELSE page > 0

\* previous and next: no further than the first and the last page.
PageThere(button) == IF button = "next" THEN page < total - 1 ELSE page > 0

Press(c, button) ==
  /\ MayPress(c) /\ shown.kind = "page"
  /\ Step(c, "idle", IF PageThere(button) THEN "thinking" ELSE "done")
  /\ goal' = [goal EXCEPT ![c] = button]
  /\ UNCHANGED <<rows, paginator, count, embed, shown, changes, faults>>

Clear(c) ==
  /\ MayPress(c) /\ shown.kind = "page"
  /\ Step(c, "idle", "thinking")
  /\ goal' = [goal EXCEPT ![c] = Everything]
  /\ UNCHANGED <<rows, paginator, count, embed, shown, changes, faults>>

\* The search form opens in the client and the message stays as it is.
Search(c) ==
  /\ MayPress(c) /\ shown.kind = "page"
  /\ Step(c, "idle", "form")
  /\ UNCHANGED <<rows, paginator, goal, count, embed, shown, changes, faults>>

SubmitSearch(c, q) ==
  /\ MayPress(c)
  /\ Step(c, "form", "thinking")
  /\ goal' = [goal EXCEPT ![c] = q]
  /\ UNCHANGED <<rows, paginator, count, embed, shown, changes, faults>>

ShowThinking(c) ==
  /\ Step(c, "thinking", "resumed")
  /\ shown' = Plain("thinking")
  /\ UNCHANGED <<rows, paginator, goal, count, embed, changes, faults>>

\* Faulty: slices before the page is turned.
SlicedFirst(p) == page

\* get_embed comes after the page was turned.
SlicedPage(p) == p

Turn(c) ==
  /\ goal[c] \in {"previous", "next"}
  /\ page' = IF goal[c] = "next" THEN page + 1 ELSE page - 1
  /\ Slice(c, "resumed", SlicedPage(page'), query)
  /\ UNCHANGED <<rows, total, query, goal, count, shown, changes, faults>>

\* Faulty: stays on its page in the new list.
SamePage == page

FirstPage == 0

\* set_items_queryset and clear_items_queryset, up to their query.
Reset(c) ==
  /\ goal[c] \in Queries
  /\ Step(c, "resumed", "count")
  /\ page' = FirstPage /\ query' = goal[c]
  /\ UNCHANGED <<rows, total, goal, count, embed, shown, changes, faults>>

CountRows(c) ==
  /\ Step(c, "count", "counted")
  /\ count' = [count EXCEPT ![c] = rows[goal[c]]]
  /\ UNCHANGED <<rows, paginator, goal, embed, shown, changes, faults>>

SetTotalPages(c) ==
  /\ total' = Pages(count[c])
  /\ Slice(c, "counted", page, query)
  /\ UNCHANGED <<rows, page, query, goal, count, shown, changes, faults>>

\* add_items: the slice is read.
AddItems(c) ==
  /\ Step(c, "query", "footer")
  /\ embed' = [embed EXCEPT ![c].items = Items(embed[c].query, embed[c].from)]
  /\ UNCHANGED <<rows, paginator, goal, count, shown, changes, faults>>

\* The footer is taken from the paginator as it is after the query.
SetFooter(c) ==
  /\ Step(c, "footer", "edit")
  /\ embed' = [embed EXCEPT ![c].page = page, ![c].total = total]
  /\ UNCHANGED <<rows, paginator, goal, count, shown, changes, faults>>

Refresh(c) ==
  /\ Step(c, "edit", "done")
  /\ shown' = WithButtons(embed[c])
  /\ UNCHANGED <<rows, paginator, goal, count, embed, changes, faults>>

DiscordError(c) ==
  /\ faults < MaxFaults /\ faults' = faults + 1
  /\ Step(c, "thinking", "error") \/ Step(c, "edit", "error")
  /\ UNCHANGED <<rows, paginator, goal, count, embed, shown, changes>>

\* on_error is an edit too; when it fails, the message stays what it is.
OnError(c) ==
  /\ Step(c, "error", "done")
  /\ \/ /\ shown' = Plain("error")
        /\ UNCHANGED faults
     \/ /\ faults < MaxFaults /\ faults' = faults + 1
        /\ UNCHANGED shown
  /\ UNCHANGED <<rows, paginator, goal, count, embed, changes>>

\* Others add and rate media, and the staff move them between the lists.
Change ==
  /\ changes < MaxChanges /\ changes' = changes + 1
  /\ rows' \in [Queries -> 0..MaxRows] /\ \A q \in Queries : rows'[q] <= rows'[Everything]
  /\ UNCHANGED <<paginator, click, shown, faults>>
-----------------------------------------------------------------------------
Next ==
  \/ OpenList \/ Change
  \/ \E c \in Clicks : \/ \E b \in {"previous", "next"} : Press(c, b)
                       \/ Clear(c) \/ Search(c) \/ (\E q \in Searches : SubmitSearch(c, q))
                       \/ ShowThinking(c) \/ Turn(c) \/ Reset(c)
                       \/ CountRows(c) \/ SetTotalPages(c)
  \/ \E c \in Served : AddItems(c) \/ SetFooter(c) \/ Refresh(c) \/ DiscordError(c) \/ OnError(c)

Spec == Init /\ [][Next]_vars
-----------------------------------------------------------------------------
States == {"command", "idle", "form", "thinking", "resumed", "count", "counted", "query",
           "footer", "edit", "error", "done"}

TypeOK ==
  /\ rows \in [Queries -> Nat]
  /\ page \in Int /\ total \in Nat /\ query \in Queries
  /\ pc \in [Served -> States]
  /\ goal \in [Served -> Queries \cup {"previous", "next", Nowhere}]
  /\ count \in [Served -> Nat]
  /\ embed \in [Served -> Embeds]
  /\ shown \in [kind : {"page", "thinking", "nothing", "error"}, embed : Embeds]
  /\ changes \in Nat /\ faults \in Nat

\* Whatever is pressed, searched and cleared, and however the list changes under
\* it, a paginator that serves one click at a time stands on a page it has, or on
\* the first page of a list found empty.
PageInRange == page >= 0 /\ (page < total \/ page = 0)

\* Once a click is served, the message shows the page the paginator stands on: its
\* items are the slice of that page of the current list, and so says the footer.
MessageAgrees ==
  Busy = {} /\ shown.kind = "page" =>
    /\ shown.embed.query = query /\ shown.embed.from = page
    /\ shown.embed.page = page /\ shown.embed.total = total

\* "No items found" is said of a list that has none (or had none or fewer when it
\* was counted, if others have changed it since).
NothingFoundMeansEmpty ==
  shown.kind = "page" /\ shown.embed.items = 0 =>
    rows[shown.embed.query] = 0 \/ changes > 0
=============================================================================
