-------------------------- MODULE PaginatorProofs --------------------------
(* Proofs about Paginator, for any page length, clicks, searches and lists.    *)
(* What the message shows is right as long as one click is served at a time:   *)
(* with two, "No items found" can be said of a list that has items.            *)
EXTENDS Paginator, FiniteSetTheorems, TLAPS

\* What a click counts the items of is a list; the types need it, whatever else is served.
Lists == \A c \in Served : pc[c] = "count" => goal[c] \in Queries

(* The inductive invariant for clicks that are served one at a time. *)

Alone == \A c, d \in Busy : c = d

\* Where the paginator and the message stand while a click is served, by its state.
Turns(c) ==
  pc[c] \in {"thinking", "resumed"} =>
    /\ goal[c] = "next" => page < total - 1
    /\ goal[c] = "previous" => page > 0

Counts(c) ==
  /\ pc[c] \in {"count", "counted"} => goal[c] = query /\ page = 0
  /\ pc[c] = "counted" => changes > 0 \/ count[c] = rows[query]

Builds(c) ==
  /\ pc[c] \in {"query", "footer", "edit"} => embed[c].query = query /\ embed[c].from = page
  /\ pc[c] = "edit" => embed[c].page = page /\ embed[c].total = total
  /\ pc[c] \in {"footer", "edit"} =>
       changes > 0 \/ (embed[c].items = 0 => rows[embed[c].query] = 0)

\* The command opens the whole list on its first page.
Opens(c) == pc[c] = "command" => page = 0 /\ total = 0 /\ query = Everything

\* The pages there are, unless the list is just being counted.
TotalRight ==
  \/ changes > 0
  \/ total = Pages(rows[query])
  \/ \E c \in Served : pc[c] \in {"command", "count", "counted"}

\* The buttons are gone before the paginator changes.
Covers(c) ==
  pc[c] \in {"command", "resumed", "count", "counted", "query", "footer", "edit"} => shown.kind # "page"

Stands(c) == Turns(c) /\ Counts(c) /\ Builds(c) /\ Opens(c) /\ Covers(c)

\* Whenever the message shows a page, it is the one the paginator stands on.
PageShown ==
  shown.kind = "page" =>
    /\ shown.embed.query = query /\ shown.embed.from = page
    /\ shown.embed.page = page /\ shown.embed.total = total

Standing == \A c \in Served : Stands(c)

IInv ==
  /\ TypeOK /\ Lists /\ Alone /\ Standing /\ TotalRight
  /\ PageInRange /\ PageShown /\ NothingFoundMeansEmpty
-----------------------------------------------------------------------------
(* Pages and slices *)

LEMMA PagesType ==
  ASSUME NEW n \in Nat
  PROVE  Pages(n) \in Nat
  BY PaginatorAssumption DEF Pages

LEMMA NoPages == Pages(0) = 0
<1>1. PerPage \in Nat /\ PerPage > 0
  BY PaginatorAssumption
<1>2. (PerPage - 1) \div PerPage = 0
  BY <1>1
<1>3. 0 + PerPage - 1 = PerPage - 1
  BY <1>1
<1> QED
  BY <1>2, <1>3 DEF Pages

\* A page the list has begins before the end of the list.
LEMMA PageBegins ==
  ASSUME NEW n \in Nat, NEW p \in Nat, p < Pages(n)
  PROVE  p * PerPage < n
<1>1. PICK k \in Nat : k = Pages(n)
  BY PagesType
<1>2. PerPage \in Nat /\ PerPage > 0
  BY PaginatorAssumption
<1>3. k * PerPage <= n + PerPage - 1
  BY <1>1, <1>2 DEF Pages
<1>4. (p + 1) * PerPage <= k * PerPage
  BY <1>1, <1>2
<1>5. (p + 1) * PerPage = p * PerPage + PerPage
  BY <1>2
<1> QED
  BY <1>2, <1>3, <1>4, <1>5

\* The slice of a page has no more items than a page, and some if the list goes on there.
LEMMA ItemsOfPage ==
  ASSUME NEW q \in Queries, rows[q] \in Nat, NEW p \in Nat
  PROVE  /\ Items(q, p) \in 0..PerPage
         /\ p * PerPage < rows[q] => Items(q, p) # 0
<1> DEFINE first == p * PerPage + 1
           last == p * PerPage + PerPage
           slice == {i \in 1..rows[q] : p * PerPage < i /\ i <= (p + 1) * PerPage}
<1>1. PerPage \in Nat /\ PerPage > 0 /\ p * PerPage \in Nat
  BY PaginatorAssumption
<1>2. (p + 1) * PerPage = p * PerPage + PerPage
  BY <1>1
<1>3. IsFiniteSet(first..last) /\ Cardinality(first..last) = PerPage
  <2>1. first \in Int /\ last \in Int /\ first <= last /\ last - first + 1 = PerPage
    BY <1>1
  <2> HIDE DEF first, last
  <2>2. /\ IsFiniteSet(first..last)
        /\ Cardinality(first..last) = IF first > last THEN 0 ELSE last - first + 1
    BY <2>1, FS_Interval
  <2> QED
    BY <2>1, <2>2
<1>4. slice \subseteq first..last
  BY <1>1, <1>2
<1>5. IsFiniteSet(slice) /\ Cardinality(slice) <= PerPage /\ Cardinality(slice) \in Nat
  <2> HIDE DEF first, last, slice
  <2> QED
    BY <1>3, <1>4, FS_Subset, FS_CardinalityType
<1>6. Items(q, p) = Cardinality(slice)
  BY DEF Items
<1>7. p * PerPage < rows[q] => first \in slice
  BY <1>1, <1>2
<1>8. slice # {} => Cardinality(slice) # 0
  <2> HIDE DEF slice
  <2> QED
    BY <1>5, FS_EmptySet
<1> HIDE DEF slice
<1> QED
  BY <1>1, <1>5, <1>6, <1>7, <1>8
-----------------------------------------------------------------------------
(* Types, however many clicks are served at a time. *)

\* What the steps change of an embed.
LEMMA EmbedFields ==
  ASSUME NEW Q, NEW F, NEW I, NEW P, NEW T,
         NEW e \in [query : Q, from : F, items : I, page : P, total : T]
  PROVE  /\ \A q \in Q, f \in F :
              LET d == [e EXCEPT !.query = q, !.from = f]
              IN  d \in [query : Q, from : F, items : I, page : P, total : T] /\ d.query = q /\ d.from = f
         /\ \A i \in I :
              LET d == [e EXCEPT !.items = i]
              IN  /\ d \in [query : Q, from : F, items : I, page : P, total : T]
                  /\ d.query = e.query /\ d.from = e.from /\ d.items = i
         /\ \A p \in P, t \in T :
              LET d == [e EXCEPT !.page = p, !.total = t]
              IN  /\ d \in [query : Q, from : F, items : I, page : P, total : T]
                  /\ d.query = e.query /\ d.from = e.from /\ d.items = e.items
                  /\ d.page = p /\ d.total = t
  OBVIOUS

LEMMA NoEmbedIs == NoEmbed \in Embeds
  BY PaginatorAssumption DEF NoEmbed, Embeds, Queries

\* A step of a click.
LEMMA StepType ==
  ASSUME TypeOK, NEW c \in Served, NEW from, NEW to \in States, Step(c, from, to)
  PROVE  /\ pc' \in [Served -> States]
         /\ pc[c] = from /\ pc'[c] = to /\ \A d \in Served : d # c => pc'[d] = pc[d]
  BY DEF TypeOK, Step

LEMMA SliceType ==
  ASSUME TypeOK, NEW c \in Served, NEW from, NEW p \in Int, NEW q \in Queries, Slice(c, from, p, q)
  PROVE  /\ \E to \in {"query", "error"} : Step(c, from, to)
         /\ embed' \in [Served -> Embeds] /\ \A d \in Served : d # c => embed'[d] = embed[d]
         /\ pc'[c] = "query" => p >= 0 /\ embed'[c].query = q /\ embed'[c].from = p
<1>1. CASE p >= 0 /\ Step(c, from, "query")
           /\ embed' = [embed EXCEPT ![c] = [NoEmbed EXCEPT !.query = q, !.from = p]]
  <2> DEFINE e == [NoEmbed EXCEPT !.query = q, !.from = p]
  <2>1. e \in Embeds /\ e.query = q /\ e.from = p
    <3>1. PICK I : I = 0..PerPage
      OBVIOUS
    <3>2. p \in Nat /\ NoEmbed \in [query : Queries, from : Nat, items : I, page : Int, total : Nat]
      BY <1>1, <3>1, NoEmbedIs DEF Embeds
    <3>3. /\ e \in [query : Queries, from : Nat, items : I, page : Int, total : Nat]
          /\ e.query = q /\ e.from = p
      BY <3>2, EmbedFields
    <3> QED
      BY <3>1, <3>3 DEF Embeds
  <2> HIDE DEF e
  <2>2. embed' \in [Served -> Embeds] /\ embed'[c] = e /\ \A d \in Served : d # c => embed'[d] = embed[d]
    BY <1>1, <2>1 DEF TypeOK, e
  <2> QED
    BY <1>1, <2>1, <2>2
<1>2. CASE p < 0 /\ Step(c, from, "error") /\ UNCHANGED embed
  <2>1. pc'[c] = "error"
    BY <1>2, StepType DEF States
  <2> QED
    BY <1>2, <2>1 DEF TypeOK
<1> QED
  BY <1>1, <1>2 DEF Slice

\* The embed that is being built.
LEMMA EmbedStep ==
  ASSUME TypeOK, NEW c \in Served, AddItems(c) \/ SetFooter(c)
  PROVE  /\ embed' \in [Served -> Embeds] /\ \A d \in Served : d # c => embed'[d] = embed[d]
         /\ embed'[c].query = embed[c].query /\ embed'[c].from = embed[c].from
         /\ AddItems(c) => embed'[c].items = Items(embed[c].query, embed[c].from)
         /\ SetFooter(c) =>
              embed'[c].items = embed[c].items /\ embed'[c].page = page /\ embed'[c].total = total
<1>0. PICK I : I = 0..PerPage
  OBVIOUS
<1> DEFINE E == [query : Queries, from : Nat, items : I, page : Int, total : Nat]
<1>1. embed[c] \in E
  BY <1>0 DEF TypeOK, Embeds
<1>2. embed[c].query \in Queries /\ embed[c].from \in Nat /\ rows[embed[c].query] \in Nat
  BY <1>1 DEF TypeOK
<1>3. Items(embed[c].query, embed[c].from) \in I
  BY <1>0, <1>2, ItemsOfPage
<1>4. CASE AddItems(c)
  <2> DEFINE e == [embed[c] EXCEPT !.items = Items(embed[c].query, embed[c].from)]
  <2>1. /\ e \in E /\ e.query = embed[c].query /\ e.from = embed[c].from
        /\ e.items = Items(embed[c].query, embed[c].from)
    BY <1>1, <1>3, EmbedFields
  <2>2. embed' = [embed EXCEPT ![c] = e]
    BY <1>4 DEF AddItems, TypeOK
  <2>3. e \in Embeds
    BY <1>0, <2>1 DEF Embeds
  <2>4. SetFooter(c) => FALSE
    BY <1>4 DEF AddItems, SetFooter, Step
  <2> HIDE DEF e, E
  <2> QED
    BY <2>1, <2>2, <2>3, <2>4 DEF TypeOK
<1>5. CASE SetFooter(c)
  <2> DEFINE e == [embed[c] EXCEPT !.page = page, !.total = total]
  <2>1. /\ e \in E /\ e.query = embed[c].query /\ e.from = embed[c].from /\ e.items = embed[c].items
        /\ e.page = page /\ e.total = total
    BY <1>1, EmbedFields DEF TypeOK
  <2>2. embed' = [embed EXCEPT ![c] = e]
    BY <1>5 DEF SetFooter, TypeOK
  <2>3. e \in Embeds
    BY <1>0, <2>1 DEF Embeds
  <2>4. AddItems(c) => FALSE
    BY <1>5 DEF AddItems, SetFooter, Step
  <2> HIDE DEF e, E
  <2> QED
    BY <2>1, <2>2, <2>3, <2>4 DEF TypeOK
<1> QED
  BY <1>4, <1>5

LEMMA TypeInit == Init => TypeOK
<1> SUFFICES ASSUME Init PROVE TypeOK
  OBVIOUS
<1>1. rows \in [Queries -> Nat]
  BY PaginatorAssumption DEF Init
<1>2. shown \in [kind : {"page", "thinking", "nothing", "error"}, embed : Embeds]
  BY NoEmbedIs DEF Init, Plain
<1> QED
  BY <1>1, <1>2, NoEmbedIs DEF Init, TypeOK, States, Queries

\* What is counted is a list.
LEMMA ListsStep == TypeOK /\ Lists /\ [Next]_vars => Lists'
<1> SUFFICES ASSUME TypeOK, Lists, [Next]_vars, NEW c \in Served, pc'[c] = "count"
             PROVE  goal'[c] \in Queries
  BY DEF Lists
<1>0. \A d \in Clicks : d \in Served
  BY DEF Served
<1>1. ASSUME NEW d \in Clicks, NEW b \in {"previous", "next"}, Press(d, b) PROVE goal'[c] \in Queries
  BY <1>0, <1>1 DEF Press, Step, TypeOK, Lists
<1>2. ASSUME NEW d \in Clicks, Clear(d) PROVE goal'[c] \in Queries
  BY <1>0, <1>2 DEF Clear, Step, TypeOK, Lists
<1>3. ASSUME NEW d \in Clicks, NEW q \in Searches, SubmitSearch(d, q) PROVE goal'[c] \in Queries
  BY <1>0, <1>3 DEF SubmitSearch, Step, TypeOK, Lists
<1>4. ASSUME NEW d \in Clicks, Reset(d) PROVE goal'[c] \in Queries
  BY <1>0, <1>4 DEF Reset, Step, TypeOK, Lists
<1>5. ASSUME NEW d \in Clicks, Search(d) \/ ShowThinking(d) \/ Turn(d) \/ CountRows(d) \/ SetTotalPages(d)
      PROVE  goal'[c] \in Queries
  <2>1. UNCHANGED goal /\ \E from, to : to # "count" /\ Step(d, from, to)
    BY <1>5 DEF Search, ShowThinking, Turn, CountRows, SetTotalPages, Slice
  <2> QED
    BY <1>0, <2>1 DEF Step, TypeOK, Lists
<1>6. ASSUME NEW d \in Served, AddItems(d) \/ SetFooter(d) \/ Refresh(d) \/ DiscordError(d) \/ OnError(d)
      PROVE  goal'[c] \in Queries
  <2>1. UNCHANGED goal /\ \E from, to : to # "count" /\ Step(d, from, to)
    BY <1>6 DEF AddItems, SetFooter, Refresh, DiscordError, OnError
  <2> QED
    BY <2>1 DEF Step, TypeOK, Lists
<1>7. CASE OpenList
  <2>1. UNCHANGED goal /\ \E to : to # "count" /\ Step(Command, "command", to)
    BY <1>7 DEF OpenList, Slice
  <2> QED
    BY <2>1 DEF Step, TypeOK, Lists, Served
<1>8. CASE Change \/ UNCHANGED vars
  BY <1>8 DEF Change, vars, click, Lists
<1> QED
  BY <1>1, <1>2, <1>3, <1>4, <1>5, <1>6, <1>7, <1>8 DEF Next

LEMMA PlainType ==
  \A kind \in {"page", "thinking", "nothing", "error"} :
    /\ Plain(kind) \in [kind : {"page", "thinking", "nothing", "error"}, embed : Embeds]
    /\ Plain(kind).kind = kind
  BY NoEmbedIs DEF Plain

LEMMA TypeStep == TypeOK /\ Lists /\ [Next]_vars => TypeOK'
<1> SUFFICES ASSUME TypeOK, Lists, [Next]_vars PROVE TypeOK'
  OBVIOUS
<1>0. Command \in Served /\ Everything \in Queries /\ \A c \in Clicks : c \in Served
  BY DEF Served, Queries
<1>1. CASE OpenList
  <2>1. CASE rows[Everything] > 0
    <3>1. Slice(Command, "command", 0, Everything) /\ total' = Pages(rows[Everything])
      BY <1>1, <2>1 DEF OpenList
    <3>2. PICK to \in {"query", "error"} : Step(Command, "command", to)
      BY <1>0, <3>1, SliceType
    <3>3. pc' \in [Served -> States] /\ embed' \in [Served -> Embeds]
      BY <1>0, <3>1, <3>2, StepType, SliceType DEF States
    <3>4. total' \in Nat
      BY <1>0, <3>1, PagesType DEF TypeOK
    <3> QED
      BY <1>1, <2>1, <3>3, <3>4 DEF TypeOK, OpenList
  <2>2. CASE rows[Everything] = 0
    <3>1. Step(Command, "command", "done") /\ shown' = Plain("nothing") /\ UNCHANGED <<total, embed>>
      BY <1>1, <2>2 DEF OpenList
    <3>2. pc' \in [Served -> States]
      BY <1>0, <3>1, StepType DEF States
    <3> QED
      BY <1>1, <3>1, <3>2, PlainType DEF TypeOK, OpenList
  <2> QED
    BY <1>1, <2>1, <2>2 DEF OpenList
<1>2. CASE Change
  <2>1. rows' \in [Queries -> Nat] /\ changes' \in Nat
    BY <1>2, PaginatorAssumption DEF Change, TypeOK
  <2> QED
    BY <1>2, <2>1 DEF Change, TypeOK, paginator, click
<1>3. ASSUME NEW c \in Clicks, NEW b \in {"previous", "next"}, Press(c, b) PROVE TypeOK'
  <2>1. PICK to \in {"thinking", "done"} : Step(c, "idle", to)
    BY <1>3 DEF Press
  <2>2. pc' \in [Served -> States]
    BY <1>0, <2>1, StepType DEF States
  <2>3. goal' \in [Served -> Queries \cup {"previous", "next", Nowhere}]
    BY <1>3 DEF Press, TypeOK
  <2> QED
    BY <1>3, <2>2, <2>3 DEF Press, TypeOK, paginator
<1>4. ASSUME NEW c \in Clicks, Clear(c) PROVE TypeOK'
  <2>1. pc' \in [Served -> States]
    BY <1>0, <1>4, StepType DEF Clear, States
  <2>2. goal' \in [Served -> Queries \cup {"previous", "next", Nowhere}]
    BY <1>0, <1>4 DEF Clear, TypeOK
  <2> QED
    BY <1>4, <2>1, <2>2 DEF Clear, TypeOK, paginator
<1>5. ASSUME NEW c \in Clicks, Search(c) PROVE TypeOK'
  <2>1. pc' \in [Served -> States]
    BY <1>0, <1>5, StepType DEF Search, States
  <2> QED
    BY <1>5, <2>1 DEF Search, TypeOK, paginator
<1>6. ASSUME NEW c \in Clicks, NEW q \in Searches, SubmitSearch(c, q) PROVE TypeOK'
  <2>1. pc' \in [Served -> States]
    BY <1>0, <1>6, StepType DEF SubmitSearch, States
  <2>2. goal' \in [Served -> Queries \cup {"previous", "next", Nowhere}]
    BY <1>6 DEF SubmitSearch, TypeOK, Queries
  <2> QED
    BY <1>6, <2>1, <2>2 DEF SubmitSearch, TypeOK, paginator
<1>7. ASSUME NEW c \in Clicks, ShowThinking(c) PROVE TypeOK'
  <2>1. pc' \in [Served -> States]
    BY <1>0, <1>7, StepType DEF ShowThinking, States
  <2> QED
    BY <1>7, <2>1, PlainType DEF ShowThinking, TypeOK, paginator
<1>8. ASSUME NEW c \in Clicks, Turn(c) PROVE TypeOK'
  <2>1. page' \in Int /\ query \in Queries /\ Slice(c, "resumed", page', query)
    BY <1>8 DEF Turn, TypeOK, SlicedPage
  <2>2. PICK to \in {"query", "error"} : Step(c, "resumed", to)
    BY <1>0, <2>1, SliceType
  <2>3. pc' \in [Served -> States] /\ embed' \in [Served -> Embeds]
    BY <1>0, <2>1, <2>2, StepType, SliceType DEF States
  <2> QED
    BY <1>8, <2>1, <2>3 DEF Turn, TypeOK
<1>9. ASSUME NEW c \in Clicks, Reset(c) PROVE TypeOK'
  <2>1. pc' \in [Served -> States]
    BY <1>0, <1>9, StepType DEF Reset, States
  <2> QED
    BY <1>9, <2>1 DEF Reset, TypeOK, FirstPage
<1>10. ASSUME NEW c \in Clicks, CountRows(c) PROVE TypeOK'
  <2>1. pc' \in [Served -> States]
    BY <1>0, <1>10, StepType DEF CountRows, States
  <2>2. goal[c] \in Queries /\ rows[goal[c]] \in Nat
    BY <1>0, <1>10 DEF CountRows, Step, Lists, TypeOK
  <2>3. count' \in [Served -> Nat]
    BY <1>10, <2>2 DEF CountRows, TypeOK
  <2> QED
    BY <1>10, <2>1, <2>3 DEF CountRows, TypeOK, paginator
<1>11. ASSUME NEW c \in Clicks, SetTotalPages(c) PROVE TypeOK'
  <2>1. page \in Int /\ query \in Queries /\ Slice(c, "counted", page, query)
    BY <1>11 DEF SetTotalPages, TypeOK
  <2>2. PICK to \in {"query", "error"} : Step(c, "counted", to)
    BY <1>0, <2>1, SliceType
  <2>3. pc' \in [Served -> States] /\ embed' \in [Served -> Embeds]
    BY <1>0, <2>1, <2>2, StepType, SliceType DEF States
  <2>4. total' \in Nat
    BY <1>0, <1>11, PagesType DEF SetTotalPages, TypeOK
  <2> QED
    BY <1>11, <2>3, <2>4 DEF SetTotalPages, TypeOK
<1>12. ASSUME NEW c \in Served, AddItems(c) \/ SetFooter(c) PROVE TypeOK'
  <2>1. pc' \in [Served -> States]
    BY <1>12, StepType DEF AddItems, SetFooter, States
  <2>2. embed' \in [Served -> Embeds]
    BY <1>12, EmbedStep
  <2> QED
    BY <1>12, <2>1, <2>2 DEF AddItems, SetFooter, TypeOK, paginator
<1>13. ASSUME NEW c \in Served, Refresh(c) PROVE TypeOK'
  <2>1. pc' \in [Served -> States]
    BY <1>13, StepType DEF Refresh, States
  <2>2. shown' \in [kind : {"page", "thinking", "nothing", "error"}, embed : Embeds]
    BY <1>13 DEF Refresh, WithButtons, TypeOK
  <2> QED
    BY <1>13, <2>1, <2>2 DEF Refresh, TypeOK, paginator
<1>14. ASSUME NEW c \in Served, DiscordError(c) PROVE TypeOK'
  <2>1. PICK from : Step(c, from, "error")
    BY <1>14 DEF DiscordError
  <2>2. pc' \in [Served -> States]
    BY <2>1, StepType DEF States
  <2> QED
    BY <1>14, <2>2 DEF DiscordError, TypeOK, paginator
<1>15. ASSUME NEW c \in Served, OnError(c) PROVE TypeOK'
  <2>1. pc' \in [Served -> States]
    BY <1>15, StepType DEF OnError, States
  <2> QED
    BY <1>15, <2>1, PlainType DEF OnError, TypeOK, paginator
<1>16. CASE UNCHANGED vars
  BY <1>16 DEF vars, paginator, click, TypeOK
<1> QED
  BY <1>1, <1>2, <1>3, <1>4, <1>5, <1>6, <1>7, <1>8, <1>9, <1>10, <1>11, <1>12, <1>13, <1>14,
     <1>15, <1>16 DEF Next
-----------------------------------------------------------------------------
(* The steps, one click at a time. *)

Quiet == {"idle", "form", "done"}

\* What the invariant says of the message and the pages.
Right == TotalRight /\ PageInRange /\ PageShown /\ NothingFoundMeansEmpty

\* The click that is being served is the only one; whatever it does, the others rest.
LEMMA SoleStep ==
  ASSUME TypeOK, Alone, NEW c \in Served, NEW from, NEW to \in States, Step(c, from, to), from \notin Quiet
  PROVE  /\ Alone' /\ \A d \in Served : d # c => pc[d] \in Quiet /\ pc'[d] \in Quiet
         /\ Stands(c)' => Standing'
<1>1. pc[c] = from /\ pc'[c] = to /\ \A d \in Served : d # c => pc'[d] = pc[d]
  BY StepType
<1>2. \A d \in Served : d # c => pc[d] \in Quiet /\ pc'[d] \in Quiet
  BY <1>1 DEF Alone, Busy, Quiet
<1>3. Alone'
  BY <1>1, <1>2 DEF Alone, Busy, Quiet
<1>4. ASSUME Stands(c)', NEW d \in Served PROVE Stands(d)'
  <2>1. CASE d = c
    BY <1>4, <2>1
  <2>2. CASE pc'[d] \in Quiet
    BY <2>2 DEF Stands, Turns, Counts, Builds, Opens, Covers, Quiet
  <2> QED
    BY <1>2, <2>1, <2>2
<1> QED
  BY <1>2, <1>3, <1>4 DEF Standing

\* Nobody is served when a click may come in.
LEMMA NobodyServed ==
  ASSUME AtATime = 1, Alone, NEW c, MayPress(c)
  PROVE  Busy = {}
<1> SUFFICES ASSUME NEW d \in Busy PROVE FALSE
  OBVIOUS
<1>1. Busy = {d}
  BY DEF Alone
<1>2. Cardinality(Busy) = 1
  BY <1>1, FS_Singleton
<1> QED
  BY <1>2 DEF MayPress

\* A click comes in, and is the one that is served from now on, if it is served.
LEMMA FirstStep ==
  ASSUME TypeOK, AtATime = 1, Alone, NEW c \in Clicks, MayPress(c), NEW from, NEW to \in States,
         Step(c, from, to), from \in {"idle", "form"}, UNCHANGED <<rows, paginator, shown, changes>>,
         Right, Stands(c)'
  PROVE  Alone' /\ Standing' /\ Right'
<1>0. c \in Served
  BY DEF Served
<1>1. pc[c] = from /\ pc'[c] = to /\ \A d \in Served : d # c => pc'[d] = pc[d]
  BY <1>0, StepType
<1>2. \A d \in Served : pc[d] \in Quiet
  BY NobodyServed DEF Busy, Quiet
<1>3. Alone' /\ \A d \in Served : d # c => pc'[d] \in Quiet
  BY <1>1, <1>2 DEF Alone, Busy, Quiet
<1>4. ASSUME NEW d \in Served PROVE Stands(d)'
  <2>1. CASE pc'[d] \in Quiet
    BY <2>1 DEF Stands, Turns, Counts, Builds, Opens, Covers, Quiet
  <2> QED
    BY <1>3, <2>1
<1>5. PageShown'
  BY DEF Right, PageShown, paginator
<1>6. TotalRight'
  <2>1. ~ \E d \in Served : pc[d] \in {"command", "count", "counted"}
    BY <1>2 DEF Quiet
  <2> QED
    BY <2>1 DEF Right, TotalRight, paginator
<1>7. PageInRange' /\ NothingFoundMeansEmpty'
  BY DEF Right, PageInRange, NothingFoundMeansEmpty, paginator
<1> QED
  BY <1>3, <1>4, <1>5, <1>6, <1>7 DEF Standing, Right

\* The total is right while the one click that is served is past the count.
LEMMA TotalNow ==
  ASSUME Alone, TotalRight, NEW c \in Served, pc[c] \notin Quiet \cup {"command", "count", "counted"}
  PROVE  changes > 0 \/ total = Pages(rows[query])
  BY DEF Alone, Busy, TotalRight, Quiet

LEMMA PressStep ==
  ASSUME IInv, AtATime = 1, NEW c \in Clicks, NEW b \in {"previous", "next"}, Press(c, b)
  PROVE  Alone' /\ Standing' /\ Right'
<1>0. c \in Served
  BY DEF Served
<1>1. PICK to \in {"thinking", "done"} :
        Step(c, "idle", to) /\ (to = "thinking" => PageThere(b))
  BY DEF Press
<1>2. goal'[c] = b /\ pc'[c] = to
  BY <1>0, <1>1, StepType DEF Press, IInv, TypeOK, States
<1>3. Stands(c)'
  BY <1>1, <1>2 DEF Stands, Turns, Counts, Builds, Opens, Covers, PageThere, Press, paginator
<1> QED
  BY <1>1, <1>3, FirstStep DEF Press, IInv, Right, States

LEMMA ListStep ==
  ASSUME IInv, AtATime = 1, NEW c \in Clicks, Clear(c) \/ \E q \in Searches : SubmitSearch(c, q)
  PROVE  Alone' /\ Standing' /\ Right'
<1>0. c \in Served
  BY DEF Served
<1>1. PICK from \in {"idle", "form"}, q \in Queries :
        Step(c, from, "thinking") /\ goal' = [goal EXCEPT ![c] = q]
  BY DEF Clear, SubmitSearch, Queries
<1>2. goal'[c] = q /\ q \notin {"previous", "next"} /\ pc'[c] = "thinking"
  BY <1>0, <1>1, StepType, PaginatorAssumption DEF IInv, TypeOK, States, Queries
<1>3. Stands(c)'
  BY <1>2 DEF Stands, Turns, Counts, Builds, Opens, Covers
<1>4. MayPress(c) /\ UNCHANGED <<rows, paginator, shown, changes>>
  BY DEF Clear, SubmitSearch
<1> QED
  BY <1>1, <1>3, <1>4, FirstStep DEF IInv, Right, States

LEMMA SearchStep ==
  ASSUME IInv, AtATime = 1, NEW c \in Clicks, Search(c)
  PROVE  Alone' /\ Standing' /\ Right'
<1>0. c \in Served
  BY DEF Served
<1>1. pc'[c] = "form"
  BY <1>0, StepType DEF Search, IInv, States
<1>2. Stands(c)'
  BY <1>1 DEF Stands, Turns, Counts, Builds, Opens, Covers
<1> QED
  BY <1>2, FirstStep DEF Search, IInv, Right, States

LEMMA OpenListStep ==
  ASSUME IInv, OpenList
  PROVE  Alone' /\ Standing' /\ Right'
<1> DEFINE c == Command
<1>0. c \in Served /\ Everything \in Queries /\ rows[Everything] \in Nat
  BY DEF Served, Queries, IInv, TypeOK
<1>1. page = 0 /\ total = 0 /\ query = Everything /\ pc[c] = "command"
  BY <1>0 DEF OpenList, Slice, Step, IInv, Standing, Stands, Opens
<1>2. NothingFoundMeansEmpty' /\ PageInRange'
  <2>1. shown' = shown \/ shown' = Plain("nothing")
    BY DEF OpenList
  <2>2. UNCHANGED <<rows, page, changes>>
    BY DEF OpenList
  <2>3. Plain("nothing").kind = "nothing"
    BY PlainType
  <2> QED
    BY <1>1, <2>1, <2>2, <2>3 DEF NothingFoundMeansEmpty, PageInRange, IInv
<1>3. shown.kind # "page"
  BY <1>0, <1>1 DEF IInv, Standing, Stands, Covers
<1>4. CASE rows[Everything] > 0
  <2>1. Slice(c, "command", 0, Everything) /\ total' = Pages(rows[Everything]) /\ UNCHANGED <<rows, page, query, shown>>
    BY <1>4 DEF OpenList
  <2>2. PICK to \in {"query", "error"} : Step(c, "command", to)
    BY <1>0, <2>1, SliceType DEF IInv
  <2>3. pc'[c] = to
    BY <1>0, <2>2, StepType DEF IInv, States
  <2>4. to = "query" => embed'[c].query = query' /\ embed'[c].from = page'
    BY <1>0, <1>1, <2>1, <2>3, SliceType DEF IInv
  <2>5. Stands(c)'
    BY <1>3, <2>1, <2>2, <2>3, <2>4 DEF Stands, Turns, Counts, Builds, Opens, Covers
  <2>6. Alone' /\ Standing'
    BY <1>0, <2>2, <2>5, SoleStep DEF IInv, States, Quiet
  <2>7. TotalRight'
    BY <1>1, <2>1 DEF TotalRight
  <2>8. PageShown'
    BY <1>3, <2>1 DEF PageShown
  <2> QED
    BY <1>2, <2>6, <2>7, <2>8 DEF Right
<1>5. CASE rows[Everything] = 0
  <2>1. Step(c, "command", "done") /\ shown' = Plain("nothing") /\ UNCHANGED <<rows, total, query, page>>
    BY <1>5 DEF OpenList
  <2>2. pc'[c] = "done"
    BY <1>0, <2>1, StepType DEF IInv, States
  <2>3. Stands(c)'
    BY <2>2 DEF Stands, Turns, Counts, Builds, Opens, Covers
  <2>4. Alone' /\ Standing'
    BY <1>0, <2>1, <2>3, SoleStep DEF IInv, States, Quiet
  <2>5. TotalRight'
    BY <1>1, <1>5, <2>1, NoPages DEF TotalRight
  <2>6. PageShown'
    BY <2>1, PlainType DEF PageShown
  <2> QED
    BY <1>2, <2>4, <2>5, <2>6 DEF Right
<1> QED
  BY <1>0, <1>4, <1>5

LEMMA ChangeStep ==
  ASSUME IInv, Change
  PROVE  Alone' /\ Standing' /\ Right'
<1>1. changes' > 0 /\ UNCHANGED <<page, total, query, pc, goal, count, embed, shown>>
  BY DEF Change, IInv, TypeOK, paginator, click
<1>2. Alone'
  BY <1>1 DEF IInv, Alone, Busy
<1>3. ASSUME NEW c \in Served PROVE Stands(c)'
  BY <1>1 DEF IInv, Standing, Stands, Turns, Counts, Builds, Opens, Covers
<1>4. Right'
  BY <1>1 DEF IInv, Right, TotalRight, PageInRange, PageShown, Busy, NothingFoundMeansEmpty
<1> QED
  BY <1>2, <1>3, <1>4 DEF Standing

LEMMA ShowThinkingStep ==
  ASSUME IInv, NEW c \in Clicks, ShowThinking(c)
  PROVE  Alone' /\ Standing' /\ Right'
<1>0. c \in Served
  BY DEF Served
<1>1. Step(c, "thinking", "resumed") /\ pc[c] = "thinking" /\ pc'[c] = "resumed"
      /\ UNCHANGED <<rows, page, total, query, goal, changes>> /\ shown'.kind = "thinking"
  BY <1>0, StepType, PlainType DEF ShowThinking, IInv, States, paginator
<1>2. Stands(c)'
  BY <1>0, <1>1 DEF IInv, Standing, Stands, Turns, Counts, Builds, Opens, Covers
<1>3. Alone' /\ Standing'
  BY <1>0, <1>1, <1>2, SoleStep DEF IInv, States, Quiet
<1>4. TotalRight'
  BY <1>0, <1>1, TotalNow DEF IInv, TotalRight, Quiet
<1>5. PageInRange' /\ PageShown' /\ NothingFoundMeansEmpty'
  BY <1>1 DEF IInv, PageInRange, PageShown, NothingFoundMeansEmpty
<1> QED
  BY <1>3, <1>4, <1>5 DEF Right

LEMMA TurnStep ==
  ASSUME IInv, NEW c \in Clicks, Turn(c)
  PROVE  Alone' /\ Standing' /\ Right'
<1>0. c \in Served
  BY DEF Served
<1>1. /\ Slice(c, "resumed", page', query) /\ page' \in Int /\ query \in Queries
      /\ UNCHANGED <<rows, total, query, shown, changes>>
      /\ goal[c] \in {"previous", "next"} /\ page' = IF goal[c] = "next" THEN page + 1 ELSE page - 1
  BY DEF Turn, SlicedPage, IInv, TypeOK
<1>2. PICK to \in {"query", "error"} : Step(c, "resumed", to)
  BY <1>0, <1>1, SliceType DEF IInv
<1>3. pc[c] = "resumed" /\ pc'[c] = to
  BY <1>0, <1>2, StepType DEF IInv, States
<1>4. to = "query" => embed'[c].query = query' /\ embed'[c].from = page'
  BY <1>0, <1>1, <1>3, SliceType DEF IInv
<1>5. shown.kind # "page"
  BY <1>0, <1>3 DEF IInv, Standing, Stands, Covers
<1>6. Stands(c)'
  BY <1>1, <1>2, <1>3, <1>4, <1>5 DEF Stands, Turns, Counts, Builds, Opens, Covers
<1>7. Alone' /\ Standing'
  BY <1>0, <1>2, <1>6, SoleStep DEF IInv, States, Quiet
<1>8. TotalRight'
  BY <1>0, <1>1, <1>3, TotalNow DEF IInv, TotalRight, Quiet
<1>9. PageInRange'
  <2>1. /\ goal[c] = "next" => page < total - 1
        /\ goal[c] = "previous" => page > 0
    BY <1>0, <1>3 DEF IInv, Standing, Stands, Turns
  <2> QED
    BY <1>1, <2>1 DEF IInv, TypeOK, PageInRange
<1>10. PageShown' /\ NothingFoundMeansEmpty'
  BY <1>1, <1>5 DEF IInv, PageShown, NothingFoundMeansEmpty
<1> QED
  BY <1>7, <1>8, <1>9, <1>10 DEF Right

LEMMA ResetStep ==
  ASSUME IInv, NEW c \in Clicks, Reset(c)
  PROVE  Alone' /\ Standing' /\ Right'
<1>0. c \in Served
  BY DEF Served
<1>1. /\ Step(c, "resumed", "count") /\ pc[c] = "resumed" /\ pc'[c] = "count" /\ page' = 0 /\ goal'[c] = query'
      /\ UNCHANGED <<rows, shown, changes>>
  BY <1>0, StepType DEF Reset, FirstPage, IInv, States
<1>2. shown.kind # "page"
  BY <1>0, <1>1 DEF IInv, Standing, Stands, Covers
<1>3. Stands(c)'
  BY <1>1, <1>2 DEF Stands, Turns, Counts, Builds, Opens, Covers
<1>4. Alone' /\ Standing'
  BY <1>0, <1>1, <1>3, SoleStep DEF IInv, States, Quiet
<1>5. TotalRight' /\ PageInRange' /\ PageShown' /\ NothingFoundMeansEmpty'
  BY <1>0, <1>1, <1>2 DEF TotalRight, PageInRange, PageShown, IInv, NothingFoundMeansEmpty
<1> QED
  BY <1>4, <1>5 DEF Right

LEMMA CountRowsStep ==
  ASSUME IInv, NEW c \in Clicks, CountRows(c)
  PROVE  Alone' /\ Standing' /\ Right'
<1>0. c \in Served
  BY DEF Served
<1>1. /\ Step(c, "count", "counted") /\ pc[c] = "count" /\ pc'[c] = "counted"
      /\ count'[c] = rows[goal[c]] /\ UNCHANGED <<rows, page, total, query, goal, shown, changes>>
  BY <1>0, StepType DEF CountRows, IInv, TypeOK, States, paginator
<1>2. Stands(c)'
  BY <1>0, <1>1 DEF IInv, Standing, Stands, Turns, Counts, Builds, Opens, Covers
<1>3. Alone' /\ Standing'
  BY <1>0, <1>1, <1>2, SoleStep DEF IInv, States, Quiet
<1>4. TotalRight' /\ PageInRange' /\ PageShown' /\ NothingFoundMeansEmpty'
  BY <1>0, <1>1 DEF TotalRight, PageInRange, PageShown, IInv, NothingFoundMeansEmpty
<1> QED
  BY <1>3, <1>4 DEF Right

LEMMA SetTotalPagesStep ==
  ASSUME IInv, NEW c \in Clicks, SetTotalPages(c)
  PROVE  Alone' /\ Standing' /\ Right'
<1>0. c \in Served
  BY DEF Served
<1>1. /\ Slice(c, "counted", page, query) /\ page \in Int /\ query \in Queries
      /\ total' = Pages(count[c]) /\ UNCHANGED <<rows, page, query, shown, changes>>
  BY DEF SetTotalPages, IInv, TypeOK
<1>2. PICK to \in {"query", "error"} : Step(c, "counted", to)
  BY <1>0, <1>1, SliceType DEF IInv
<1>3. pc[c] = "counted" /\ pc'[c] = to
  BY <1>0, <1>2, StepType DEF IInv, States
<1>4. page = 0 /\ (changes > 0 \/ count[c] = rows[query])
  BY <1>0, <1>3 DEF IInv, Standing, Stands, Counts
<1>5. to = "query" => embed'[c].query = query' /\ embed'[c].from = page'
  BY <1>0, <1>1, <1>3, SliceType DEF IInv
<1>6. shown.kind # "page"
  BY <1>0, <1>3 DEF IInv, Standing, Stands, Covers
<1>7. Stands(c)'
  BY <1>1, <1>2, <1>3, <1>5, <1>6 DEF Stands, Turns, Counts, Builds, Opens, Covers
<1>8. Alone' /\ Standing'
  BY <1>0, <1>2, <1>7, SoleStep DEF IInv, States, Quiet
<1>9. TotalRight' /\ PageInRange' /\ PageShown' /\ NothingFoundMeansEmpty'
  BY <1>1, <1>4, <1>6 DEF TotalRight, PageInRange, PageShown, IInv, NothingFoundMeansEmpty
<1> QED
  BY <1>8, <1>9 DEF Right

\* A page that is there has items, and so has the first page of a list with items.
LEMMA AddItemsStep ==
  ASSUME IInv, NEW c \in Served, AddItems(c)
  PROVE  Alone' /\ Standing' /\ Right'
<1>1. /\ Step(c, "query", "footer") /\ pc[c] = "query" /\ pc'[c] = "footer"
      /\ UNCHANGED <<rows, page, total, query, goal, shown, changes>>
  BY StepType DEF AddItems, IInv, TypeOK, States, paginator
<1>2. embed[c].query = query /\ embed[c].from = page
  BY <1>1 DEF IInv, Standing, Stands, Builds
<1>3. embed'[c].query = query /\ embed'[c].from = page /\ embed'[c].items = Items(query, page)
  BY <1>2, EmbedStep DEF IInv
<1>4. changes > 0 \/ (Items(query, page) = 0 => rows[query] = 0)
  <2> SUFFICES ASSUME ~ (changes > 0), rows[query] # 0 PROVE Items(query, page) # 0
    OBVIOUS
  <2>1. rows[query] \in Nat /\ query \in Queries /\ page \in Nat
    BY DEF IInv, TypeOK, PageInRange
  <2>2. total = Pages(rows[query])
    BY <1>1, TotalNow DEF IInv, Quiet
  <2>3. page < Pages(rows[query]) \/ page = 0
    BY <2>2 DEF IInv, PageInRange
  <2>4. page * PerPage < rows[query]
    <3>1. CASE page < Pages(rows[query])
      BY <2>1, <3>1, PageBegins
    <3>2. CASE page = 0
      BY <2>1, <3>2, PaginatorAssumption
    <3> QED
      BY <2>3, <3>1, <3>2
  <2> QED
    BY <2>1, <2>4, ItemsOfPage
<1>5. Stands(c)'
  BY <1>1, <1>3, <1>4 DEF IInv, Standing, Stands, Turns, Counts, Builds, Opens, Covers
<1>6. Alone' /\ Standing'
  BY <1>1, <1>5, SoleStep DEF IInv, States, Quiet
<1>7. TotalRight'
  BY <1>1, TotalNow DEF IInv, TotalRight, Quiet
<1>8. PageInRange' /\ PageShown' /\ NothingFoundMeansEmpty'
  BY <1>1 DEF IInv, PageInRange, PageShown, NothingFoundMeansEmpty
<1> QED
  BY <1>6, <1>7, <1>8 DEF Right

LEMMA SetFooterStep ==
  ASSUME IInv, NEW c \in Served, SetFooter(c)
  PROVE  Alone' /\ Standing' /\ Right'
<1>1. /\ Step(c, "footer", "edit") /\ pc[c] = "footer" /\ pc'[c] = "edit"
      /\ UNCHANGED <<rows, page, total, query, goal, shown, changes>>
  BY StepType DEF SetFooter, IInv, TypeOK, States, paginator
<1>2. /\ embed'[c].query = embed[c].query /\ embed'[c].from = embed[c].from
      /\ embed'[c].items = embed[c].items /\ embed'[c].page = page /\ embed'[c].total = total
  BY EmbedStep DEF IInv
<1>3. Stands(c)'
  BY <1>1, <1>2 DEF IInv, Standing, Stands, Turns, Counts, Builds, Opens, Covers
<1>4. Alone' /\ Standing'
  BY <1>1, <1>3, SoleStep DEF IInv, States, Quiet
<1>5. TotalRight'
  BY <1>1, TotalNow DEF IInv, TotalRight, Quiet
<1>6. PageInRange' /\ PageShown' /\ NothingFoundMeansEmpty'
  BY <1>1 DEF IInv, PageInRange, PageShown, NothingFoundMeansEmpty
<1> QED
  BY <1>4, <1>5, <1>6 DEF Right

LEMMA RefreshStep ==
  ASSUME IInv, NEW c \in Served, Refresh(c)
  PROVE  Alone' /\ Standing' /\ Right'
<1>1. /\ Step(c, "edit", "done") /\ pc[c] = "edit" /\ pc'[c] = "done"
      /\ UNCHANGED <<rows, page, total, query, goal, changes>> /\ shown'.embed = embed[c]
  BY StepType DEF Refresh, WithButtons, IInv, TypeOK, States, paginator
<1>2. Stands(c)'
  BY <1>1 DEF Stands, Turns, Counts, Builds, Opens, Covers
<1>3. Alone' /\ Standing'
  BY <1>1, <1>2, SoleStep DEF IInv, States, Quiet
<1>4. TotalRight'
  BY <1>1, TotalNow DEF IInv, TotalRight, Quiet
<1>5. Builds(c)
  BY DEF IInv, Standing, Stands
<1>6. PageInRange' /\ PageShown' /\ NothingFoundMeansEmpty'
  BY <1>1, <1>5 DEF IInv, PageInRange, PageShown, NothingFoundMeansEmpty, Builds
<1> QED
  BY <1>3, <1>4, <1>6 DEF Right

LEMMA DiscordErrorStep ==
  ASSUME IInv, NEW c \in Served, DiscordError(c)
  PROVE  Alone' /\ Standing' /\ Right'
<1>0. PICK from \in {"thinking", "edit"} : Step(c, from, "error")
  BY DEF DiscordError
<1>1. /\ pc[c] = from /\ pc'[c] = "error"
      /\ UNCHANGED <<rows, page, total, query, goal, shown, changes>>
  BY <1>0, StepType DEF DiscordError, IInv, TypeOK, States, paginator
<1>2. Stands(c)'
  BY <1>1 DEF Stands, Turns, Counts, Builds, Opens, Covers
<1>3. Alone' /\ Standing'
  BY <1>0, <1>1, <1>2, SoleStep DEF IInv, States, Quiet
<1>4. TotalRight'
  BY <1>1, TotalNow DEF IInv, TotalRight, Quiet
<1>5. PageInRange' /\ PageShown' /\ NothingFoundMeansEmpty'
  BY <1>1 DEF IInv, PageInRange, PageShown, NothingFoundMeansEmpty
<1> QED
  BY <1>3, <1>4, <1>5 DEF Right

LEMMA OnErrorStep ==
  ASSUME IInv, NEW c \in Served, OnError(c)
  PROVE  Alone' /\ Standing' /\ Right'
<1>1. /\ Step(c, "error", "done") /\ pc[c] = "error" /\ pc'[c] = "done"
      /\ UNCHANGED <<rows, page, total, query, goal, changes>>
      /\ shown'.kind = "error" \/ UNCHANGED shown
  BY StepType, PlainType DEF OnError, IInv, TypeOK, States, paginator
<1>2. Stands(c)'
  BY <1>1 DEF Stands, Turns, Counts, Builds, Opens, Covers
<1>3. Alone' /\ Standing'
  BY <1>1, <1>2, SoleStep DEF IInv, States, Quiet
<1>4. TotalRight'
  BY <1>1, TotalNow DEF IInv, TotalRight, Quiet
<1>5. PageInRange' /\ PageShown' /\ NothingFoundMeansEmpty'
  BY <1>1 DEF IInv, PageInRange, PageShown, NothingFoundMeansEmpty
<1> QED
  BY <1>3, <1>4, <1>5 DEF Right
-----------------------------------------------------------------------------
LEMMA InvInit == Init => IInv
<1> SUFFICES ASSUME Init PROVE IInv
  OBVIOUS
<1>0. Command \in Served /\ Command \notin Clicks
  BY PaginatorAssumption DEF Served
<1>1. TypeOK
  BY TypeInit
<1>2. \A c \in Served : pc[c] = IF c = Command THEN "command" ELSE "idle"
  BY DEF Init
<1>3. shown.kind = "thinking"
  BY PlainType DEF Init
<1>4. Lists /\ Alone /\ Standing
  BY <1>2, <1>3 DEF Init, Lists, Alone, Busy, Standing, Stands, Turns, Counts, Builds, Opens,
     Covers
<1>5. TotalRight
  BY <1>0, <1>2 DEF TotalRight
<1>6. PageInRange /\ PageShown /\ NothingFoundMeansEmpty
  BY <1>3 DEF Init, PageInRange, PageShown, NothingFoundMeansEmpty
<1> QED
  BY <1>1, <1>4, <1>5, <1>6 DEF IInv

\* Every step keeps the invariant.
LEMMA NextStep ==
  ASSUME AtATime = 1, IInv, [Next]_vars
  PROVE  IInv'
<1>1. TypeOK' /\ Lists'
  BY TypeStep, ListsStep DEF IInv
<1>2. CASE UNCHANGED vars
  BY <1>1, <1>2 DEF vars, paginator, click, IInv, Alone, Busy, Standing, Stands, Turns, Counts,
     Builds,
                    Opens, Covers, TotalRight, PageInRange, PageShown, NothingFoundMeansEmpty
<1>3. CASE OpenList \/ Change
  BY <1>1, <1>3, OpenListStep, ChangeStep DEF IInv, Right
<1>4. ASSUME NEW c \in Clicks,
             \/ \E b \in {"previous", "next"} : Press(c, b)
             \/ Clear(c) \/ Search(c) \/ (\E q \in Searches : SubmitSearch(c, q))
             \/ ShowThinking(c) \/ Turn(c) \/ Reset(c) \/ CountRows(c) \/ SetTotalPages(c)
      PROVE  IInv'
  <2>1. Alone' /\ Standing' /\ Right'
    BY <1>4, PressStep, ListStep, SearchStep, ShowThinkingStep, TurnStep, ResetStep,
       CountRowsStep, SetTotalPagesStep
  <2> QED
    BY <1>1, <2>1 DEF IInv, Right
<1>5. ASSUME NEW c \in Served,
             AddItems(c) \/ SetFooter(c) \/ Refresh(c) \/ DiscordError(c) \/ OnError(c)
      PROVE  IInv'
  <2>1. Alone' /\ Standing' /\ Right'
    BY <1>5, AddItemsStep, SetFooterStep, RefreshStep, DiscordErrorStep, OnErrorStep
  <2> QED
    BY <1>1, <2>1 DEF IInv, Right
<1> QED
  BY <1>2, <1>3, <1>4, <1>5 DEF Next

LEMMA Invariance ==
  ASSUME AtATime = 1
  PROVE  Spec => []IInv
<1>1. Init => IInv
  BY InvInit
<1>2. IInv /\ [Next]_vars => IInv'
  BY NextStep
<1> QED
  BY <1>1, <1>2, PTL DEF Spec

\* The paginator, the clicks and the message have their types, however many clicks are
\* served at a time.
THEOREM TypeCorrect == Spec => []TypeOK
<1> DEFINE Inv == TypeOK /\ Lists
<1>1. Init => Inv
  BY TypeInit, InvInit DEF IInv
<1>2. Inv /\ [Next]_vars => Inv'
  BY TypeStep, ListsStep
<1>3. Inv => TypeOK
  OBVIOUS
<1> QED
  BY <1>1, <1>2, <1>3, PTL DEF Spec

\* Served one click at a time, the paginator stands on a page there is, however the list
\* changes under it: previous and next stop at the first and the last page.
THEOREM StaysInRange ==
  ASSUME AtATime = 1
  PROVE  Spec => []PageInRange
<1>1. IInv => PageInRange
  BY DEF IInv
<1> QED
  BY <1>1, Invariance, PTL

\* Once a click is served, the message and its footer are of the paginator's page.
THEOREM ShowsItsPage ==
  ASSUME AtATime = 1
  PROVE  Spec => []MessageAgrees
<1>1. IInv => MessageAgrees
  BY DEF IInv, PageShown, MessageAgrees
<1> QED
  BY <1>1, Invariance, PTL

\* "No items found" is said of an empty list only, unless others changed it: the slice
\* of a page within the total has items.
THEOREM SaysNothingOfNothing ==
  ASSUME AtATime = 1
  PROVE  Spec => []NothingFoundMeansEmpty
<1>1. IInv => NothingFoundMeansEmpty
  BY DEF IInv
<1> QED
  BY <1>1, Invariance, PTL
=============================================================================
