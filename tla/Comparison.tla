----------------------------- MODULE Comparison -----------------------------
(* What /compare and /compare_meta read and how CompareView lines it up.  A     *)
(* rating is a row [user, media]; users and media are named by numbers, their   *)
(* primary keys, and usernames are numbers too, because the rows are sorted.    *)
EXTENDS Naturals, Sequences, FiniteSets, FiniteSetsExt

CONSTANT MetaUser    \* User(id=-1), who is said to have given the meta marks

\* order_by('user__username', 'media_id')
Before(r, s, username) ==
  \/ username[r.user] < username[s.user]
  \/ r.user = s.user /\ r.media < s.media

\* Faulty: one rating is enough.
RatedByAny(rated, completed, ids) ==
  {m \in completed : \E r \in rated : r.user \in ids /\ r.media = m}

\* The completed media every one of the users has a rating of.
SharedMedia(rated, completed, ids) ==
  {m \in completed :
     Cardinality({r \in rated : r.user \in ids /\ r.media = m}) = Cardinality(ids)}

Sorted(rows, username) ==
  [i \in 1..Cardinality(rows) |->
     CHOOSE r \in rows : Cardinality({s \in rows : Before(s, r, username)}) = i - 1]

\* The one statement of each command.
CompareRows(rated, completed, ids, username) ==
  Sorted({r \in rated : r.user \in ids /\ r.media \in SharedMedia(rated, completed, ids)},
         username)

CompareMetaRows(rated, completed, marked, ids, username) ==
  Sorted({r \in rated : r.user \in ids /\ r.media \in completed \cap marked}, username)

\* groupby collects neighbours; in the dict a later run of a user replaces an
\* earlier one.
LastRun(rows, u) ==
  LET last == Max({i \in DOMAIN rows : rows[i].user = u})
      first == Min({i \in 1..last : \A j \in i..last : rows[j].user = u})
  IN  SubSeq(rows, first, last)

CompareGroups(rows) == [u \in {rows[i].user : i \in DOMAIN rows} |-> LastRun(rows, u)]

CompareMetaGroups(rows) ==
  [u \in {rows[i].user : i \in DOMAIN rows} \cup {MetaUser} |->
     IF u = MetaUser THEN [i \in DOMAIN rows |-> [user |-> MetaUser, media |-> rows[i].media]]
                     ELSE rows]

\* CompareView.get_embed works on two vectors of one length, or raises ...
Comparable(groups) ==
  /\ Cardinality(DOMAIN groups) = 2
  /\ \A u, v \in DOMAIN groups : Len(groups[u]) = Len(groups[v])

\* ... and puts the marks of one index on one line, under the name of the first.
Lines(groups) ==
  {{groups[u][i] : u \in DOMAIN groups} : i \in UNION {DOMAIN groups[u] : u \in DOMAIN groups}}
=============================================================================
