-------------------------- MODULE ComparisonProofs --------------------------
(* What /compare and /compare_meta show, for any users, media and ratings.     *)
EXTENDS Comparison, FiniteSetTheorems, SequenceTheorems, TLAPS

(* Ranks in a finite set under a strict total order, which is a set of pairs. *)

StrictOrder(S, lt) ==
  /\ \A x \in S : <<x, x>> \notin lt
  /\ \A x, y, z \in S : <<x, y>> \in lt /\ <<y, z>> \in lt => <<x, z>> \in lt
  /\ \A x, y \in S : x = y \/ <<x, y>> \in lt \/ <<y, x>> \in lt

Below(S, lt, x) == {y \in S : <<y, x>> \in lt}
Rank(S, lt, x) == Cardinality(Below(S, lt, x))

\* A rank is a number less than there are elements, and grows with the element.
LEMMA RankType ==
  ASSUME NEW S, IsFiniteSet(S), NEW lt, StrictOrder(S, lt), NEW x \in S
  PROVE  Rank(S, lt, x) \in Nat /\ Rank(S, lt, x) + 1 \in 1..Cardinality(S)
<1>1. Below(S, lt, x) \subseteq S /\ Below(S, lt, x) # S
  BY DEF Below, StrictOrder
<1>2. IsFiniteSet(Below(S, lt, x)) /\ Rank(S, lt, x) \in Nat /\ Cardinality(S) \in Nat
  BY <1>1, FS_Subset, FS_CardinalityType DEF Rank
<1>3. Rank(S, lt, x) <= Cardinality(S) /\ Rank(S, lt, x) # Cardinality(S)
  BY <1>1, FS_Subset DEF Rank
<1> QED
  BY <1>2, <1>3

LEMMA RankGrows ==
  ASSUME NEW S, IsFiniteSet(S), NEW lt, StrictOrder(S, lt), NEW x \in S, NEW y \in S,
         <<x, y>> \in lt
  PROVE  Rank(S, lt, x) < Rank(S, lt, y)
<1>1. Below(S, lt, x) \subseteq Below(S, lt, y) /\ Below(S, lt, x) # Below(S, lt, y)
  BY DEF Below, StrictOrder
<1>2. IsFiniteSet(Below(S, lt, y))
  BY FS_Subset DEF Below
<1>3. Rank(S, lt, x) <= Rank(S, lt, y) /\ Rank(S, lt, x) # Rank(S, lt, y)
  BY <1>1, <1>2, FS_Subset DEF Rank
<1> QED
  BY <1>3, RankType

\* No two elements have one rank, and every rank has its element.
LEMMA RankOnce ==
  ASSUME NEW S, IsFiniteSet(S), NEW lt, StrictOrder(S, lt), NEW x \in S, NEW y \in S,
         Rank(S, lt, x) = Rank(S, lt, y)
  PROVE  x = y
<1>1. <<x, y>> \notin lt /\ <<y, x>> \notin lt
  BY RankGrows, RankType
<1> QED
  BY <1>1 DEF StrictOrder

LEMMA EachRank ==
  ASSUME NEW S, IsFiniteSet(S), NEW lt, StrictOrder(S, lt), NEW i \in 1..Cardinality(S)
  PROVE  \E x \in S : Rank(S, lt, x) = i - 1
<1> DEFINE n == Cardinality(S)
           f == [x \in S |-> Rank(S, lt, x) + 1]
<1>1. n \in Nat /\ IsFiniteSet(1..n) /\ Cardinality(1..n) = n
  BY FS_CardinalityType, FS_Interval
<1>2. f \in [S -> 1..n]
  BY RankType
<1>3. ASSUME NEW x \in S, NEW y \in S, f[x] = f[y] PROVE x = y
  BY <1>3, RankType, RankOnce
<1>4. f \in Injection(S, 1..n)
  BY <1>2, <1>3 DEF Injection, IsInjective
<1>5. f \in Surjection(S, 1..n)
  BY <1>1, <1>4, FS_Injection
<1>6. PICK x \in S : f[x] = i
  BY <1>5 DEF Surjection
<1> QED
  BY <1>6, RankType
-----------------------------------------------------------------------------
(* order_by('user__username', 'media_id') *)

Order(rows, username) == {p \in rows \X rows : Before(p[1], p[2], username)}

Place(rows, username, r) == Rank(rows, Order(rows, username), r) + 1

\* Rows of users with different names are put in a strict total order.
LEMMA OrderStrict ==
  ASSUME NEW ids, NEW media, media \subseteq Nat, NEW rows \in SUBSET [user : ids, media : media],
         NEW username, \A u \in ids : username[u] \in Nat,
         \A u, v \in ids : username[u] = username[v] => u = v
  PROVE  StrictOrder(rows, Order(rows, username))
<1> DEFINE lt == Order(rows, username)
<1>1. \A r, s \in rows : <<r, s>> \in lt <=> Before(r, s, username)
  BY DEF Order
<1>2. \A r \in rows : r.user \in ids /\ r.media \in Nat /\ username[r.user] \in Nat
  OBVIOUS
<1>3. \A r, s \in rows : r.user = s.user /\ r.media = s.media => r = s
  OBVIOUS
<1>4. \A r \in rows : ~ Before(r, r, username)
  BY <1>2 DEF Before
<1>5. \A r, s, t \in rows : Before(r, s, username) /\ Before(s, t, username) => Before(r, t, username)
  BY <1>2 DEF Before
<1>6. \A r, s \in rows : r = s \/ Before(r, s, username) \/ Before(s, r, username)
  BY <1>2, <1>3 DEF Before
<1> HIDE DEF lt
<1> QED
  BY <1>1, <1>4, <1>5, <1>6 DEF StrictOrder, lt

\* The sorted rows hold each row at its place.
LEMMA SortedPlaces ==
  ASSUME NEW rows, IsFiniteSet(rows), NEW username, StrictOrder(rows, Order(rows, username))
  PROVE  /\ Cardinality(rows) \in Nat /\ Sorted(rows, username) \in [1..Cardinality(rows) -> rows]
         /\ \A r \in rows : /\ Place(rows, username, r) \in 1..Cardinality(rows)
                            /\ Sorted(rows, username)[Place(rows, username, r)] = r
<1> DEFINE lt == Order(rows, username)
           at(i) == CHOOSE r \in rows : Cardinality({s \in rows : Before(s, r, username)}) = i - 1
<1>0. Cardinality(rows) \in Nat
  BY FS_CardinalityType
<1>1. \A r \in rows : {s \in rows : Before(s, r, username)} = Below(rows, lt, r)
  BY DEF Below, Order
<1>2. \A r \in rows : Cardinality({s \in rows : Before(s, r, username)}) = Rank(rows, lt, r)
  BY <1>1 DEF Rank
<1>3. ASSUME NEW i \in 1..Cardinality(rows) PROVE at(i) \in rows /\ Rank(rows, lt, at(i)) = i - 1
  <2>1. PICK r \in rows : Rank(rows, lt, r) = i - 1
    BY <1>3, EachRank
  <2>2. \E q \in rows : Cardinality({s \in rows : Before(s, q, username)}) = i - 1
    BY <1>2, <2>1
  <2>3. at(i) \in rows /\ Cardinality({s \in rows : Before(s, at(i), username)}) = i - 1
    BY <2>2, Zenon
  <2> QED
    BY <1>2, <2>3
<1>4. Sorted(rows, username) = [i \in 1..Cardinality(rows) |-> at(i)]
  BY DEF Sorted
<1> HIDE DEF at
<1>5. ASSUME NEW r \in rows
      PROVE  /\ Place(rows, username, r) \in 1..Cardinality(rows)
             /\ at(Place(rows, username, r)) = r
  <2>1. Rank(rows, lt, r) \in Nat /\ Place(rows, username, r) \in 1..Cardinality(rows)
    BY RankType DEF Place
  <2>2. /\ at(Place(rows, username, r)) \in rows
        /\ Rank(rows, lt, at(Place(rows, username, r))) = Rank(rows, lt, r)
    BY <1>3, <2>1 DEF Place
  <2> QED
    BY <2>1, <2>2, RankOnce
<1> QED
  BY <1>0, <1>3, <1>4, <1>5
-----------------------------------------------------------------------------
(* /compare: the rows of two users, the same media for each of them. *)

\* Of each shared medium the rows have a rating of each of the users.
LEMMA SharedRows ==
  ASSUME NEW ids, IsFiniteSet(ids), NEW media, IsFiniteSet(media),
         NEW rated \in SUBSET [user : ids, media : media], NEW completed \in SUBSET media
  PROVE  {r \in rated : r.user \in ids /\ r.media \in SharedMedia(rated, completed, ids)}
           = [user : ids, media : SharedMedia(rated, completed, ids)]
<1> DEFINE shared == SharedMedia(rated, completed, ids)
<1>1. ASSUME NEW m \in shared, NEW u \in ids PROVE [user |-> u, media |-> m] \in rated
  <2> DEFINE X == {r \in rated : r.user \in ids /\ r.media = m}
             f == [r \in X |-> r.user]
  <2>1. Cardinality(X) = Cardinality(ids)
    BY <1>1 DEF SharedMedia
  <2>2. f \in [X -> ids] /\ \A r, s \in X : f[r] = f[s] => r = s
    OBVIOUS
  <2>3. f \in Injection(X, ids)
    BY <2>2 DEF Injection, IsInjective
  <2>4. f \in Surjection(X, ids)
    BY <2>1, <2>3, FS_Injection
  <2>5. PICK r \in X : f[r] = u
    BY <2>4 DEF Surjection
  <2>6. r \in rated /\ r = [user |-> u, media |-> m]
    BY <2>5
  <2> QED
    BY <2>6
<1> HIDE DEF shared
<1>2. \A r \in [user : ids, media : shared] : r \in rated /\ r.user \in ids /\ r.media \in shared
  <2> SUFFICES ASSUME NEW r \in [user : ids, media : shared]
               PROVE  r \in rated /\ r.user \in ids /\ r.media \in shared
    OBVIOUS
  <2>1. r.user \in ids /\ r.media \in shared /\ r = [user |-> r.user, media |-> r.media]
    OBVIOUS
  <2> QED
    BY <1>1, <2>1
<1>3. \A r \in rated : r.user \in ids /\ r.media \in shared => r \in [user : ids, media : shared]
  OBVIOUS
<1> QED
  BY <1>2, <1>3 DEF shared
\* How many of the media come before one.
Ahead(shared, m) == Cardinality({l \in shared : l < m})

\* Each of the shared media has its own place among them.
LEMMA MediaPlaces ==
  ASSUME NEW shared \in SUBSET Nat, IsFiniteSet(shared)
  PROVE  /\ \A m \in shared : Ahead(shared, m) + 1 \in 1..Cardinality(shared)
         /\ \A i \in 1..Cardinality(shared) : \E m \in shared : Ahead(shared, m) + 1 = i
<1> DEFINE lt == {p \in shared \X shared : p[1] < p[2]}
<1>1. \A x, y \in shared : <<x, y>> \in lt <=> x < y
  OBVIOUS
<1> HIDE DEF lt
<1>2. StrictOrder(shared, lt)
  BY <1>1 DEF StrictOrder
<1>3. \A m \in shared : Rank(shared, lt, m) = Ahead(shared, m)
  <2> SUFFICES ASSUME NEW m \in shared PROVE Rank(shared, lt, m) = Ahead(shared, m)
    OBVIOUS
  <2>1. Below(shared, lt, m) = {l \in shared : l < m}
    BY <1>1 DEF Below
  <2> QED
    BY <2>1 DEF Rank, Ahead
<1>4. \A m \in shared : Ahead(shared, m) \in Nat /\ Ahead(shared, m) + 1 \in 1..Cardinality(shared)
  BY <1>2, <1>3, RankType
<1>5. ASSUME NEW i \in 1..Cardinality(shared) PROVE \E m \in shared : Ahead(shared, m) + 1 = i
  <2>1. PICK m \in shared : Rank(shared, lt, m) = i - 1
    BY <1>2, EachRank
  <2> QED
    BY <1>3, <2>1, FS_CardinalityType
<1> QED
  BY <1>4, <1>5

\* As many rows of a user as there are media.
LEMMA OneUsersRows ==
  ASSUME NEW u, NEW S, IsFiniteSet(S)
  PROVE  /\ IsFiniteSet([user : {u}, media : S])
         /\ Cardinality([user : {u}, media : S]) = Cardinality(S)
<1> DEFINE f == [m \in S |-> [user |-> u, media |-> m]]
<1>1. f \in [S -> [user : {u}, media : S]] /\ \A l, m \in S : f[l] = f[m] => l = m
  OBVIOUS
<1>2. \A r \in [user : {u}, media : S] : \E m \in S : f[m] = r
  <2> SUFFICES ASSUME NEW r \in [user : {u}, media : S] PROVE f[r.media] = r /\ r.media \in S
    OBVIOUS
  <2> QED
    OBVIOUS
<1>3. f \in Bijection(S, [user : {u}, media : S])
  BY <1>1, <1>2 DEF Bijection, Injection, Surjection, IsInjective
<1> QED
  BY <1>3, FS_Bijection DEF ExistsBijection

\* The sorted rows of two users, each with a rating of the same media.
OfTwo(a, b, username, shared, rows, s, k) ==
  /\ a # b /\ username[a] \in Nat /\ username[b] \in Nat /\ username[a] < username[b]
  /\ shared \subseteq Nat /\ IsFiniteSet(shared)
  /\ rows = [user : {a, b}, media : shared] /\ s = Sorted(rows, username) /\ k = Cardinality(shared)

\* The rows of the one whose name comes first, and then those of the other, each in
\* the order of the media.
LEMMA TwoRuns ==
  ASSUME NEW a, NEW b, NEW username, NEW shared, NEW rows, NEW s, NEW k,
         OfTwo(a, b, username, shared, rows, s, k)
  PROVE  /\ k \in Nat /\ s \in [1..(k + k) -> rows]
         /\ \A m \in shared : /\ s[Ahead(shared, m) + 1] = [user |-> a, media |-> m]
                              /\ s[k + Ahead(shared, m) + 1] = [user |-> b, media |-> m]
<1> DEFINE as == [user : {a}, media : shared]
           bs == [user : {b}, media : shared]
<1> USE DEF OfTwo
<1>1. k \in Nat /\ IsFiniteSet(rows) /\ Cardinality(rows) = k + k
  <2>1. rows = as \cup bs /\ as \cap bs = {}
    OBVIOUS
  <2>2. IsFiniteSet(as) /\ IsFiniteSet(bs) /\ Cardinality(as) = k /\ Cardinality(bs) = k
    BY OneUsersRows
  <2>3. Cardinality(as \cap bs) = 0
    BY <2>1, FS_EmptySet
  <2>4. IsFiniteSet(as \cup bs) /\ Cardinality(as \cup bs) = k + k - 0
    <3> HIDE DEF as, bs
    <3> QED
      BY <2>2, <2>3, FS_Union
  <2>5. k \in Nat
    BY FS_CardinalityType
  <2>6. rows = as \cup bs
    BY <2>1
  <2> HIDE DEF as, bs
  <2>7. k + k - 0 = k + k
    BY <2>5
  <2> QED
    BY <2>4, <2>5, <2>6, <2>7
<1>2. StrictOrder(rows, Order(rows, username))
  <2> DEFINE ids == {a, b}
  <2>1. rows \in SUBSET [user : ids, media : shared] /\ shared \subseteq Nat
    OBVIOUS
  <2>2. \A u \in ids : username[u] \in Nat
    OBVIOUS
  <2>3. \A u, v \in ids : username[u] = username[v] => u = v
    OBVIOUS
  <2> HIDE DEF ids
  <2> QED
    BY <2>1, <2>2, <2>3, OrderStrict
<1>3. s \in [1..(k + k) -> rows] /\ \A r \in rows : s[Place(rows, username, r)] = r
  BY <1>1, <1>2, SortedPlaces
<1>4. ASSUME NEW m \in shared
      PROVE  /\ Place(rows, username, [user |-> a, media |-> m]) = Ahead(shared, m) + 1
             /\ Place(rows, username, [user |-> b, media |-> m]) = k + Ahead(shared, m) + 1
  <2> DEFINE before == {l \in shared : l < m}
             ra == [user |-> a, media |-> m]
             rb == [user |-> b, media |-> m]
             aBefore == [user : {a}, media : before]
             bBefore == [user : {b}, media : before]
             lt == Order(rows, username)
  <2>0. \A r \in rows : r = [user |-> r.user, media |-> r.media]
    OBVIOUS
  <2>1. \A q, r \in rows : <<q, r>> \in lt <=> Before(q, r, username)
    BY DEF Order
  <2>2. ra \in rows /\ rb \in rows
    OBVIOUS
  <2> HIDE DEF lt
  <2>3. Below(rows, lt, ra) = aBefore
    <3>1. \A r \in rows : <<r, ra>> \in lt <=> r.user = a /\ r.media < m
      BY <2>1, <2>2 DEF Before
    <3> QED
      BY <3>1 DEF Below
  <2>4. Below(rows, lt, rb) = as \cup bBefore
    <3>1. \A r \in rows : <<r, rb>> \in lt <=> r.user = a \/ (r.user = b /\ r.media < m)
      BY <2>1, <2>2 DEF Before
    <3>2. \A r \in as \cup bBefore : r \in rows
      OBVIOUS
    <3>3. \A r \in rows : r \in as \cup bBefore <=> r.user = a \/ (r.user = b /\ r.media < m)
      OBVIOUS
    <3> QED
      BY <3>1, <3>2, <3>3 DEF Below
  <2>5. /\ IsFiniteSet(before)
        /\ Cardinality(aBefore) = Ahead(shared, m)
        /\ IsFiniteSet(bBefore) /\ Cardinality(bBefore) = Ahead(shared, m)
    BY FS_Subset, OneUsersRows DEF Ahead
  <2>6. IsFiniteSet(as) /\ Cardinality(as) = k /\ as \cap bBefore = {}
    BY OneUsersRows
  <2>7. Cardinality(as \cup bBefore) = k + Ahead(shared, m)
    <3>1. Cardinality(as \cap bBefore) = 0
      BY <2>6, FS_EmptySet
    <3>2. Ahead(shared, m) \in Nat
      BY <2>5, FS_CardinalityType DEF Ahead
    <3>3. Cardinality(as \cup bBefore) = k + Ahead(shared, m) - 0
      BY <2>5, <2>6, <3>1, FS_Union
    <3> QED
      BY <1>1, <3>2, <3>3
  <2> HIDE DEF aBefore, bBefore, before, as, ra, rb
  <2>8. Rank(rows, lt, ra) = Ahead(shared, m) /\ Rank(rows, lt, rb) = k + Ahead(shared, m)
    BY <2>3, <2>4, <2>5, <2>7 DEF Rank
  <2> QED
    BY <2>8 DEF Place, lt, ra, rb
<1>5. \A m \in shared : [user |-> a, media |-> m] \in rows /\ [user |-> b, media |-> m] \in rows
  OBVIOUS
<1> QED
  BY <1>1, <1>3, <1>4, <1>5
-----------------------------------------------------------------------------
(* groupby, and what the view puts on one line. *)

LEMMA MaxIs ==
  ASSUME NEW S, NEW n \in S, S \subseteq Nat, \A i \in S : i <= n
  PROVE  Max(S) = n
<1>1. \E x \in S : \A y \in S : x >= y
  OBVIOUS
<1>2. Max(S) \in S /\ \A y \in S : Max(S) >= y
  BY <1>1, Zenon DEF Max
<1>3. Max(S) >= n /\ Max(S) <= n /\ Max(S) \in Nat /\ n \in Nat
  BY <1>2
<1> QED
  BY <1>3

LEMMA MinIs ==
  ASSUME NEW S, NEW n \in S, S \subseteq Nat, \A i \in S : n <= i
  PROVE  Min(S) = n
<1>1. \E x \in S : \A y \in S : x <= y
  OBVIOUS
<1>2. Min(S) \in S /\ \A y \in S : Min(S) <= y
  BY <1>1, Zenon DEF Min
<1>3. Min(S) <= n /\ n <= Min(S) /\ Min(S) \in Nat /\ n \in Nat
  BY <1>2
<1> QED
  BY <1>3

\* The rows of a user are neighbours.
RunAt(S, n, rows, u, first, last) ==
  /\ n \in Nat /\ rows \in [1..n -> S] /\ first \in 1..n /\ last \in first..n
  /\ \A i \in 1..n : rows[i].user = u <=> first <= i /\ i <= last

\* A user whose rows are neighbours has all of them in the group.
LEMMA RunIs ==
  ASSUME NEW S, NEW n, NEW rows, NEW u, NEW first, NEW last, RunAt(S, n, rows, u, first, last)
  PROVE  /\ LastRun(rows, u) \in Seq(S) /\ Len(LastRun(rows, u)) = last - first + 1
         /\ \A i \in 1..(last - first + 1) : LastRun(rows, u)[i] = rows[first + i - 1]
<1> DEFINE mine == {i \in DOMAIN rows : rows[i].user = u}
           starts(l) == {i \in 1..l : \A j \in i..l : rows[j].user = u}
<1>0. /\ n \in Nat /\ rows \in [1..n -> S] /\ first \in 1..n /\ last \in first..n
      /\ \A i \in 1..n : rows[i].user = u <=> first <= i /\ i <= last
  BY DEF RunAt
<1>1. DOMAIN rows = 1..n
  BY <1>0
<1>2. Max(mine) = last
  <2>1. mine \subseteq Nat /\ last \in mine /\ \A i \in mine : i <= last
    BY <1>0, <1>1
  <2> QED
    BY <2>1, MaxIs
<1>3. Min(starts(last)) = first
  <2>1. first \in starts(last) /\ starts(last) \subseteq Nat
    BY <1>0
  <2>2. ASSUME NEW i \in starts(last) PROVE first <= i
    <3>1. i \in i..last /\ i \in 1..n
      BY <1>0, <2>2
    <3> QED
      BY <1>0, <2>2, <3>1
  <2> QED
    BY <2>1, <2>2, MinIs
<1>4. LastRun(rows, u) = SubSeq(rows, first, last)
  <2>1. LastRun(rows, u) = SubSeq(rows, Min(starts(Max(mine))), Max(mine))
    BY DEF LastRun
  <2> QED
    BY <1>2, <1>3, <2>1
<1>5. first \in Int /\ last \in Int /\ first <= last /\ \A i \in first..last : rows[i] \in S
  BY <1>0
<1> HIDE DEF mine, starts
<1> QED
  BY <1>4, <1>5, SubSeqProperties
\* The two groups of the sorted rows run parallel, so a line has one rating of each
\* of the two, of one medium.
AlignedOf(groups, ids, media) ==
  /\ Comparable(groups)
  /\ \A line \in Lines(groups) :
       /\ {r.user : r \in line} = ids
       /\ \A r, s \in line : r.media = s.media
       /\ \A r \in line : r \in [user : ids, media : media]

Paired(a, b, shared, S, k, rows) ==
  /\ a # b /\ shared \subseteq Nat /\ k \in Nat \ {0} /\ rows \in [1..(k + k) -> S]
  /\ \A i \in 1..k : \E m \in shared :
       rows[i] = [user |-> a, media |-> m] /\ rows[k + i] = [user |-> b, media |-> m]

\* So it is when the rows of the one are followed by those of the other, in the order
\* of the same media.
LEMMA Parallel ==
  ASSUME NEW a, NEW b, NEW shared, NEW S, NEW k, NEW rows, Paired(a, b, shared, S, k, rows)
  PROVE  Len(rows) = k + k /\ AlignedOf(CompareGroups(rows), {a, b}, shared)
<1> DEFINE groups == CompareGroups(rows)
           ra(m) == [user |-> a, media |-> m]
           rb(m) == [user |-> b, media |-> m]
<1>0. a # b /\ shared \subseteq Nat /\ k \in Nat \ {0} /\ rows \in [1..(k + k) -> S]
  BY DEF Paired
<1> USE <1>0
<1>1. \A i \in 1..k : \E m \in shared : rows[i] = ra(m) /\ rows[k + i] = rb(m)
  BY DEF Paired
<1>2. \A m \in shared : ra(m).user = a /\ rb(m).user = b
  OBVIOUS
<1> HIDE DEF ra, rb
<1>3. \A i \in 1..k : rows[i].user = a /\ rows[k + i].user = b
  BY <1>1, <1>2
<1>4. \A i \in (k + 1)..(k + k) : rows[i].user = b
  <2> SUFFICES ASSUME NEW i \in (k + 1)..(k + k) PROVE rows[i].user = b
    OBVIOUS
  <2>1. i - k \in 1..k /\ k + (i - k) = i
    OBVIOUS
  <2> QED
    BY <1>3, <2>1
<1>5. DOMAIN rows = 1..(k + k) /\ rows \in Seq(S) /\ Len(rows) = k + k
  <2>1. DOMAIN rows = 1..(k + k) /\ k + k \in Nat
    OBVIOUS
  <2>2. rows \in Seq(S)
    BY <2>1, SeqDef
  <2>3. Len(rows) \in Nat /\ DOMAIN rows = 1..Len(rows)
    BY <2>2, LenProperties
  <2> QED
    BY <2>1, <2>2, <2>3
<1>6. {rows[i].user : i \in DOMAIN rows} = {a, b}
  <2>1. 1 \in DOMAIN rows /\ k + 1 \in DOMAIN rows /\ rows[1].user = a /\ rows[k + 1].user = b
    BY <1>3, <1>5
  <2>2. \A i \in DOMAIN rows : rows[i].user \in {a, b}
    <3> SUFFICES ASSUME NEW i \in DOMAIN rows PROVE rows[i].user \in {a, b}
      OBVIOUS
    <3>1. i \in 1..k \/ i \in (k + 1)..(k + k)
      BY <1>5
    <3> QED
      BY <1>3, <1>4, <3>1
  <2> QED
    BY <2>1, <2>2
<1>7. /\ LastRun(rows, a) \in Seq(S) /\ Len(LastRun(rows, a)) = k
      /\ \A i \in 1..k : LastRun(rows, a)[i] = rows[i]
  <2>1. \A i \in 1..(k + k) : rows[i].user = a <=> 1 <= i /\ i <= k
    <3> SUFFICES ASSUME NEW i \in 1..(k + k) PROVE rows[i].user = a <=> 1 <= i /\ i <= k
      OBVIOUS
    <3>1. i \in 1..k \/ i \in (k + 1)..(k + k)
      OBVIOUS
    <3> QED
      BY <1>3, <1>4, <3>1
  <2>2. k + k \in Nat /\ 1 \in 1..(k + k) /\ k \in 1..(k + k) /\ k - 1 + 1 = k
        /\ \A i \in 1..k : 1 + i - 1 = i
    OBVIOUS
  <2>3. /\ LastRun(rows, a) \in Seq(S) /\ Len(LastRun(rows, a)) = k - 1 + 1
        /\ \A i \in 1..(k - 1 + 1) : LastRun(rows, a)[i] = rows[1 + i - 1]
    <3>1. PICK n, first, last : n = k + k /\ first = 1 /\ last = k
      OBVIOUS
    <3>2. RunAt(S, n, rows, a, first, last)
      BY <2>1, <2>2, <3>1 DEF RunAt
    <3> HIDE DEF groups
    <3>3. /\ LastRun(rows, a) \in Seq(S) /\ Len(LastRun(rows, a)) = last - first + 1
          /\ \A i \in 1..(last - first + 1) : LastRun(rows, a)[i] = rows[first + i - 1]
      BY <3>2, RunIs
    <3> QED
      BY <3>1, <3>3
  <2> QED
    BY <2>2, <2>3
<1>8. /\ LastRun(rows, b) \in Seq(S) /\ Len(LastRun(rows, b)) = k
      /\ \A i \in 1..k : LastRun(rows, b)[i] = rows[k + i]
  <2>1. \A i \in 1..(k + k) : rows[i].user = b <=> k + 1 <= i /\ i <= k + k
    <3> SUFFICES ASSUME NEW i \in 1..(k + k) PROVE rows[i].user = b <=> k + 1 <= i /\ i <= k + k
      OBVIOUS
    <3>1. i \in 1..k \/ i \in (k + 1)..(k + k)
      OBVIOUS
    <3> QED
      BY <1>3, <1>4, <3>1
  <2>2. k + k \in Nat /\ k + 1 \in 1..(k + k) /\ k + k \in (k + 1)..(k + k) /\ (k + k) - (k + 1) + 1 = k
        /\ \A i \in 1..k : (k + 1) + i - 1 = k + i
    OBVIOUS
  <2>3. /\ LastRun(rows, b) \in Seq(S) /\ Len(LastRun(rows, b)) = (k + k) - (k + 1) + 1
        /\ \A i \in 1..((k + k) - (k + 1) + 1) : LastRun(rows, b)[i] = rows[(k + 1) + i - 1]
    <3>1. PICK n, first, last : n = k + k /\ first = k + 1 /\ last = k + k
      OBVIOUS
    <3>2. RunAt(S, n, rows, b, first, last)
      BY <2>1, <2>2, <3>1 DEF RunAt
    <3> HIDE DEF groups
    <3>3. /\ LastRun(rows, b) \in Seq(S) /\ Len(LastRun(rows, b)) = last - first + 1
          /\ \A i \in 1..(last - first + 1) : LastRun(rows, b)[i] = rows[first + i - 1]
      BY <3>2, RunIs
    <3> QED
      BY <3>1, <3>3
  <2> QED
    BY <2>2, <2>3
<1>9. /\ DOMAIN groups = {a, b} /\ groups[a] = LastRun(rows, a) /\ groups[b] = LastRun(rows, b)
  BY <1>6 DEF CompareGroups
<1> HIDE DEF groups
<1>10. Comparable(groups)
  <2>1. IsFiniteSet({a}) /\ Cardinality({a}) = 1 /\ b \notin {a} /\ {a} \cup {b} = {a, b}
    BY FS_Singleton
  <2>2. Cardinality({a} \cup {b}) = 1 + 1
    BY <2>1, FS_AddElement
  <2>3. \A u, v \in {a, b} : Len(groups[u]) = Len(groups[v])
    BY <1>7, <1>8, <1>9
  <2>4. Cardinality(DOMAIN groups) = 2
    BY <1>9, <2>1, <2>2
  <2> QED
    BY <1>9, <2>3, <2>4 DEF Comparable
<1>11. DOMAIN groups[a] = 1..k /\ DOMAIN groups[b] = 1..k
  BY <1>7, <1>8, <1>9, LenProperties
<1>12. \A line \in Lines(groups) : \E i \in 1..k : line = {groups[a][i], groups[b][i]}
  <2>1. UNION {DOMAIN groups[u] : u \in DOMAIN groups} = 1..k
    BY <1>9, <1>11
  <2>2. \A i : {groups[u][i] : u \in DOMAIN groups} = {groups[a][i], groups[b][i]}
    BY <1>9
  <2> QED
    BY <2>1, <2>2 DEF Lines
<1>13. ASSUME NEW line \in Lines(groups)
       PROVE  \E m \in shared : line = {ra(m), rb(m)}
  <2>1. PICK i \in 1..k : line = {groups[a][i], groups[b][i]}
    BY <1>12
  <2>2. groups[a][i] = rows[i] /\ groups[b][i] = rows[k + i]
    BY <1>7, <1>8, <1>9
  <2>3. PICK m \in shared : rows[i] = ra(m) /\ rows[k + i] = rb(m)
    BY <1>1
  <2> QED
    BY <2>1, <2>2, <2>3
<1>14. \A m \in shared : /\ {r.user : r \in {ra(m), rb(m)}} = {a, b}
                         /\ \A r, s \in {ra(m), rb(m)} : r.media = s.media
                         /\ \A r \in {ra(m), rb(m)} : r \in [user : {a, b}, media : shared]
  BY DEF ra, rb
<1>15. \A line \in Lines(groups) :
         /\ {r.user : r \in line} = {a, b}
         /\ \A r, s \in line : r.media = s.media
         /\ \A r \in line : r \in [user : {a, b}, media : shared]
  <2> SUFFICES ASSUME NEW line \in Lines(groups)
               PROVE  /\ {r.user : r \in line} = {a, b}
                      /\ \A r, s \in line : r.media = s.media
                      /\ \A r \in line : r \in [user : {a, b}, media : shared]
    OBVIOUS
  <2>1. PICK m \in shared : line = {ra(m), rb(m)}
    BY <1>13
  <2> QED
    BY <1>14, <2>1, Zenon
<1> QED
  BY <1>5, <1>10, <1>15 DEF AlignedOf, groups

\* So it is for two users with different names.
LEMMA TwoGroups ==
  ASSUME NEW a, NEW b, NEW username, NEW shared, NEW all, NEW rows, NEW k,
         OfTwo(a, b, username, shared, all, rows, k), shared # {}
  PROVE  Len(rows) = k + k /\ AlignedOf(CompareGroups(rows), {a, b}, shared)
<1>1. /\ k \in Nat /\ rows \in [1..(k + k) -> all]
      /\ \A m \in shared : /\ rows[Ahead(shared, m) + 1] = [user |-> a, media |-> m]
                           /\ rows[k + Ahead(shared, m) + 1] = [user |-> b, media |-> m]
  BY TwoRuns
<1>2. shared \in SUBSET Nat /\ IsFiniteSet(shared) /\ k = Cardinality(shared) /\ a # b
  BY DEF OfTwo
<1>3. k # 0
  BY <1>2, FS_EmptySet
<1>4. \A i \in 1..k : \E m \in shared : Ahead(shared, m) + 1 = i
  BY <1>2, MediaPlaces
<1>5. ASSUME NEW i \in 1..k
      PROVE  \E m \in shared : rows[i] = [user |-> a, media |-> m] /\ rows[k + i] = [user |-> b, media |-> m]
  <2>1. PICK m \in shared : Ahead(shared, m) + 1 = i
    BY <1>4
  <2>2. Ahead(shared, m) \in Nat
    BY <1>2, FS_Subset, FS_CardinalityType DEF Ahead
  <2>3. k + Ahead(shared, m) + 1 = k + i
    BY <1>1, <2>1, <2>2
  <2>4. /\ rows[Ahead(shared, m) + 1] = [user |-> a, media |-> m]
        /\ rows[k + Ahead(shared, m) + 1] = [user |-> b, media |-> m]
    BY <1>1
  <2> QED
    BY <2>1, <2>3, <2>4, Zenon
<1>6. Paired(a, b, shared, all, k, rows)
  BY <1>1, <1>2, <1>3, <1>5 DEF Paired
<1> QED
  BY <1>6, Parallel

\* Two users with different names, and what they have rated.
Two(ids, media, rated, completed, username) ==
  /\ IsFiniteSet(ids) /\ Cardinality(ids) = 2
  /\ \A u \in ids : username[u] \in Nat
  /\ \A u, v \in ids : username[u] = username[v] => u = v
  /\ media \subseteq Nat /\ IsFiniteSet(media)
  /\ rated \subseteq [user : ids, media : media] /\ completed \subseteq media

\* Two things are two things: one of them has the lesser name.
LEMMA Pair ==
  ASSUME NEW ids, IsFiniteSet(ids), Cardinality(ids) = 2, NEW username,
         \A u \in ids : username[u] \in Nat,
         (\A u, v \in ids : username[u] = username[v] => u = v)
  PROVE  \E a, b \in ids : ids = {a, b} /\ a # b /\ username[a] < username[b]
<1>1. PICK x \in ids : TRUE
  BY FS_EmptySet
<1>2. IsFiniteSet(ids \ {x}) /\ Cardinality(ids \ {x}) = 1
  <2>1. IsFiniteSet(ids \ {x}) /\ Cardinality(ids \ {x}) = Cardinality(ids) - 1
    BY <1>1, FS_RemoveElement
  <2> QED
    BY <2>1
<1>3. PICK y : ids \ {x} = {y}
  BY <1>2, FS_Singleton
<1>4. ids = {x, y} /\ x # y /\ y \in ids
  BY <1>1, <1>3
<1>5. username[x] \in Nat /\ username[y] \in Nat /\ username[x] # username[y]
  BY <1>1, <1>4
<1>6. CASE username[x] < username[y]
  BY <1>1, <1>4, <1>6
<1>7. CASE username[y] < username[x]
  <2>1. ids = {y, x} /\ y # x
    BY <1>4
  <2> QED
    BY <1>1, <1>4, <1>7, <2>1
<1> QED
  BY <1>5, <1>6, <1>7

\* /compare: when there is enough to show, the two groups of rows run parallel, and a
\* line has one rating of each of the two users, of one medium.
THEOREM CompareAligns ==
  ASSUME NEW ids, NEW media, NEW rated, NEW completed, NEW username,
         Two(ids, media, rated, completed, username),
         Len(CompareRows(rated, completed, ids, username)) >= 2 * Cardinality(ids)
  PROVE  AlignedOf(CompareGroups(CompareRows(rated, completed, ids, username)), ids, media)
<1> DEFINE shared == SharedMedia(rated, completed, ids)
           all == [user : ids, media : shared]
           rows == CompareRows(rated, completed, ids, username)
<1>1. /\ IsFiniteSet(ids) /\ Cardinality(ids) = 2 /\ IsFiniteSet(media) /\ media \subseteq Nat
      /\ rated \in SUBSET [user : ids, media : media] /\ completed \in SUBSET media
  BY DEF Two
<1>2. \A u \in ids : username[u] \in Nat
  BY DEF Two
<1>3. \A u, v \in ids : username[u] = username[v] => u = v
  BY DEF Two
<1>4. PICK a, b \in ids : ids = {a, b} /\ a # b /\ username[a] < username[b]
  BY <1>1, <1>2, <1>3, Pair
<1>5. shared \subseteq media /\ shared \subseteq Nat /\ IsFiniteSet(shared)
  <2>1. shared \subseteq media
    BY <1>1 DEF SharedMedia
  <2> QED
    BY <1>1, <2>1, FS_Subset
<1>6. {r \in rated : r.user \in ids /\ r.media \in shared} = all
  BY <1>1, SharedRows
<1>7. rows = Sorted(all, username)
  BY <1>6 DEF CompareRows
<1>8. Len(rows) >= 4
  BY <1>1
<1> HIDE DEF shared, rows
<1>9. PICK k : k = Cardinality(shared)
  OBVIOUS
<1>10. OfTwo(a, b, username, shared, all, rows, k)
  BY <1>2, <1>4, <1>5, <1>7, <1>9 DEF OfTwo
<1>11. shared # {}
  <2> SUFFICES ASSUME shared = {} PROVE FALSE
    OBVIOUS
  <2>1. k = 0
    BY <1>9, FS_EmptySet
  <2>2. rows \in [1..(k + k) -> all]
    BY <1>10, TwoRuns
  <2>3. rows \in [1..0 -> all] /\ 0 \in Nat
    BY <2>1, <2>2
  <2>4. rows \in Seq(all)
    BY <2>3, SeqDef
  <2>5. Len(rows) \in Nat /\ DOMAIN rows = 1..Len(rows) /\ DOMAIN rows = {}
    BY <2>3, <2>4, LenProperties
  <2> QED
    BY <1>8, <2>5
<1>12. AlignedOf(CompareGroups(rows), {a, b}, shared)
  <2> HIDE DEF all
  <2> QED
    BY <1>10, <1>11, TwoGroups
<1>13. AlignedOf(CompareGroups(rows), ids, media)
  <2> DEFINE groups == CompareGroups(rows)
  <2> HIDE DEF groups
  <2>1. /\ Comparable(groups)
        /\ \A line \in Lines(groups) : /\ {r.user : r \in line} = ids
                                       /\ \A r, s \in line : r.media = s.media
                                       /\ \A r \in line : r \in [user : ids, media : shared]
    BY <1>4, <1>12 DEF AlignedOf, groups
  <2>2. \A r \in [user : ids, media : shared] : r \in [user : ids, media : media]
    BY <1>5
  <2> QED
    BY <2>1, <2>2 DEF AlignedOf, groups
<1> QED
  BY <1>13 DEF rows

LEMMA OneUsersRow ==
  ASSUME NEW u, NEW S, NEW r \in [user : {u}, media : S]
  PROVE  r.user = u /\ r.media \in S /\ r = [user |-> u, media |-> r.media]
<1>1. r.user \in {u} /\ r.media \in S /\ r = [user |-> r.user, media |-> r.media]
  OBVIOUS
<1> QED
  BY <1>1

\* /compare_meta: each rating of the user, and the meta mark of the same medium.
THEOREM CompareMetaAligns ==
  ASSUME NEW u, u # MetaUser, NEW media, IsFiniteSet(media), media \subseteq Nat,
         NEW rated, rated \subseteq [user : {u}, media : media],
         NEW completed, NEW marked, NEW username, username[u] \in Nat,
         Len(CompareMetaRows(rated, completed, marked, {u}, username)) >= 2
  PROVE  AlignedOf(CompareMetaGroups(CompareMetaRows(rated, completed, marked, {u}, username)),
                   {u, MetaUser}, media)
<1> DEFINE mine == {r \in rated : r.user \in {u} /\ r.media \in completed \cap marked}
           rows == CompareMetaRows(rated, completed, marked, {u}, username)
           groups == CompareMetaGroups(rows)
           ids == {u}
           ru(m) == [user |-> u, media |-> m]
           rm(m) == [user |-> MetaUser, media |-> m]
<1>1. mine \in SUBSET [user : {u}, media : media] /\ mine \subseteq rated
  OBVIOUS
<1>2. IsFiniteSet(mine)
  <2>1. IsFiniteSet([user : {u}, media : media])
    BY OneUsersRows
  <2> QED
    BY <1>1, <2>1, FS_Subset
<1>3. rows = Sorted(mine, username)
  BY DEF CompareMetaRows
<1>4. \A r \in mine : r.user = u /\ r.media \in media /\ r = [user |-> u, media |-> r.media]
  <2>1. \A r \in [user : {u}, media : media] :
          r.user = u /\ r.media \in media /\ r = [user |-> u, media |-> r.media]
    BY OneUsersRow
  <2> HIDE DEF mine
  <2> QED
    BY <1>1, <2>1
<1> HIDE DEF mine
<1>5. StrictOrder(mine, Order(mine, username))
  <2>1. \A x \in ids : username[x] \in Nat
    OBVIOUS
  <2>2. \A x, y \in ids : username[x] = username[y] => x = y
    OBVIOUS
  <2>3. mine \in SUBSET [user : ids, media : media]
    BY <1>1
  <2> HIDE DEF ids
  <2> QED
    BY <2>1, <2>2, <2>3, OrderStrict
<1>6. /\ Cardinality(mine) \in Nat /\ rows \in [1..Cardinality(mine) -> mine]
  <2> HIDE DEF rows
  <2> QED
    BY <1>2, <1>3, <1>5, SortedPlaces
<1>7. rows \in Seq(mine)
  BY <1>6, SeqDef
<1>8. Len(rows) \in Nat /\ Len(rows) >= 2 /\ DOMAIN rows = 1..Len(rows)
  BY <1>7, LenProperties
<1>9. \A i \in DOMAIN rows : rows[i] \in mine
  BY <1>6
<1> HIDE DEF rows
<1>10. {rows[i].user : i \in DOMAIN rows} = {u}
  <2>1. 1 \in DOMAIN rows
    BY <1>8
  <2>2. \A i \in DOMAIN rows : rows[i].user = u
    BY <1>4, <1>9
  <2> QED
    BY <2>1, <2>2
<1>11. /\ DOMAIN groups = {u, MetaUser} /\ groups[u] = rows
       /\ groups[MetaUser] = [i \in DOMAIN rows |-> [user |-> MetaUser, media |-> rows[i].media]]
  BY <1>10 DEF CompareMetaGroups
<1>12. \A i \in DOMAIN rows : [user |-> MetaUser, media |-> rows[i].media] \in [user : {MetaUser}, media : media]
  BY <1>4, <1>9
<1> HIDE DEF groups, ru, rm
<1>13. groups[MetaUser] \in Seq([user : {MetaUser}, media : media]) /\ DOMAIN groups[MetaUser] = 1..Len(rows)
  <2> DEFINE marks == [user : {MetaUser}, media : media]
  <2>1. groups[MetaUser] \in [1..Len(rows) -> marks]
    BY <1>8, <1>11, <1>12
  <2> HIDE DEF marks
  <2>2. groups[MetaUser] \in Seq(marks) /\ DOMAIN groups[MetaUser] = 1..Len(rows)
    BY <1>8, <2>1, SeqDef
  <2> QED
    BY <2>2 DEF marks
<1>14. Len(groups[MetaUser]) = Len(rows) /\ Len(groups[u]) = Len(rows)
  BY <1>8, <1>11, <1>13, LenProperties
<1>15. Comparable(groups)
  <2>1. IsFiniteSet(ids) /\ Cardinality(ids) = 1 /\ MetaUser \notin ids /\ ids \cup {MetaUser} = {u, MetaUser}
    BY FS_Singleton
  <2>2. Cardinality(ids \cup {MetaUser}) = 1 + 1
    BY <2>1, FS_AddElement
  <2>3. \A v, w \in {u, MetaUser} : Len(groups[v]) = Len(groups[w])
    BY <1>14
  <2>4. Cardinality(DOMAIN groups) = 2
    <3>1. DOMAIN groups = ids \cup {MetaUser}
      BY <1>11, <2>1
    <3> HIDE DEF ids
    <3>2. Cardinality(DOMAIN groups) = 1 + 1
      BY <2>2, <3>1
    <3> QED
      BY <3>2
  <2> QED
    BY <1>11, <2>3, <2>4 DEF Comparable
<1>16. ASSUME NEW line \in Lines(groups)
       PROVE  \E m \in media : line = {ru(m), rm(m)}
  <2>1. UNION {DOMAIN groups[v] : v \in DOMAIN groups} = DOMAIN rows
    BY <1>8, <1>11, <1>13
  <2>2. \A i : {groups[v][i] : v \in DOMAIN groups} = {groups[u][i], groups[MetaUser][i]}
    BY <1>11
  <2>3. PICK i \in DOMAIN rows : line = {groups[u][i], groups[MetaUser][i]}
    BY <2>1, <2>2 DEF Lines
  <2>4. rows[i].media \in media /\ rows[i] = [user |-> u, media |-> rows[i].media]
    BY <1>4, <1>9
  <2>5. groups[u][i] = rows[i] /\ groups[MetaUser][i] = [user |-> MetaUser, media |-> rows[i].media]
    BY <1>11
  <2> QED
    BY <2>3, <2>4, <2>5 DEF ru, rm
<1>17. \A m \in media :
         /\ {r.user : r \in {ru(m), rm(m)}} = {u, MetaUser}
         /\ \A r, s \in {ru(m), rm(m)} : r.media = s.media
         /\ \A r \in {ru(m), rm(m)} : r \in [user : {u, MetaUser}, media : media]
  BY DEF ru, rm
<1>18. \A line \in Lines(groups) :
         /\ {r.user : r \in line} = {u, MetaUser}
         /\ \A r, s \in line : r.media = s.media
         /\ \A r \in line : r \in [user : {u, MetaUser}, media : media]
  <2> SUFFICES ASSUME NEW line \in Lines(groups)
               PROVE  /\ {r.user : r \in line} = {u, MetaUser}
                      /\ \A r, s \in line : r.media = s.media
                      /\ \A r \in line : r \in [user : {u, MetaUser}, media : media]
    OBVIOUS
  <2>1. PICK m \in media : line = {ru(m), rm(m)}
    BY <1>16
  <2> QED
    BY <1>17, <2>1, Zenon
<1> QED
  BY <1>15, <1>18 DEF AlignedOf, groups, rows
=============================================================================
