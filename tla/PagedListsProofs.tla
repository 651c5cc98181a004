-------------------------- MODULE PagedListsProofs --------------------------
(***************************************************************************)
(* What a walk through the pages of a list shows, for any number of rows,  *)
(* titles and page sizes.                                                  *)
(***************************************************************************)
EXTENDS PagedLists, FiniteSetTheorems, TLAPS

TypeInv ==
    /\ rows \in [Ids -> Titles \cup {NoRow}]
    /\ walk \in Walk
    /\ seen \subseteq Ids /\ twice \subseteq Ids /\ steady \subseteq Ids
    /\ left \in BOOLEAN /\ entered \in BOOLEAN /\ slipped \in BOOLEAN

\* Rows of a listing before one of them, with the titles of t.
Ahead(t, listing, i, order) ==
    { j \in listing :
        \/ order = "asc" /\ (t[j] < t[i] \/ (t[j] = t[i] /\ j < i))
        \/ order = "desc" /\ (t[j] > t[i] \/ (t[j] = t[i] /\ j > i)) }

Rank(i) == Cardinality(Ahead(rows, Listing, i, walk.order))

\* What the next page starts from: rows that have not been shown are still
\* ahead while none has gone away, and rows that have been shown are behind
\* while none has come in.
WalkInv ==
    /\ Writable => steady \subseteq Listing
    /\ Writable /\ ~ left => \A i \in steady \ seen : walk.offset <= Rank(i)
    /\ walk.pc = "select" /\ ~ left /\ ~ slipped => Cardinality(Listing) <= walk.total
    /\ Writable /\ ~ entered => \A i \in seen \cap Listing : Rank(i) < walk.offset
    /\ RepeatsOnlyAfterInsertion
    /\ MissesOnlyAfterRemoval

Inv == TypeInv /\ WalkInv

----------------------------------------------------------------------------
(* Positions.  *)

LEMMA ListingType ==
    ASSUME NEW S \in SUBSET Ids
    PROVE  IsFiniteSet(S) /\ Cardinality(S) \in Nat
BY ListAssumption, FS_Subset, FS_CardinalityType

LEMMA AheadType ==
    ASSUME NEW t, NEW S \in SUBSET Ids, NEW i, NEW order
    PROVE  /\ Ahead(t, S, i, order) \in SUBSET S
           /\ IsFiniteSet(Ahead(t, S, i, order))
           /\ Cardinality(Ahead(t, S, i, order)) \in Nat
BY ListingType DEF Ahead

\* A row has a position inside its listing.
LEMMA RankBound ==
    ASSUME NEW t \in [Ids -> Titles \cup {NoRow}], NEW S \in SUBSET Ids, NEW i \in S, NEW order,
           t[i] \in Titles
    PROVE  Cardinality(Ahead(t, S, i, order)) < Cardinality(S)
<1>1. i \notin Ahead(t, S, i, order)
  <2>1. t[i] \in Int /\ i \in Int
      BY ListAssumption
  <2>2. ~ (t[i] < t[i]) /\ ~ (t[i] > t[i]) /\ ~ (i < i) /\ ~ (i > i)
      BY <2>1
  <2> QED
      BY <2>2 DEF Ahead
<1>2. Ahead(t, S, i, order) \in SUBSET S /\ Cardinality(Ahead(t, S, i, order)) \in Nat
    BY AheadType
<1>3. IsFiniteSet(S) /\ Cardinality(S) \in Nat
    BY ListingType
<1>4. /\ Cardinality(Ahead(t, S, i, order)) <= Cardinality(S)
      /\ Cardinality(S) = Cardinality(Ahead(t, S, i, order)) => S = Ahead(t, S, i, order)
    BY <1>2, <1>3, FS_Subset
<1> QED
    BY <1>1, <1>2, <1>3, <1>4

\* Rows that come in put no row further to the front.
LEMMA RankGrows ==
    ASSUME NEW t, NEW u, NEW S \in SUBSET Ids, NEW T \in SUBSET Ids, S \subseteq T,
           \A j \in S : u[j] = t[j], NEW i \in S, NEW order
    PROVE  Cardinality(Ahead(t, S, i, order)) <= Cardinality(Ahead(u, T, i, order))
<1>1. Ahead(t, S, i, order) \in SUBSET Ahead(u, T, i, order)
    BY DEF Ahead
<1>2. IsFiniteSet(Ahead(u, T, i, order))
    BY AheadType
<1> QED
    BY <1>1, <1>2, FS_Subset

\* ORDER BY title, id leaves the database no choice: the position of a row is
\* the number of rows ahead of it.
LEMMA PositionIsRank ==
    ASSUME TypeInv, NEW pos \in orderByClause(Listing, walk.order), NEW i \in Listing
    PROVE  pos[i] = Rank(i)
<1> DEFINE L == Listing
           n == Cardinality(L)
           A == Ahead(rows, L, i, walk.order)
           k == pos[i]
<1>1. L \in SUBSET Ids /\ \A j \in L : rows[j] \in Int /\ j \in Int
    BY ListAssumption DEF Listing, Matching, TypeInv
<1>2. n \in Nat /\ pos \in Bijection(L, 0..(n - 1)) /\ k \in 0..(n - 1)
    BY <1>1, ListingType DEF orderByClause, Positions, Bijection, Injection
<1>3. walk.order \in Orders
    BY DEF TypeInv, Walk
<1>4. \A j \in L : Precedes(j, i, walk.order) => pos[j] < k
    BY DEF orderByClause
<1>5. \A j \in L : Precedes(i, j, walk.order) => k < pos[j]
    BY DEF orderByClause
<1>6. \A j \in L : j # i => Precedes(j, i, walk.order) \/ Precedes(i, j, walk.order)
    BY <1>1, <1>3 DEF Precedes, Orders
<1>7. A = { j \in L : Precedes(j, i, walk.order) }
    BY DEF Ahead, Precedes
<1>8. \A j \in L : pos[j] \in 0..(n - 1)
    BY <1>2 DEF Bijection, Injection
<1>9. A = { j \in L : pos[j] < k }
    BY <1>2, <1>4, <1>5, <1>6, <1>7, <1>8
<1> DEFINE f == [j \in A |-> pos[j]]
<1>10. f \in Bijection(A, 0..(k - 1))
  <2>1. f \in [A -> 0..(k - 1)]
      BY <1>2, <1>8, <1>9
  <2>2. \A a, b \in A : f[a] = f[b] => a = b
      BY <1>2, <1>9 DEF Bijection, Injection, IsInjective
  <2>3. ASSUME NEW m \in 0..(k - 1) PROVE \E j \in A : f[j] = m
    <3>1. m \in 0..(n - 1) /\ m < k
        BY <1>2
    <3>2. PICK j \in L : pos[j] = m
        BY <1>2, <3>1 DEF Bijection, Surjection
    <3>3. j \in A
        BY <1>9, <3>1, <3>2
    <3> QED
        BY <3>2, <3>3
  <2> QED
      BY <2>1, <2>2, <2>3 DEF Bijection, Injection, Surjection, IsInjective
<1>11. IsFiniteSet(A)
    BY <1>1, AheadType
<1>12. Cardinality(0..(k - 1)) = Cardinality(A)
    BY <1>10, <1>11, FS_Bijection DEF ExistsBijection
<1>13. Cardinality(0..(k - 1)) = k
  <2> DEFINE b == k - 1
  <2>1. b \in Int /\ k \in Nat /\ (0 > b => k = 0) /\ (~ (0 > b) => b - 0 + 1 = k)
      BY <1>2
  <2>2. Cardinality(0..b) = IF 0 > b THEN 0 ELSE b - 0 + 1
    <3> HIDE DEF b
    <3> QED
        BY <2>1, FS_Interval
  <2> QED
      BY <2>1, <2>2
<1> QED
    BY <1>12, <1>13 DEF Rank

----------------------------------------------------------------------------
(* The invariant.  *)

LEMMA LimitsParsed ==
    ASSUME NEW v \in SentLimits
    PROVE  parseListOpts(v) \in 1..MaxLimit
BY ListAssumption DEF parseListOpts

LEMMA StartWalkInv ==
    ASSUME Inv, NEW v \in SentLimits, NEW search \in Searches, NEW order \in Orders,
           StartWalk(v, search, order)
    PROVE  Inv'
<1>1. /\ walk'.pc = "count" /\ walk'.offset = 0 /\ walk'.search = search
      /\ walk'.order = order /\ walk' \in Walk
    BY LimitsParsed, ListAssumption DEF StartWalk, Walk
<1>2. TypeInv'
    BY <1>1 DEF Inv, TypeInv, StartWalk, Matching
<1>3. Listing' = Matching(search) /\ Listing' \in SUBSET Ids
    BY <1>1 DEF Listing, Matching, StartWalk
<1>4. \A i \in steady' : 0 <= Rank(i)'
    BY <1>3, AheadType DEF Rank
<1> QED
    BY <1>1, <1>2, <1>3, <1>4
    DEF Inv, WalkInv, StartWalk, Writable, RepeatsOnlyAfterInsertion, MissesOnlyAfterRemoval

LEMMA CountInv ==
    ASSUME Inv, Count
    PROVE  Inv'
<1>1. Listing \in SUBSET Ids /\ Cardinality(Listing) \in Nat
    BY ListingType DEF Listing, Matching
<1>2. /\ walk'.pc = "select" /\ walk'.total = Cardinality(Listing) /\ walk'.offset = walk.offset
      /\ walk'.search = walk.search /\ walk'.order = walk.order /\ walk' \in Walk
    BY <1>1 DEF Inv, TypeInv, Count, Walk
<1>3. TypeInv'
    BY <1>2 DEF Inv, TypeInv, Count
<1>4. Listing' = Listing /\ Cardinality(Listing') <= walk'.total
    BY <1>1, <1>2 DEF Listing, Matching, Count
<1>5. \A i : Rank(i)' = Rank(i)
    BY <1>2, <1>4 DEF Rank, Ahead, Count
<1> QED
    BY <1>2, <1>3, <1>4, <1>5
    DEF Inv, WalkInv, Count, Writable, RepeatsOnlyAfterInsertion, MissesOnlyAfterRemoval

LEMMA SelectInv ==
    ASSUME Inv, Select
    PROVE  Inv'
<1> USE DEF Inv
<1>1. PICK pos \in orderByClause(Listing, walk.order) :
        LET last == walk.offset + SanitizeListOpts(walk.limit)
            page == { i \in Listing : walk.offset <= pos[i] /\ pos[i] < last }
            next == walk.offset + walk.limit
        IN
        /\ walk' = [walk EXCEPT !.pc = IF next < walk.total THEN "count" ELSE "done",
                                !.offset = next]
        /\ seen' = seen \cup page
        /\ twice' = twice \cup (seen \cap page)
    BY DEF Select
<1> DEFINE next == walk.offset + walk.limit
           page == { i \in Listing : walk.offset <= Rank(i) /\ Rank(i) < next }
<1>2. /\ walk.limit \in 1..MaxLimit /\ walk.offset \in Nat /\ walk.total \in Nat
      /\ next \in Nat /\ walk.offset <= next /\ walk \in Walk /\ walk.pc = "select"
    BY ListAssumption DEF TypeInv, Walk, Select
<1>3. SanitizeListOpts(walk.limit) = walk.limit
    BY <1>2, ListAssumption DEF SanitizeListOpts
<1>4. \A i \in Listing : pos[i] = Rank(i)
    BY PositionIsRank
<1>5. /\ walk' = [walk EXCEPT !.pc = IF next < walk.total THEN "count" ELSE "done",
                              !.offset = next]
      /\ seen' = seen \cup page
      /\ twice' = twice \cup (seen \cap page)
    BY <1>1, <1>3, <1>4
<1>6. /\ walk' \in Walk /\ walk'.offset = next /\ walk'.search = walk.search
      /\ walk'.order = walk.order
      /\ walk'.pc = IF next < walk.total THEN "count" ELSE "done"
    BY <1>2, <1>5 DEF Walk
<1>7. /\ rows' = rows /\ steady' = steady /\ left' = left /\ entered' = entered
      /\ slipped' = slipped
    BY DEF Select
<1>8. Listing \in SUBSET Ids
    BY DEF Listing, Matching
<1>9. TypeInv'
    BY <1>5, <1>6, <1>7, <1>8 DEF TypeInv
<1>10. Listing' = Listing
    BY <1>6, <1>7 DEF Listing, Matching
<1>11. \A i : Rank(i)' = Rank(i)
    BY <1>6, <1>7, <1>10 DEF Rank, Ahead
<1>12. \A i \in Listing : Rank(i) \in Nat /\ Rank(i) < Cardinality(Listing)
  <2> SUFFICES ASSUME NEW i \in Listing
               PROVE  Rank(i) \in Nat /\ Rank(i) < Cardinality(Listing)
      OBVIOUS
  <2>1. rows \in [Ids -> Titles \cup {NoRow}] /\ rows[i] \in Titles
      BY DEF TypeInv, Listing, Matching
  <2> QED
      BY <2>1, <1>8, AheadType, RankBound DEF Rank
<1>13. ASSUME ~ left
       PROVE  \A i \in steady \ seen' : next <= Rank(i)
  <2> SUFFICES ASSUME NEW i \in steady, i \notin seen, i \notin page
               PROVE  next <= Rank(i)
      BY <1>5
  <2>1. i \in Listing /\ walk.offset <= Rank(i)
      BY <1>2, <1>13 DEF WalkInv, Writable
  <2> QED
      BY <1>2, <1>12, <2>1
<1>14. ASSUME ~ entered
       PROVE  seen \cap page = {} /\ \A i \in seen' \cap Listing : Rank(i) < next
  <2>1. \A i \in seen \cap Listing : Rank(i) < walk.offset
      BY <1>2, <1>14 DEF WalkInv, Writable
  <2>2. seen \cap page = {}
      BY <1>2, <1>12, <2>1
  <2>3. \A i \in seen' \cap Listing : Rank(i) < next
      BY <1>2, <1>5, <1>12, <2>1
  <2> QED
      BY <2>2, <2>3
<1>15. RepeatsOnlyAfterInsertion'
    BY <1>5, <1>7, <1>14 DEF WalkInv, RepeatsOnlyAfterInsertion
<1>16. ASSUME ~ (next < walk.total), ~ left, ~ slipped
       PROVE  steady \subseteq seen'
  <2> SUFFICES ASSUME NEW i \in steady, i \notin seen'
               PROVE  FALSE
      OBVIOUS
  <2>1. i \in Listing /\ Cardinality(Listing) <= walk.total
      BY <1>2, <1>16 DEF WalkInv, Writable
  <2>2. next <= Rank(i) /\ Rank(i) \in Nat /\ Rank(i) < Cardinality(Listing)
      BY <1>12, <1>13, <1>16, <2>1
  <2>3. Cardinality(Listing) \in Nat
      BY <1>8, ListingType
  <2> QED
      BY <1>2, <1>16, <2>1, <2>2, <2>3
<1>17. MissesOnlyAfterRemoval'
    BY <1>6, <1>7, <1>16 DEF MissesOnlyAfterRemoval
<1>18. Writable' => steady' \subseteq Listing'
    BY <1>2, <1>7, <1>10 DEF WalkInv, Writable
<1>19. walk'.pc # "select"
    BY <1>6
<1> QED
    BY <1>6, <1>7, <1>9, <1>10, <1>11, <1>13, <1>14, <1>15, <1>17, <1>18, <1>19
    DEF WalkInv

LEMMA FailInv ==
    ASSUME Inv, Fail
    PROVE  Inv'
<1>1. /\ walk'.pc = "count" /\ walk.pc = "select" /\ walk'.offset = walk.offset
      /\ walk'.search = walk.search /\ walk'.order = walk.order /\ walk' \in Walk
    BY DEF Inv, TypeInv, Fail, Walk
<1>2. TypeInv'
    BY <1>1 DEF Inv, TypeInv, Fail, history
<1>3. Listing' = Listing
    BY <1>1 DEF Listing, Matching, Fail
<1>4. \A i : Rank(i)' = Rank(i)
    BY <1>1, <1>3 DEF Rank, Ahead, Fail
<1> QED
    BY <1>1, <1>2, <1>3, <1>4
    DEF Inv, WalkInv, Fail, history, Writable, RepeatsOnlyAfterInsertion, MissesOnlyAfterRemoval

LEMMA EndWalkInv ==
    ASSUME Inv, EndWalk
    PROVE  Inv'
<1>1. NoWalk \in Walk
    BY ListAssumption DEF NoWalk, Walk, Orders
<1> QED
    BY <1>1 DEF Inv, TypeInv, WalkInv, EndWalk, NoWalk, Writable,
                RepeatsOnlyAfterInsertion, MissesOnlyAfterRemoval

\* A statement of another client.
LEMMA WriteInv ==
    ASSUME Inv, NEW new \in [Ids -> Titles \cup {NoRow}], Writable, Write(new)
    PROVE  Inv'
<1> USE DEF Inv
<1> DEFINE after == { i \in Ids : new[i] # NoRow /\ new[i] \in walk.search }
           moved == { i \in Listing \cap after : new[i] # rows[i] }
           leaves == (Listing \ after) \cup moved
           enters == (after \ Listing) \cup moved
<1>1. /\ rows' = new /\ walk' = walk /\ seen' = seen /\ twice' = twice
      /\ steady' = steady \ leaves
      /\ left' = (left \/ leaves # {})
      /\ entered' = (entered \/ enters # {})
      /\ slipped' = (slipped \/ (walk.pc = "select" /\ enters # {}))
    BY DEF Write
<1>2. TypeInv'
    BY <1>1 DEF TypeInv
<1>3. Listing' = after /\ Listing \in SUBSET Ids /\ after \in SUBSET Ids
    BY <1>1 DEF Listing, Matching
<1>4. walk.pc \in {"count", "select"} /\ walk.offset \in Nat
    BY DEF Writable, TypeInv, Walk
<1>5. steady \subseteq Listing /\ steady' \subseteq Listing'
    BY <1>1, <1>3 DEF WalkInv
<1>6. \A i : /\ Rank(i) = Cardinality(Ahead(rows, Listing, i, walk.order))
             /\ Rank(i)' = Cardinality(Ahead(new, after, i, walk.order))
             /\ Rank(i) \in Nat /\ Rank(i)' \in Nat
    BY <1>1, <1>3, AheadType DEF Rank
<1>7. ASSUME ~ left'
      PROVE  \A i \in steady' \ seen' : walk'.offset <= Rank(i)'
  <2>1. leaves = {} /\ ~ left /\ Listing \subseteq after
      BY <1>1, <1>7
  <2>2. \A i \in Listing : new[i] = rows[i]
      BY <2>1
  <2>3. \A i \in Listing : Rank(i) <= Rank(i)'
      BY <1>3, <1>6, <2>1, <2>2, RankGrows
  <2>4. \A i \in steady \ seen : walk.offset <= Rank(i)
      BY <2>1 DEF WalkInv
  <2> QED
      BY <1>1, <1>4, <1>5, <1>6, <2>3, <2>4
<1>8. ASSUME ~ entered'
      PROVE  \A i \in seen' \cap Listing' : Rank(i)' < walk'.offset
  <2>1. enters = {} /\ ~ entered /\ after \subseteq Listing
      BY <1>1, <1>8
  <2>2. \A i \in after : rows[i] = new[i]
      BY <2>1
  <2>3. \A i \in after : Rank(i)' <= Rank(i)
      BY <1>3, <1>6, <2>1, <2>2, RankGrows
  <2>4. \A i \in seen \cap Listing : Rank(i) < walk.offset
      BY <2>1 DEF WalkInv
  <2> QED
      BY <1>1, <1>3, <1>4, <1>6, <2>1, <2>3, <2>4
<1>9. ASSUME walk'.pc = "select", ~ left', ~ slipped'
      PROVE  Cardinality(Listing') <= walk'.total
  <2>1. leaves = {} /\ enters = {} /\ ~ left /\ ~ slipped /\ walk.pc = "select"
      BY <1>1, <1>9
  <2>2. Listing' = Listing
      BY <1>3, <2>1
  <2> QED
      BY <1>1, <2>1, <2>2 DEF WalkInv
<1>10. RepeatsOnlyAfterInsertion'
    BY <1>1 DEF WalkInv, RepeatsOnlyAfterInsertion
<1>11. MissesOnlyAfterRemoval'
    BY <1>1, <1>4 DEF MissesOnlyAfterRemoval
<1> QED
    BY <1>2, <1>5, <1>7, <1>8, <1>9, <1>10, <1>11 DEF WalkInv

LEMMA PutInv ==
    ASSUME Inv, NEW new \in [Ids -> Titles \cup {NoRow}], Put(new)
    PROVE  Inv'
<1>1. CASE Writable /\ Write(new)
    BY <1>1, WriteInv
<1>2. CASE ~ Writable /\ rows' = new /\ UNCHANGED <<walk, history>>
    BY <1>2 DEF Inv, TypeInv, WalkInv, history, Writable,
                RepeatsOnlyAfterInsertion, MissesOnlyAfterRemoval
<1> QED
    BY <1>1, <1>2 DEF Put

LEMMA InvStep ==
    Inv /\ [Next]_vars => Inv'
<1> SUFFICES ASSUME Inv, [Next]_vars PROVE Inv'
    OBVIOUS
<1> USE DEF Inv
<1>1. CASE \E v \in SentLimits, search \in Searches, order \in Orders :
              StartWalk(v, search, order)
    BY <1>1, StartWalkInv
<1>2. CASE Count
    BY <1>2, CountInv
<1>3. CASE Select
    BY <1>3, SelectInv
<1>4. CASE Fail
    BY <1>4, FailInv
<1>5. CASE EndWalk
    BY <1>5, EndWalkInv
<1>6. CASE \E i \in Ids : \/ \E title \in Titles : Create(i, title) \/ Patch(i, title)
                          \/ Delete(i)
  <2>1. PICK i \in Ids, value \in Titles \cup {NoRow} : Put([rows EXCEPT ![i] = value])
      BY <1>6 DEF Create, Patch, Delete
  <2>2. [rows EXCEPT ![i] = value] \in [Ids -> Titles \cup {NoRow}]
      BY DEF TypeInv
  <2> QED
      BY <2>1, <2>2, PutInv
<1>7. CASE UNCHANGED vars
  <2>1. Listing' = Listing /\ \A i : Rank(i)' = Rank(i)
      BY <1>7 DEF vars, Listing, Matching, Rank, Ahead
  <2> QED
      BY <1>7, <2>1 DEF vars, history, TypeInv, WalkInv, Writable,
                        RepeatsOnlyAfterInsertion, MissesOnlyAfterRemoval
<1> QED
    BY <1>1, <1>2, <1>3, <1>4, <1>5, <1>6, <1>7 DEF Next

LEMMA InvInit == Init => Inv
<1> SUFFICES ASSUME Init PROVE Inv
    OBVIOUS
<1>1. NoWalk \in Walk
    BY ListAssumption DEF NoWalk, Walk, Orders
<1> QED
    BY <1>1 DEF Init, Inv, TypeInv, WalkInv, NoWalk, Writable,
                RepeatsOnlyAfterInsertion, MissesOnlyAfterRemoval

----------------------------------------------------------------------------

\* A client that walks the pages of any list misses a row that stays where it
\* is only if others took rows away or added one after the last COUNT, however
\* many rows share a title and whatever limit it asks for.
THEOREM WalksMissNothing == Spec => []MissesOnlyAfterRemoval
<1>1. Inv => MissesOnlyAfterRemoval
    BY DEF Inv, WalkInv
<1> QED
    BY <1>1, InvInit, InvStep, PTL DEF Spec

\* It sees a row twice only if others added or moved rows.
THEOREM WalksRepeatNothing == Spec => []RepeatsOnlyAfterInsertion
<1>1. Inv => RepeatsOnlyAfterInsertion
    BY DEF Inv, WalkInv
<1> QED
    BY <1>1, InvInit, InvStep, PTL DEF Spec

=============================================================================
