----------------------------- MODULE PagedLists -----------------------------
(***************************************************************************)
(* The list endpoints: COUNT, then SELECT ... ORDER BY ... LIMIT ... OFFSET *)
(* with no transaction around the two, in every store.  A client walks the *)
(* pages with the limit and the total of the answers' meta, while others   *)
(* create, delete and retitle rows of the same table and domain.           *)
(*                                                                         *)
(* A listing is the rows the WHERE clause lets through: the search term,   *)
(* like the filters by parent group and by resource, is the set of titles  *)
(* it matches.                                                             *)
(***************************************************************************)
EXTENDS Integers, FiniteSets, Functions

CONSTANTS
    Ids,            \* ids of the rows, which strings order like numbers
    Titles,         \* values of the column the client sorts by
    Searches,       \* what search terms match: sets of titles
    SentLimits,     \* values of ?limit, and NoLimit for none
    NoLimit,
    DefaultLimit,   \* store.DefaultLimit
    MaxLimit,       \* store.MaxLimit
    NoRow

ASSUME ListAssumption ==
    /\ IsFiniteSet(Ids) /\ Ids \subseteq Int /\ Titles \subseteq Int
    /\ NoRow \notin Titles
    /\ Searches \subseteq SUBSET Titles
    /\ SentLimits \subseteq Int \cup {NoLimit}
    /\ DefaultLimit \in Nat /\ MaxLimit \in Nat
    /\ 0 < DefaultLimit /\ DefaultLimit <= MaxLimit

VARIABLES
    rows,       \* id -> its title, or NoRow
    walk,       \* the client's walk
    seen,       \* rows the pages so far have shown
    twice,      \* rows they have shown more than once
    steady,     \* rows in the listing, untouched, since the walk began
    left,       \* a row has left the listing or has moved in it since then
    entered,    \* a row has entered the listing or has moved in it since then
    slipped     \* entered, between the COUNT and the SELECT of this page

history == <<seen, twice, steady, left, entered, slipped>>
vars == <<rows, walk, history>>

Orders == {"asc", "desc"}

\* limit is what the handler parsed; total is the COUNT of this page.
Walk == [pc : {"idle", "count", "select", "done"}, limit : 1..MaxLimit, offset : Nat,
         search : SUBSET Titles, order : Orders, total : Nat]

NoWalk == [pc |-> "idle", limit |-> 1, offset |-> 0, search |-> {}, order |-> "asc", total |-> 0]

----------------------------------------------------------------------------
(* The query.  *)

Matching(search) == { i \in Ids : rows[i] # NoRow /\ rows[i] \in search }
Listing == Matching(walk.search)

\* ORDER BY title <dir>, id <dir>.
Precedes(i, j, order) ==
    \/ order = "asc" /\ (rows[i] < rows[j] \/ (rows[i] = rows[j] /\ i < j))
    \/ order = "desc" /\ (rows[i] > rows[j] \/ (rows[i] = rows[j] /\ i > j))

\* The positions the rows of a listing may have: the database is free to
\* choose among those the clause allows, at every query.
Positions(listing) == Bijection(listing, 0..(Cardinality(listing) - 1))
orderByClause_TitleOnly(listing, order) ==
    { pos \in Positions(listing) :
        \A i, j \in listing : rows[i] # rows[j] /\ Precedes(i, j, order) => pos[i] < pos[j] }
orderByClause(listing, order) ==
    { pos \in Positions(listing) :
        \A i, j \in listing : Precedes(i, j, order) => pos[i] < pos[j] }

\* parseListOpts: the limit is defaulted and clamped.
parseListOpts_NoCap(v) ==
    IF v = NoLimit THEN DefaultLimit ELSE IF v < 1 THEN 1 ELSE v
parseListOpts(v) ==
    IF v = NoLimit THEN DefaultLimit
    ELSE IF v < 1 THEN 1 ELSE IF v > MaxLimit THEN MaxLimit ELSE v

\* The store clamps its copy of the options again.
SanitizeListOpts(limit) ==
    IF limit <= 0 THEN DefaultLimit ELSE IF limit > MaxLimit THEN MaxLimit ELSE limit

----------------------------------------------------------------------------
(* A walk through the pages.  *)

\* The first request of a walk.
StartWalk(v, search, order) ==
    /\ walk.pc = "idle"
    /\ walk' = [pc |-> "count", limit |-> parseListOpts(v), offset |-> 0, search |-> search,
                order |-> order, total |-> 0]
    /\ steady' = Matching(search)
    /\ seen' = {} /\ twice' = {}
    /\ left' = FALSE /\ entered' = FALSE /\ slipped' = FALSE
    /\ UNCHANGED rows

\* SELECT COUNT(*)
Count ==
    /\ walk.pc = "count"
    /\ walk' = [walk EXCEPT !.pc = "select", !.total = Cardinality(Listing)]
    /\ slipped' = FALSE
    /\ UNCHANGED <<rows, seen, twice, steady, left, entered>>

\* The page, with the sanitized limit, and writeList, with the parsed one: the
\* client goes on where the answer says the page ends, up to its total.
Select ==
    /\ walk.pc = "select"
    /\ \E pos \in orderByClause(Listing, walk.order) :
         LET last == walk.offset + SanitizeListOpts(walk.limit)
             page == { i \in Listing : walk.offset <= pos[i] /\ pos[i] < last }
             next == walk.offset + walk.limit
         IN
         /\ walk' = [walk EXCEPT !.pc = IF next < walk.total THEN "count" ELSE "done",
                                 !.offset = next]
         /\ seen' = seen \cup page
         /\ twice' = twice \cup (seen \cap page)
    /\ UNCHANGED <<rows, steady, left, entered, slipped>>

\* A query fails: writeInternalErr, and the client asks for the page again.
Fail ==
    /\ walk.pc = "select"
    /\ walk' = [walk EXCEPT !.pc = "count"]
    /\ UNCHANGED <<rows, history>>

\* The client is done, or gives up.
EndWalk ==
    /\ walk.pc # "idle"
    /\ walk' = NoWalk
    /\ seen' = {} /\ twice' = {} /\ steady' = {}
    /\ left' = FALSE /\ entered' = FALSE /\ slipped' = FALSE
    /\ UNCHANGED rows

----------------------------------------------------------------------------
(* Other clients.  A patch of a title is a SELECT, an UPDATE and a SELECT   *)
(* of its own each; only the UPDATE changes anything.                      *)

\* The rows after a statement, and what that is to the walk.
Write(new) ==
    LET after == { i \in Ids : new[i] # NoRow /\ new[i] \in walk.search }
        moved == { i \in Listing \cap after : new[i] # rows[i] }
        leaves == (Listing \ after) \cup moved
        enters == (after \ Listing) \cup moved
    IN
    /\ rows' = new
    /\ steady' = steady \ leaves
    /\ left' = (left \/ leaves # {})
    /\ entered' = (entered \/ enters # {})
    /\ slipped' = (slipped \/ (walk.pc = "select" /\ enters # {}))
    /\ UNCHANGED <<walk, seen, twice>>

\* The history of a walk that is over does not change any more.
Writable == walk.pc \in {"count", "select"}

Put(new) ==
    \/ Writable /\ Write(new)
    \/ ~ Writable /\ rows' = new /\ UNCHANGED <<walk, history>>

Create(i, title) == rows[i] = NoRow /\ Put([rows EXCEPT ![i] = title])
Patch(i, title) == rows[i] # NoRow /\ Put([rows EXCEPT ![i] = title])
Delete(i) == rows[i] # NoRow /\ Put([rows EXCEPT ![i] = NoRow])

----------------------------------------------------------------------------

Init ==
    /\ rows = [i \in Ids |-> NoRow]
    /\ walk = NoWalk
    /\ seen = {} /\ twice = {} /\ steady = {}
    /\ left = FALSE /\ entered = FALSE /\ slipped = FALSE

Next ==
    \/ \E v \in SentLimits, search \in Searches, order \in Orders : StartWalk(v, search, order)
    \/ Count \/ Select \/ Fail \/ EndWalk
    \/ \E i \in Ids :
          \/ \E title \in Titles : Create(i, title) \/ Patch(i, title)
          \/ Delete(i)

Spec == Init /\ [][Next]_vars

----------------------------------------------------------------------------
(* Properties.  *)

\* A walk that follows the totals shows every row that is in the listing all
\* the time, titles alike or not, unless a row left or moved meanwhile, or one
\* came in after the last COUNT: rows that only come in hide nothing else.
MissesOnlyAfterRemoval ==
    walk.pc = "done" /\ ~ left /\ ~ slipped => steady \subseteq seen

\* A walk shows a row twice only if a row came in or moved meanwhile: rows that
\* only go away repeat nothing, and neither do rows with the same title.
RepeatsOnlyAfterInsertion == twice # {} => entered

=============================================================================
