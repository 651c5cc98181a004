---------------------------- MODULE AuthzListings ----------------------------
(***************************************************************************)
(* The four authorization listings of the Postgres and MySQL stores.  A    *)
(* listing is a sequence of queries with no transaction around them: every *)
(* other call may run between two of them.  Listings write nothing, so one *)
(* of them is followed here, against all other calls.  The two group       *)
(* listings of the SQLite store make the same queries.                     *)
(*                                                                         *)
(* The page is the whole result: LIMIT and OFFSET are left out, and so is  *)
(* the COUNT query, whose value is only reported.                          *)
(***************************************************************************)
EXTENDS PooledCalls

CONSTANTS
    Listings,   \* the listings that are called, among AllListings
    NoCall      \* no listing is under way

AllListings == { "UserAuthzResourcesList", "GroupAuthzResourcesList",
                 "ResourceAuthzGroupsList", "ResourceAuthzUsersList" }

ASSUME ListingsAssumption == Listings \subseteq AllListings

VARIABLES
    call,       \* the listing under way, or NoCall
    held,       \* item -> bits the subject and item share since the call began
    seen        \* item -> bits they shared at some moment since it began

vars == <<tables, call, held, seen>>

Ids == Users \cup Groups \cup Resources

----------------------------------------------------------------------------
(* The queries.  A subject is the id in the path, an item an id of the page. *)

\* The OR of the positive masks of the permissions on r that g holds.
GroupMask(d, g, r) ==
    UNION { maskFromSQL(permissions[p].mask) :
              p \in { q \in Permissions :
                        /\ PermissionIn(q, d) /\ permissions[q].resource = r
                        /\ \E e \in Domains : <<e, g, q>> \in group_permissions } }

\* The same for the two halves of a user's mask.
DirectMask(d, u, r) ==
    UNION { maskFromSQL(permissions[p].mask) :
              p \in { q \in Permissions :
                        /\ PermissionIn(q, d) /\ permissions[q].resource = r
                        /\ \E e \in Domains : <<e, u, q>> \in user_permissions } }
IndirectMask(d, u, r) ==
    UNION { GroupMask(d, g, r) :
              g \in { h \in Groups : \E e \in Domains : <<e, u, h>> \in group_members } }

Items(listing) ==
    CASE listing = "ResourceAuthzGroupsList" -> Groups
      [] listing = "ResourceAuthzUsersList" -> Users
      [] OTHER -> Resources

\* The mask of an item, as the listing's page and mask queries see it now.
MaskOf(listing, d, s, i) ==
    CASE listing = "UserAuthzResourcesList" -> CombinedMask(<<d, s, i>>)
      [] listing = "GroupAuthzResourcesList" -> GroupMask(d, s, i)
      [] listing = "ResourceAuthzGroupsList" -> GroupMask(d, i, s)
      [] listing = "ResourceAuthzUsersList" -> IF UserIn(i, d) THEN CombinedMask(<<d, i, s>>) ELSE {}

\* SELECT 1 FROM users, groups or resources WHERE id = ? AND domain_id = ?
SubjectIn(listing, s, d) ==
    CASE listing = "UserAuthzResourcesList" -> UserIn(s, d)
      [] listing = "GroupAuthzResourcesList" -> GroupIn(s, d)
      [] OTHER -> resources[s] = d

----------------------------------------------------------------------------
(* A call, query by query.  *)

Active == call # NoCall

CurrentMask(i) ==
    IF i \in Items(call.listing) THEN MaskOf(call.listing, call.domain, call.subject, i) ELSE {}

NoBits == [i \in Ids |-> {}]

\* The call returns, its answer is read, and the client goes its way.
Finish ==
    /\ call' = NoCall
    /\ held' = NoBits /\ seen' = NoBits

Advance(next) ==
    /\ call' = next
    /\ UNCHANGED <<held, seen>>

Begin(listing, d, s) ==
    /\ ~ Active /\ listing \in Listings
    /\ UNCHANGED tables
    /\ call' = [listing |-> listing, domain |-> d, subject |-> s, pc |-> "domain",
                page |-> {}, masks |-> NoBits]
    /\ held' = [i \in Ids |-> CurrentMask(i)']
    /\ seen' = [i \in Ids |-> CurrentMask(i)']

\* The listings start alike and differ in the queries named above.
UserAuthzResourcesList(d, u) == Begin("UserAuthzResourcesList", d, u)
GroupAuthzResourcesList(d, g) == Begin("GroupAuthzResourcesList", d, g)
ResourceAuthzGroupsList(d, r) == Begin("ResourceAuthzGroupsList", d, r)
ResourceAuthzUsersList(d, r) == Begin("ResourceAuthzUsersList", d, r)

CheckDomain ==
    /\ Active /\ call.pc = "domain"
    /\ \/ call.domain \notin domains /\ Finish
       \/ call.domain \in domains /\ Advance([call EXCEPT !.pc = "subject"])
    /\ UNCHANGED tables

CheckSubject ==
    /\ Active /\ call.pc = "subject"
    /\ LET found == SubjectIn(call.listing, call.subject, call.domain) IN
       \/ ~ found /\ Finish
       \/ found /\ Advance([call EXCEPT !.pc = "page"])
    /\ UNCHANGED tables

\* The page query of UserAuthzResourcesList without its group half.
SelectPage_DirectOnly ==
    LET Listed(i) == IF call.listing = "UserAuthzResourcesList"
                     THEN DirectMask(call.domain, call.subject, i) # {}
                     ELSE CurrentMask(i) # {}
        page == { i \in Items(call.listing) : Listed(i) }
        label == IF page = {} THEN "done"
                 ELSE IF call.listing = "ResourceAuthzUsersList" THEN "direct" ELSE "masks"
    IN
    /\ Active /\ call.pc = "page"
    /\ Advance([call EXCEPT !.page = page, !.pc = label])
    /\ UNCHANGED tables
\* The ids with a positive mask; an empty page is returned at once.
SelectPage ==
    LET page == { i \in Items(call.listing) : CurrentMask(i) # {} }
        label == IF page = {} THEN "done"
                 ELSE IF call.listing = "ResourceAuthzUsersList" THEN "direct" ELSE "masks"
    IN
    /\ Active /\ call.pc = "page"
    /\ Advance([call EXCEPT !.page = page, !.pc = label])
    /\ UNCHANGED tables

SelectMasks ==
    /\ Active /\ call.pc = "masks"
    /\ Advance([call EXCEPT !.pc = "done",
                            !.masks = [i \in Ids |-> IF i \in call.page THEN CurrentMask(i) ELSE {}]])
    /\ UNCHANGED tables

\* scanUserMasks twice: the query over user_permissions, then the query over
\* group_members.
SelectDirectMasks ==
    /\ Active /\ call.pc = "direct"
    /\ Advance([call EXCEPT !.pc = "indirect",
                            !.masks = [i \in Ids |-> IF i \in call.page
                                                     THEN DirectMask(call.domain, i, call.subject)
                                                     ELSE {}]])
    /\ UNCHANGED tables

\* The second scan without the filter on the permission's resource.
SelectIndirectMasks_AnyResource ==
    /\ Active /\ call.pc = "indirect"
    /\ Advance([call EXCEPT !.pc = "done",
                            !.masks = [i \in Ids |-> IF i \in call.page
                                          THEN call.masks[i] \cup UNION { IndirectMask(call.domain, i, r) : r \in Resources }
                                          ELSE {}]])
    /\ UNCHANGED tables
SelectIndirectMasks ==
    /\ Active /\ call.pc = "indirect"
    /\ Advance([call EXCEPT !.pc = "done",
                            !.masks = [i \in Ids |-> IF i \in call.page
                                          THEN call.masks[i] \cup IndirectMask(call.domain, i, call.subject)
                                          ELSE {}]])
    /\ UNCHANGED tables

Return ==
    /\ Active /\ call.pc = "done"
    /\ Finish
    /\ UNCHANGED tables

\* The request's context is cancelled, or a query fails.
Cancel ==
    /\ Active
    /\ Finish
    /\ UNCHANGED tables

\* The UPDATE of another client's PermissionPatch, committed.
PatchCommits ==
    \E d \in Domains, p \in Permissions, r \in Resources, m \in Masks :
        FitsInt64(m) /\ UpdatePermission(d, p, r, m)

\* A call of another client changes the tables.
OtherCall ==
    /\ SingleCall \/ PatchCommits
    /\ UNCHANGED call
    /\ \/ ~ Active /\ UNCHANGED <<held, seen>>
       \/ /\ Active
          /\ held' = [i \in Ids |-> held[i] \cap CurrentMask(i)']
          /\ seen' = [i \in Ids |-> seen[i] \cup CurrentMask(i)']

----------------------------------------------------------------------------

Init ==
    /\ EmptyTables
    /\ call = NoCall
    /\ held = NoBits /\ seen = NoBits

Queries ==
    \/ CheckDomain \/ CheckSubject \/ SelectPage
    \/ SelectMasks \/ SelectDirectMasks \/ SelectIndirectMasks
    \/ Return

Start(d) ==
    \/ \E u \in Users : UserAuthzResourcesList(d, u)
    \/ \E g \in Groups : GroupAuthzResourcesList(d, g)
    \/ \E r \in Resources : ResourceAuthzGroupsList(d, r) \/ ResourceAuthzUsersList(d, r)

Next ==
    \/ OtherCall
    \/ \E d \in Domains : Start(d)
    \/ Queries
    \/ Cancel

Spec == Init /\ [][Next]_vars

----------------------------------------------------------------------------
(* Properties of an answer that is about to be returned.  *)

Answered == Active /\ call.pc = "done"

\* No listing reports a bit nobody granted: each bit of each item was in force
\* at some moment of the call.
NoPhantomBits == Answered => \A i \in Ids : call.masks[i] \subseteq seen[i]

\* What was in force from the beginning to the end of the call is reported by
\* the listings that read a mask in one query: the page and the masks are read
\* at different moments, and still no bit held throughout is missed.
\* ResourceAuthzUsersList, which reads direct and group grants in two queries,
\* does miss a bit that moves from a group grant to a direct one in between.
SteadyBitsInOneQuery ==
    Answered /\ call.listing # "ResourceAuthzUsersList" =>
        \A i \in Ids : held[i] \subseteq call.masks[i]

=============================================================================
