------------------------- MODULE AuthzListingsProofs -------------------------
(***************************************************************************)
(* Proofs about the authorization listings of the pooled stores, for every *)
(* set of ids and bits: whatever other clients do between the queries of a *)
(* listing, no bit is reported that was not in force at some moment of the *)
(* call, and a listing that reads masks in one query misses no bit that    *)
(* was in force throughout.                                                *)
(***************************************************************************)
EXTENDS AuthzListings, SchemaProofs

----------------------------------------------------------------------------
(* Every step is a statement of the schema or leaves the tables alone.  *)

\* A call of one statement is that statement.
LEMMA CallIsStatement ==
    ASSUME SingleCall
    PROVE  Statement
<1>1. PICK d \in Domains : EntityCall(d) \/ AuthzCall(d)
  BY DEF SingleCall
<1>2. CASE EntityCall(d)
  BY <1>2 DEF EntityCall, Statement, EntityStatement, GroupStatement, PermissionStatement,
     DomainCreate, DomainDelete, UserCreate, UserDelete, ResourceCreate, ResourceDelete,
     GroupCreate, GroupDelete, PermissionCreate, PermissionDelete
<1>3. CASE AuthzCall(d)
  BY <1>3 DEF AuthzCall, Statement, JunctionStatement, AddUserToGroup, RemoveUserFromGroup,
     GrantUserPermission, RevokeUserPermission, GrantGroupPermission, RevokeGroupPermission
<1> QED BY <1>1, <1>2, <1>3

\* Listings write nothing.
LEMMA StepIsStatement ==
    ASSUME [Next]_vars
    PROVE  [Statement]_tables
<1>1. CASE OtherCall
  <2>1. PatchCommits => Statement
    BY DEF PatchCommits, Statement, PermissionStatement
  <2> QED BY <1>1, <2>1, CallIsStatement DEF OtherCall
<1>2. CASE ~ OtherCall
  BY <1>2 DEF Next, vars, Start, UserAuthzResourcesList, GroupAuthzResourcesList,
     ResourceAuthzGroupsList, ResourceAuthzUsersList, Begin, Queries, CheckDomain, CheckSubject,
     SelectPage, SelectMasks, SelectDirectMasks, SelectIndirectMasks, Return, Cancel
<1> QED BY <1>1, <1>2

\* Listings and the calls around them are a program of the schema's statements.
THEOREM ListingsImplementTables == Spec => Tables
<1>1. Init => EmptyTables
  BY DEF Init
<1>2. [Next]_vars => [Statement]_tables
  BY StepIsStatement
<1> QED BY <1>1, <1>2, PTL DEF Spec, Tables

----------------------------------------------------------------------------
(* What a query of a listing sees.  *)

\* The mask of item i for the call c.
ItemMask(c, i) ==
    IF i \in Items(c.listing) THEN MaskOf(c.listing, c.domain, c.subject, i) ELSE {}

\* Each of the two scans of ResourceAuthzUsersList finds a part of the user's
\* mask, and none for a user of another domain, although neither filters on
\* the domain of the junction row.
LEMMA ScansFindParts ==
    ASSUME JunctionsInOneDomain, NEW d \in Domains, NEW u \in Users, NEW r
    PROVE  /\ DirectMask(d, u, r) \subseteq IF UserIn(u, d) THEN CombinedMask(<<d, u, r>>) ELSE {}
           /\ IndirectMask(d, u, r) \subseteq IF UserIn(u, d) THEN CombinedMask(<<d, u, r>>) ELSE {}
<1> DEFINE k == <<d, u, r>>
<1>1. k[1] = d /\ k[2] = u /\ k[3] = r
  OBVIOUS
<1>2. ASSUME NEW q \in Permissions, PermissionIn(q, d), permissions[q].resource = r, HeldBy(q, u)
      PROVE  maskFromSQL(permissions[q].mask) \subseteq CombinedMask(k)
  BY <1>1, <1>2 DEF CombinedMask
<1>3. ASSUME NEW q \in Permissions, PermissionIn(q, d), NEW e \in Domains,
             <<e, u, q>> \in user_permissions
      PROVE  UserIn(u, d) /\ HeldBy(q, u)
  <2>1. UserIn(u, e) /\ PermissionIn(q, e)
    BY <1>3 DEF JunctionsInOneDomain
  <2> QED BY <1>3, <2>1 DEF PermissionIn, HeldBy
<1>4. ASSUME NEW q \in Permissions, PermissionIn(q, d), NEW e \in Domains, NEW f \in Domains,
             NEW g \in Groups, <<e, g, q>> \in group_permissions, <<f, u, g>> \in group_members
      PROVE  UserIn(u, d) /\ HeldBy(q, u)
  <2>1. GroupIn(g, e) /\ PermissionIn(q, e) /\ UserIn(u, f) /\ GroupIn(g, f)
    BY <1>4 DEF JunctionsInOneDomain
  <2> QED BY <1>4, <2>1 DEF PermissionIn, GroupIn, HeldBy
<1> HIDE DEF k
<1>5. ASSUME NEW b \in DirectMask(d, u, r) PROVE UserIn(u, d) /\ b \in CombinedMask(k)
  <2>1. PICK q \in Permissions, e \in Domains :
          /\ PermissionIn(q, d) /\ permissions[q].resource = r
          /\ <<e, u, q>> \in user_permissions /\ b \in maskFromSQL(permissions[q].mask)
    BY <1>5 DEF DirectMask
  <2> QED BY <1>2, <1>3, <2>1
<1>6. ASSUME NEW b \in IndirectMask(d, u, r) PROVE UserIn(u, d) /\ b \in CombinedMask(k)
  <2>1. PICK g \in Groups, f \in Domains :
          <<f, u, g>> \in group_members /\ b \in GroupMask(d, g, r)
    BY <1>6 DEF IndirectMask
  <2>2. PICK q \in Permissions, e \in Domains :
          /\ PermissionIn(q, d) /\ permissions[q].resource = r
          /\ <<e, g, q>> \in group_permissions /\ b \in maskFromSQL(permissions[q].mask)
    BY <2>1 DEF GroupMask
  <2> QED BY <1>2, <1>4, <2>1, <2>2
<1> QED BY <1>5, <1>6 DEF k

----------------------------------------------------------------------------
(* The invariant of a call under way.  *)

CallType ==
    [listing : AllListings, domain : Domains, subject : Ids,
     pc : {"domain", "subject", "page", "masks", "direct", "indirect", "done"},
     page : SUBSET Ids, masks : [Ids -> SUBSET Bits]]

\* The bits held throughout are in force, and those in force have been seen;
\* so have the bits reported.  An item that is not on the page holds nothing
\* throughout, and the one mask query reports everything that is.
Faithful(c) ==
    /\ c \in CallType
    /\ c.pc \in {"direct", "indirect"} => c.listing = "ResourceAuthzUsersList"
    /\ c.page \subseteq Items(c.listing)
    /\ \A i \in Ids :
          /\ held[i] \subseteq ItemMask(c, i) /\ ItemMask(c, i) \subseteq seen[i]
          /\ c.masks[i] \subseteq seen[i]
          /\ c.pc \in {"masks", "direct", "indirect", "done"} /\ i \notin c.page => held[i] = {}
          /\ c.pc = "done" /\ c.listing # "ResourceAuthzUsersList" => held[i] \subseteq c.masks[i]

CallInv == Active => Faithful(call)

\* Masks of items are masks.
LEMMA ItemMaskType ==
    ASSUME TablesOK, NEW c \in CallType, NEW i
    PROVE  ItemMask(c, i) \in SUBSET Bits
<1>1. \A k : CombinedMask(k) \in SUBSET Bits
  BY CombinedMaskFits DEF TablesOK, Masks
<1>2. \A d, g, r : GroupMask(d, g, r) \in SUBSET Bits
  <2>1. ASSUME NEW q \in Permissions, permissions[q] # NoRow
        PROVE  maskFromSQL(permissions[q].mask) \in SUBSET Bits
    BY <2>1 DEF TablesOK, PermissionRow, Masks, maskFromSQL
  <2> QED BY <2>1 DEF GroupMask, PermissionIn
<1>3. c.listing \in AllListings
  BY DEF CallType
<1> QED BY <1>1, <1>2, <1>3 DEF ItemMask, MaskOf, AllListings

\* Unchanged tables have the same masks.
LEMMA SameMasks ==
    ASSUME UNCHANGED tables, NEW c \in CallType, NEW i
    PROVE  ItemMask(c, i)' = ItemMask(c, i)
<1>1. UNCHANGED <<users, permissions, user_permissions, group_permissions, group_members>>
  BY DEF tables, entities, junctions
<1>2. \A k : CombinedMask(k)' = CombinedMask(k)
  BY <1>1 DEF CombinedMask, HeldBy, PermissionIn
<1>3. \A d, g, r : GroupMask(d, g, r)' = GroupMask(d, g, r)
  BY <1>1 DEF GroupMask, PermissionIn
<1>4. \A d : UserIn(i, d)' <=> UserIn(i, d)
  BY <1>1 DEF UserIn
<1>5. c.listing \in AllListings
  BY DEF CallType
<1> QED BY <1>2, <1>3, <1>4, <1>5 DEF ItemMask, MaskOf, AllListings

\* A step of the listing itself, to the record c of the same call.
LEMMA AdvanceKeeps ==
    ASSUME TablesOK, CallInv, Active, UNCHANGED tables, NEW c, Advance(c), c \in CallType,
           c.listing = call.listing, c.domain = call.domain, c.subject = call.subject,
           c.pc \in {"direct", "indirect"} => c.listing = "ResourceAuthzUsersList",
           c.page \subseteq Items(c.listing),
           \A i \in Ids :
              /\ c.masks[i] \subseteq seen[i]
              /\ c.pc \in {"masks", "direct", "indirect", "done"} /\ i \notin c.page => held[i] = {}
              /\ c.pc = "done" /\ c.listing # "ResourceAuthzUsersList" => held[i] \subseteq c.masks[i]
    PROVE  CallInv'
<1>1. Faithful(call) /\ call' = c /\ UNCHANGED <<held, seen>>
  BY DEF CallInv, Advance
<1>2. \A i : ItemMask(c, i) = ItemMask(call, i) /\ ItemMask(c, i)' = ItemMask(c, i)
  BY SameMasks DEF ItemMask
<1>3. Faithful(c)'
  BY <1>1, <1>2 DEF Faithful
<1> QED BY <1>1, <1>3 DEF CallInv

\* The queries of a listing, one after the other.
LEMMA QueriesKeep ==
    ASSUME TablesOK, JunctionsInOneDomain, CallInv, Queries
    PROVE  CallInv'
<1>1. Active /\ UNCHANGED tables /\ Faithful(call) /\ call \in CallType
  BY DEF Queries, CheckDomain, CheckSubject, SelectPage, SelectMasks, SelectDirectMasks,
     SelectIndirectMasks, Return, CallInv, Faithful
<1>2. /\ call.listing \in AllListings /\ call.domain \in Domains /\ call.page \in SUBSET Ids
      /\ call.masks \in [Ids -> SUBSET Bits]
  BY <1>1 DEF CallType
<1>3. \A i : CurrentMask(i) = ItemMask(call, i) /\ CurrentMask(i) \in SUBSET Bits
  BY <1>1, ItemMaskType DEF CurrentMask, ItemMask
<1>4. Finish => CallInv'
  BY DEF Finish, CallInv, Active
<1>5. ASSUME NEW pc \in {"subject", "page"}, Advance([call EXCEPT !.pc = pc])
      PROVE  CallInv'
  <2>1. PICK c : c = [call EXCEPT !.pc = pc]
    OBVIOUS
  <2>2. /\ c \in CallType /\ c.listing = call.listing /\ c.domain = call.domain
        /\ c.subject = call.subject /\ c.pc = pc /\ c.page = call.page /\ c.masks = call.masks
    BY <1>1, <2>1 DEF CallType
  <2>3. \A i \in Ids : c.masks[i] \subseteq seen[i]
    BY <1>1, <2>2 DEF Faithful
  <2>4. c.page \subseteq Items(c.listing)
    BY <1>1, <2>2 DEF Faithful
  <2> QED BY <1>1, <1>5, <2>1, <2>2, <2>3, <2>4, AdvanceKeeps
<1>6. CASE SelectPage
  <2> DEFINE page == { i \in Items(call.listing) : CurrentMask(i) # {} }
             label == IF page = {} THEN "done"
                      ELSE IF call.listing = "ResourceAuthzUsersList" THEN "direct" ELSE "masks"
  <2>1. PICK c : c = [call EXCEPT !.page = page, !.pc = label]
    OBVIOUS
  <2>2. Advance(c)
    BY <1>6, <2>1 DEF SelectPage
  <2>3. page \in SUBSET Ids /\ page \subseteq Items(call.listing)
    BY DEF Items, Ids
  <2>4. /\ label \in {"done", "direct", "masks"}
        /\ label = "done" => page = {}
        /\ label = "direct" => call.listing = "ResourceAuthzUsersList"
    OBVIOUS
  <2>5. \A i \in Ids : i \notin page => held[i] = {}
    BY <1>1, <1>3 DEF Faithful, CurrentMask
  <2> HIDE DEF page, label
  <2>6. /\ c \in CallType /\ c.listing = call.listing /\ c.domain = call.domain
        /\ c.subject = call.subject /\ c.pc = label /\ c.page = page /\ c.masks = call.masks
    BY <1>1, <2>1, <2>3, <2>4 DEF CallType
  <2>7. \A i \in Ids :
              /\ c.masks[i] \subseteq seen[i]
              /\ i \notin c.page => held[i] = {}
              /\ c.pc = "done" => held[i] \subseteq c.masks[i]
    BY <1>1, <2>4, <2>5, <2>6 DEF Faithful
  <2> QED BY <1>1, <2>2, <2>3, <2>4, <2>6, <2>7, AdvanceKeeps
<1>7. ASSUME NEW pc \in {"indirect", "done"}, NEW masks \in [Ids -> SUBSET Bits],
             Advance([call EXCEPT !.pc = pc, !.masks = masks]),
             call.pc \in {"masks", "direct", "indirect"},
             pc = "indirect" => call.listing = "ResourceAuthzUsersList",
             \A i \in Ids :
                 /\ masks[i] \subseteq seen[i]
                 /\ call.listing # "ResourceAuthzUsersList" => held[i] \subseteq masks[i]
      PROVE  CallInv'
  <2>1. PICK c : c = [call EXCEPT !.pc = pc, !.masks = masks]
    OBVIOUS
  <2>2. /\ c \in CallType /\ c.listing = call.listing /\ c.domain = call.domain
        /\ c.subject = call.subject /\ c.pc = pc /\ c.page = call.page /\ c.masks = masks
    BY <1>1, <1>7, <2>1 DEF CallType
  <2>3. c.page \subseteq Items(c.listing) /\ \A i \in Ids \ c.page : held[i] = {}
    BY <1>1, <1>7, <2>2 DEF Faithful
  <2> QED BY <1>1, <1>7, <2>1, <2>2, <2>3, AdvanceKeeps
<1>8. CASE SelectMasks
  <2>1. PICK masks : masks = [i \in Ids |-> IF i \in call.page THEN CurrentMask(i) ELSE {}]
    OBVIOUS
  <2>2. masks \in [Ids -> SUBSET Bits]
    BY <1>3, <2>1
  <2>3. \A i \in Ids : masks[i] \subseteq seen[i] /\ held[i] \subseteq masks[i]
    BY <1>1, <1>3, <1>8, <2>1 DEF Faithful, SelectMasks
  <2> QED BY <1>7, <1>8, <2>1, <2>2, <2>3 DEF SelectMasks
<1>9. ASSUME call.listing = "ResourceAuthzUsersList", NEW i \in call.page
      PROVE  /\ DirectMask(call.domain, i, call.subject) \subseteq CurrentMask(i)
             /\ IndirectMask(call.domain, i, call.subject) \subseteq CurrentMask(i)
  <2>1. i \in Users /\ i \in Items(call.listing)
    BY <1>1, <1>9 DEF Faithful, Items
  <2>2. CurrentMask(i) = IF UserIn(i, call.domain) THEN CombinedMask(<<call.domain, i, call.subject>>) ELSE {}
    BY <1>9, <2>1 DEF CurrentMask, MaskOf
  <2> QED BY <1>2, <2>1, <2>2, ScansFindParts
<1>10. CASE SelectDirectMasks
  <2>1. PICK masks : masks = [i \in Ids |-> IF i \in call.page
                                            THEN DirectMask(call.domain, i, call.subject) ELSE {}]
    OBVIOUS
  <2>2. call.listing = "ResourceAuthzUsersList"
    BY <1>1, <1>10 DEF SelectDirectMasks, Faithful
  <2>3. \A i \in Ids : masks[i] \subseteq CurrentMask(i)
    BY <1>9, <2>1, <2>2
  <2>4. masks \in [Ids -> SUBSET Bits] /\ \A i \in Ids : masks[i] \subseteq seen[i]
    BY <1>1, <1>3, <2>1, <2>3 DEF Faithful
  <2> QED BY <1>7, <1>10, <2>1, <2>2, <2>4 DEF SelectDirectMasks
<1>11. CASE SelectIndirectMasks
  <2>1. PICK masks : masks = [i \in Ids |->
            IF i \in call.page
            THEN call.masks[i] \cup IndirectMask(call.domain, i, call.subject) ELSE {}]
    OBVIOUS
  <2>2. call.listing = "ResourceAuthzUsersList"
    BY <1>1, <1>11 DEF SelectIndirectMasks, Faithful
  <2>3. \A i \in Ids : masks[i] \subseteq call.masks[i] \cup CurrentMask(i)
    BY <1>9, <2>1, <2>2
  <2>4. masks \in [Ids -> SUBSET Bits] /\ \A i \in Ids : masks[i] \subseteq seen[i]
    BY <1>1, <1>2, <1>3, <2>1, <2>3 DEF Faithful
  <2> QED BY <1>7, <1>11, <2>1, <2>2, <2>4 DEF SelectIndirectMasks
<1> QED BY <1>4, <1>5, <1>6, <1>8, <1>10, <1>11 DEF Queries, CheckDomain, CheckSubject, Return

\* A listing begins with what is in force, which is all it has seen.
LEMMA BeginKeeps ==
    ASSUME TablesOK, NEW listing \in AllListings, NEW d \in Domains, NEW s \in Ids,
           Begin(listing, d, s)
    PROVE  CallInv'
<1>1. PICK c : c = [listing |-> listing, domain |-> d, subject |-> s, pc |-> "domain",
                    page |-> {}, masks |-> NoBits]
  OBVIOUS
<1>2. call' = c /\ UNCHANGED tables
  BY <1>1 DEF Begin
<1>3. /\ c \in CallType /\ c.pc = "domain" /\ c.page = {}
      /\ \A i \in Ids : c.masks[i] = {}
  BY <1>1 DEF CallType, NoBits
<1>4. \A i \in Ids : held'[i] = ItemMask(c, i)' /\ seen'[i] = ItemMask(c, i)'
  BY <1>2 DEF Begin, CurrentMask, ItemMask
<1>5. Faithful(c)'
  BY <1>3, <1>4 DEF Faithful
<1> QED BY <1>2, <1>5 DEF CallInv

LEMMA CallStep ==
    ASSUME TablesOK, JunctionsInOneDomain, CallInv, [Next]_vars
    PROVE  CallInv'
<1>1. CASE OtherCall
  <2>1. CASE ~ Active
    BY <1>1, <2>1 DEF OtherCall, CallInv, Active
  <2>2. CASE Active
    <3>1. PICK c : c = call
      OBVIOUS
    <3>2. Faithful(c) /\ call' = c
      BY <1>1, <2>2, <3>1 DEF CallInv, OtherCall
    <3>3. \A i \in Ids : /\ held'[i] = held[i] \cap ItemMask(c, i)'
                         /\ seen'[i] = seen[i] \cup ItemMask(c, i)'
      BY <1>1, <2>2, <3>2 DEF OtherCall, CurrentMask, ItemMask
    <3>4. Faithful(c)'
      BY <3>2, <3>3 DEF Faithful
    <3> QED BY <3>2, <3>4 DEF CallInv
  <2> QED BY <2>1, <2>2
<1>2. ASSUME NEW d \in Domains, Start(d) PROVE CallInv'
  <2>1. Users \subseteq Ids /\ Groups \subseteq Ids /\ Resources \subseteq Ids
    BY DEF Ids
  <2>2. {"UserAuthzResourcesList", "GroupAuthzResourcesList", "ResourceAuthzGroupsList",
         "ResourceAuthzUsersList"} \subseteq AllListings
    BY DEF AllListings
  <2> QED BY <1>2, <2>1, <2>2, BeginKeeps DEF Start, UserAuthzResourcesList,
             GroupAuthzResourcesList, ResourceAuthzGroupsList, ResourceAuthzUsersList
<1>3. CASE Cancel
  BY <1>3 DEF Cancel, Finish, CallInv, Active
<1>4. CASE UNCHANGED vars
  <2>1. CASE ~ Active
    BY <1>4, <2>1 DEF vars, CallInv, Active
  <2>2. CASE Active
    <3>1. PICK c : c = call
      OBVIOUS
    <3>2. Faithful(c) /\ call' = c /\ UNCHANGED tables /\ UNCHANGED <<held, seen>>
      BY <1>4, <2>2, <3>1 DEF CallInv, vars
    <3>3. \A i : ItemMask(c, i)' = ItemMask(c, i)
      BY <3>2, SameMasks DEF Faithful
    <3>4. Faithful(c)'
      BY <3>2, <3>3 DEF Faithful
    <3> QED BY <3>2, <3>4 DEF CallInv
  <2> QED BY <2>1, <2>2
<1> QED BY <1>1, <1>2, <1>3, <1>4, QueriesKeep DEF Next

\* A listing under way is faithful in every reachable state.
THEOREM CallInvariant == Spec => []CallInv
<1>1. Init => CallInv
  BY DEF Init, CallInv, Active
<1>2. TablesOK /\ JunctionsInOneDomain /\ CallInv /\ [Next]_vars => CallInv'
  BY CallStep
<1> QED BY <1>1, <1>2, ListingsImplementTables, SchemaIntegrity, PTL DEF Spec

\* No listing reports a bit that was not granted at some moment of the call.
THEOREM ListingsReportNoPhantoms == Spec => []NoPhantomBits
<1>1. CallInv => NoPhantomBits
  BY DEF CallInv, NoPhantomBits, Answered, Faithful
<1> QED BY <1>1, CallInvariant, PTL

\* The listings that read their masks in one query report every bit that was
\* granted throughout the call.
THEOREM ListingsMissNothingSteady == Spec => []SteadyBitsInOneQuery
<1>1. CallInv => SteadyBitsInOneQuery
  BY DEF CallInv, SteadyBitsInOneQuery, Answered, Faithful
<1> QED BY <1>1, CallInvariant, PTL

=============================================================================
