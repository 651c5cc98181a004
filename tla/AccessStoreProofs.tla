-------------------------- MODULE AccessStoreProofs --------------------------
(***************************************************************************)
(* Proofs about AccessStore, for every set of ids, bits and bounds that    *)
(* satisfies the assumptions of that module: its operations are statements *)
(* of Schema, so what SchemaProofs shows of the tables holds of the store, *)
(* and its materialised cache is exact.                                    *)
(***************************************************************************)
EXTENDS AccessStore, SchemaProofs, FiniteSetTheorems

----------------------------------------------------------------------------
(* Facts about the operators.  *)

\* What the OR of stored masks can hold after a step.
LEMMA CombinedMaskFitsNext ==
    ASSUME permissions' \in [Permissions -> {NoRow} \cup PermissionRow],
           NEW k \in CacheKeys
    PROVE  CombinedMask(k)' \in Masks /\ FitsInt64(CombinedMask(k)')
<1>1. ASSUME NEW p \in Permissions, PermissionIn(p, k[1])'
      PROVE  maskFromSQL(permissions'[p].mask) \subseteq Bits \ {SignBit}
  BY <1>1 DEF PermissionIn, PermissionRow, Masks, maskFromSQL
<1>2. CombinedMask(k)' \subseteq Bits \ {SignBit}
  BY <1>1 DEF CombinedMask
<1> QED BY <1>2 DEF Masks, FitsInt64

\* A cache write leaves a well-typed cache.
LEMMA CacheWriteType ==
    ASSUME user_resource_masks \in [CacheKeys -> {NoRow} \cup Masks],
           permissions' \in [Permissions -> {NoRow} \cup PermissionRow],
           NEW keys, computeAndUpsertMask(keys)
    PROVE  user_resource_masks' \in [CacheKeys -> {NoRow} \cup Masks]
BY CombinedMaskFitsNext DEF computeAndUpsertMask, CacheRow

----------------------------------------------------------------------------
(* Every operation of the store is one statement on the tables.  *)

\* The row a patch writes is a row of the schema.
LEMMA PatchedFields ==
    ASSUME TablesOK, NEW d \in Domains, NEW p \in Permissions, PermissionIn(p, d),
           NEW r \in Resources \cup {NoChange}, NEW m \in {NoChange} \cup Masks
    PROVE  /\ PatchField(r, permissions[p].resource) \in Resources
           /\ PatchField(m, maskFromSQL(permissions[p].mask)) \in Masks
<1>1. permissions[p] \in PermissionRow
  BY DEF TablesOK, PermissionIn
<1> QED BY <1>1 DEF PatchField, maskFromSQL, PermissionRow, Masks

LEMMA EntityOpStatement ==
    ASSUME NEW d \in Domains, EntityOp(d)
    PROVE  EntityStatement(d)
BY DEF EntityOp, EntityStatement, DomainCreate, DomainDelete, UserCreate, UserDelete,
       ResourceCreate, ResourceDelete

LEMMA GroupOpStatement ==
    ASSUME NEW d \in Domains, GroupOp(d)
    PROVE  GroupStatement(d)
BY DEF GroupOp, GroupStatement, GroupCreate, GroupSetParent, GroupPatch, groupSetParentTx,
       GroupDelete

LEMMA PermissionOpStatement ==
    ASSUME TablesOK, NEW d \in Domains, PermissionOp(d)
    PROVE  PermissionStatement(d)
<1>1. ASSUME NEW p \in Permissions, NEW r \in Resources \cup {NoChange},
             NEW m \in {NoChange} \cup Masks, PermissionPatch(d, p, r, m)
      PROVE  PermissionStatement(d)
  <2>1. PermissionIn(p, d)
    BY <1>1 DEF PermissionPatch
  <2>2. UpdatePermission(d, p, PatchField(r, permissions[p].resource),
                         PatchField(m, maskFromSQL(permissions[p].mask)))
    BY <1>1 DEF PermissionPatch
  <2> QED BY <2>1, <2>2, PatchedFields DEF PermissionStatement
<1> QED BY <1>1 DEF PermissionOp, PermissionStatement, PermissionCreate, PermissionDelete

LEMMA AuthzOpStatement ==
    ASSUME NEW d \in Domains, AuthzOp(d)
    PROVE  JunctionStatement(d)
BY DEF AuthzOp, JunctionStatement, AddUserToGroup, RemoveUserFromGroup, GrantUserPermission,
       RevokeUserPermission, GrantGroupPermission, RevokeGroupPermission

\* A step of the store is a statement or leaves the tables alone.
LEMMA StepIsStatement ==
    ASSUME TablesOK, [Next]_vars
    PROVE  [Statement]_tables
<1>1. ASSUME NEW d \in Domains, EntityOp(d) \/ GroupOp(d) \/ PermissionOp(d) \/ AuthzOp(d)
      PROVE  Statement
  BY <1>1, EntityOpStatement, GroupOpStatement, PermissionOpStatement, AuthzOpStatement
     DEF Statement
<1>2. ASSUME ProcessStep PROVE [Statement]_tables
  BY <1>2 DEF ProcessStep, Setup, Stop, EditCacheRow, EditPermissionMask, Statement
<1>3. CASE UNCHANGED vars
  BY <1>3 DEF vars
<1> QED BY <1>1, <1>2, <1>3 DEF Next

\* The store implements the schema: whatever is called, crashes or is edited,
\* the tables change by one statement of Schema at a time.
THEOREM ImplementsTables == Spec => Tables
<1>1. Init => EmptyTables /\ TablesOK
  BY TablesInit DEF Init
<1>2. TablesOK /\ [Next]_vars => TablesOK'
  BY StepIsStatement, TablesStep
<1>3. TablesOK /\ [Next]_vars => [Statement]_tables
  BY StepIsStatement
<1> QED BY <1>1, <1>2, <1>3, PTL DEF Spec, Tables

----------------------------------------------------------------------------
(* Types and domains.  *)

\* The operations on memberships and grants write the cache by
\* computeAndUpsertMask.
LEMMA AuthzOpCache ==
    ASSUME NEW d \in Domains, AuthzOp(d)
    PROVE  \E keys : computeAndUpsertMask(keys)
<1>1. \/ \E u \in Users, g \in Groups :
            computeAndUpsertMask({d} \X {u} \X groupResourceIDs(d, g))
      \/ \E u \in Users, p \in Permissions :
            computeAndUpsertMask({<<d, u, permissions[p].resource>>})
      \/ \E g \in Groups, p \in Permissions : computeAndUpsertMask(MemberKeys(d, g, p))
  BY DEF AuthzOp, AddUserToGroup, RemoveUserFromGroup, GrantUserPermission,
         RevokeUserPermission, GrantGroupPermission, RevokeGroupPermission
<1> QED BY <1>1, Zenon

\* The cache stays well typed.
LEMMA CacheStepType ==
    ASSUME TypeOK, TablesOK', [Next]_vars
    PROVE  user_resource_masks' \in [CacheKeys -> {NoRow} \cup Masks]
<1> USE DEF TypeOK, TablesOK
<1>1. ASSUME NEW d \in Domains, EntityOp(d) PROVE user_resource_masks' \in [CacheKeys -> {NoRow} \cup Masks]
  BY <1>1 DEF EntityOp, DomainCreate, DomainDelete, UserCreate, UserDelete, ResourceCreate,
              ResourceDelete, CascadeCache
<1>2. ASSUME NEW d \in Domains, GroupOp(d) PROVE user_resource_masks' \in [CacheKeys -> {NoRow} \cup Masks]
  BY <1>2 DEF GroupOp, GroupCreate, GroupSetParent, GroupPatch, GroupDelete
<1>3. ASSUME NEW d \in Domains, PermissionOp(d) PROVE user_resource_masks' \in [CacheKeys -> {NoRow} \cup Masks]
  BY <1>3, CacheWriteType DEF PermissionOp, PermissionCreate, PermissionPatch, PermissionDelete
<1>4. ASSUME NEW d \in Domains, AuthzOp(d) PROVE user_resource_masks' \in [CacheKeys -> {NoRow} \cup Masks]
  BY <1>4, AuthzOpCache, CacheWriteType
<1>5. CASE ProcessStep
  <2>1. CASE Setup BY <2>1, CombinedMaskFits DEF Setup, CacheRow
  <2> QED BY <1>5, <2>1 DEF ProcessStep, Stop, EditCacheRow, EditPermissionMask
<1>6. CASE UNCHANGED vars
  BY <1>6 DEF vars
<1> QED BY <1>1, <1>2, <1>3, <1>4, <1>5, <1>6 DEF Next

\* Operations run only while the process serves, and do not stop it.
LEMMA OperationsServe ==
    ASSUME NEW d \in Domains, EntityOp(d) \/ GroupOp(d) \/ PermissionOp(d) \/ AuthzOp(d)
    PROVE  Serving /\ UNCHANGED process
BY DEF EntityOp, DomainCreate, DomainDelete, UserCreate, UserDelete, ResourceCreate,
       ResourceDelete, GroupOp, GroupCreate, GroupSetParent, GroupPatch, GroupDelete,
       PermissionOp, PermissionCreate, PermissionPatch, PermissionDelete, AuthzOp,
       AddUserToGroup, RemoveUserFromGroup, GrantUserPermission, RevokeUserPermission,
       GrantGroupPermission, RevokeGroupPermission

\* The process counts its edits within their bound.
LEMMA ProcessStepType ==
    ASSUME TypeOK, [Next]_vars
    PROVE  server' \in {"down", "serving"} /\ edits' \in 0..MaxEdits
<1>1. ASSUME ProcessStep PROVE server' \in {"down", "serving"} /\ edits' \in 0..MaxEdits
  BY <1>1, BoundsAssumption
     DEF ProcessStep, Setup, Stop, EditCacheRow, EditPermissionMask, TypeOK
<1>2. ASSUME UNCHANGED process PROVE server' \in {"down", "serving"} /\ edits' \in 0..MaxEdits
  BY <1>2 DEF process, TypeOK
<1> QED BY <1>1, <1>2, OperationsServe DEF Next, vars

\* Every row the store writes is of its schema's type, whatever the ids and
\* masks: type correctness of the whole store.
THEOREM TypeCorrect == Spec => []TypeOK
<1>1. Init => TypeOK
  BY BoundsAssumption, TablesInit DEF Init, TypeOK
<1>2. TypeOK /\ [Next]_vars => TypeOK'
  <2> SUFFICES ASSUME TypeOK, [Next]_vars PROVE TypeOK'
    OBVIOUS
  <2>1. TablesOK'
    BY StepIsStatement, TablesStep DEF TypeOK
  <2> QED BY <2>1, CacheStepType, ProcessStepType DEF TypeOK
<1> QED BY <1>1, <1>2, PTL DEF Spec

\* No call, crash or restart ever makes a membership or a grant join entities
\* of two domains.
THEOREM DomainIsolation == Spec => []JunctionsInOneDomain
BY ImplementsTables, SchemaIntegrity, PTL

----------------------------------------------------------------------------
(* The inductive invariant.  *)

\* Each cache row is what computeAndUpsertMask would write for it now.
CacheExact ==
    \A k \in CacheKeys : user_resource_masks[k] = CacheRow(CombinedMask(k))

\* The cache is exact unless the database was edited during this outage.
CacheInv ==
    /\ Serving => edits = 0
    /\ edits = 0 => CacheExact

\* What permission q adds to the mask of a cache key.
Contribution(q, k) ==
    IF PermissionIn(q, k[1]) /\ permissions[q].resource = k[3] /\ HeldBy(q, k[2])
    THEN maskFromSQL(permissions[q].mask)
    ELSE {}

----------------------------------------------------------------------------
(* Facts about the operators.  *)

\* With junction rows inside one domain, the unfiltered predicate of the
\* effective-mask query and the filtered holder query agree.
LEMMA HolderInDomain ==
    ASSUME TypeOK, JunctionsInOneDomain,
           NEW d \in Domains, NEW q \in Permissions, PermissionIn(q, d), NEW u \in Users
    PROVE  HeldBy(q, u) <=> u \in permissionHolderUserIDs(d, q)
BY HeldInDomain DEF permissionHolderUserIDs

\* The combined mask is the union of the contributions.
LEMMA MaskIsContributions ==
    ASSUME NEW k \in CacheKeys
    PROVE  /\ CombinedMask(k) = UNION { Contribution(q, k) : q \in Permissions }
           /\ CombinedMask(k)' = UNION { Contribution(q, k)' : q \in Permissions }
<1>1. CombinedMask(k) = UNION { Contribution(q, k) : q \in Permissions }
  BY DEF CombinedMask, Contribution
<1>2. CombinedMask(k)' = UNION { Contribution(q, k)' : q \in Permissions }
  BY DEF CombinedMask, Contribution
<1> QED BY <1>1, <1>2

\* A step that changes no contribution to a key does not change its mask.
LEMMA SameMask ==
    ASSUME NEW k \in CacheKeys,
           \A q \in Permissions : Contribution(q, k)' = Contribution(q, k)
    PROVE  CombinedMask(k)' = CombinedMask(k)
<1>1. { Contribution(q, k)' : q \in Permissions } = { Contribution(q, k) : q \in Permissions }
  BY Zenon
<1> QED BY <1>1, MaskIsContributions

\* A key that no permission contributes to has no cache row.
LEMMA NoContribution ==
    ASSUME NEW k \in CacheKeys, \A q \in Permissions : Contribution(q, k) = {}
    PROVE  CacheRow(CombinedMask(k)) = NoRow
BY MaskIsContributions DEF CacheRow

\* A mutation keeps the cache exact if it recomputes every key whose
\* contributions it changes.
LEMMA RecomputedKeys ==
    ASSUME CacheExact, NEW keys, computeAndUpsertMask(keys),
           \A k \in CacheKeys : k \notin keys =>
              \A q \in Permissions : Contribution(q, k)' = Contribution(q, k)
    PROVE  CacheExact'
<1>1. ASSUME NEW k \in CacheKeys, k \notin keys PROVE CombinedMask(k)' = CombinedMask(k)
  BY <1>1, SameMask
<1> QED BY <1>1 DEF CacheExact, computeAndUpsertMask, CacheRow

\* So does a step that changes no contribution and no cache row.
LEMMA UntouchedKeys ==
    ASSUME CacheExact, UNCHANGED user_resource_masks,
           \A k \in CacheKeys : \A q \in Permissions : Contribution(q, k)' = Contribution(q, k)
    PROVE  CacheExact'
<1>1. ASSUME NEW k \in CacheKeys PROVE CombinedMask(k)' = CombinedMask(k)
  BY <1>1, SameMask
<1> QED BY <1>1 DEF CacheExact, CacheRow

\* So does a cascade that drops the rows of keys nothing contributes to.
LEMMA CascadedKeys ==
    ASSUME CacheExact,
           \A k \in CacheKeys : \A q \in Permissions : Contribution(q, k)' = Contribution(q, k),
           NEW keys, CascadeCache(keys),
           \A k \in CacheKeys : k \in keys => \A q \in Permissions : Contribution(q, k) = {}
    PROVE  CacheExact'
<1>1. ASSUME NEW k \in CacheKeys PROVE CombinedMask(k)' = CombinedMask(k)
  BY <1>1, SameMask
<1>2. ASSUME NEW k \in CacheKeys, k \in keys PROVE CacheRow(CombinedMask(k)) = NoRow
  BY <1>2, NoContribution
<1> QED BY <1>1, <1>2 DEF CacheExact, CascadeCache, CacheRow

----------------------------------------------------------------------------
(* One lemma per kind of step: the contributions it changes are recomputed.  *)

\* Creating and deleting domains, users and resources changes no contribution:
\* what can be deleted is referenced by no grant.
LEMMA CacheEntityStep ==
    ASSUME TypeOK, JunctionsInOneDomain, CacheExact, NEW d \in Domains, EntityOp(d)
    PROVE  CacheExact'
<1>1. UNCHANGED <<permissions, junctions>>
  BY EntityOpStatement DEF EntityStatement, InsertDomain, DeleteDomain, InsertUser, DeleteUser,
     InsertResource, DeleteResource
<1>2. \A k \in CacheKeys : \A q \in Permissions : Contribution(q, k)' = Contribution(q, k)
  BY <1>1 DEF Contribution, PermissionIn, HeldBy, junctions
<1>3. ASSUME user_resource_masks' = user_resource_masks PROVE CacheExact'
  BY <1>2, <1>3, UntouchedKeys
<1>4. CASE DomainCreate(d) BY <1>3, <1>4 DEF DomainCreate
<1>5. CASE DomainDelete(d)
  <2>1. \A k \in CacheKeys : k \in { j \in CacheKeys : j[1] = d } =>
           \A q \in Permissions : Contribution(q, k) = {}
    BY <1>5 DEF DomainDelete, DeleteDomain, DomainReferenced, Contribution
  <2> QED BY <1>2, <1>5, <2>1, CascadedKeys DEF DomainDelete
<1>6. ASSUME NEW u \in Users, UserCreate(d, u) PROVE CacheExact'
  BY <1>3, <1>6 DEF UserCreate
<1>7. ASSUME NEW u \in Users, UserDelete(d, u) PROVE CacheExact'
  <2>1. \A q \in Permissions : ~ HeldBy(q, u)
    <3>1. ASSUME NEW e \in Domains, NEW q \in Permissions, <<e, u, q>> \in user_permissions
          PROVE  FALSE
      BY <1>7, <3>1 DEF UserDelete, DeleteUser, UserReferenced, UserIn, JunctionsInOneDomain
    <3>2. ASSUME NEW e \in Domains, NEW g \in Groups, <<e, u, g>> \in group_members
          PROVE  FALSE
      BY <1>7, <3>2 DEF UserDelete, DeleteUser, UserReferenced, UserIn, JunctionsInOneDomain
    <3> QED BY <3>1, <3>2 DEF HeldBy
  <2>2. \A k \in CacheKeys : k \in { j \in CacheKeys : j[2] = u } =>
           \A q \in Permissions : Contribution(q, k) = {}
    BY <2>1 DEF Contribution
  <2> QED BY <1>2, <1>7, <2>2, CascadedKeys DEF UserDelete
<1>8. ASSUME NEW r \in Resources, ResourceCreate(d, r) PROVE CacheExact'
  BY <1>3, <1>8 DEF ResourceCreate
<1>9. ASSUME NEW r \in Resources, ResourceDelete(d, r) PROVE CacheExact'
  <2>1. \A k \in CacheKeys : k \in { j \in CacheKeys : j[3] = r } =>
           \A q \in Permissions : Contribution(q, k) = {}
    BY <1>9 DEF ResourceDelete, DeleteResource, ResourceReferenced, Contribution, PermissionIn
  <2> QED BY <1>2, <1>9, <2>1, CascadedKeys DEF ResourceDelete
<1> QED BY <1>4, <1>5, <1>6, <1>7, <1>8, <1>9 DEF EntityOp

\* Groups do not inherit: their parents contribute nothing.
LEMMA CacheGroupStep ==
    ASSUME CacheExact, NEW d \in Domains, GroupOp(d)
    PROVE  CacheExact'
<1>1. UNCHANGED <<permissions, junctions, user_resource_masks>>
  BY DEF GroupOp, GroupCreate, GroupSetParent, GroupPatch, groupSetParentTx, GroupDelete,
         InsertGroup, UpdateGroupParent, DeleteGroup
<1>2. \A k \in CacheKeys : \A q \in Permissions : Contribution(q, k)' = Contribution(q, k)
  BY <1>1 DEF Contribution, PermissionIn, HeldBy, junctions
<1> QED BY <1>1, <1>2, UntouchedKeys

\* A permission that is created or deleted is held by nobody; a patch
\* recomputes every holder on the old and on the new resource.
LEMMA CachePermissionStep ==
    ASSUME TypeOK, JunctionsInOneDomain, CacheExact, NEW d \in Domains, PermissionOp(d)
    PROVE  CacheExact'
<1>1. ASSUME NEW p \in Permissions,
             \A q \in Permissions \ {p} : permissions'[q] = permissions[q],
             UNCHANGED junctions, NEW k \in CacheKeys, NEW q \in Permissions \ {p}
      PROVE  Contribution(q, k)' = Contribution(q, k)
  BY <1>1 DEF Contribution, PermissionIn, HeldBy, junctions
<1>2. ASSUME NEW p \in Permissions, UNCHANGED junctions,
             NEW k \in CacheKeys, ~ HeldBy(p, k[2])
      PROVE  Contribution(p, k)' = Contribution(p, k)
  BY <1>2 DEF Contribution, HeldBy, junctions
<1>3. ASSUME NEW p \in Permissions, NEW r \in Resources, NEW m \in Masks,
             PermissionCreate(d, p, r, m)
      PROVE  CacheExact'
  <2>1. \A u \in Users : ~ HeldBy(p, u)
    BY <1>3 DEF PermissionCreate, InsertPermission, HeldBy, JunctionsInOneDomain, PermissionIn
  <2>2. \A q \in Permissions \ {p} : permissions'[q] = permissions[q]
    BY <1>3 DEF PermissionCreate, InsertPermission, TypeOK, TablesOK
  <2>3. \A k \in CacheKeys : \A q \in Permissions : Contribution(q, k)' = Contribution(q, k)
    BY <1>1, <1>2, <1>3, <2>1, <2>2 DEF PermissionCreate, InsertPermission, CacheKeys
  <2> QED BY <1>3, <2>3, UntouchedKeys DEF PermissionCreate
<1>4. ASSUME NEW p \in Permissions,
             NEW r \in Resources \cup {NoChange}, NEW m \in {NoChange} \cup Masks,
             PermissionPatch(d, p, r, m)
      PROVE  CacheExact'
  <2> DEFINE old == permissions[p]
             new == permissions'[p]
             keys == {d} \X permissionHolderUserIDs(d, p) \X {new.resource, old.resource}
  <2>1. old \in PermissionRow /\ old.domain = d /\ old # NoRow
    BY <1>4 DEF PermissionPatch, PermissionIn, TypeOK, TablesOK
  <2>2. /\ new = [domain |-> d, resource |-> PatchField(r, old.resource),
                  mask |-> PatchField(m, maskFromSQL(old.mask))]
        /\ \A q \in Permissions \ {p} : permissions'[q] = permissions[q]
        /\ UNCHANGED junctions
    BY <1>4 DEF PermissionPatch, UpdatePermission, TypeOK, TablesOK
  <2>3. new \in PermissionRow /\ new # NoRow
    BY <2>1, <2>2, NullAssumption DEF PatchField, PermissionRow, maskFromSQL, Masks
  <2>4. CASE r = NoChange /\ m = NoChange
    <3>1. /\ new.domain = old.domain /\ new.resource = old.resource
          /\ maskFromSQL(new.mask) = maskFromSQL(old.mask)
      BY <2>1, <2>2, <2>4, SignBitAssumption DEF PatchField, maskFromSQL
    <3>2. \A k \in CacheKeys : Contribution(p, k)' = Contribution(p, k)
      BY <2>1, <2>2, <2>3, <3>1 DEF Contribution, PermissionIn, HeldBy, junctions
    <3>3. \A k \in CacheKeys : \A q \in Permissions : Contribution(q, k)' = Contribution(q, k)
      BY <1>1, <2>2, <3>2
    <3>4. user_resource_masks' = user_resource_masks
      BY <1>4, <2>4 DEF PermissionPatch
    <3> QED BY <3>3, <3>4, UntouchedKeys
  <2>5. CASE ~ (r = NoChange /\ m = NoChange)
    <3>1. computeAndUpsertMask(keys)
      BY <1>4, <2>2, <2>5 DEF PermissionPatch, PatchField
    <3>2. ASSUME NEW k \in CacheKeys, k \notin keys
          PROVE  Contribution(p, k)' = Contribution(p, k)
      <4>1. CASE k[1] # d
        BY <2>1, <2>2, <2>3, <4>1 DEF Contribution, PermissionIn
      <4>2. CASE k[1] = d /\ k[3] \notin {new.resource, old.resource}
        BY <4>2 DEF Contribution
      <4>3. CASE k[1] = d /\ k[3] \in {new.resource, old.resource}
        <5>1. k[2] \in Users /\ k[2] \notin permissionHolderUserIDs(d, p)
          BY <3>2, <4>3 DEF CacheKeys
        <5>2. ~ HeldBy(p, k[2])
          BY <2>1, <5>1, HolderInDomain DEF PermissionIn
        <5> QED BY <1>2, <2>2, <5>2
      <4> QED BY <4>1, <4>2, <4>3
    <3>3. \A k \in CacheKeys : k \notin keys =>
             \A q \in Permissions : Contribution(q, k)' = Contribution(q, k)
      BY <1>1, <2>2, <3>2
    <3> QED BY <3>1, <3>3, RecomputedKeys
  <2> QED BY <2>4, <2>5
<1>5. ASSUME NEW p \in Permissions, PermissionDelete(d, p) PROVE CacheExact'
  <2>1. \A u \in Users : ~ HeldBy(p, u)
    BY <1>5, HolderInDomain DEF PermissionDelete, DeletePermission, PermissionReferenced, permissionHolderUserIDs
  <2>2. \A q \in Permissions \ {p} : permissions'[q] = permissions[q]
    BY <1>5 DEF PermissionDelete, DeletePermission, TypeOK, TablesOK
  <2>3. \A k \in CacheKeys : \A q \in Permissions : Contribution(q, k)' = Contribution(q, k)
    BY <1>1, <1>2, <1>5, <2>1, <2>2 DEF PermissionDelete, DeletePermission, CacheKeys
  <2> QED BY <1>5, <2>3, UntouchedKeys DEF PermissionDelete
<1> QED BY <1>3, <1>4, <1>5 DEF PermissionOp

\* A change of the membership of u in g moves only the masks of u on the
\* resources of the effective permissions of g.
LEMMA CacheMembershipStep ==
    ASSUME TypeOK, JunctionsInOneDomain, CacheExact,
           NEW d \in Domains, NEW u \in Users, NEW g \in Groups, GroupIn(g, d),
           AddUserToGroup(d, u, g) \/ RemoveUserFromGroup(d, u, g)
    PROVE  CacheExact'
<1> DEFINE keys == {d} \X {u} \X groupResourceIDs(d, g)
<1>1. /\ UNCHANGED <<permissions, user_permissions, group_permissions>>
      /\ \A e \in Domains, v \in Users, h \in Groups :
            v # u \/ h # g => (<<e, v, h>> \in group_members' <=> <<e, v, h>> \in group_members)
      /\ computeAndUpsertMask(keys)
  BY DEF AddUserToGroup, RemoveUserFromGroup, InsertMember, DeleteMember, entities
<1>2. ASSUME NEW k \in CacheKeys, k \notin keys, NEW q \in Permissions
      PROVE  Contribution(q, k)' = Contribution(q, k)
  <2>1. k[2] \in Users /\ k = <<k[1], k[2], k[3]>>
    BY DEF CacheKeys
  <2>2. CASE k[2] # u \/ \A e \in Domains : <<e, g, q>> \notin group_permissions
    <3>1. ASSUME NEW h \in Groups, \E e \in Domains : <<e, h, q>> \in group_permissions
          PROVE  \A e \in Domains : <<e, k[2], h>> \in group_members'
                                       <=> <<e, k[2], h>> \in group_members
      BY <1>1, <2>1, <2>2, <3>1
    <3>2. HeldBy(q, k[2])' <=> HeldBy(q, k[2])
      BY <1>1, <3>1, Zenon DEF HeldBy
    <3> QED BY <1>1, <3>2 DEF Contribution, PermissionIn
  <2>3. CASE k[2] = u /\ \E e \in Domains : <<e, g, q>> \in group_permissions
    <3>0. PICK e \in Domains : <<e, g, q>> \in group_permissions
      BY <2>3
    <3>1. PermissionIn(q, d) /\ <<d, g, q>> \in group_permissions
      <4>1. GroupIn(g, e) /\ PermissionIn(q, e)
        BY <3>0 DEF JunctionsInOneDomain
      <4> QED BY <3>0, <4>1 DEF GroupIn
    <3>2. CASE k[1] # d \/ k[3] # permissions[q].resource
      BY <1>1, <3>1, <3>2 DEF Contribution, PermissionIn
    <3>3. CASE k[1] = d /\ k[3] = permissions[q].resource
      <4>1. k[3] \notin groupResourceIDs(d, g)
        BY <1>2, <2>1, <2>3, <3>3
      <4>2. ~ IsPositive(permissions[q].mask)
        BY <3>1, <3>3, <4>1 DEF groupResourceIDs, PermissionIn
      <4>3. maskFromSQL(permissions[q].mask) = {}
        BY <4>2 DEF IsPositive, maskFromSQL
      <4> QED BY <1>1, <4>3 DEF Contribution, maskFromSQL
    <3> QED BY <3>2, <3>3
  <2> QED BY <2>2, <2>3
<1> QED BY <1>1, <1>2, RecomputedKeys

\* A direct grant moves only the mask of u on the permission's resource.
LEMMA CacheUserGrantStep ==
    ASSUME TypeOK, CacheExact,
           NEW d \in Domains, NEW u \in Users, NEW p \in Permissions,
           GrantUserPermission(d, u, p) \/ RevokeUserPermission(d, u, p)
    PROVE  CacheExact'
<1> DEFINE keys == {<<d, u, permissions[p].resource>>}
<1>1. /\ UNCHANGED <<permissions, group_members, group_permissions>>
      /\ \A e \in Domains, v \in Users, q \in Permissions : v # u \/ q # p =>
            (<<e, v, q>> \in user_permissions' <=> <<e, v, q>> \in user_permissions)
      /\ computeAndUpsertMask(keys)
      /\ PermissionIn(p, d)
  BY DEF GrantUserPermission, RevokeUserPermission, InsertUserPermission,
         DeleteUserPermission, entities
<1>2. ASSUME NEW k \in CacheKeys, k \notin keys, NEW q \in Permissions
      PROVE  Contribution(q, k)' = Contribution(q, k)
  <2>1. k[2] \in Users /\ k = <<k[1], k[2], k[3]>>
    BY DEF CacheKeys
  <2>2. CASE k[2] # u \/ q # p
    <3>1. HeldBy(q, k[2])' <=> HeldBy(q, k[2])
      BY <1>1, <2>1, <2>2 DEF HeldBy
    <3> QED BY <1>1, <3>1 DEF Contribution, PermissionIn
  <2>3. CASE k[2] = u /\ q = p
    <3>1. k[1] # d \/ k[3] # permissions[p].resource
      BY <1>2, <2>1, <2>3
    <3> QED BY <1>1, <2>3, <3>1 DEF Contribution, PermissionIn
  <2> QED BY <2>2, <2>3
<1> QED BY <1>1, <1>2, RecomputedKeys

\* A grant to a group moves only the masks of its members.
LEMMA CacheGroupGrantStep ==
    ASSUME TypeOK, JunctionsInOneDomain, CacheExact,
           NEW d \in Domains, NEW g \in Groups, NEW p \in Permissions,
           GrantGroupPermission(d, g, p) \/ RevokeGroupPermission(d, g, p)
    PROVE  CacheExact'
<1>1. /\ UNCHANGED <<permissions, group_members, user_permissions>>
      /\ \A e \in Domains, h \in Groups, q \in Permissions : h # g \/ q # p =>
            (<<e, h, q>> \in group_permissions' <=> <<e, h, q>> \in group_permissions)
      /\ computeAndUpsertMask(MemberKeys(d, g, p))
  BY DEF GrantGroupPermission, RevokeGroupPermission, InsertGroupPermission,
         DeleteGroupPermission, entities
<1>2. GroupIn(g, d) /\ PermissionIn(p, d)
  BY DEF GrantGroupPermission, RevokeGroupPermission, InsertGroupPermission,
         DeleteGroupPermission, JunctionsInOneDomain
<1>3. ASSUME NEW k \in CacheKeys, k \notin MemberKeys(d, g, p), NEW q \in Permissions
      PROVE  Contribution(q, k)' = Contribution(q, k)
  <2>1. k[2] \in Users /\ k = <<k[1], k[2], k[3]>>
    BY DEF CacheKeys
  <2>2. CASE q # p \/ \A e \in Domains : <<e, k[2], g>> \notin group_members
    <3>1. HeldBy(q, k[2])' <=> HeldBy(q, k[2])
      BY <1>1, <2>1, <2>2 DEF HeldBy
    <3> QED BY <1>1, <3>1 DEF Contribution, PermissionIn
  <2>3. CASE q = p /\ \E e \in Domains : <<e, k[2], g>> \in group_members
    <3>1. k[2] \in groupMemberIDs(d, g)
      BY <1>2, <2>1, <2>3 DEF JunctionsInOneDomain, GroupIn, groupMemberIDs
    <3>2. k[1] # d \/ k[3] # permissions[p].resource
      BY <1>3, <2>1, <3>1 DEF MemberKeys
    <3> QED BY <1>1, <1>2, <2>3, <3>2 DEF Contribution, PermissionIn
  <2> QED BY <2>2, <2>3
<1> QED BY <1>1, <1>3, RecomputedKeys

\* Memberships and grants together.
LEMMA CacheAuthzStep ==
    ASSUME TypeOK, JunctionsInOneDomain, CacheExact, NEW d \in Domains, AuthzOp(d)
    PROVE  CacheExact'
<1>1. ASSUME NEW u \in Users, NEW g \in Groups,
             AddUserToGroup(d, u, g) \/ RemoveUserFromGroup(d, u, g)
      PROVE  CacheExact'
  <2>1. GroupIn(g, d)
    BY <1>1 DEF AddUserToGroup, RemoveUserFromGroup, InsertMember, DeleteMember,
                JunctionsInOneDomain
  <2> QED BY <1>1, <2>1, CacheMembershipStep
<1> QED BY <1>1, CacheUserGrantStep, CacheGroupGrantStep DEF AuthzOp

\* The reconciliation rebuilds exactly the rows that should be there: a key
\* that is no triple gets no contribution.
LEMMA SetupExact ==
    ASSUME TypeOK, JunctionsInOneDomain, Setup
    PROVE  CacheExact'
<1>1. \A k \in CacheKeys : CombinedMask(k)' = CombinedMask(k)
  BY DEF Setup, tables, entities, junctions, CombinedMask, PermissionIn, HeldBy
<1>2. ASSUME NEW k \in CacheKeys, k \notin triples PROVE CacheRow(CombinedMask(k)) = NoRow
  <2>1. k[1] \in Domains /\ k[2] \in Users
    BY DEF CacheKeys
  <2>2. \A q \in Permissions : Contribution(q, k) = {}
    BY <1>2, <2>1, HolderInDomain DEF Contribution, triples
  <2> QED BY <2>2, NoContribution
<1> QED BY <1>1, <1>2 DEF Setup, CacheExact, CacheRow

----------------------------------------------------------------------------
(* The theorems.  *)

\* The cache is exact whenever the database was not edited behind the store.
THEOREM CacheInvariant == Spec => []CacheInv
<1>1. Init => CacheInv
  <2> SUFFICES ASSUME Init PROVE CacheInv
    OBVIOUS
  <2>1. \A k \in CacheKeys : \A q \in Permissions : Contribution(q, k) = {}
    BY DEF Init, EmptyTables, Contribution, PermissionIn
  <2>2. CacheExact
    BY <2>1, NoContribution DEF Init, CacheExact
  <2> QED BY <2>2 DEF CacheInv, Init, Serving
<1>2. TypeOK /\ JunctionsInOneDomain /\ CacheInv /\ [Next]_vars => CacheInv'
  <2> SUFFICES ASSUME TypeOK, JunctionsInOneDomain, CacheInv, [Next]_vars PROVE CacheInv'
    OBVIOUS
  <2>1. CASE UNCHANGED vars \/ Stop
    <3>1. UNCHANGED <<permissions, junctions, user_resource_masks, edits>>
      BY <2>1 DEF vars, tables, entities, process, Stop
    <3>2. \A k \in CacheKeys : \A q \in Permissions : Contribution(q, k)' = Contribution(q, k)
      BY <3>1 DEF Contribution, PermissionIn, HeldBy, junctions
    <3>3. CacheExact => CacheExact'
      BY <3>1, <3>2, UntouchedKeys
    <3>4. Serving' => Serving
      BY <2>1 DEF Serving, Stop, vars, process
    <3> QED BY <3>1, <3>3, <3>4 DEF CacheInv
  <2>2. ASSUME NEW d \in Domains, EntityOp(d) \/ GroupOp(d) \/ PermissionOp(d) \/ AuthzOp(d)
        PROVE  CacheInv'
    <3>1. Serving /\ UNCHANGED process
      BY <2>2, OperationsServe
    <3>2. CacheExact'
      BY <2>2, <3>1, CacheEntityStep, CacheGroupStep, CachePermissionStep, CacheAuthzStep
         DEF CacheInv
    <3> QED BY <3>1, <3>2 DEF CacheInv, Serving, process
  <2>3. CASE Setup
    BY <2>3, SetupExact DEF CacheInv, Setup
  <2>4. CASE \/ \E k \in CacheKeys, v \in {NoRow} \cup Masks : EditCacheRow(k, v)
             \/ \E p \in Permissions, v \in Masks : EditPermissionMask(p, v)
    BY <2>4 DEF EditCacheRow, EditPermissionMask, CacheInv, Serving, TypeOK
  <2> QED BY <2>1, <2>2, <2>3, <2>4 DEF Next, ProcessStep
<1> QED BY <1>1, <1>2, TypeCorrect, DomainIsolation, PTL DEF Spec

\* An exact cache answers with what the tables grant, and has a row exactly
\* where they grant something.
LEMMA ExactAnswers ==
    ASSUME TypeOK, JunctionsInOneDomain, CacheExact,
           NEW d \in Domains, NEW u \in Users, NEW r \in Resources
    PROVE  /\ EffectiveMask(d, u, r) = Granted(d, u, r)
           /\ user_resource_masks[<<d, u, r>>] # NoRow <=> Granted(d, u, r) # {}
<1>1. <<d, u, r>> \in CacheKeys
  BY DEF CacheKeys
<1>2. user_resource_masks[<<d, u, r>>] = CacheRow(Granted(d, u, r))
  BY <1>1, CombinedIsGranted DEF CacheExact, TypeOK
<1>3. Granted(d, u, r) \in Masks /\ SignBit \notin Granted(d, u, r)
  BY <1>1, CombinedIsGranted, CombinedMaskFits DEF TypeOK, TablesOK, FitsInt64
<1> QED BY <1>2, <1>3, NullAssumption DEF CacheRow, EffectiveMask, maskFromSQL

\* Every authorization decision of a serving SQLite store is what the current
\* rows grant, after any sequence of calls, crashes, edits and restarts.
THEOREM CacheCoherence == Spec => []CacheCoherent
<1>1. TypeOK /\ JunctionsInOneDomain /\ CacheInv => CacheCoherent
  BY ExactAnswers DEF CacheInv, CacheCoherent
<1> QED BY <1>1, TypeCorrect, DomainIsolation, CacheInvariant, PTL

\* Access of a user in a domain, which needs a permission of that domain, is
\* access of one of its users.
LEMMA AccessInDomain ==
    ASSUME JunctionsInOneDomain, ReferencesLive, NEW d \in Domains, NEW u \in Users,
           NEW r \in Resources, Granted(d, u, r) # {}
    PROVE  d \in domains /\ UserIn(u, d)
<1>1. PICK q \in Permissions :
         /\ PermissionIn(q, d)
         /\ \/ <<d, u, q>> \in user_permissions
            \/ \E g \in Groups : <<d, u, g>> \in group_members /\ <<d, g, q>> \in group_permissions
  BY DEF Granted
<1>2. d \in domains
  BY <1>1 DEF ReferencesLive, PermissionIn
<1>3. UserIn(u, d)
  BY <1>1 DEF JunctionsInOneDomain
<1> QED BY <1>2, <1>3

\* The unfiltered listings show exactly the pairs with access, and what their
\* lookups refuse has none, resources of another domain aside.
THEOREM ListingExactness == Spec => []ListingsExact
<1>1. TypeOK /\ JunctionsInOneDomain /\ ReferencesLive /\ CacheInv => ListingsExact
  <2> SUFFICES ASSUME TypeOK, JunctionsInOneDomain, ReferencesLive, CacheInv, Serving,
                      NEW d \in Domains
               PROVE  /\ \A u \in Users :
                            /\ UserAuthzResourcesList(d, u) \in {AccessOfUser(d, u), ErrNotFound}
                            /\ AccessOfUser(d, u) # {} =>
                                  UserAuthzResourcesList(d, u) = AccessOfUser(d, u)
                      /\ \A r \in Resources :
                            /\ ResourceAuthzUsersList(d, r) \in
                                  {AccessToResource(d, r), ErrNotFound}
                            /\ AccessToResource(d, r) # {} /\ resources[r] = d =>
                                  ResourceAuthzUsersList(d, r) = AccessToResource(d, r)
    BY DEF ListingsExact
  <2>1. \A u \in Users, r \in Resources :
           /\ EffectiveMask(d, u, r) = Granted(d, u, r)
           /\ user_resource_masks[<<d, u, r>>] # NoRow <=> Granted(d, u, r) # {}
    BY ExactAnswers DEF CacheInv
  <2>2. ASSUME NEW u \in Users
        PROVE  /\ UserAuthzResourcesList(d, u) \in {AccessOfUser(d, u), ErrNotFound}
               /\ AccessOfUser(d, u) # {} => UserAuthzResourcesList(d, u) = AccessOfUser(d, u)
    <3>1. d \in domains /\ UserIn(u, d) => UserAuthzResourcesList(d, u) = AccessOfUser(d, u)
      BY <2>1 DEF UserAuthzResourcesList, AccessOfUser
    <3>2. AccessOfUser(d, u) # {} => d \in domains /\ UserIn(u, d)
      BY AccessInDomain DEF AccessOfUser
    <3>3. ~ (d \in domains /\ UserIn(u, d)) => UserAuthzResourcesList(d, u) = ErrNotFound
      BY DEF UserAuthzResourcesList
    <3> QED BY <3>1, <3>2, <3>3
  <2>3. ASSUME NEW r \in Resources
        PROVE  /\ ResourceAuthzUsersList(d, r) \in {AccessToResource(d, r), ErrNotFound}
               /\ AccessToResource(d, r) # {} /\ resources[r] = d =>
                     ResourceAuthzUsersList(d, r) = AccessToResource(d, r)
    <3>1. d \in domains /\ resources[r] = d => ResourceAuthzUsersList(d, r) = AccessToResource(d, r)
      BY <2>1 DEF ResourceAuthzUsersList, AccessToResource
    <3>2. AccessToResource(d, r) # {} => d \in domains
      BY AccessInDomain DEF AccessToResource
    <3>3. ~ (d \in domains /\ resources[r] = d) => ResourceAuthzUsersList(d, r) = ErrNotFound
      BY DEF ResourceAuthzUsersList
    <3> QED BY <3>1, <3>2, <3>3
  <2> QED BY <2>2, <2>3
<1> QED BY <1>1, TypeCorrect, ImplementsTables, SchemaIntegrity, CacheInvariant, PTL

\* No delete leaves a row, of a table or of the cache of a serving process,
\* that names something gone.
THEOREM ReferentialIntegrity == Spec => []NoDangling
<1>1. TypeOK /\ JunctionsInOneDomain /\ ReferencesLive /\ CacheInv => NoDangling
  <2> SUFFICES ASSUME TypeOK, JunctionsInOneDomain, ReferencesLive, CacheExact,
                      NEW k \in CacheKeys, user_resource_masks[k] # NoRow
               PROVE  CacheKeyExists(k)
    BY DEF CacheInv, NoDangling
  <2>1. PICK q \in Permissions : PermissionIn(q, k[1]) /\ permissions[q].resource = k[3]
                                 /\ HeldBy(q, k[2])
    <3>1. ~ \A q \in Permissions : Contribution(q, k) = {}
      BY NoContribution DEF CacheExact
    <3> QED BY <3>1 DEF Contribution
  <2>2. k[1] \in domains /\ resources[k[3]] # NoRow
    BY <2>1 DEF ReferencesLive, PermissionIn
  <2>3. users[k[2]] # NoRow
    <3>1. k[1] \in Domains /\ k[2] \in Users
      BY DEF CacheKeys
    <3>2. k[2] \in permissionHolderUserIDs(k[1], q)
      BY <2>1, <3>1, HolderInDomain
    <3>3. UserIn(k[2], k[1])
      BY <3>2 DEF permissionHolderUserIDs, JunctionsInOneDomain
    <3> QED BY <3>1, <3>3, NullAssumption DEF UserIn
  <2> QED BY <2>2, <2>3 DEF CacheKeyExists
<1> QED BY <1>1, TypeCorrect, ImplementsTables, SchemaIntegrity, CacheInvariant, PTL

\* A restart whose database was left alone rebuilds the cache it had: the
\* incremental maintenance and the full rebuild agree.
THEOREM ReconcileIdentity == Spec => ReconcileChangesNothing
<1>1. ASSUME TypeOK, JunctionsInOneDomain, CacheInv, CacheInv', TypeOK', [Next]_vars,
             ~ Serving, Serving', edits = 0
      PROVE  user_resource_masks' = user_resource_masks
  <2>1. Setup
    <3>1. Next
      BY <1>1 DEF vars, process, Serving
    <3>2. ~ \E d \in Domains : EntityOp(d) \/ GroupOp(d) \/ PermissionOp(d) \/ AuthzOp(d)
      BY <1>1, OperationsServe
    <3>3. ~ \E k \in CacheKeys, v \in {NoRow} \cup Masks : EditCacheRow(k, v)
      BY <1>1 DEF EditCacheRow, Serving
    <3>4. ~ \E p \in Permissions, v \in Masks : EditPermissionMask(p, v)
      BY <1>1 DEF EditPermissionMask, Serving
    <3> QED BY <1>1, <3>1, <3>2, <3>3, <3>4 DEF Next, ProcessStep, Stop
  <2>2. \A k \in CacheKeys : CombinedMask(k)' = CombinedMask(k)
    BY <2>1 DEF Setup, tables, entities, junctions, CombinedMask, PermissionIn, HeldBy
  <2>3. CacheExact /\ CacheExact'
    BY <1>1 DEF CacheInv
  <2>4. \A k \in CacheKeys : user_resource_masks'[k] = user_resource_masks[k]
    BY <2>2, <2>3 DEF CacheExact, CacheRow
  <2> QED BY <1>1, <2>4 DEF TypeOK
<1>2. TypeOK /\ JunctionsInOneDomain /\ CacheInv /\ CacheInv' /\ TypeOK' /\ [Next]_vars
        => [~ Serving /\ Serving' /\ edits = 0 => UNCHANGED user_resource_masks]_vars
  BY <1>1
<1> QED BY <1>2, TypeCorrect, DomainIsolation, CacheInvariant, PTL DEF Spec, ReconcileChangesNothing

----------------------------------------------------------------------------
(* Access changes in the direction of the call.  *)

\* What the tables grant shrinks and grows with the rows it is computed from.
LEMMA GrantedMonotone ==
    ASSUME JunctionsInOneDomain, JunctionsInOneDomain',
           NEW d \in Domains, NEW u \in Users, NEW r \in Resources
    PROVE  /\ SourcesOnlyShrink => Granted(d, u, r)' \subseteq Granted(d, u, r)
           /\ SourcesOnlyGrow => Granted(d, u, r) \subseteq Granted(d, u, r)'
<1>1. ASSUME NEW p \in Permissions,
             \/ <<d, u, p>> \in user_permissions
             \/ \E g \in Groups : <<d, u, g>> \in group_members /\ <<d, g, p>> \in group_permissions
      PROVE  permissions[p] # NoRow
  BY <1>1 DEF JunctionsInOneDomain, PermissionIn
<1>2. ASSUME NEW p \in Permissions,
             \/ <<d, u, p>> \in user_permissions'
             \/ \E g \in Groups : <<d, u, g>> \in group_members' /\ <<d, g, p>> \in group_permissions'
      PROVE  permissions'[p] # NoRow
  BY <1>2 DEF JunctionsInOneDomain, PermissionIn
<1>3. ASSUME SourcesOnlyShrink PROVE Granted(d, u, r)' \subseteq Granted(d, u, r)
  BY <1>1, <1>3 DEF SourcesOnlyShrink, Granted, PermissionIn
<1>4. ASSUME SourcesOnlyGrow PROVE Granted(d, u, r) \subseteq Granted(d, u, r)'
  BY <1>2, <1>4 DEF SourcesOnlyGrow, Granted, PermissionIn
<1> QED BY <1>3, <1>4

\* No removal, revocation or deletion gives anyone a bit through the cache, and
\* no grant, addition or creation takes one away.
THEOREM AccessIsMonotone == Spec => AccessMonotone
<1>1. ASSUME CacheCoherent, CacheCoherent', JunctionsInOneDomain, JunctionsInOneDomain',
             Serving, Serving', NEW d \in Domains, NEW u \in Users, NEW r \in Resources
      PROVE  /\ SourcesOnlyShrink => EffectiveMask(d, u, r)' \subseteq EffectiveMask(d, u, r)
             /\ SourcesOnlyGrow => EffectiveMask(d, u, r) \subseteq EffectiveMask(d, u, r)'
  <2>1. EffectiveMask(d, u, r) = Granted(d, u, r) /\ EffectiveMask(d, u, r)' = Granted(d, u, r)'
    BY <1>1 DEF CacheCoherent
  <2> QED BY <1>1, <2>1, GrantedMonotone
<1>2. /\ CacheCoherent /\ CacheCoherent' /\ JunctionsInOneDomain /\ JunctionsInOneDomain'
      => (Serving /\ Serving' =>
            \A d \in Domains, u \in Users, r \in Resources :
               /\ SourcesOnlyShrink => EffectiveMask(d, u, r)' \subseteq EffectiveMask(d, u, r)
               /\ SourcesOnlyGrow => EffectiveMask(d, u, r) \subseteq EffectiveMask(d, u, r)')
  BY <1>1
<1> QED BY <1>2, CacheCoherence, DomainIsolation, PTL DEF AccessMonotone

----------------------------------------------------------------------------
(* The group hierarchy.  *)

\* A walk that found the root of the chain has shown that the chain escapes:
\* a set the chain never left would hold a chain without an end.
LEMMA RootFound ==
    ASSUME TypeOK, Acyclic, NEW d \in Domains, NEW g \in Groups, NEW parent \in Groups,
           NEW n \in Nat, NEW path \in [0..n -> Groups],
           WalkAlong(d, g, parent, n, path), ParentOf(path[n]) = NoParent
    PROVE  Escapes(parent, g)
<1> SUFFICES ASSUME NEW S \in SUBSET Groups, parent \in S, \A h \in S \ {g} : ParentOf(h) \in S
             PROVE  FALSE
  BY DEF Escapes
<1> DEFINE T == { path[i] : i \in 0..n } \cap S
<1>1. parent \in T
  BY DEF WalkAlong
<1>2. PICK i \in 0..n : path[i] \in S /\ ParentOf(path[i]) \notin T
  BY <1>1 DEF Acyclic
<1>3. path[i] # g
  BY DEF WalkAlong
<1>4. ParentOf(path[i]) \in S
  BY <1>2, <1>3
<1>5. i # n
  BY <1>4, NullAssumption
<1>6. i \in 0..(n - 1) /\ i + 1 \in 0..n
  BY <1>5
<1>7. ParentOf(path[i]) = path[i + 1]
  BY <1>6 DEF WalkAlong
<1> QED BY <1>2, <1>4, <1>6, <1>7

\* A walk cannot run out of steps: with as many steps as there are groups, all
\* of them other than g, it would have met a group twice, which is a cycle.
LEMMA StepsSuffice ==
    ASSUME TypeOK, Acyclic, NEW d \in Domains, NEW g \in Groups, NEW parent \in Groups,
           NEW path \in [0..MaxSteps -> Groups],
           WalkAlong(d, g, parent, MaxSteps - 1, path)
    PROVE  FALSE
<1> DEFINE I == 0..(MaxSteps - 1)
           f == [i \in I |-> path[i]]
<1>1. MaxSteps \in Nat /\ MaxSteps # 0 /\ I \subseteq 0..MaxSteps
  BY BoundsAssumption
<1>2. IsFiniteSet(I) /\ Cardinality(I) = MaxSteps
  BY <1>1, FS_Interval
<1>3. IsFiniteSet(Groups \ {g}) /\ Cardinality(Groups \ {g}) = Cardinality(Groups) - 1
  BY FS_RemoveElement, WalkAssumption
<1>4. Cardinality(Groups) \in Nat
  BY FS_CardinalityType, WalkAssumption
<1>5. f \in [I -> Groups \ {g}]
  BY <1>1 DEF WalkAlong
<1>6. Cardinality(Groups \ {g}) < Cardinality(I)
  BY <1>1, <1>2, <1>3, <1>4, WalkAssumption
<1>7. PICK x \in I, y \in I : x # y /\ f[x] = f[y]
  <2> HIDE DEF I, f
  <2> QED BY <1>2, <1>3, <1>5, <1>6, FS_PigeonHole
<1>8. PICK i \in I, j \in I : i < j /\ path[i] = path[j]
  <2>1. path[x] = path[y]
    BY <1>7
  <2>2. x < y \/ y < x
    BY <1>1, <1>7
  <2> QED BY <2>1, <2>2
<1> DEFINE T == { path[k] : k \in i..(j - 1) }
<1>9. T \in SUBSET Groups /\ T # {}
  BY <1>1, <1>8
<1>10. PICK k \in i..(j - 1) : ParentOf(path[k]) \notin T
  BY <1>9 DEF Acyclic
<1>11. ParentOf(path[k]) = path[k + 1]
  <2>1. k \in 0..(MaxSteps - 1 - 1)
    BY <1>1, <1>8
  <2> QED BY <2>1 DEF WalkAlong
<1>12. CASE k + 1 = j
  BY <1>1, <1>8, <1>10, <1>11, <1>12
<1>13. CASE k + 1 # j
  <2>1. k + 1 \in i..(j - 1)
    BY <1>1, <1>8, <1>13
  <2> QED BY <1>10, <1>11, <2>1
<1> QED BY <1>12, <1>13

\* What groupSetParentTx has checked when it comes to its UPDATE.
LEMMA WalkEscapes ==
    ASSUME TypeOK, Acyclic, NEW d \in Domains, NEW g \in Groups, NEW parent \in Groups,
           WalkPasses(d, g, parent)
    PROVE  Escapes(parent, g)
<1>1. ASSUME NEW n \in 0..(MaxSteps - 1), NEW path \in [0..n -> Groups],
             WalkAlong(d, g, parent, n, path), ParentOf(path[n]) = NoParent
      PROVE  Escapes(parent, g)
  <2>1. n \in Nat
    BY BoundsAssumption
  <2> QED BY <1>1, <2>1, RootFound
<1> QED BY <1>1, StepsSuffice DEF WalkPasses

\* Every call keeps the hierarchy free of cycles.
LEMMA AcyclicStep ==
    ASSUME TypeOK, ReferencesLive, Acyclic, [Next]_vars
    PROVE  Acyclic'
<1>1. ASSUME UNCHANGED groups PROVE Acyclic'
  BY <1>1 DEF Acyclic, ParentOf
<1>2. ASSUME NEW d \in Domains, NEW g \in Groups, NEW parent \in Groups \cup {NoParent},
             groupSetParentTx(d, g, parent)
      PROVE  Acyclic'
  <2>1. parent = NoParent \/ Escapes(parent, g)
    BY <1>2, WalkEscapes DEF groupSetParentTx
  <2> QED BY <1>2, <2>1, AcyclicReparent DEF groupSetParentTx, TypeOK
<1>3. ASSUME NEW d \in Domains, GroupOp(d) PROVE Acyclic'
  BY <1>2, <1>3, AcyclicInsert, AcyclicDelete
     DEF GroupOp, GroupCreate, GroupSetParent, GroupPatch, GroupDelete, TypeOK
<1>4. ASSUME NEW d \in Domains, EntityOp(d) \/ PermissionOp(d) \/ AuthzOp(d) PROVE UNCHANGED groups
  <2>1. EntityStatement(d) \/ PermissionStatement(d) \/ JunctionStatement(d)
    BY <1>4, EntityOpStatement, PermissionOpStatement, AuthzOpStatement DEF TypeOK
  <2> QED BY <2>1 DEF EntityStatement, InsertDomain, DeleteDomain, InsertUser, DeleteUser,
             InsertResource, DeleteResource, PermissionStatement, InsertPermission,
             UpdatePermission, DeletePermission, JunctionStatement, InsertMember, DeleteMember,
             InsertUserPermission, DeleteUserPermission, InsertGroupPermission,
             DeleteGroupPermission, entities
<1>5. ASSUME ProcessStep PROVE UNCHANGED groups
  BY <1>5 DEF ProcessStep, Setup, Stop, EditCacheRow, EditPermissionMask, EditMask, tables, entities
<1> QED BY <1>1, <1>3, <1>4, <1>5 DEF Next, vars, tables, entities

\* In the SQLite store parent links never form a cycle, of any length and
\* across domains, although GroupCreate checks nothing and the walk is bounded.
THEOREM HierarchyIsAcyclic == Spec => []Acyclic
<1>1. Init => Acyclic
  BY NullAssumption DEF Init, EmptyTables, Acyclic, ParentOf
<1>2. TypeOK /\ ReferencesLive /\ Acyclic /\ [Next]_vars => Acyclic'
  BY AcyclicStep
<1>3. Spec => []ReferencesLive
  BY ImplementsTables, SchemaIntegrity, PTL
<1> QED BY <1>1, <1>2, <1>3, TypeCorrect, PTL DEF Spec

=============================================================================
