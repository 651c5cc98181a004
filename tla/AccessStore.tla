----------------------------- MODULE AccessStore -----------------------------
(***************************************************************************)
(* The SQLite store of access-manager: the operations of store.Store that  *)
(* change the tables, and the materialised cache user_resource_masks that  *)
(* every authorization decision is read from.                              *)
(*                                                                         *)
(* database.Open gives the SQLite pool one connection, so a transaction    *)
(* runs alone from BeginTx to Commit: each operation is one atomic action, *)
(* a statement of Schema and its effect on the cache, whose guard is the   *)
(* conjunction of the conditions under which the code reaches Commit.  A   *)
(* call that meets one of the error returns (not found, foreign key,       *)
(* primary key, invalid input) is rolled back and is a stuttering step.    *)
(***************************************************************************)
EXTENDS Schema, FiniteSets

CONSTANTS
    MaxSteps,   \* maxSteps of the parent walk (1,000,000 in the code)
    MaxEdits    \* bound: out-of-band edits of the database file per outage

CacheKeys == Domains \X Users \X Resources

ASSUME BoundsAssumption == MaxSteps \in Nat \ {0} /\ MaxEdits \in Nat

\* The walk of groupSetParentTx may visit every group of the deployment.
ASSUME WalkAssumption == IsFiniteSet(Groups) /\ Cardinality(Groups) <= MaxSteps

VARIABLES
    user_resource_masks,  \* <<domain_id, user_id, resource_id>> -> access_mask, or NoRow
    server,               \* "down" or "serving"
    edits                 \* out-of-band edits since the server went down

process == <<server, edits>>
vars == <<tables, user_resource_masks, process>>

----------------------------------------------------------------------------
(* Queries.  *)

\* EffectiveMask, the read behind every authorization decision.
EffectiveMask(d, u, r) ==
    IF user_resource_masks[<<d, u, r>>] = NoRow
    THEN {}
    ELSE maskFromSQL(user_resource_masks[<<d, u, r>>])

\* A lookup that finds nothing (sql.ErrNoRows).
ErrNotFound == NoRow

\* The two listings over the cache: the domain and the subject, which must be
\* of that domain, are looked up first; then every row of the subject, with
\* its mask.  The page is the whole result.
UserAuthzResourcesList(d, u) ==
    IF d \notin domains \/ ~ UserIn(u, d) THEN ErrNotFound
    ELSE { <<r, EffectiveMask(d, u, r)>> :
             r \in { s \in Resources : user_resource_masks[<<d, u, s>>] # NoRow } }
ResourceAuthzUsersList(d, r) ==
    IF d \notin domains \/ resources[r] # d THEN ErrNotFound
    ELSE { <<u, EffectiveMask(d, u, r)>> :
             u \in { s \in Users : user_resource_masks[<<d, s, r>>] # NoRow } }

groupResourceIDs(d, g) ==
    { permissions[p].resource :
        p \in { q \in Permissions : /\ <<d, g, q>> \in group_permissions
                                    /\ permissions[q] # NoRow
                                    /\ IsPositive(permissions[q].mask) } }

groupMemberIDs(d, g) == { u \in Users : <<d, u, g>> \in group_members }

permissionHolderUserIDs_DirectOnly(d, p) ==
    { u \in Users : <<d, u, p>> \in user_permissions }
permissionHolderUserIDs(d, p) ==
    { u \in Users :
        \/ <<d, u, p>> \in user_permissions
        \/ \E g \in Groups : /\ <<d, g, p>> \in group_permissions
                             /\ <<d, u, g>> \in group_members }

----------------------------------------------------------------------------
(* Writing the cache.  *)

\* The row computeAndUpsertMask leaves: none when the combined mask is zero.
CacheRow_KeepsZero(m) == m
CacheRow(m) == IF m = {} THEN NoRow ELSE m

\* The foreign keys of user_resource_masks.
CacheKeyExists(k) ==
    k[1] \in domains /\ users[k[2]] # NoRow /\ resources[k[3]] # NoRow

\* computeAndUpsertMask for every key in keys, in the transaction that has
\* already written the other tables: it reads their new contents.
computeAndUpsertMask(keys) ==
    /\ \A k \in keys : /\ FitsInt64(CombinedMask(k)')
                       /\ CombinedMask(k)' # {} => CacheKeyExists(k)'
    /\ user_resource_masks' =
         [k \in CacheKeys |-> IF k \in keys THEN CacheRow(CombinedMask(k)')
                                            ELSE user_resource_masks[k]]

\* ON DELETE CASCADE of user_resource_masks, for a deleted parent row.
CascadeCache(keys) ==
    user_resource_masks' =
        [k \in CacheKeys |-> IF k \in keys THEN NoRow ELSE user_resource_masks[k]]

----------------------------------------------------------------------------
(* Domains, users and resources.  *)

Serving == server = "serving"

DomainCreate(d) ==
    /\ Serving
    /\ InsertDomain(d)
    /\ UNCHANGED <<user_resource_masks, process>>

DomainDelete(d) ==
    /\ Serving
    /\ DeleteDomain(d)
    /\ CascadeCache({ k \in CacheKeys : k[1] = d })
    /\ UNCHANGED process

UserCreate(d, u) ==
    /\ Serving
    /\ InsertUser(d, u)
    /\ UNCHANGED <<user_resource_masks, process>>

UserDelete(d, u) ==
    /\ Serving
    /\ DeleteUser(d, u)
    /\ CascadeCache({ k \in CacheKeys : k[2] = u })
    /\ UNCHANGED process

ResourceCreate(d, r) ==
    /\ Serving
    /\ InsertResource(d, r)
    /\ UNCHANGED <<user_resource_masks, process>>

ResourceDelete(d, r) ==
    /\ Serving
    /\ DeleteResource(d, r)
    /\ CascadeCache({ k \in CacheKeys : k[3] = r })
    /\ UNCHANGED process

----------------------------------------------------------------------------
(* Groups.  *)

GroupCreate(d, g, parent) ==
    /\ Serving
    /\ InsertGroup(d, g, parent)
    /\ UNCHANGED <<user_resource_masks, process>>

\* The walk from parentID up the parent chain has made n steps along path
\* without meeting groupID or leaving the domain.
WalkAlong(d, g, parent, n, path) ==
    /\ path[0] = parent
    /\ \A i \in 0..n : path[i] # g /\ GroupIn(path[i], d)
    /\ \A i \in 0..(n - 1) : ParentOf(path[i]) = path[i + 1]

\* The loop leaves by its break at a root, or by running out of steps; either
\* way the code goes on to the UPDATE.  Otherwise it has returned an error.
WalkPasses_SelfOnly(d, g, parent) == GroupIn(parent, d) /\ parent # g
WalkPasses(d, g, parent) ==
    \/ \E n \in 0..(MaxSteps - 1) : \E path \in [0..n -> Groups] :
          WalkAlong(d, g, parent, n, path) /\ ParentOf(path[n]) = NoParent
    \/ \E path \in [0..MaxSteps -> Groups] :
          /\ WalkAlong(d, g, parent, MaxSteps - 1, path)
          /\ ParentOf(path[MaxSteps - 1]) = path[MaxSteps]

groupSetParentTx(d, g, parent) ==
    /\ parent # g
    /\ parent # NoParent => GroupIn(parent, d) /\ WalkPasses(d, g, parent)
    /\ UpdateGroupParent(d, g, parent)

GroupSetParent(d, g, parent) ==
    /\ Serving
    /\ groupSetParentTx(d, g, parent)
    /\ UNCHANGED <<user_resource_masks, process>>

\* A patch of the title alone changes nothing that is modelled.
GroupPatch(d, g, parent) ==
    /\ Serving
    /\ GroupIn(g, d)
    /\ groupSetParentTx(d, g, parent)
    /\ UNCHANGED <<user_resource_masks, process>>

GroupDelete(d, g) ==
    /\ Serving
    /\ DeleteGroup(d, g)
    /\ UNCHANGED <<user_resource_masks, process>>

----------------------------------------------------------------------------
(* Permissions.  *)

PermissionCreate(d, p, r, m) ==
    /\ Serving
    /\ FitsInt64(m)
    /\ InsertPermission(d, p, r, m)
    /\ UNCHANGED <<user_resource_masks, process>>

PermissionDelete(d, p) ==
    /\ Serving
    /\ DeletePermission(d, p)
    /\ UNCHANGED <<user_resource_masks, process>>

\* resource and mask are nil in a patch of the title alone, which still writes
\* the mask it read back: a negative one becomes 0.
PermissionPatch(d, p, resource, mask) ==
    LET old == permissions[p]
        newResource == PatchField(resource, old.resource)
        newMask == PatchField(mask, maskFromSQL(old.mask))
        stale == IF resource = NoChange THEN {newResource} ELSE {newResource, old.resource}
    IN
    /\ Serving
    /\ PermissionIn(p, d)
    /\ resource # NoChange => resources[resource] = d
    /\ FitsInt64(newMask)
    /\ UpdatePermission(d, p, newResource, newMask)
    /\ UNCHANGED process
    /\ IF resource = NoChange /\ mask = NoChange
       THEN UNCHANGED user_resource_masks
       ELSE computeAndUpsertMask({d} \X permissionHolderUserIDs(d, p) \X stale)

----------------------------------------------------------------------------
(* Memberships and grants.  *)

AddUserToGroup(d, u, g) ==
    /\ Serving
    /\ InsertMember(d, u, g)
    /\ computeAndUpsertMask({d} \X {u} \X groupResourceIDs(d, g))
    /\ UNCHANGED process

RemoveUserFromGroup(d, u, g) ==
    /\ Serving
    /\ DeleteMember(d, u, g)
    /\ computeAndUpsertMask({d} \X {u} \X groupResourceIDs(d, g))
    /\ UNCHANGED process

GrantUserPermission(d, u, p) ==
    /\ Serving
    /\ InsertUserPermission(d, u, p)
    /\ computeAndUpsertMask({<<d, u, permissions[p].resource>>})
    /\ UNCHANGED process

RevokeUserPermission(d, u, p) ==
    /\ Serving
    /\ PermissionIn(p, d)
    /\ DeleteUserPermission(d, u, p)
    /\ computeAndUpsertMask({<<d, u, permissions[p].resource>>})
    /\ UNCHANGED process

\* The keys whose users hold p through g.
MemberKeys(d, g, p) == {d} \X groupMemberIDs(d, g) \X {permissions[p].resource}

GrantGroupPermission(d, g, p) ==
    /\ Serving
    /\ InsertGroupPermission(d, g, p)
    /\ computeAndUpsertMask(MemberKeys(d, g, p))
    /\ UNCHANGED process

RevokeGroupPermission(d, g, p) ==
    /\ Serving
    /\ groupMemberIDs(d, g) # {} => PermissionIn(p, d)
    /\ DeleteGroupPermission(d, g, p)
    /\ computeAndUpsertMask(MemberKeys(d, g, p))
    /\ UNCHANGED process

----------------------------------------------------------------------------
(* The process: it stops or dies between transactions, the database file may *)
(* be edited while it is down, and setup rebuilds the cache before serving.   *)

Stop ==
    /\ Serving
    /\ server' = "down"
    /\ UNCHANGED <<tables, user_resource_masks, edits>>

\* A row of the cache lost, stale or forged (a restored backup, a file from
\* before the cache existed, manual SQL).
EditCacheRow(k, v) ==
    /\ ~ Serving /\ edits < MaxEdits
    /\ user_resource_masks' = [user_resource_masks EXCEPT ![k] = v]
    /\ edits' = edits + 1
    /\ UNCHANGED <<tables, server>>

\* A permission whose access_mask is written by hand, negative ones included.
EditPermissionMask(p, v) ==
    /\ ~ Serving /\ edits < MaxEdits
    /\ EditMask(p, v)
    /\ edits' = edits + 1
    /\ UNCHANGED <<user_resource_masks, server>>

\* triplesSQL: the keys with at least one grant.
triples_DirectOnly ==
    { k \in CacheKeys : \E p \in Permissions :
        /\ PermissionIn(p, k[1]) /\ permissions[p].resource = k[3]
        /\ k[2] \in permissionHolderUserIDs_DirectOnly(k[1], p) }
triples ==
    { k \in CacheKeys : \E p \in Permissions :
        /\ PermissionIn(p, k[1]) /\ permissions[p].resource = k[3]
        /\ k[2] \in permissionHolderUserIDs(k[1], p) }

\* The recomputation without the DELETE that precedes it.
Setup_KeepsRows ==
    /\ ~ Serving
    /\ user_resource_masks' =
         [k \in CacheKeys |-> IF k \in triples THEN CacheRow(CombinedMask(k))
                                               ELSE user_resource_masks[k]]
    /\ server' = "serving"
    /\ edits' = 0
    /\ UNCHANGED tables
\* setup: ReconcileUserResourceMasks empties the cache and recomputes every
\* triple in one transaction, before the listener is opened.
Setup ==
    /\ ~ Serving
    /\ \A k \in triples : /\ FitsInt64(CombinedMask(k))
                          /\ CombinedMask(k) # {} => CacheKeyExists(k)
    /\ user_resource_masks' =
         [k \in CacheKeys |-> IF k \in triples THEN CacheRow(CombinedMask(k)) ELSE NoRow]
    /\ server' = "serving"
    /\ edits' = 0
    /\ UNCHANGED tables

----------------------------------------------------------------------------

\* A freshly migrated database and no process.
Init ==
    /\ EmptyTables
    /\ user_resource_masks = [k \in CacheKeys |-> NoRow]
    /\ server = "down"
    /\ edits = 0

ProcessStep ==
    \/ Setup
    \/ Stop
    \/ \E k \in CacheKeys, v \in {NoRow} \cup Masks : EditCacheRow(k, v)
    \/ \E p \in Permissions, v \in Masks : EditPermissionMask(p, v)

EntityOp(d) ==
    \/ DomainCreate(d)
    \/ DomainDelete(d)
    \/ \E u \in Users : UserCreate(d, u) \/ UserDelete(d, u)
    \/ \E r \in Resources : ResourceCreate(d, r) \/ ResourceDelete(d, r)

GroupOp(d) ==
    \E g \in Groups :
        \/ \E parent \in Groups \cup {NoParent} :
              \/ GroupCreate(d, g, parent)
              \/ GroupSetParent(d, g, parent)
              \/ GroupPatch(d, g, parent)
        \/ GroupDelete(d, g)

PermissionOp(d) ==
    \E p \in Permissions :
        \/ \E r \in Resources, m \in Masks : PermissionCreate(d, p, r, m)
        \/ \E r \in Resources \cup {NoChange}, m \in {NoChange} \cup Masks :
              PermissionPatch(d, p, r, m)
        \/ PermissionDelete(d, p)

AuthzOp(d) ==
    \/ \E u \in Users, g \in Groups : AddUserToGroup(d, u, g) \/ RemoveUserFromGroup(d, u, g)
    \/ \E u \in Users, p \in Permissions :
          GrantUserPermission(d, u, p) \/ RevokeUserPermission(d, u, p)
    \/ \E g \in Groups, p \in Permissions :
          GrantGroupPermission(d, g, p) \/ RevokeGroupPermission(d, g, p)

Next ==
    \/ ProcessStep
    \/ \E d \in Domains : EntityOp(d) \/ GroupOp(d) \/ PermissionOp(d) \/ AuthzOp(d)

Spec == Init /\ [][Next]_vars

----------------------------------------------------------------------------
(* Properties.  *)

\* Every table and the cache hold rows of their schema, and the process has
\* not counted more out-of-band edits than it may.
TypeOK ==
    /\ TablesOK
    /\ user_resource_masks \in [CacheKeys -> {NoRow} \cup Masks]
    /\ server \in {"down", "serving"}
    /\ edits \in 0..MaxEdits

\* Every decision of a serving process, EffectiveMask, is what the tables
\* grant at that moment: the incremental recomputation of each mutation reached
\* every cache row the mutation made stale, and nothing survives an outage.
CacheCoherent ==
    Serving => \A d \in Domains, u \in Users, r \in Resources :
                  EffectiveMask(d, u, r) = Granted(d, u, r)

\* Who has access to what in d, with the mask the tables grant.
AccessOfUser(d, u) ==
    { <<r, Granted(d, u, r)>> : r \in { s \in Resources : Granted(d, u, s) # {} } }
AccessToResource(d, r) ==
    { <<u, Granted(d, u, r)>> : u \in { s \in Users : Granted(d, s, r) # {} } }

\* UserAuthzResourcesList and ResourceAuthzUsersList page the rows of the cache
\* with no filter on access_mask: they list exactly those with some access,
\* each with the mask the tables grant, or answer 404.  A 404 hides nobody's
\* access, except that a permission may be on a resource of another domain,
\* and the listing of that resource is a 404 although users have access to it.
ListingsExact ==
    Serving => \A d \in Domains :
        /\ \A u \in Users :
              /\ UserAuthzResourcesList(d, u) \in {AccessOfUser(d, u), ErrNotFound}
              /\ AccessOfUser(d, u) # {} => UserAuthzResourcesList(d, u) = AccessOfUser(d, u)
        /\ \A r \in Resources :
              /\ ResourceAuthzUsersList(d, r) \in {AccessToResource(d, r), ErrNotFound}
              /\ AccessToResource(d, r) # {} /\ resources[r] = d =>
                    ResourceAuthzUsersList(d, r) = AccessToResource(d, r)

\* No delete leaves a row that names something gone, in the tables or in the
\* cache of a serving process.
NoDangling ==
    /\ ReferencesLive
    /\ Serving => \A k \in CacheKeys : user_resource_masks[k] # NoRow => CacheKeyExists(k)

\* The rows an effective mask is computed from only shrink: no membership or
\* grant is added, and a permission that is still there has not changed.
SourcesOnlyShrink ==
    /\ group_members' \subseteq group_members
    /\ user_permissions' \subseteq user_permissions
    /\ group_permissions' \subseteq group_permissions
    /\ \A p \in Permissions : permissions[p] # NoRow /\ permissions'[p] # NoRow
                                 => permissions'[p] = permissions[p]
SourcesOnlyGrow ==
    /\ group_members \subseteq group_members'
    /\ user_permissions \subseteq user_permissions'
    /\ group_permissions \subseteq group_permissions'
    /\ \A p \in Permissions : permissions[p] # NoRow /\ permissions'[p] # NoRow
                                 => permissions'[p] = permissions[p]

\* A removal, a revocation or the deletion of an entity never gives anyone a
\* bit, a grant or the creation of an entity never takes one away; so creating
\* and deleting entities changes nobody's access.
AccessMonotone ==
    [][Serving /\ Serving' =>
         \A d \in Domains, u \in Users, r \in Resources :
            /\ SourcesOnlyShrink => EffectiveMask(d, u, r)' \subseteq EffectiveMask(d, u, r)
            /\ SourcesOnlyGrow => EffectiveMask(d, u, r) \subseteq EffectiveMask(d, u, r)']_vars

\* The incremental cache is the rebuilt one: the reconciliation at startup
\* changes no row unless somebody edited the database during the outage.
ReconcileChangesNothing ==
    [][~ Serving /\ Serving' /\ edits = 0 => UNCHANGED user_resource_masks]_vars

=============================================================================
