---------------------------- MODULE PooledCalls ----------------------------
(***************************************************************************)
(* The calls of the Postgres and MySQL stores that are one SQL statement   *)
(* on a pooled connection, outside any transaction: the database runs each *)
(* of them atomically, so each is one statement of Schema.  These stores   *)
(* have no cache: a decision is one query over the tables.  The calls of   *)
(* several statements are in GroupTransactions, PermissionTransactions and *)
(* AuthzListings, which extend this module.                                *)
(***************************************************************************)
EXTENDS Schema

DomainCreate(d) == InsertDomain(d)
DomainDelete(d) == DeleteDomain(d)
UserCreate(d, u) == InsertUser(d, u)
UserDelete(d, u) == DeleteUser(d, u)
ResourceCreate(d, r) == InsertResource(d, r)
ResourceDelete(d, r) == DeleteResource(d, r)
GroupCreate(d, g, parent) == InsertGroup(d, g, parent)
GroupDelete(d, g) == DeleteGroup(d, g)

PermissionCreate(d, p, r, m) == FitsInt64(m) /\ InsertPermission(d, p, r, m)
PermissionDelete(d, p) == DeletePermission(d, p)

AddUserToGroup(d, u, g) == InsertMember(d, u, g)
RemoveUserFromGroup(d, u, g) == DeleteMember(d, u, g)
GrantUserPermission(d, u, p) == InsertUserPermission(d, u, p)
RevokeUserPermission(d, u, p) == DeleteUserPermission(d, u, p)
GrantGroupPermission(d, g, p) == InsertGroupPermission(d, g, p)
RevokeGroupPermission(d, g, p) == DeleteGroupPermission(d, g, p)

EntityCall(d) ==
    \/ DomainCreate(d) \/ DomainDelete(d)
    \/ \E u \in Users : UserCreate(d, u) \/ UserDelete(d, u)
    \/ \E r \in Resources : ResourceCreate(d, r) \/ ResourceDelete(d, r)
    \/ \E g \in Groups : \/ GroupDelete(d, g)
                         \/ \E parent \in Groups \cup {NoParent} : GroupCreate(d, g, parent)
    \/ \E p \in Permissions : \/ PermissionDelete(d, p)
                              \/ \E r \in Resources, m \in Masks : PermissionCreate(d, p, r, m)

AuthzCall(d) ==
    \/ \E u \in Users, g \in Groups : AddUserToGroup(d, u, g) \/ RemoveUserFromGroup(d, u, g)
    \/ \E u \in Users, p \in Permissions :
          GrantUserPermission(d, u, p) \/ RevokeUserPermission(d, u, p)
    \/ \E g \in Groups, p \in Permissions :
          GrantGroupPermission(d, g, p) \/ RevokeGroupPermission(d, g, p)

\* Any single-statement call, by any client.
SingleCall == \E d \in Domains : EntityCall(d) \/ AuthzCall(d)

\* EffectiveMask: one query, and the OR of the masks it returns.
EffectiveMask(d, u, r) == CombinedMask(<<d, u, r>>)

----------------------------------------------------------------------------

\* Every decision is what the tables grant when the query runs, although its
\* sub-selects do not filter on domain_id.
DecisionExact ==
    \A d \in Domains, u \in Users, r \in Resources : EffectiveMask(d, u, r) = Granted(d, u, r)

=============================================================================
