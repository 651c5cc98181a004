------------------------------- MODULE Schema -------------------------------
(***************************************************************************)
(* The tables the three stores (SQLite, Postgres, MySQL) share, with the   *)
(* constraints the migrations give them, and the INSERT, UPDATE and DELETE *)
(* statements the stores issue on them.                                    *)
(*                                                                         *)
(* A statement is enabled when the database accepts it and it changes a    *)
(* row: a violated primary key, foreign key or ON DELETE RESTRICT, or a    *)
(* WHERE clause that selects nothing, is a stuttering step.  Titles are    *)
(* left out: no decision depends on them.  Table access_types belongs to   *)
(* another component and is empty here.                                    *)
(***************************************************************************)
EXTENDS Naturals

CONSTANTS
    Domains, Users, Groups, Resources, Permissions, \* ids (UUIDs) the server may draw
    Bits,       \* bit positions of a 64-bit mask
    SignBit,    \* bit 63: the sign of the int64 a mask is stored as
    NoRow,      \* the table has no row with this key
    NoParent,   \* parent_group_id IS NULL
    NoChange    \* a nil field of a patch

ASSUME SignBitAssumption == SignBit \in Bits

Masks == SUBSET Bits
GroupRow == [domain : Domains, parent : Groups \cup {NoParent}]
PermissionRow == [domain : Domains, resource : Resources, mask : Masks]

ASSUME NullAssumption ==
    /\ \A row \in GroupRow \cup PermissionRow : row # NoRow
    /\ NoRow \notin Domains /\ NoChange \notin Resources
    /\ \A m \in Masks : m # NoRow /\ m # NoChange
    /\ NoParent \notin Groups

VARIABLES
    domains,              \* ids with a row in table domains
    users,                \* user id     -> its domain, or NoRow
    groups,               \* group id    -> its row, or NoRow
    resources,            \* resource id -> its domain, or NoRow
    permissions,          \* permission id -> its row, or NoRow
    group_members,        \* rows <<domain_id, user_id, group_id>>
    user_permissions,     \* rows <<domain_id, user_id, permission_id>>
    group_permissions     \* rows <<domain_id, group_id, permission_id>>

entities  == <<domains, users, groups, resources, permissions>>
junctions == <<group_members, user_permissions, group_permissions>>
tables    == <<entities, junctions>>

----------------------------------------------------------------------------
(* Masks in the database.  A uint64 mask is the set of its one bits.  *)

\* maskToSQL returns an error for a mask that does not fit an int64.
FitsInt64(m) == SignBit \notin m

\* A negative access_mask (legacy or out-of-band data) is read as 0.
maskFromSQL(v) == IF SignBit \in v THEN {} ELSE v

\* The SQL condition access_mask > 0.
IsPositive(v) == v # {} /\ SignBit \notin v

----------------------------------------------------------------------------
(* Queries.  *)

UserIn(u, d) == users[u] = d
GroupIn(g, d) == groups[g] # NoRow /\ groups[g].domain = d
PermissionIn(p, d) == permissions[p] # NoRow /\ permissions[p].domain = d
ParentOf(g) == IF groups[g] = NoRow THEN NoParent ELSE groups[g].parent

\* userEffectivePermissionPredicateSQL: held directly or through a group.  Its
\* sub-selects do not filter on domain_id.
HeldBy(p, u) ==
    \/ \E d \in Domains : <<d, u, p>> \in user_permissions
    \/ \E g \in Groups : /\ \E d \in Domains : <<d, g, p>> \in group_permissions
                         /\ \E d \in Domains : <<d, u, g>> \in group_members

\* effectiveMaskSQL and the OR over its rows, for k = <<domain, user, resource>>.
CombinedMask_DirectOnly(k) ==
    UNION { maskFromSQL(permissions[p].mask) :
              p \in { q \in Permissions :
                        /\ PermissionIn(q, k[1])
                        /\ permissions[q].resource = k[3]
                        /\ <<k[1], k[2], q>> \in user_permissions } }
CombinedMask(k) ==
    UNION { maskFromSQL(permissions[p].mask) :
              p \in { q \in Permissions :
                        /\ PermissionIn(q, k[1])
                        /\ permissions[q].resource = k[3]
                        /\ HeldBy(q, k[2]) } }

\* A nil field of PermissionPatchParams keeps the value read from the row.
PatchField(new, current) == IF new = NoChange THEN current ELSE new

----------------------------------------------------------------------------
(* Domains, users and resources.  *)

InsertDomain(d) ==
    /\ d \notin domains
    /\ domains' = domains \cup {d}
    /\ UNCHANGED <<users, groups, resources, permissions, junctions>>

\* ON DELETE RESTRICT: no row of another table may name the domain.
DomainReferenced(d) ==
    \/ \E u \in Users : users[u] = d
    \/ \E g \in Groups : GroupIn(g, d)
    \/ \E r \in Resources : resources[r] = d
    \/ \E p \in Permissions : PermissionIn(p, d)
    \/ \E row \in group_members \cup user_permissions \cup group_permissions : row[1] = d

DeleteDomain(d) ==
    /\ d \in domains
    /\ ~ DomainReferenced(d)
    /\ domains' = domains \ {d}
    /\ UNCHANGED <<users, groups, resources, permissions, junctions>>

InsertUser(d, u) ==
    /\ users[u] = NoRow
    /\ d \in domains
    /\ users' = [users EXCEPT ![u] = d]
    /\ UNCHANGED <<domains, groups, resources, permissions, junctions>>

\* The composite foreign keys (user_id, domain_id) ON DELETE RESTRICT.
UserReferenced(d, u) ==
    \/ \E g \in Groups : <<d, u, g>> \in group_members
    \/ \E p \in Permissions : <<d, u, p>> \in user_permissions

DeleteUser(d, u) ==
    /\ UserIn(u, d)
    /\ ~ UserReferenced(d, u)
    /\ users' = [users EXCEPT ![u] = NoRow]
    /\ UNCHANGED <<domains, groups, resources, permissions, junctions>>

InsertResource(d, r) ==
    /\ resources[r] = NoRow
    /\ d \in domains
    /\ resources' = [resources EXCEPT ![r] = d]
    /\ UNCHANGED <<domains, users, groups, permissions, junctions>>

\* permissions.resource_id names the resource alone, whatever its domain.
ResourceReferenced_SameDomain(d, r) ==
    \E p \in Permissions : PermissionIn(p, d) /\ permissions[p].resource = r
ResourceReferenced(d, r) ==
    \E p \in Permissions : permissions[p] # NoRow /\ permissions[p].resource = r

DeleteResource(d, r) ==
    /\ resources[r] = d
    /\ ~ ResourceReferenced(d, r)
    /\ resources' = [resources EXCEPT ![r] = NoRow]
    /\ UNCHANGED <<domains, users, groups, permissions, junctions>>

----------------------------------------------------------------------------
(* Groups and permissions.  The foreign keys of parent_group_id and of        *)
(* resource_id name groups(id) and resources(id) alone: the row they name may *)
(* belong to another domain.                                                  *)

InsertGroup(d, g, parent) ==
    /\ groups[g] = NoRow
    /\ d \in domains
    /\ parent # NoParent => groups[parent] # NoRow
    /\ groups' = [groups EXCEPT ![g] = [domain |-> d, parent |-> parent]]
    /\ UNCHANGED <<domains, users, resources, permissions, junctions>>

UpdateGroupParent(d, g, parent) ==
    /\ GroupIn(g, d)
    /\ parent # NoParent => groups[parent] # NoRow
    /\ groups' = [groups EXCEPT ![g] = [domain |-> d, parent |-> parent]]
    /\ UNCHANGED <<domains, users, resources, permissions, junctions>>

GroupReferenced(d, g) ==
    \/ \E h \in Groups : ParentOf(h) = g
    \/ \E u \in Users : <<d, u, g>> \in group_members
    \/ \E p \in Permissions : <<d, g, p>> \in group_permissions

DeleteGroup(d, g) ==
    /\ GroupIn(g, d)
    /\ ~ GroupReferenced(d, g)
    /\ groups' = [groups EXCEPT ![g] = NoRow]
    /\ UNCHANGED <<domains, users, resources, permissions, junctions>>

InsertPermission(d, p, r, m) ==
    /\ permissions[p] = NoRow
    /\ d \in domains
    /\ resources[r] # NoRow
    /\ permissions' = [permissions EXCEPT ![p] = [domain |-> d, resource |-> r, mask |-> m]]
    /\ UNCHANGED <<domains, users, groups, resources, junctions>>

UpdatePermission(d, p, r, m) ==
    /\ PermissionIn(p, d)
    /\ resources[r] # NoRow
    /\ permissions' = [permissions EXCEPT ![p] = [domain |-> d, resource |-> r, mask |-> m]]
    /\ UNCHANGED <<domains, users, groups, resources, junctions>>

PermissionReferenced(d, p) ==
    \/ \E u \in Users : <<d, u, p>> \in user_permissions
    \/ \E g \in Groups : <<d, g, p>> \in group_permissions

DeletePermission(d, p) ==
    /\ PermissionIn(p, d)
    /\ ~ PermissionReferenced(d, p)
    /\ permissions' = [permissions EXCEPT ![p] = NoRow]
    /\ UNCHANGED <<domains, users, groups, resources, junctions>>

----------------------------------------------------------------------------
(* Memberships and grants.  The foreign keys of the three junction tables are *)
(* composite: both referenced rows must belong to the row's own domain.  The  *)
(* primary keys leave domain_id out.                                          *)

\* The statement with user_id and group_id bound in the wrong order.
InsertMember_Swapped(d, u, g) ==
    /\ d \in domains /\ UserIn(u, d) /\ GroupIn(g, d)
    /\ \A e \in Domains : <<e, u, g>> \notin group_members
    /\ group_members' = group_members \cup {<<d, g, u>>}
    /\ UNCHANGED <<entities, user_permissions, group_permissions>>
InsertMember(d, u, g) ==
    /\ d \in domains /\ UserIn(u, d) /\ GroupIn(g, d)
    /\ \A e \in Domains : <<e, u, g>> \notin group_members
    /\ group_members' = group_members \cup {<<d, u, g>>}
    /\ UNCHANGED <<entities, user_permissions, group_permissions>>

DeleteMember(d, u, g) ==
    /\ <<d, u, g>> \in group_members
    /\ group_members' = group_members \ {<<d, u, g>>}
    /\ UNCHANGED <<entities, user_permissions, group_permissions>>

InsertUserPermission(d, u, p) ==
    /\ d \in domains /\ UserIn(u, d) /\ PermissionIn(p, d)
    /\ \A e \in Domains : <<e, u, p>> \notin user_permissions
    /\ user_permissions' = user_permissions \cup {<<d, u, p>>}
    /\ UNCHANGED <<entities, group_members, group_permissions>>

DeleteUserPermission(d, u, p) ==
    /\ <<d, u, p>> \in user_permissions
    /\ user_permissions' = user_permissions \ {<<d, u, p>>}
    /\ UNCHANGED <<entities, group_members, group_permissions>>

\* The statement without the composite foreign key of group_id.
InsertGroupPermission_AnyDomain(d, g, p) ==
    /\ d \in domains /\ groups[g] # NoRow /\ PermissionIn(p, d)
    /\ \A e \in Domains : <<e, g, p>> \notin group_permissions
    /\ group_permissions' = group_permissions \cup {<<d, g, p>>}
    /\ UNCHANGED <<entities, group_members, user_permissions>>
InsertGroupPermission(d, g, p) ==
    /\ d \in domains /\ GroupIn(g, d) /\ PermissionIn(p, d)
    /\ \A e \in Domains : <<e, g, p>> \notin group_permissions
    /\ group_permissions' = group_permissions \cup {<<d, g, p>>}
    /\ UNCHANGED <<entities, group_members, user_permissions>>

DeleteGroupPermission(d, g, p) ==
    /\ <<d, g, p>> \in group_permissions
    /\ group_permissions' = group_permissions \ {<<d, g, p>>}
    /\ UNCHANGED <<entities, group_members, user_permissions>>

----------------------------------------------------------------------------
(* What any program does to the tables: one statement at a time.  *)

\* Somebody's SQL on the database itself, negative masks included.
EditMask(p, v) ==
    /\ permissions[p] # NoRow
    /\ permissions' = [permissions EXCEPT ![p].mask = v]
    /\ UNCHANGED <<domains, users, groups, resources, junctions>>

\* Freshly migrated tables.
EmptyTables ==
    /\ domains = {}
    /\ users = [u \in Users |-> NoRow]
    /\ groups = [g \in Groups |-> NoRow]
    /\ resources = [r \in Resources |-> NoRow]
    /\ permissions = [p \in Permissions |-> NoRow]
    /\ group_members = {} /\ user_permissions = {} /\ group_permissions = {}

EntityStatement(d) ==
    \/ InsertDomain(d) \/ DeleteDomain(d)
    \/ \E u \in Users : InsertUser(d, u) \/ DeleteUser(d, u)
    \/ \E r \in Resources : InsertResource(d, r) \/ DeleteResource(d, r)

GroupStatement(d) ==
    \E g \in Groups :
        \/ \E parent \in Groups \cup {NoParent} :
              InsertGroup(d, g, parent) \/ UpdateGroupParent(d, g, parent)
        \/ DeleteGroup(d, g)

PermissionStatement(d) ==
    \E p \in Permissions :
        \/ \E r \in Resources, m \in Masks :
              InsertPermission(d, p, r, m) \/ UpdatePermission(d, p, r, m)
        \/ DeletePermission(d, p)

JunctionStatement(d) ==
    \/ \E u \in Users, g \in Groups : InsertMember(d, u, g) \/ DeleteMember(d, u, g)
    \/ \E u \in Users, p \in Permissions :
          InsertUserPermission(d, u, p) \/ DeleteUserPermission(d, u, p)
    \/ \E g \in Groups, p \in Permissions :
          InsertGroupPermission(d, g, p) \/ DeleteGroupPermission(d, g, p)

Statement ==
    \/ \E d \in Domains : \/ EntityStatement(d) \/ GroupStatement(d)
                          \/ PermissionStatement(d) \/ JunctionStatement(d)
    \/ \E p \in Permissions, v \in Masks : EditMask(p, v)

Tables == EmptyTables /\ [][Statement]_tables

----------------------------------------------------------------------------
(* Properties of the tables.  *)

\* Every table holds rows of its schema.
TablesOK ==
    /\ domains \subseteq Domains
    /\ users \in [Users -> Domains \cup {NoRow}]
    /\ groups \in [Groups -> {NoRow} \cup GroupRow]
    /\ resources \in [Resources -> Domains \cup {NoRow}]
    /\ permissions \in [Permissions -> {NoRow} \cup PermissionRow]
    /\ group_members \subseteq Domains \X Users \X Groups
    /\ user_permissions \subseteq Domains \X Users \X Permissions
    /\ group_permissions \subseteq Domains \X Groups \X Permissions

\* The rows of the junction tables join entities of one domain, their own
\* (the T51 invariant that effectiveMaskSQL and the listings rely on).
JunctionsInOneDomain ==
    /\ \A row \in group_members : UserIn(row[2], row[1]) /\ GroupIn(row[3], row[1])
    /\ \A row \in user_permissions : UserIn(row[2], row[1]) /\ PermissionIn(row[3], row[1])
    /\ \A row \in group_permissions : GroupIn(row[2], row[1]) /\ PermissionIn(row[3], row[1])

\* No delete leaves a row that names something gone: entities name live
\* domains, parents and resources.
ReferencesLive ==
    /\ \A u \in Users : users[u] # NoRow => users[u] \in domains
    /\ \A r \in Resources : resources[r] # NoRow => resources[r] \in domains
    /\ \A g \in Groups : groups[g] # NoRow =>
          /\ groups[g].domain \in domains
          /\ groups[g].parent # NoParent => groups[groups[g].parent] # NoRow
    /\ \A p \in Permissions : permissions[p] # NoRow =>
          permissions[p].domain \in domains /\ resources[permissions[p].resource] # NoRow

\* Parent links never form a cycle, across domains included: every non-empty
\* set of groups has a member whose parent lies outside it.
Acyclic ==
    \A S \in SUBSET Groups : S # {} => \E g \in S : ParentOf(g) \notin S

\* What the authorization model promises (domain, user, resource): the user
\* has bit b exactly when some permission of that domain on that resource, held
\* directly or through a group of that domain, carries it.  A mask that was
\* written negative out of band grants nothing.
Granted(d, u, r) ==
    { b \in Bits : \E p \in Permissions :
        /\ PermissionIn(p, d) /\ permissions[p].resource = r
        /\ b \in permissions[p].mask /\ SignBit \notin permissions[p].mask
        /\ \/ <<d, u, p>> \in user_permissions
           \/ \E g \in Groups : <<d, u, g>> \in group_members /\ <<d, g, p>> \in group_permissions }

=============================================================================
