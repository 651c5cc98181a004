---------------------------- MODULE SchemaProofs ----------------------------
(***************************************************************************)
(* What the schema guarantees to every program that changes the tables by  *)
(* the statements of module Schema, for every set of ids and bits: types,  *)
(* domain isolation and referential integrity.                             *)
(***************************************************************************)
EXTENDS Schema, TLAPS

----------------------------------------------------------------------------
(* Types.  *)

\* The rows the statements write are rows of the schema, never NULL.
LEMMA WrittenRows ==
    ASSUME NEW d \in Domains
    PROVE  /\ \A parent \in Groups \cup {NoParent} :
                 /\ [domain |-> d, parent |-> parent] \in GroupRow
                 /\ [domain |-> d, parent |-> parent] # NoRow
           /\ \A r \in Resources, m \in Masks :
                 /\ [domain |-> d, resource |-> r, mask |-> m] \in PermissionRow
                 /\ [domain |-> d, resource |-> r, mask |-> m] # NoRow
BY NullAssumption DEF GroupRow, PermissionRow

\* A mask edited out of band leaves the rest of its row alone.
LEMMA EditedRow ==
    ASSUME TablesOK, NEW p \in Permissions, NEW v \in Masks, EditMask(p, v)
    PROVE  /\ permissions[p] \in PermissionRow /\ permissions'[p] \in PermissionRow
           /\ permissions'[p] # NoRow
           /\ permissions'[p].domain = permissions[p].domain
           /\ permissions'[p].resource = permissions[p].resource
           /\ permissions' \in [Permissions -> {NoRow} \cup PermissionRow]
           /\ \A q \in Permissions \ {p} : permissions'[q] = permissions[q]
<1>1. /\ permissions[p] \in PermissionRow
      /\ [permissions[p] EXCEPT !.mask = v] \in PermissionRow
  BY DEF EditMask, TablesOK, PermissionRow
<1>2. permissions' = [permissions EXCEPT ![p] = [permissions[p] EXCEPT !.mask = v]]
  BY DEF EditMask
<1> QED BY <1>1, <1>2, NullAssumption DEF TablesOK, PermissionRow

\* Types are preserved by every statement.
LEMMA TablesStep ==
    ASSUME TablesOK, [Statement]_tables
    PROVE  TablesOK'
<1> USE DEF TablesOK, junctions, entities
<1>1. ASSUME NEW d \in Domains, EntityStatement(d) PROVE TablesOK'
  BY <1>1 DEF EntityStatement, InsertDomain, DeleteDomain, InsertUser, DeleteUser,
              InsertResource, DeleteResource
<1>2. ASSUME NEW d \in Domains, GroupStatement(d) PROVE TablesOK'
  BY <1>2, WrittenRows DEF GroupStatement, InsertGroup, UpdateGroupParent, DeleteGroup
<1>3. ASSUME NEW d \in Domains, PermissionStatement(d) PROVE TablesOK'
  BY <1>3, WrittenRows DEF PermissionStatement, InsertPermission, UpdatePermission,
                           DeletePermission
<1>4. ASSUME NEW d \in Domains, JunctionStatement(d) PROVE TablesOK'
  <2>1. ASSUME NEW u \in Users, NEW g \in Groups, InsertMember(d, u, g) \/ DeleteMember(d, u, g)
        PROVE  TablesOK'
    BY <2>1 DEF InsertMember, DeleteMember
  <2>2. ASSUME NEW u \in Users, NEW p \in Permissions,
               InsertUserPermission(d, u, p) \/ DeleteUserPermission(d, u, p)
        PROVE  TablesOK'
    BY <2>2 DEF InsertUserPermission, DeleteUserPermission
  <2>3. ASSUME NEW g \in Groups, NEW p \in Permissions,
               InsertGroupPermission(d, g, p) \/ DeleteGroupPermission(d, g, p)
        PROVE  TablesOK'
    BY <2>3 DEF InsertGroupPermission, DeleteGroupPermission
  <2> QED BY <1>4, <2>1, <2>2, <2>3 DEF JunctionStatement
<1>5. ASSUME NEW p \in Permissions, NEW v \in Masks, EditMask(p, v) PROVE TablesOK'
  BY <1>5, EditedRow DEF EditMask
<1>6. CASE UNCHANGED tables
  BY <1>6 DEF tables
<1> QED BY <1>1, <1>2, <1>3, <1>4, <1>5, <1>6 DEF Statement

----------------------------------------------------------------------------
(* Domains.  The composite foreign keys of the junction tables are what the *)
(* unfiltered sub-selects of the effective-mask query rely on.              *)

\* A row of a junction table is the triple of its columns.
LEMMA JunctionRows ==
    ASSUME TablesOK
    PROVE  /\ \A row \in group_members :
                 /\ row[1] \in Domains /\ row[2] \in Users /\ row[3] \in Groups
                 /\ row = <<row[1], row[2], row[3]>>
           /\ \A row \in user_permissions :
                 /\ row[1] \in Domains /\ row[2] \in Users /\ row[3] \in Permissions
                 /\ row = <<row[1], row[2], row[3]>>
           /\ \A row \in group_permissions :
                 /\ row[1] \in Domains /\ row[2] \in Groups /\ row[3] \in Permissions
                 /\ row = <<row[1], row[2], row[3]>>
BY DEF TablesOK

\* The rows of the junction tables name existing rows of their own domain
\* after each kind of statement.
LEMMA DomainsEntityStep ==
    ASSUME TablesOK, JunctionsInOneDomain, NEW d \in Domains, EntityStatement(d)
    PROVE  JunctionsInOneDomain'
<1> USE DEF JunctionsInOneDomain, TablesOK, UserIn, GroupIn, PermissionIn, junctions
<1>1. CASE InsertDomain(d) \/ DeleteDomain(d) BY <1>1 DEF InsertDomain, DeleteDomain
<1>2. ASSUME NEW u \in Users, InsertUser(d, u) PROVE JunctionsInOneDomain'
  BY <1>2, NullAssumption DEF InsertUser
<1>3. ASSUME NEW u \in Users, DeleteUser(d, u) PROVE JunctionsInOneDomain'
  <2>1. ASSUME NEW row \in group_members, row[2] = u PROVE FALSE
    <3>1. row = <<d, u, row[3]>> /\ row[3] \in Groups
      BY <1>3, <2>1, JunctionRows DEF DeleteUser
    <3> QED BY <1>3, <3>1 DEF DeleteUser, UserReferenced
  <2>2. ASSUME NEW row \in user_permissions, row[2] = u PROVE FALSE
    <3>1. row = <<d, u, row[3]>> /\ row[3] \in Permissions
      BY <1>3, <2>2, JunctionRows DEF DeleteUser
    <3> QED BY <1>3, <3>1 DEF DeleteUser, UserReferenced
  <2> QED BY <1>3, <2>1, <2>2 DEF DeleteUser
<1>4. ASSUME NEW r \in Resources, InsertResource(d, r) \/ DeleteResource(d, r)
      PROVE  JunctionsInOneDomain'
  BY <1>4 DEF InsertResource, DeleteResource
<1> QED BY <1>1, <1>2, <1>3, <1>4 DEF EntityStatement

LEMMA DomainsGroupStep ==
    ASSUME TablesOK, JunctionsInOneDomain, NEW d \in Domains, GroupStatement(d)
    PROVE  JunctionsInOneDomain'
<1> USE DEF JunctionsInOneDomain, TablesOK, UserIn, GroupIn, PermissionIn, junctions
<1>1. ASSUME NEW g \in Groups, NEW parent \in Groups \cup {NoParent},
             InsertGroup(d, g, parent) \/ UpdateGroupParent(d, g, parent)
      PROVE  JunctionsInOneDomain'
  BY <1>1, WrittenRows DEF InsertGroup, UpdateGroupParent
<1>2. ASSUME NEW g \in Groups, DeleteGroup(d, g) PROVE JunctionsInOneDomain'
  <2>1. ASSUME NEW row \in group_members, row[3] = g PROVE FALSE
    <3>1. row = <<d, row[2], g>> /\ row[2] \in Users
      BY <1>2, <2>1, JunctionRows DEF DeleteGroup
    <3> QED BY <1>2, <3>1 DEF DeleteGroup, GroupReferenced
  <2>2. ASSUME NEW row \in group_permissions, row[2] = g PROVE FALSE
    <3>1. row = <<d, g, row[3]>> /\ row[3] \in Permissions
      BY <1>2, <2>2, JunctionRows DEF DeleteGroup
    <3> QED BY <1>2, <3>1 DEF DeleteGroup, GroupReferenced
  <2> QED BY <1>2, <2>1, <2>2 DEF DeleteGroup
<1> QED BY <1>1, <1>2 DEF GroupStatement

LEMMA DomainsPermissionStep ==
    ASSUME TablesOK, JunctionsInOneDomain, NEW d \in Domains, PermissionStatement(d)
    PROVE  JunctionsInOneDomain'
<1> USE DEF JunctionsInOneDomain, TablesOK, UserIn, GroupIn, PermissionIn, junctions
<1>1. ASSUME NEW p \in Permissions, NEW r \in Resources, NEW m \in Masks,
             InsertPermission(d, p, r, m) \/ UpdatePermission(d, p, r, m)
      PROVE  JunctionsInOneDomain'
  BY <1>1, WrittenRows DEF InsertPermission, UpdatePermission
<1>2. ASSUME NEW p \in Permissions, DeletePermission(d, p) PROVE JunctionsInOneDomain'
  <2>1. ASSUME NEW row \in user_permissions, row[3] = p PROVE FALSE
    <3>1. row = <<d, row[2], p>> /\ row[2] \in Users
      BY <1>2, <2>1, JunctionRows DEF DeletePermission
    <3> QED BY <1>2, <3>1 DEF DeletePermission, PermissionReferenced
  <2>2. ASSUME NEW row \in group_permissions, row[3] = p PROVE FALSE
    <3>1. row = <<d, row[2], p>> /\ row[2] \in Groups
      BY <1>2, <2>2, JunctionRows DEF DeletePermission
    <3> QED BY <1>2, <3>1 DEF DeletePermission, PermissionReferenced
  <2> QED BY <1>2, <2>1, <2>2 DEF DeletePermission
<1> QED BY <1>1, <1>2 DEF PermissionStatement

LEMMA DomainsJunctionStep ==
    ASSUME TablesOK, JunctionsInOneDomain, NEW d \in Domains, JunctionStatement(d)
    PROVE  JunctionsInOneDomain'
<1> USE DEF JunctionsInOneDomain, UserIn, GroupIn, PermissionIn, entities
<1>1. ASSUME NEW u \in Users, NEW g \in Groups, InsertMember(d, u, g) \/ DeleteMember(d, u, g)
      PROVE  JunctionsInOneDomain'
  BY <1>1 DEF InsertMember, DeleteMember
<1>2. ASSUME NEW u \in Users, NEW p \in Permissions,
             InsertUserPermission(d, u, p) \/ DeleteUserPermission(d, u, p)
      PROVE  JunctionsInOneDomain'
  BY <1>2 DEF InsertUserPermission, DeleteUserPermission
<1>3. ASSUME NEW g \in Groups, NEW p \in Permissions,
             InsertGroupPermission(d, g, p) \/ DeleteGroupPermission(d, g, p)
      PROVE  JunctionsInOneDomain'
  BY <1>3 DEF InsertGroupPermission, DeleteGroupPermission
<1> QED BY <1>1, <1>2, <1>3 DEF JunctionStatement

\* No statement makes a membership or a grant join entities of two domains.
LEMMA DomainsStep ==
    ASSUME TablesOK, JunctionsInOneDomain, [Statement]_tables
    PROVE  JunctionsInOneDomain'
<1>1. ASSUME NEW p \in Permissions, NEW v \in Masks, EditMask(p, v)
      PROVE  JunctionsInOneDomain'
  <2>1. UNCHANGED <<users, groups, junctions>>
    BY <1>1 DEF EditMask
  <2> QED BY <1>1, <2>1, EditedRow, JunctionRows
          DEF JunctionsInOneDomain, UserIn, GroupIn, PermissionIn, junctions
<1>2. CASE UNCHANGED tables
  BY <1>2 DEF tables, entities, junctions, JunctionsInOneDomain, UserIn, GroupIn, PermissionIn
<1> QED BY <1>1, <1>2, DomainsEntityStep, DomainsGroupStep, DomainsPermissionStep,
           DomainsJunctionStep DEF Statement

----------------------------------------------------------------------------
(* Referential integrity of the entity tables.  *)

\* Rows of the entity tables name live rows after every statement.
LEMMA ReferencesStep ==
    ASSUME TablesOK, ReferencesLive, [Statement]_tables
    PROVE  ReferencesLive'
<1> USE DEF ReferencesLive, TablesOK
<1>1. ASSUME NEW d \in Domains, EntityStatement(d) PROVE ReferencesLive'
  <2> USE DEF junctions
  <2>1. CASE InsertDomain(d) BY <2>1 DEF InsertDomain
  <2>2. CASE DeleteDomain(d)
    BY <2>2 DEF DeleteDomain, DomainReferenced, GroupIn, PermissionIn
  <2>3. ASSUME NEW u \in Users, InsertUser(d, u) \/ DeleteUser(d, u) PROVE ReferencesLive'
    BY <2>3 DEF InsertUser, DeleteUser
  <2>4. ASSUME NEW r \in Resources, InsertResource(d, r) PROVE ReferencesLive'
    BY <2>4, NullAssumption DEF InsertResource
  <2>5. ASSUME NEW r \in Resources, DeleteResource(d, r) PROVE ReferencesLive'
    BY <2>5 DEF DeleteResource, ResourceReferenced, PermissionRow
  <2> QED BY <1>1, <2>1, <2>2, <2>3, <2>4, <2>5 DEF EntityStatement
<1>2. ASSUME NEW d \in Domains, GroupStatement(d) PROVE ReferencesLive'
  <2>1. ASSUME NEW g \in Groups, NEW parent \in Groups \cup {NoParent},
               InsertGroup(d, g, parent) \/ UpdateGroupParent(d, g, parent)
        PROVE  ReferencesLive'
    <3>1. d \in domains
      BY <2>1 DEF InsertGroup, UpdateGroupParent, GroupIn
    <3> QED BY <2>1, <3>1, WrittenRows DEF InsertGroup, UpdateGroupParent, GroupRow
  <2>2. ASSUME NEW g \in Groups, DeleteGroup(d, g) PROVE ReferencesLive'
    BY <2>2 DEF DeleteGroup, GroupReferenced, ParentOf, GroupRow
  <2> QED BY <1>2, <2>1, <2>2 DEF GroupStatement
<1>3. ASSUME NEW d \in Domains, PermissionStatement(d) PROVE ReferencesLive'
  <2>1. ASSUME NEW p \in Permissions, NEW r \in Resources, NEW m \in Masks,
               InsertPermission(d, p, r, m) \/ UpdatePermission(d, p, r, m)
        PROVE  ReferencesLive'
    <3>1. d \in domains
      BY <2>1 DEF InsertPermission, UpdatePermission, PermissionIn
    <3> QED BY <2>1, <3>1, WrittenRows DEF InsertPermission, UpdatePermission
  <2>2. ASSUME NEW p \in Permissions, DeletePermission(d, p) PROVE ReferencesLive'
    BY <2>2 DEF DeletePermission
  <2> QED BY <1>3, <2>1, <2>2 DEF PermissionStatement
<1>4. ASSUME NEW d \in Domains, JunctionStatement(d) PROVE ReferencesLive'
  <2>1. UNCHANGED entities
    BY <1>4 DEF JunctionStatement, InsertMember, DeleteMember, InsertUserPermission,
                DeleteUserPermission, InsertGroupPermission, DeleteGroupPermission
  <2> QED BY <2>1 DEF entities
<1>5. ASSUME NEW p \in Permissions, NEW v \in Masks, EditMask(p, v) PROVE ReferencesLive'
  <2>1. UNCHANGED <<domains, users, groups, resources>>
    BY <1>5 DEF EditMask
  <2>2. ASSUME NEW q \in Permissions, permissions'[q] # NoRow
        PROVE  permissions'[q].domain \in domains /\ resources[permissions'[q].resource] # NoRow
    BY <1>5, <2>2, EditedRow DEF EditMask
  <2> QED BY <2>1, <2>2
<1>6. CASE UNCHANGED tables
  BY <1>6 DEF tables, entities
<1> QED BY <1>1, <1>2, <1>3, <1>4, <1>5, <1>6 DEF Statement

----------------------------------------------------------------------------
(* Decisions.  *)

\* With junction rows inside one domain, the sub-selects of the effective-mask
\* query, which do not filter on domain_id, find what a filter would find.
LEMMA HeldInDomain ==
    ASSUME JunctionsInOneDomain, NEW d \in Domains,
           NEW q \in Permissions, PermissionIn(q, d), NEW u \in Users
    PROVE  HeldBy(q, u) <=>
             \/ <<d, u, q>> \in user_permissions
             \/ \E g \in Groups : <<d, u, g>> \in group_members /\ <<d, g, q>> \in group_permissions
<1>1. ASSUME NEW e \in Domains, <<e, u, q>> \in user_permissions PROVE e = d
  BY <1>1 DEF JunctionsInOneDomain, PermissionIn
<1>2. ASSUME NEW e \in Domains, NEW g \in Groups, <<e, g, q>> \in group_permissions
      PROVE  e = d /\ GroupIn(g, d)
  BY <1>2 DEF JunctionsInOneDomain, PermissionIn
<1>3. ASSUME NEW e \in Domains, NEW g \in Groups, GroupIn(g, d), <<e, u, g>> \in group_members
      PROVE  e = d
  BY <1>3 DEF JunctionsInOneDomain, GroupIn
<1> QED BY <1>1, <1>2, <1>3 DEF HeldBy

\* What the OR of stored masks can hold: bits of a mask, never the sign.
LEMMA CombinedMaskFits ==
    ASSUME permissions \in [Permissions -> {NoRow} \cup PermissionRow], NEW k
    PROVE  CombinedMask(k) \in Masks /\ FitsInt64(CombinedMask(k))
<1>1. ASSUME NEW p \in Permissions, PermissionIn(p, k[1])
      PROVE  maskFromSQL(permissions[p].mask) \subseteq Bits \ {SignBit}
  BY <1>1 DEF PermissionIn, PermissionRow, Masks, maskFromSQL
<1>2. CombinedMask(k) \subseteq Bits \ {SignBit}
  BY <1>1 DEF CombinedMask
<1> QED BY <1>2 DEF Masks, FitsInt64

\* The combined mask is what the tables grant.
LEMMA CombinedIsGranted ==
    ASSUME TablesOK, JunctionsInOneDomain,
           NEW d \in Domains, NEW u \in Users, NEW r \in Resources
    PROVE  CombinedMask(<<d, u, r>>) = Granted(d, u, r)
<1> DEFINE k == <<d, u, r>>
<1>1. k[1] = d /\ k[2] = u /\ k[3] = r
  OBVIOUS
<1>2. CombinedMask(k) \subseteq Bits
  BY CombinedMaskFits DEF TablesOK, Masks
<1>3. ASSUME NEW b \in Bits
      PROVE  b \in CombinedMask(k) <=> b \in Granted(d, u, r)
  <2>1. b \in CombinedMask(k) <=>
          \E q \in Permissions : /\ PermissionIn(q, d) /\ permissions[q].resource = r
                                 /\ HeldBy(q, u) /\ b \in maskFromSQL(permissions[q].mask)
    BY <1>1 DEF CombinedMask
  <2>2. \A m : b \in maskFromSQL(m) <=> b \in m /\ SignBit \notin m
    BY DEF maskFromSQL
  <2> QED BY <2>1, <2>2, HeldInDomain DEF Granted
<1>4. Granted(d, u, r) \subseteq Bits
  BY DEF Granted
<1> QED BY <1>2, <1>3, <1>4

----------------------------------------------------------------------------
(* The hierarchy.  *)

\* The chain of parents that starts at a group leaves every set of groups
\* before it comes to g: it ends, and g is not on it.
Escapes(parent, g) ==
    \A S \in SUBSET Groups : parent \in S => \E h \in S \ {g} : ParentOf(h) \notin S

\* A new group is nobody's parent, so it closes no cycle.
LEMMA AcyclicInsert ==
    ASSUME TablesOK, ReferencesLive, Acyclic, NEW d \in Domains, NEW g \in Groups,
           NEW parent \in Groups \cup {NoParent}, InsertGroup(d, g, parent)
    PROVE  Acyclic'
<1>1. /\ ParentOf(g)' = parent /\ parent # g
      /\ \A h \in Groups \ {g} : ParentOf(h)' = ParentOf(h) /\ ParentOf(h) # g
  BY WrittenRows, NullAssumption DEF InsertGroup, TablesOK, ReferencesLive, ParentOf, GroupRow
<1> SUFFICES ASSUME NEW S \in SUBSET Groups, S # {}, \A h \in S : ParentOf(h)' \in S
             PROVE  FALSE
  BY DEF Acyclic
<1>2. S \ {g} # {}
  BY <1>1
<1>3. PICK h \in S \ {g} : ParentOf(h) \notin S \ {g}
  BY <1>2 DEF Acyclic
<1> QED BY <1>1, <1>3

\* A deleted group has no parent any more.
LEMMA AcyclicDelete ==
    ASSUME TablesOK, Acyclic, NEW d \in Domains, NEW g \in Groups, DeleteGroup(d, g)
    PROVE  Acyclic'
<1>1. ParentOf(g)' = NoParent /\ \A h \in Groups \ {g} : ParentOf(h)' = ParentOf(h)
  BY DEF DeleteGroup, TablesOK, ParentOf
<1> SUFFICES ASSUME NEW S \in SUBSET Groups, S # {}, \A h \in S : ParentOf(h)' \in S
             PROVE  FALSE
  BY DEF Acyclic
<1>2. PICK h \in S : ParentOf(h) \notin S
  BY DEF Acyclic
<1> QED BY <1>1, <1>2, NullAssumption

\* A new parent whose own chain does not come back to the group.
LEMMA AcyclicReparent ==
    ASSUME TablesOK, Acyclic, NEW d \in Domains, NEW g \in Groups,
           NEW parent \in Groups \cup {NoParent}, UpdateGroupParent(d, g, parent),
           parent = NoParent \/ Escapes(parent, g)
    PROVE  Acyclic'
<1>1. ParentOf(g)' = parent /\ \A h \in Groups \ {g} : ParentOf(h)' = ParentOf(h)
  BY WrittenRows DEF UpdateGroupParent, TablesOK, ParentOf
<1> SUFFICES ASSUME NEW S \in SUBSET Groups, S # {}, \A h \in S : ParentOf(h)' \in S
             PROVE  FALSE
  BY DEF Acyclic
<1>2. CASE g \in S
  <2>1. parent \in S
    BY <1>1, <1>2
  <2>2. PICK h \in S \ {g} : ParentOf(h) \notin S
    BY <2>1, NullAssumption DEF Escapes
  <2> QED BY <1>1, <2>2
<1>3. CASE g \notin S
  <2>1. PICK h \in S : ParentOf(h) \notin S
    BY DEF Acyclic
  <2> QED BY <1>1, <1>3, <2>1
<1> QED BY <1>2, <1>3

----------------------------------------------------------------------------

\* Empty tables satisfy all three.
LEMMA TablesInit ==
    ASSUME EmptyTables
    PROVE  TablesOK /\ JunctionsInOneDomain /\ ReferencesLive
BY DEF EmptyTables, TablesOK, JunctionsInOneDomain, ReferencesLive

\* Whatever sequence of statements a store issues, its tables stay well typed,
\* its memberships and grants stay inside one domain, and no row outlives what
\* it names.
THEOREM SchemaIntegrity == Tables => [](TablesOK /\ JunctionsInOneDomain /\ ReferencesLive)
<1>1. TablesOK /\ JunctionsInOneDomain /\ ReferencesLive /\ [Statement]_tables
        => (TablesOK /\ JunctionsInOneDomain /\ ReferencesLive)'
  BY TablesStep, DomainsStep, ReferencesStep
<1> QED BY <1>1, TablesInit, PTL DEF Tables

=============================================================================
