-------------------- MODULE PermissionTransactionsProofs --------------------
(***************************************************************************)
(* Proofs about the patch of a permission on the Postgres store, for every *)
(* set of ids, bits and connections: its statements are statements of the  *)
(* schema, so the tables keep their integrity and decisions stay exact; and *)
(* patches that do not overlap on one permission are partial updates whose *)
(* audit events are true.                                                  *)
(***************************************************************************)
EXTENDS PermissionTransactions, SchemaProofs

\* A patch past its first SELECT has a row of the schema.
RowRead(t) == t.pc \in {"check", "update"} => t.row \in PermissionRow

TxInv ==
    /\ TablesOK
    /\ tx \in [Conns -> {Idle} \cup Transaction]
    /\ \A c \in Conns : Running(c) => RowRead(tx[c])

----------------------------------------------------------------------------
(* Every step is a statement of the schema or leaves the tables alone.  *)

\* A call of one statement is that statement.
LEMMA CallIsStatement ==
    ASSUME SingleCall
    PROVE  Statement
<1>1. PICK d \in Domains : EntityCall(d) \/ AuthzCall(d)
  BY DEF SingleCall
<1>2. CASE EntityCall(d)
  BY <1>2 DEF EntityCall, Statement, EntityStatement, GroupStatement, PermissionStatement,
     DomainCreate, DomainDelete, UserCreate, UserDelete, ResourceCreate, ResourceDelete,
     GroupCreate, GroupDelete, PermissionCreate, PermissionDelete
<1>3. CASE AuthzCall(d)
  BY <1>3 DEF AuthzCall, Statement, JunctionStatement, AddUserToGroup, RemoveUserFromGroup,
     GrantUserPermission, RevokeUserPermission, GrantGroupPermission, RevokeGroupPermission
<1> QED BY <1>1, <1>2, <1>3

\* The columns an UPDATE writes are those of a row of the schema.
LEMMA NewColumns ==
    ASSUME TxInv, NEW c \in Conns, Running(c), tx[c].pc = "update"
    PROVE  /\ tx[c] \in Transaction /\ tx[c].domain \in Domains /\ tx[c].permission \in Permissions
           /\ NewResource(c) \in Resources /\ NewMask(c) \in Masks
<1>1. tx[c] \in Transaction /\ tx[c].row \in PermissionRow
  BY DEF TxInv, Running, RowRead
<1>2. /\ tx[c].domain \in Domains /\ tx[c].permission \in Permissions
      /\ tx[c].resource \in Resources \cup {NoChange} /\ tx[c].mask \in Masks \cup {NoChange}
  BY <1>1 DEF Transaction
<1>3. tx[c].row.resource \in Resources /\ maskFromSQL(tx[c].row.mask) \in Masks
  BY <1>1 DEF PermissionRow, maskFromSQL, Masks
<1> QED BY <1>1, <1>2, <1>3 DEF NewResource, NewMask, PatchField

LEMMA UpdateIsStatement ==
    ASSUME TxInv, NEW c \in Conns, Update(c)
    PROVE  [Statement]_tables
<1>1. CASE UNCHANGED tables
  BY <1>1
<1>2. CASE UpdatePermission(tx[c].domain, tx[c].permission, NewResource(c), NewMask(c))
  <2>1. Running(c) /\ tx[c].pc = "update"
    BY DEF Update
  <2> QED BY <1>2, <2>1, NewColumns DEF Statement, PermissionStatement
<1> QED BY <1>1, <1>2 DEF Update

LEMMA StepIsStatement ==
    ASSUME TxInv, [Next]_vars
    PROVE  [Statement]_tables
BY CallIsStatement, UpdateIsStatement
   DEF Next, vars, OtherCall, PermissionPatch, ReadRow, CheckResource, ReadBack, Audit, Cancel

\* One transaction is replaced; the others stay.
LEMMA Replaced ==
    ASSUME TxInv, NEW c \in Conns, NEW t, tx' = [tx EXCEPT ![c] = t]
    PROVE  \A e \in Conns : tx'[e] = IF e = c THEN t ELSE tx[e]
BY DEF TxInv

\* What the steps of a patch make of its transaction.
LEMMA TransactionSteps ==
    ASSUME TxInv, NEW c \in Conns,
           ReadRow(c) \/ CheckResource(c) \/ Update(c) \/ ReadBack(c)
    PROVE  \/ End(c)
           \/ \E t \in Transaction : Become(c, t) /\ RowRead(t)
<1>1. tx[c] \in Transaction /\ tx[c].permission \in Permissions /\ RowRead(tx[c])
  BY DEF ReadRow, CheckResource, Update, ReadBack, TxInv, Running, Transaction
<1>2. permissions[tx[c].permission] # NoRow => permissions[tx[c].permission] \in PermissionRow
  BY <1>1 DEF TxInv, TablesOK
<1>3. CASE ReadRow(c)
  <2>1. ASSUME NEW label \in {"update", "check"}, permissions[tx[c].permission] # NoRow
        PROVE  LET t == [tx[c] EXCEPT !.row = permissions[tx[c].permission], !.pc = label]
               IN  t \in Transaction /\ RowRead(t)
    BY <1>1, <1>2, <2>1 DEF Transaction, RowRead
  <2> QED BY <1>3, <2>1 DEF ReadRow, PermissionIn
<1>4. CASE CheckResource(c)
  <2>1. tx[c].pc = "check" /\ tx[c].row \in PermissionRow
    BY <1>1, <1>4 DEF CheckResource, RowRead
  <2>2. LET t == [tx[c] EXCEPT !.pc = "update"] IN t \in Transaction /\ RowRead(t)
    BY <1>1, <2>1 DEF Transaction, RowRead
  <2> QED BY <1>4, <2>2 DEF CheckResource
<1>5. CASE Update(c)
  <2>1. LET t == [tx[c] EXCEPT !.pc = "readback"] IN t \in Transaction /\ RowRead(t)
    BY <1>1 DEF Transaction, RowRead
  <2>2. ASSUME UpdatePermission(tx[c].domain, tx[c].permission, NewResource(c), NewMask(c))
        PROVE  LET t == [tx[c] EXCEPT !.pc = "readback", !.wrote = permissions'[tx[c].permission]]
               IN  t \in Transaction /\ RowRead(t)
    <3>1. Running(c) /\ tx[c].pc = "update"
      BY <1>5 DEF Update
    <3>2. permissions'[tx[c].permission] \in PermissionRow
      BY <1>1, <2>2, <3>1, NewColumns, WrittenRows DEF UpdatePermission, TxInv, TablesOK
    <3> QED BY <1>1, <3>2 DEF Transaction, RowRead
  <2> QED BY <1>5, <2>1, <2>2 DEF Update
<1>6. CASE ReadBack(c)
  <2>1. ASSUME permissions[tx[c].permission] # NoRow
        PROVE  LET t == [tx[c] EXCEPT !.row = permissions[tx[c].permission], !.pc = "audit"]
               IN  t \in Transaction /\ RowRead(t)
    BY <1>1, <1>2, <2>1 DEF Transaction, RowRead
  <2> QED BY <1>6, <2>1 DEF ReadBack, PermissionIn
<1> QED BY <1>3, <1>4, <1>5, <1>6

LEMMA TxStep ==
    ASSUME TxInv, [Next]_vars
    PROVE  TxInv'
<1>1. TablesOK'
  BY StepIsStatement, TablesStep DEF TxInv
<1>2. ASSUME NEW c \in Conns, NEW t \in {Idle} \cup Transaction, t # Idle => RowRead(t),
             tx' = [tx EXCEPT ![c] = t]
      PROVE  TxInv'
  BY <1>1, <1>2, Replaced DEF TxInv, Running
<1>3. ASSUME NEW c \in Conns, NEW d \in Domains, NEW p \in Permissions,
             NEW resource \in Resources \cup {NoChange}, NEW mask \in {NoChange} \cup Masks,
             PermissionPatch(c, d, p, resource, mask)
      PROVE  TxInv'
  <2> DEFINE t == [domain |-> d, permission |-> p, resource |-> resource, mask |-> mask,
                   pc |-> "read", row |-> NoRow, wrote |-> NoRow]
  <2>1. t \in Transaction /\ RowRead(t)
    BY DEF Transaction, RowRead
  <2> QED BY <1>2, <1>3, <2>1 DEF PermissionPatch, Become
<1>4. ASSUME NEW c \in Conns, End(c) PROVE TxInv'
  BY <1>2, <1>4 DEF End
<1>5. ASSUME NEW c \in Conns, ReadRow(c) \/ CheckResource(c) \/ Update(c) \/ ReadBack(c)
      PROVE  TxInv'
  BY <1>2, <1>4, <1>5, TransactionSteps DEF Become
<1>6. ASSUME UNCHANGED tx PROVE TxInv'
  BY <1>1, <1>6 DEF TxInv, Running
<1> QED BY <1>3, <1>4, <1>5, <1>6 DEF Next, vars, OtherCall, Audit, Cancel

LEMMA TxInit == Init => TxInv
BY TablesInit DEF Init, TxInv, Running

THEOREM TxInvariant == Spec => []TxInv
<1>1. TxInv /\ [Next]_vars => TxInv'
  BY TxStep
<1> QED BY <1>1, TxInit, PTL DEF Spec

\* However its statements are interleaved, the patch of the Postgres store and
\* the calls around it are a program of the schema's statements.
THEOREM PatchImplementsTables == Spec => Tables
<1>1. Init => EmptyTables
  BY DEF Init
<1>2. TxInv /\ [Next]_vars => [Statement]_tables
  BY StepIsStatement
<1> QED BY <1>1, <1>2, TxInvariant, PTL DEF Spec, Tables

\* No interleaving of a patch with deletes leaves a row that names something
\* gone: the foreign keys hold between the resource check and the UPDATE too.
THEOREM PatchKeepsReferences == Spec => []ReferencesLive
BY PatchImplementsTables, SchemaIntegrity, PTL

\* A decision of a pooled store is what the tables grant at its query.
THEOREM PooledDecisionsExact == Spec => []DecisionExact
<1>1. TablesOK /\ JunctionsInOneDomain => DecisionExact
  BY CombinedIsGranted DEF DecisionExact, EffectiveMask
<1> QED BY <1>1, PatchImplementsTables, SchemaIntegrity, PTL

----------------------------------------------------------------------------
(* Patches of one permission, one after the other.  *)

\* No two connections patch the same permission at the same time: what the
\* properties below need, and a pool of one connection gives.
OnePatchEach ==
    \A c, e \in Conns :
        c # e /\ Running(c) /\ Running(e) => tx[c].permission # tx[e].permission

\* The row a patch has read, and later the row it has written, is in the table
\* until somebody deletes it; its id is never drawn again.
Follows(t) ==
    /\ t.pc \in {"read", "check", "update"} => t.wrote = NoRow
    /\ t.pc \in {"check", "update"} =>
          /\ t.row \in PermissionRow /\ t.row.domain = t.domain /\ t.permission \in drawn
          /\ permissions[t.permission] \in {t.row, NoRow}
    /\ t.pc = "readback" =>
          t.permission \in drawn /\ permissions[t.permission] \in {t.wrote, NoRow}
    /\ t.pc = "audit" => t.row = t.wrote /\ t.wrote # NoRow

PatchInv ==
    /\ \A p \in Permissions : permissions[p] # NoRow => p \in drawn
    /\ \A c \in Conns : Running(c) => Follows(tx[c])

\* A single statement of another client deletes a row or leaves it as it is.
LEMMA CallKeepsRow ==
    ASSUME TxInv, OtherCall, NEW p \in Permissions, p \in drawn
    PROVE  permissions'[p] \in {permissions[p], NoRow}
<1>1. PICK d \in Domains : EntityCall(d) \/ AuthzCall(d)
  BY DEF OtherCall, SingleCall
<1>2. ASSUME NEW q \in Permissions, DeletePermission(d, q)
      PROVE  permissions'[p] \in {permissions[p], NoRow}
  BY <1>2 DEF DeletePermission, TxInv, TablesOK
<1>3. ASSUME NEW q \in Permissions, NEW r, NEW m, InsertPermission(d, q, r, m)
      PROVE  permissions'[p] \in {permissions[p], NoRow}
  BY <1>3 DEF InsertPermission, OtherCall, TxInv, TablesOK
<1>4. ASSUME UNCHANGED permissions PROVE permissions'[p] \in {permissions[p], NoRow}
  BY <1>4
<1>5. CASE EntityCall(d)
  BY <1>2, <1>3, <1>4, <1>5 DEF EntityCall, DomainCreate, DomainDelete, UserCreate, UserDelete,
     ResourceCreate, ResourceDelete, GroupCreate, GroupDelete, PermissionCreate, PermissionDelete,
     InsertDomain, DeleteDomain, InsertUser, DeleteUser, InsertResource, DeleteResource,
     InsertGroup, DeleteGroup
<1>6. CASE AuthzCall(d)
  BY <1>4, <1>6 DEF AuthzCall, AddUserToGroup, RemoveUserFromGroup, GrantUserPermission,
     RevokeUserPermission, GrantGroupPermission, RevokeGroupPermission, InsertMember,
     DeleteMember, InsertUserPermission, DeleteUserPermission, InsertGroupPermission,
     DeleteGroupPermission, entities
<1> QED BY <1>1, <1>5, <1>6

\* A transaction stays right when its row stays or is deleted.
LEMMA FollowsOn ==
    ASSUME NEW t, Follows(t), t.permission \in drawn => t.permission \in drawn',
           t.permission \in drawn => permissions'[t.permission] \in {permissions[t.permission], NoRow}
    PROVE  Follows(t)'
BY DEF Follows

\* The row an UPDATE leaves.
LEMMA UpdatedRow ==
    ASSUME TxInv, NEW c \in Conns, Running(c), tx[c].pc = "update",
           UpdatePermission(tx[c].domain, tx[c].permission, NewResource(c), NewMask(c))
    PROVE  /\ permissions'[tx[c].permission] =
                 [domain |-> tx[c].domain, resource |-> NewResource(c), mask |-> NewMask(c)]
           /\ permissions'[tx[c].permission] \in PermissionRow
           /\ \A p \in Permissions \ {tx[c].permission} : permissions'[p] = permissions[p]
BY NewColumns, WrittenRows DEF UpdatePermission, TxInv, TablesOK

\* A step of c that leaves the tables and drawn alone.
LEMMA QuietStep ==
    ASSUME TxInv, PatchInv, NEW c \in Conns, UNCHANGED <<tables, drawn>>,
           NEW t, tx' = [tx EXCEPT ![c] = t], t # Idle => Follows(t)
    PROVE  PatchInv'
<1>1. UNCHANGED permissions
  BY DEF tables, entities
<1>2. \A u : Follows(u) => Follows(u)'
  BY <1>1 DEF Follows
<1>3. \A e \in Conns : tx'[e] = IF e = c THEN t ELSE tx[e]
  BY Replaced
<1> QED BY <1>1, <1>2, <1>3 DEF PatchInv, Running

LEMMA UpdateKeepsPatches ==
    ASSUME TxInv, PatchInv, OnePatchEach, NEW c \in Conns, Update(c)
    PROVE  PatchInv'
<1> DEFINE p == tx[c].permission
<1>1. Running(c) /\ tx[c].pc = "update" /\ drawn' = drawn /\ Follows(tx[c])
  BY DEF Update, PatchInv
<1>2. tx[c] \in Transaction /\ p \in Permissions
  BY <1>1, NewColumns
<1>3. CASE End(c) /\ UNCHANGED tables
  BY <1>1, <1>3, QuietStep DEF End
<1>4. CASE /\ UpdatePermission(tx[c].domain, p, NewResource(c), NewMask(c))
           /\ Become(c, [tx[c] EXCEPT !.pc = "readback", !.wrote = permissions'[p]])
  <2>1. PICK t : t = [tx[c] EXCEPT !.pc = "readback", !.wrote = permissions'[p]]
    OBVIOUS
  <2>2. t.permission = p /\ t.pc = "readback" /\ t.wrote = permissions'[p]
    BY <1>2, <2>1 DEF Transaction
  <2>3. Follows(t)'
    BY <1>1, <2>2 DEF Follows
  <2>4. \A e \in Conns : tx'[e] = IF e = c THEN t ELSE tx[e]
    <3>1. tx' = [tx EXCEPT ![c] = t]
      BY <1>4, <2>1 DEF Become
    <3> QED BY <3>1, Replaced
  <2>5. ASSUME NEW e \in Conns, e # c, Running(e) PROVE Follows(tx[e])' /\ tx'[e] = tx[e]
    <3>1. PICK u : u = tx[e]
      OBVIOUS
    <3>2. u.permission \in Permissions \ {p}
      BY <1>1, <2>5, <3>1 DEF OnePatchEach, TxInv, Running, Transaction
    <3>3. Follows(u)'
      BY <1>1, <1>4, <2>5, <3>1, <3>2, UpdatedRow, FollowsOn DEF PatchInv
    <3> QED BY <2>4, <2>5, <3>1, <3>3
  <2>6. \A q \in Permissions : permissions'[q] # NoRow => q \in drawn'
    BY <1>1, <1>4, UpdatedRow DEF PatchInv, Follows
  <2> QED BY <2>3, <2>4, <2>5, <2>6 DEF PatchInv, Running
<1>5. CASE /\ ~ PermissionIn(p, tx[c].domain) /\ UNCHANGED tables
           /\ Become(c, [tx[c] EXCEPT !.pc = "readback"])
  <2>1. PICK t : t = [tx[c] EXCEPT !.pc = "readback"]
    OBVIOUS
  <2>2. t.permission = p /\ t.pc = "readback" /\ t.wrote = NoRow
    BY <1>1, <1>2, <2>1 DEF Transaction, Follows
  <2>3. permissions[p] = NoRow
    BY <1>1, <1>5 DEF Follows, PermissionIn
  <2>4. Follows(t)
    BY <1>1, <2>2, <2>3 DEF Follows
  <2> QED BY <1>1, <1>5, <2>1, <2>4, QuietStep DEF Become
<1> QED BY <1>3, <1>4, <1>5 DEF Update

LEMMA PatchStep ==
    ASSUME TxInv, PatchInv, OnePatchEach, [Next]_vars
    PROVE  PatchInv'
<1>1. CASE OtherCall
  <2>1. \A p \in Permissions : permissions'[p] # NoRow => p \in drawn'
    BY <1>1 DEF OtherCall
  <2>2. ASSUME NEW c \in Conns, Running(c)' PROVE Follows(tx[c])'
    <3>1. PICK t : t = tx[c]
      OBVIOUS
    <3>2. Running(c) /\ tx'[c] = t /\ t.permission \in Permissions /\ Follows(t)
      BY <1>1, <2>2, <3>1 DEF OtherCall, Running, TxInv, Transaction, PatchInv
    <3>3. drawn \subseteq drawn'
      BY <1>1 DEF OtherCall
    <3>4. Follows(t)'
      BY <1>1, <3>2, <3>3, CallKeepsRow, FollowsOn
    <3> QED BY <3>2, <3>4
  <2> QED BY <2>1, <2>2 DEF PatchInv
<1>2. ASSUME NEW c \in Conns, End(c), UNCHANGED <<tables, drawn>> PROVE PatchInv'
  BY <1>2, QuietStep DEF End
<1>3. ASSUME NEW c \in Conns, NEW d, NEW p, NEW resource, NEW mask,
             PermissionPatch(c, d, p, resource, mask)
      PROVE  PatchInv'
  <2> DEFINE t == [domain |-> d, permission |-> p, resource |-> resource, mask |-> mask,
                   pc |-> "read", row |-> NoRow, wrote |-> NoRow]
  <2>1. Follows(t)
    BY DEF Follows
  <2> QED BY <1>3, <2>1, QuietStep DEF PermissionPatch, Become
<1>4. ASSUME NEW c \in Conns, ReadRow(c) \/ CheckResource(c) \/ ReadBack(c) PROVE PatchInv'
  <2> DEFINE p == tx[c].permission
  <2>1. /\ tx[c] \in Transaction /\ p \in Permissions /\ Follows(tx[c])
        /\ UNCHANGED <<tables, drawn>>
    BY <1>4 DEF ReadRow, CheckResource, ReadBack, TxInv, Running, Transaction, PatchInv
  <2>2. permissions[p] # NoRow => permissions[p] \in PermissionRow /\ p \in drawn
    BY <2>1 DEF TxInv, TablesOK, PatchInv
  <2>3. ASSUME NEW label \in {"update", "check"}, PermissionIn(p, tx[c].domain), tx[c].pc = "read"
        PROVE  Follows([tx[c] EXCEPT !.row = permissions[p], !.pc = label])
    <3>1. PICK t : t = [tx[c] EXCEPT !.row = permissions[p], !.pc = label]
      OBVIOUS
    <3>2. /\ t.pc = label /\ t.row = permissions[p] /\ t.permission = p
          /\ t.domain = tx[c].domain /\ t.wrote = NoRow
      BY <2>1, <2>3, <3>1 DEF Transaction, Follows
    <3>3. Follows(t)
      BY <2>2, <2>3, <3>2 DEF Follows, PermissionIn
    <3> QED BY <3>1, <3>3
  <2>4. ASSUME tx[c].pc = "check" PROVE Follows([tx[c] EXCEPT !.pc = "update"])
    <3>1. PICK t : t = [tx[c] EXCEPT !.pc = "update"]
      OBVIOUS
    <3>2. /\ t.pc = "update" /\ t.row = tx[c].row /\ t.permission = p
          /\ t.domain = tx[c].domain /\ t.wrote = tx[c].wrote
      BY <2>1, <2>4, <3>1 DEF Transaction
    <3>3. Follows(t)
      BY <2>1, <2>4, <3>2 DEF Follows
    <3> QED BY <3>1, <3>3
  <2>5. ASSUME PermissionIn(p, tx[c].domain), tx[c].pc = "readback"
        PROVE  Follows([tx[c] EXCEPT !.row = permissions[p], !.pc = "audit"])
    <3>1. PICK t : t = [tx[c] EXCEPT !.row = permissions[p], !.pc = "audit"]
      OBVIOUS
    <3>2. t.pc = "audit" /\ t.row = permissions[p] /\ t.wrote = tx[c].wrote
      BY <2>1, <2>5, <3>1 DEF Transaction
    <3>3. Follows(t)
      BY <2>1, <2>5, <3>2 DEF Follows, PermissionIn
    <3> QED BY <3>1, <3>3
  <2>6. ASSUME NEW t, Become(c, t), Follows(t) PROVE PatchInv'
    BY <2>1, <2>6, QuietStep DEF Become
  <2>7. CASE ReadRow(c)
    BY <1>2, <2>1, <2>3, <2>6, <2>7 DEF ReadRow
  <2>8. CASE CheckResource(c)
    BY <1>2, <2>1, <2>4, <2>6, <2>8 DEF CheckResource
  <2>9. CASE ReadBack(c)
    BY <1>2, <2>1, <2>5, <2>6, <2>9 DEF ReadBack
  <2> QED BY <1>4, <2>7, <2>8, <2>9
<1>5. ASSUME NEW c \in Conns, Update(c) PROVE PatchInv'
  BY <1>5, UpdateKeepsPatches
<1>6. CASE UNCHANGED vars
  <2>1. UNCHANGED <<permissions, tx, drawn>>
    BY <1>6 DEF vars, tables, entities
  <2> QED BY <2>1 DEF PatchInv, Running, Follows
<1> QED BY <1>1, <1>2, <1>3, <1>4, <1>5, <1>6 DEF Next, Audit, Cancel

\* Patches that do not overlap on one permission follow their rows.
LEMMA PatchInvariant == Spec /\ []OnePatchEach => []PatchInv
<1>1. Init => PatchInv
  BY DEF Init, EmptyTables, PatchInv, Running
<1>2. TxInv /\ PatchInv /\ OnePatchEach /\ [Next]_vars => PatchInv'
  BY PatchStep
<1> QED BY <1>1, <1>2, TxInvariant, PTL DEF Spec

\* While no two patches of a permission overlap, permissionPatch logs exactly
\* the row its UPDATE left, and nothing for an UPDATE that found no row.
THEOREM AuditIsTrue == Spec /\ []OnePatchEach => []AuditReportsPatch
<1>1. PatchInv => AuditReportsPatch
  BY DEF PatchInv, AuditReportsPatch, Follows
<1> QED BY <1>1, PatchInvariant, PTL

\* While no two patches of a permission overlap, committing one leaves the
\* columns it does not name as they were.
THEOREM PatchesArePartial == Spec /\ []OnePatchEach => PatchIsPartial
<1> DEFINE Partial ==
      \A c \in Conns : Commits(c) =>
         LET p == tx[c].permission IN
         permissions[p] # NoRow /\ permissions'[p] # NoRow =>
            /\ tx[c].resource = NoChange => permissions'[p].resource = permissions[p].resource
            /\ tx[c].mask = NoChange =>
                  maskFromSQL(permissions'[p].mask) = maskFromSQL(permissions[p].mask)
<1>1. TxInv /\ PatchInv /\ OnePatchEach /\ [Next]_vars => [Partial]_vars
  <2> SUFFICES ASSUME TxInv, PatchInv, OnePatchEach, Next, NEW c \in Conns, Commits(c),
                      permissions[tx[c].permission] # NoRow, permissions'[tx[c].permission] # NoRow
               PROVE  LET p == tx[c].permission IN
                      /\ tx[c].resource = NoChange => permissions'[p].resource = permissions[p].resource
                      /\ tx[c].mask = NoChange =>
                            maskFromSQL(permissions'[p].mask) = maskFromSQL(permissions[p].mask)
    OBVIOUS
  <2> DEFINE p == tx[c].permission
  <2>1. /\ Running(c) /\ tx[c].pc = "update" /\ Running(c)' /\ p \in Permissions /\ p \in drawn
        /\ permissions[p] = tx[c].row
    BY NewColumns DEF Commits, PatchInv, Follows
  <2>2. CASE Update(c)
    <3>1. UpdatePermission(tx[c].domain, p, NewResource(c), NewMask(c)) \/ UNCHANGED permissions
      BY <2>2 DEF Update, tables, entities
    <3>2. CASE UpdatePermission(tx[c].domain, p, NewResource(c), NewMask(c))
      <4>1. permissions'[p].resource = NewResource(c) /\ permissions'[p].mask = NewMask(c)
        <5>1. permissions'[p] = [domain |-> tx[c].domain, resource |-> NewResource(c), mask |-> NewMask(c)]
          BY <2>1, <3>2, UpdatedRow
        <5> QED BY <5>1
      <4>2. \A v : maskFromSQL(maskFromSQL(v)) = maskFromSQL(v)
        BY DEF maskFromSQL
      <4> QED BY <2>1, <4>1, <4>2 DEF NewResource, NewMask, PatchField
    <3> QED BY <3>1, <3>2
  <2>3. ASSUME NEW e \in Conns, e # c, Update(e) PROVE permissions'[p] = permissions[p]
    <3>1. Running(e) /\ tx[e].pc = "update" /\ tx[e].permission # p
      BY <2>1, <2>3 DEF Update, OnePatchEach
    <3>2. \/ UpdatePermission(tx[e].domain, tx[e].permission, NewResource(e), NewMask(e))
          \/ UNCHANGED permissions
      BY <2>3 DEF Update, tables, entities
    <3> QED BY <2>1, <3>1, <3>2, UpdatedRow
  <2>4. ASSUME OtherCall PROVE permissions'[p] = permissions[p]
    BY <2>1, <2>4, CallKeepsRow
  <2>5. ASSUME UNCHANGED tables PROVE permissions'[p] = permissions[p]
    BY <2>5 DEF tables, entities
  <2>6. Update(c) \/ permissions'[p] = permissions[p]
    BY <2>3, <2>4, <2>5 DEF Next, PermissionPatch, ReadRow, CheckResource, ReadBack, Audit, Cancel
  <2> QED BY <2>2, <2>6
<1> QED BY <1>1, PatchInvariant, TxInvariant, PTL DEF Spec, PatchIsPartial

=============================================================================
