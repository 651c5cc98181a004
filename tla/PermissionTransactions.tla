----------------------- MODULE PermissionTransactions -----------------------
(***************************************************************************)
(* PATCH of a permission on the Postgres store: PermissionPatch, which is  *)
(* a transaction that reads the row, checks the new resource and writes    *)
(* every column back, and a query of its own that reads the row again; and *)
(* the audit event of the handler.  The steps are interleaved with those   *)
(* of the other connections and with single statements, at READ COMMITTED. *)
(* The UPDATE and the Commit after it are one step: nothing is read in     *)
(* between and the row stays locked.                                       *)
(***************************************************************************)
EXTENDS PooledCalls

CONSTANTS
    Conns,      \* connections of the pool (MaxOpenConns)
    Idle        \* the connection runs no transaction

VARIABLES
    tx,         \* connection -> the transaction it runs, or Idle
    drawn       \* permission ids the server has drawn: uuid.New never repeats one

vars == <<tables, tx, drawn>>

\* resource and mask are NoChange where the patch has a nil field; row is what
\* the last SELECT read, and NoRow before it; wrote is the row the UPDATE left,
\* and NoRow before it and if it found none.
Transaction ==
    [domain : Domains, permission : Permissions, resource : Resources \cup {NoChange},
     mask : Masks \cup {NoChange}, pc : {"read", "check", "update", "readback", "audit"},
     row : PermissionRow \cup {NoRow}, wrote : PermissionRow \cup {NoRow}]

ASSUME IdleAssumption == Idle \notin Transaction

----------------------------------------------------------------------------
(* The call, statement by statement.  *)

Running(c) == tx[c] # Idle

\* Commit, or the deferred Rollback of an error return.
End(c) == tx' = [tx EXCEPT ![c] = Idle]

Become(c, next) == tx' = [tx EXCEPT ![c] = next]

\* The values the UPDATE writes.
NewResource(c) == PatchField(tx[c].resource, tx[c].row.resource)
NewMask_NilIsZero(c) == PatchField(tx[c].mask, {})
NewMask(c) == PatchField(tx[c].mask, maskFromSQL(tx[c].row.mask))

PermissionPatch(c, d, p, resource, mask) ==
    /\ ~ Running(c)
    /\ Become(c, [domain |-> d, permission |-> p, resource |-> resource, mask |-> mask,
                  pc |-> "read", row |-> NoRow, wrote |-> NoRow])
    /\ UNCHANGED <<tables, drawn>>

ReadRow(c) ==
    LET p == tx[c].permission
        found == PermissionIn(p, tx[c].domain)
        label == IF tx[c].resource = NoChange THEN "update" ELSE "check"
    IN
    /\ Running(c) /\ tx[c].pc = "read"
    /\ \/ ~ found /\ End(c)
       \/ found /\ Become(c, [tx[c] EXCEPT !.row = permissions[p], !.pc = label])
    /\ UNCHANGED <<tables, drawn>>

CheckResource(c) ==
    /\ Running(c) /\ tx[c].pc = "check"
    /\ LET found == resources[tx[c].resource] = tx[c].domain IN
       \/ ~ found /\ End(c)
       \/ found /\ Become(c, [tx[c] EXCEPT !.pc = "update"])
    /\ UNCHANGED <<tables, drawn>>

\* maskToSQL, the UPDATE and Commit.  A mask that does not fit and a resource
\* that is gone are errors; a permission that is gone is an UPDATE of no row,
\* which is committed too.
Update(c) ==
    LET d == tx[c].domain
        p == tx[c].permission
        found == PermissionIn(p, d)
        refused == \/ ~ FitsInt64(NewMask(c))
                   \/ found /\ resources[NewResource(c)] = NoRow
    IN
    /\ Running(c) /\ tx[c].pc = "update"
    /\ \/ refused /\ End(c) /\ UNCHANGED tables
       \/ /\ ~ refused /\ found
          /\ UpdatePermission(d, p, NewResource(c), NewMask(c))
          /\ Become(c, [tx[c] EXCEPT !.pc = "readback", !.wrote = permissions'[p]])
       \/ /\ ~ refused /\ ~ found
          /\ Become(c, [tx[c] EXCEPT !.pc = "readback"])
          /\ UNCHANGED tables
    /\ UNCHANGED drawn

\* return s.PermissionGet(ctx, domainID, id), on a connection of its own.
ReadBack_Old(c) ==
    /\ Running(c) /\ tx[c].pc = "readback"
    /\ Become(c, [tx[c] EXCEPT !.pc = "audit"])
    /\ UNCHANGED <<tables, drawn>>
ReadBack(c) ==
    LET p == tx[c].permission
        found == PermissionIn(p, tx[c].domain)
    IN
    /\ Running(c) /\ tx[c].pc = "readback"
    /\ \/ ~ found /\ End(c)
       \/ found /\ Become(c, [tx[c] EXCEPT !.row = permissions[p], !.pc = "audit"])
    /\ UNCHANGED <<tables, drawn>>

\* permissionPatch logs the row it got, and answers 200 with it.
Audit(c) ==
    /\ Running(c) /\ tx[c].pc = "audit"
    /\ End(c)
    /\ UNCHANGED <<tables, drawn>>

\* The request's context is cancelled, or the connection fails, before the
\* last statement has its result.
Cancel(c) ==
    /\ Running(c) /\ tx[c].pc # "audit"
    /\ End(c)
    /\ UNCHANGED <<tables, drawn>>

\* A single-statement call of another client; a permission it creates has a
\* fresh id.
OtherCall ==
    /\ SingleCall
    /\ \A p \in drawn : permissions[p] = NoRow => permissions'[p] = NoRow
    /\ drawn' = drawn \cup { p \in Permissions : permissions'[p] # NoRow }
    /\ UNCHANGED tx

----------------------------------------------------------------------------

Init ==
    /\ EmptyTables
    /\ tx = [c \in Conns |-> Idle]
    /\ drawn = {}

Next ==
    \/ OtherCall
    \/ \E c \in Conns :
          \/ \E d \in Domains, p \in Permissions, resource \in Resources \cup {NoChange},
                mask \in {NoChange} \cup Masks : PermissionPatch(c, d, p, resource, mask)
          \/ ReadRow(c) \/ CheckResource(c) \/ Update(c) \/ ReadBack(c) \/ Audit(c) \/ Cancel(c)

Spec == Init /\ [][Next]_vars

----------------------------------------------------------------------------
(* Properties.  *)

\* The step commits the patch of c.
Commits(c) == Running(c) /\ tx[c].pc = "update" /\ Running(c)'

\* PermissionPatchParams is a partial update: committing a patch leaves alone
\* the columns it does not name (a negative mask becomes 0).
PatchIsPartial ==
    [][\A c \in Conns : Commits(c) =>
         LET p == tx[c].permission IN
         permissions[p] # NoRow /\ permissions'[p] # NoRow =>
            /\ tx[c].resource = NoChange => permissions'[p].resource = permissions[p].resource
            /\ tx[c].mask = NoChange =>
                  maskFromSQL(permissions'[p].mask) = maskFromSQL(permissions[p].mask)]_vars

\* The audit event names the row the patch left: it is not logged for an UPDATE
\* that found no row, and the read-back does not return another version.  Two
\* patches at the same time are outside this.
AuditReportsPatch ==
    \A c \in Conns : Running(c) /\ tx[c].pc = "audit" =>
        tx[c].wrote # NoRow /\ tx[c].row = tx[c].wrote

\* "Every mutation endpoint emits a structured audit event": a patch that was
\* committed ends with its audit event.
EveryPatchAudited ==
    [][\A c \in Conns : Running(c) /\ tx[c].wrote # NoRow /\ ~ Running(c)' => tx[c].pc = "audit"]_vars

=============================================================================
