-------------------------- MODULE GroupTransactions --------------------------
(***************************************************************************)
(* GroupSetParent and GroupPatch of the Postgres and MySQL stores: a       *)
(* transaction of several statements on one connection of the pool, which  *)
(* interleaves with the transactions of the other connections and with     *)
(* single-statement calls.  BeginTx asks for the default isolation level:  *)
(* READ COMMITTED in Postgres, where every SELECT reads what is committed  *)
(* when it runs, REPEATABLE READ in MySQL, where every SELECT reads the    *)
(* snapshot of the transaction's first one.                                *)
(*                                                                         *)
(* An UPDATE followed by Commit is one step: nothing is read in between    *)
(* and the row stays locked.                                               *)
(***************************************************************************)
EXTENDS PooledCalls, FiniteSets

CONSTANTS
    Conns,      \* connections of the pool (MaxOpenConns)
    Idle,       \* the connection runs no transaction
    Drivers,    \* the stores the server may be configured with
    MaxSteps    \* maxSteps of the parent walk (1,000,000 in the code)

ASSUME ConnAssumption == Drivers \subseteq {"postgres", "mysql"} /\ MaxSteps \in Nat \ {0}

\* The walk may be as long as there are groups: a million in the code.
ASSUME WalkAssumption == IsFiniteSet(Groups) /\ Cardinality(Groups) <= MaxSteps

VARIABLES
    driver,     \* the store in use, chosen when the server starts
    tx,         \* connection -> the transaction it runs, or Idle
    drawn,      \* group ids the server has drawn: uuid.New never repeats one
    overlapped  \* two reparenting transactions have run at the same time

vars == <<tables, driver, tx, drawn, overlapped>>

\* A GroupTable is what a SELECT reads: the committed rows or a snapshot.
GroupTable == [Groups -> {NoRow} \cup GroupRow]
NoSnapshot == NoRow

\* parent is NoChange in a patch of the title alone; locked says the title was
\* written, so that the row is locked until the transaction ends.
Transaction ==
    [domain : Domains, group : Groups, parent : Groups \cup {NoParent, NoChange},
     title : BOOLEAN, locked : BOOLEAN, pc : {"patch", "title", "get", "parent", "walk", "update"},
     walk : Groups, steps : 0..(MaxSteps - 1), snapshot : GroupTable \cup {NoSnapshot}]

ASSUME IdleAssumption ==
    /\ Idle \notin Transaction
    /\ NoChange \notin Groups /\ NoChange # NoParent
    /\ NoSnapshot \notin GroupTable

----------------------------------------------------------------------------
(* Reads, locks and the end of a transaction.  *)

Running(c) == tx[c] # Idle

\* A transaction that sets a parent, not a patch of the title alone.
Reparents(c) == Running(c) /\ tx[c].parent # NoChange

\* The groups a SELECT of the transaction on c reads.
Rows(c) == IF tx[c].snapshot = NoSnapshot THEN groups ELSE tx[c].snapshot

\* groupGetTx(domainID, g) finds a row.
Finds(c, g) == Rows(c)[g] # NoRow /\ Rows(c)[g].domain = tx[c].domain

\* The snapshot a SELECT leaves behind.
AfterSelect(c) == IF driver = "mysql" THEN Rows(c) ELSE NoSnapshot

LockedByOther(c, g) == \E e \in Conns \ {c} : Running(e) /\ tx[e].locked /\ tx[e].group = g

Goto(c, label) == [tx[c] EXCEPT !.pc = label, !.snapshot = AfterSelect(c)]

\* Only the UPDATE is left: what the transaction has read is forgotten.
GotoUpdate(c) ==
    [tx[c] EXCEPT !.pc = "update", !.walk = tx[c].group, !.steps = 0, !.snapshot = NoSnapshot]

\* Commit, or the deferred Rollback of an error return.
End(c) == tx' = [tx EXCEPT ![c] = Idle]

Become(c, next) == tx' = [tx EXCEPT ![c] = next]

----------------------------------------------------------------------------
(* The calls, statement by statement.  *)

Begin(c, d, g, parent, title, label) ==
    /\ ~ Running(c)
    /\ Become(c, [domain |-> d, group |-> g, parent |-> parent, title |-> title,
                  locked |-> FALSE, pc |-> label, walk |-> g, steps |-> 0,
                  snapshot |-> NoSnapshot])
    /\ overlapped' = (overlapped \/ (parent # NoChange /\ \E e \in Conns : Reparents(e)))
    /\ UNCHANGED <<tables, driver, drawn>>

GroupSetParent(c, d, g, parent) == parent # NoChange /\ Begin(c, d, g, parent, FALSE, "get")

\* An empty patch is refused.
GroupPatch(c, d, g, parent, title) ==
    /\ title \/ parent # NoChange
    /\ Begin(c, d, g, parent, title, "patch")

PatchGet(c) ==
    /\ Running(c) /\ tx[c].pc = "patch"
    /\ \/ ~ Finds(c, tx[c].group) /\ End(c)
       \/ Finds(c, tx[c].group) /\ Become(c, Goto(c, IF tx[c].title THEN "title" ELSE "get"))
    /\ UNCHANGED <<tables, driver, drawn, overlapped>>

\* UPDATE groups SET title: it waits for the row's lock and keeps it, if the
\* row is still there.
UpdateTitle(c) ==
    /\ Running(c) /\ tx[c].pc = "title"
    /\ ~ LockedByOther(c, tx[c].group)
    /\ \/ tx[c].parent = NoChange /\ End(c)
       \/ /\ tx[c].parent # NoChange
          /\ Become(c, [tx[c] EXCEPT !.pc = "get", !.title = FALSE,
                                     !.locked = GroupIn(tx[c].group, tx[c].domain)])
    /\ UNCHANGED <<tables, driver, drawn, overlapped>>

\* groupSetParentTx: a group is not its own parent, and it exists.
GetGroup(c) ==
    /\ Running(c) /\ tx[c].pc = "get"
    /\ LET fails == tx[c].parent = tx[c].group \/ ~ Finds(c, tx[c].group) IN
       \/ fails /\ End(c)
       \/ ~ fails /\ Become(c, IF tx[c].parent = NoParent THEN GotoUpdate(c) ELSE Goto(c, "parent"))
    /\ UNCHANGED <<tables, driver, drawn, overlapped>>

GetParent(c) ==
    /\ Running(c) /\ tx[c].pc = "parent"
    /\ \/ ~ Finds(c, tx[c].parent) /\ End(c)
       \/ Finds(c, tx[c].parent) /\ Become(c, [Goto(c, "walk") EXCEPT !.walk = tx[c].parent])
    /\ UNCHANGED <<tables, driver, drawn, overlapped>>

\* The walk goes on from the parent of the group it is at.
StepTo_Unbounded(c, parent) ==
    [Goto(c, "walk") EXCEPT !.walk = parent]
StepTo(c, parent) ==
    IF tx[c].steps + 1 = MaxSteps
    THEN GotoUpdate(c)
    ELSE [Goto(c, "walk") EXCEPT !.walk = parent, !.steps = tx[c].steps + 1]

\* One turn of the loop: a cycle or a missing group is an error, a root ends
\* the walk, and so does the step limit.
WalkStep_NoCycleCheck(c) ==
    /\ Running(c) /\ tx[c].pc = "walk"
    /\ LET found == Finds(c, tx[c].walk)
           parent == Rows(c)[tx[c].walk].parent
       IN \/ ~ found /\ End(c)
          \/ found /\ parent = NoParent /\ Become(c, GotoUpdate(c))
          \/ found /\ parent # NoParent /\ Become(c, StepTo(c, parent))
    /\ UNCHANGED <<tables, driver, drawn, overlapped>>
WalkStep_NoBreak(c) ==
    /\ Running(c) /\ tx[c].pc = "walk"
    /\ LET found == Finds(c, tx[c].walk)
           parent == Rows(c)[tx[c].walk].parent
       IN \/ (tx[c].walk = tx[c].group \/ ~ found) /\ End(c)
          \/ tx[c].walk # tx[c].group /\ found /\ Become(c, StepTo(c, parent))
    /\ UNCHANGED <<tables, driver, drawn, overlapped>>
WalkStep(c) ==
    /\ Running(c) /\ tx[c].pc = "walk"
    /\ LET found == Finds(c, tx[c].walk)
           parent == Rows(c)[tx[c].walk].parent
       IN \/ (tx[c].walk = tx[c].group \/ ~ found) /\ End(c)
          \/ /\ tx[c].walk # tx[c].group /\ found
             /\ \/ parent = NoParent /\ Become(c, GotoUpdate(c))
                \/ parent # NoParent /\ Become(c, StepTo(c, parent))
    /\ UNCHANGED <<tables, driver, drawn, overlapped>>

\* The foreign key of parent_group_id locks the parent's row in share mode:
\* in MySQL that conflicts with the lock of a title update, in Postgres it
\* does not.
WaitsFor(c, e) ==
    /\ c # e /\ Running(c) /\ Running(e)
    /\ tx[e].locked
    /\ \/ tx[c].pc \in {"title", "update"} /\ tx[e].group = tx[c].group
       \/ driver = "mysql" /\ tx[c].pc = "update" /\ tx[e].group = tx[c].parent

\* UPDATE groups SET parent_group_id, and Commit.  A parent that is gone is a
\* foreign key error; a group that is gone is an UPDATE of no row, which the
\* code does not tell from success.
Update(c) ==
    LET d == tx[c].domain
        g == tx[c].group
        parent == tx[c].parent
        applies == GroupIn(g, d) /\ (parent # NoParent => groups[parent] # NoRow)
    IN
    /\ Running(c) /\ tx[c].pc = "update"
    /\ \A e \in Conns : ~ WaitsFor(c, e)
    /\ \/ applies /\ UpdateGroupParent(d, g, parent)
       \/ ~ applies /\ UNCHANGED tables
    /\ End(c)
    /\ UNCHANGED <<driver, drawn, overlapped>>

\* Two transactions that wait for each other: InnoDB rolls one of them back.
DeadlockVictim(c) ==
    /\ \E e \in Conns : WaitsFor(c, e) /\ WaitsFor(e, c)
    /\ End(c)
    /\ UNCHANGED <<tables, driver, drawn, overlapped>>

\* The request's context is cancelled, or the connection fails.
Cancel(c) ==
    /\ Running(c)
    /\ End(c)
    /\ UNCHANGED <<tables, driver, drawn, overlapped>>

\* A single-statement call of another client: it waits for locked rows, and a
\* group it creates has a fresh id.
OtherCall ==
    /\ SingleCall
    /\ \A c \in Conns : Running(c) /\ tx[c].locked => groups'[tx[c].group] = groups[tx[c].group]
    /\ \A g \in drawn : groups[g] = NoRow => groups'[g] = NoRow
    /\ drawn' = drawn \cup { g \in Groups : groups'[g] # NoRow }
    /\ UNCHANGED <<driver, tx, overlapped>>

----------------------------------------------------------------------------

Init ==
    /\ EmptyTables
    /\ driver \in Drivers
    /\ tx = [c \in Conns |-> Idle]
    /\ drawn = {}
    /\ overlapped = FALSE

Start(c) ==
    \E d \in Domains, g \in Groups :
        \/ \E parent \in Groups \cup {NoParent} : GroupSetParent(c, d, g, parent)
        \/ \E parent \in Groups \cup {NoParent, NoChange}, title \in BOOLEAN :
              GroupPatch(c, d, g, parent, title)

\* The next statement of the transaction on c.
Proceed(c) ==
    \/ PatchGet(c) \/ UpdateTitle(c) \/ GetGroup(c) \/ GetParent(c) \/ WalkStep(c) \/ Update(c)
    \/ DeadlockVictim(c)

Next ==
    \/ OtherCall
    \/ \E c \in Conns : Start(c) \/ Proceed(c) \/ Cancel(c)

\* A statement the database can run is run, and a statement that waits for a
\* lock gets it when it is free again and again (its lock queue is FIFO).
Fairness == \A c \in Conns : SF_vars(Proceed(c))

Spec == Init /\ [][Next]_vars /\ Fairness

----------------------------------------------------------------------------
(* Properties.  *)

\* Tables hold rows of their schema, and every transaction is one of the code's.
TypeOK ==
    /\ TablesOK
    /\ driver \in Drivers
    /\ tx \in [Conns -> {Idle} \cup Transaction]
    /\ drawn \subseteq Groups
    /\ overlapped \in BOOLEAN

\* The cycle check is complete unless two reparenting transactions overlap:
\* creations, deletions, cancellations and other calls in the middle of the
\* walk never let a cycle through.
CycleNeedsOverlap == ~ overlapped => Acyclic

\* Every transaction ends, although concurrent calls may have left a cycle for
\* its walk to run around in and although statements wait for locks.
CallsEnd == \A c \in Conns : Running(c) ~> ~ Running(c)

=============================================================================
