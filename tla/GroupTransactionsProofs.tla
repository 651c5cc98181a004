----------------------- MODULE GroupTransactionsProofs -----------------------
(***************************************************************************)
(* Proofs about the reparenting transactions of the pooled stores, for     *)
(* every set of ids and connections and both isolation levels: their       *)
(* statements are statements of the schema, and a cycle of parents needs   *)
(* two of them that overlap.                                               *)
(***************************************************************************)
EXTENDS GroupTransactions, SchemaProofs, FiniteSetTheorems

----------------------------------------------------------------------------
(* Types, and the refinement of the tables.  *)

\* The table a SELECT of the transaction t reads.
TableOf(t) == IF t.snapshot = NoSnapshot THEN groups ELSE t.snapshot

\* Past the title a transaction has a parent to set, in the walk a group;
\* only MySQL reads a snapshot, and only the walk counts steps.
Shape(t) ==
    /\ t \in Transaction
    /\ t.pc = "patch" => t.title \/ t.parent # NoChange
    /\ t.pc \in {"get", "parent", "walk", "update"} => t.parent # NoChange
    /\ t.pc \in {"parent", "walk"} => t.parent \in Groups /\ t.parent # t.group
    /\ t.pc # "walk" => t.steps = 0
    /\ driver # "mysql" => t.snapshot = NoSnapshot

TxInv == TypeOK /\ \A c \in Conns : Running(c) => Shape(tx[c])

\* A call of one statement is that statement.
LEMMA CallIsStatement ==
    ASSUME SingleCall
    PROVE  Statement
<1>1. PICK d \in Domains : EntityCall(d) \/ AuthzCall(d)
  BY DEF SingleCall
<1>2. CASE EntityCall(d)
  BY <1>2 DEF EntityCall, Statement, EntityStatement, GroupStatement, PermissionStatement,
     DomainCreate, DomainDelete, UserCreate, UserDelete, ResourceCreate, ResourceDelete,
     GroupCreate, GroupDelete, PermissionCreate, PermissionDelete
<1>3. CASE AuthzCall(d)
  BY <1>3 DEF AuthzCall, Statement, JunctionStatement, AddUserToGroup, RemoveUserFromGroup,
     GrantUserPermission, RevokeUserPermission, GrantGroupPermission, RevokeGroupPermission
<1> QED BY <1>1, <1>2, <1>3

\* The UPDATE of a reparenting transaction.
LEMMA UpdateColumns ==
    ASSUME TxInv, NEW c \in Conns, Update(c)
    PROVE  /\ tx[c].domain \in Domains /\ tx[c].group \in Groups
           /\ tx[c].parent \in Groups \cup {NoParent}
           /\ \/ UpdateGroupParent(tx[c].domain, tx[c].group, tx[c].parent)
              \/ UNCHANGED tables
<1>1. Running(c) /\ tx[c].pc = "update" /\ Shape(tx[c])
  BY DEF Update, TxInv
<1>2. tx[c].domain \in Domains /\ tx[c].group \in Groups /\ tx[c].parent \in Groups \cup {NoParent}
  BY <1>1 DEF Shape, Transaction
<1> QED BY <1>2 DEF Update

LEMMA StepIsStatement ==
    ASSUME TxInv, [Next]_vars
    PROVE  [Statement]_tables
<1>1. ASSUME NEW c \in Conns, Update(c) PROVE [Statement]_tables
  BY <1>1, UpdateColumns DEF Statement, GroupStatement
<1>2. ASSUME NEW c \in Conns, Start(c) PROVE UNCHANGED tables
  BY <1>2 DEF Start, GroupSetParent, GroupPatch, Begin
<1>3. ASSUME NEW c \in Conns, Proceed(c) \/ Cancel(c), ~ Update(c) PROVE UNCHANGED tables
  BY <1>3 DEF Proceed, PatchGet, UpdateTitle, GetGroup, GetParent, WalkStep, DeadlockVictim, Cancel
<1> QED BY <1>1, <1>2, <1>3, CallIsStatement DEF Next, vars, OtherCall

\* What a SELECT reads is a table of groups, and what it leaves behind too.
LEMMA RowsType ==
    ASSUME TxInv, NEW c \in Conns, Running(c)
    PROVE  /\ Rows(c) \in GroupTable /\ Rows(c) = TableOf(tx[c])
           /\ AfterSelect(c) \in GroupTable \cup {NoSnapshot}
           /\ driver # "mysql" => AfterSelect(c) = NoSnapshot
           /\ (IF AfterSelect(c) = NoSnapshot THEN groups ELSE AfterSelect(c)) = Rows(c)
<1>1. tx[c].snapshot \in GroupTable \cup {NoSnapshot} /\ (driver # "mysql" => tx[c].snapshot = NoSnapshot)
  BY DEF TxInv, Shape, Transaction
<1>2. groups \in GroupTable
  BY DEF TxInv, TypeOK, TablesOK, GroupTable
<1> QED BY <1>1, <1>2, IdleAssumption DEF Rows, AfterSelect, TableOf

\* The transactions that a statement leaves.
LEMMA GotoShape ==
    ASSUME TxInv, NEW c \in Conns, Running(c), NEW label \in {"title", "get", "parent", "walk"},
           NEW t, t = Goto(c, label)
    PROVE  /\ t \in Transaction /\ t.pc = label /\ t.snapshot = AfterSelect(c)
           /\ t.domain = tx[c].domain /\ t.group = tx[c].group /\ t.parent = tx[c].parent
           /\ t.title = tx[c].title /\ t.walk = tx[c].walk /\ t.steps = tx[c].steps
<1>1. tx[c] \in Transaction
  BY DEF TxInv, Shape
<1>2. PICK s : s = AfterSelect(c)
  OBVIOUS
<1>3. s \in GroupTable \cup {NoSnapshot}
  BY <1>2, RowsType
<1>4. t = [tx[c] EXCEPT !.pc = label, !.snapshot = s]
  BY <1>2 DEF Goto
<1> QED BY <1>1, <1>2, <1>3, <1>4 DEF Transaction

LEMMA GotoUpdateShape ==
    ASSUME TxInv, NEW c \in Conns, Running(c), tx[c].parent # NoChange, NEW t, t = GotoUpdate(c)
    PROVE  /\ Shape(t) /\ t.pc = "update" /\ t.snapshot = NoSnapshot
           /\ t.domain = tx[c].domain /\ t.group = tx[c].group /\ t.parent = tx[c].parent
<1>1. tx[c] \in Transaction
  BY DEF TxInv, Shape
<1>2. PICK g, none : g = tx[c].group /\ none = NoSnapshot
  OBVIOUS
<1>3. g \in Groups /\ none \in GroupTable \cup {NoSnapshot} /\ 0 \in 0..(MaxSteps - 1)
  BY <1>1, <1>2, ConnAssumption DEF Transaction
<1>4. t = [tx[c] EXCEPT !.pc = "update", !.walk = g, !.steps = 0, !.snapshot = none]
  BY <1>2 DEF GotoUpdate
<1>5. /\ t \in Transaction /\ t.pc = "update" /\ t.snapshot = none /\ t.steps = 0
      /\ t.domain = tx[c].domain /\ t.group = tx[c].group /\ t.parent = tx[c].parent
  BY <1>1, <1>3, <1>4 DEF Transaction
<1> QED BY <1>2, <1>5 DEF Shape

LEMMA StepShape ==
    ASSUME TxInv, NEW c \in Conns, Running(c), tx[c].pc = "walk", NEW w \in Groups,
           tx[c].steps + 1 # MaxSteps, NEW t, t = StepTo(c, w)
    PROVE  /\ Shape(t) /\ t.pc = "walk" /\ t.snapshot = AfterSelect(c)
           /\ t.domain = tx[c].domain /\ t.group = tx[c].group /\ t.parent = tx[c].parent
           /\ t.walk = w /\ t.steps = tx[c].steps + 1
<1>1. PICK u : u = Goto(c, "walk")
  OBVIOUS
<1>2. /\ u \in Transaction /\ u.pc = "walk" /\ u.snapshot = AfterSelect(c)
      /\ u.domain = tx[c].domain /\ u.group = tx[c].group /\ u.parent = tx[c].parent
  BY <1>1, GotoShape
<1>3. Shape(tx[c]) /\ tx[c].steps + 1 \in 0..(MaxSteps - 1)
  <2>1. tx[c].steps \in 0..(MaxSteps - 1)
    BY DEF TxInv, Shape, Transaction
  <2> QED BY <2>1, ConnAssumption DEF TxInv
<1>4. /\ t \in Transaction /\ t.pc = "walk" /\ t.snapshot = AfterSelect(c)
      /\ t.domain = tx[c].domain /\ t.group = tx[c].group /\ t.parent = tx[c].parent
      /\ t.walk = w /\ t.steps = tx[c].steps + 1
  <2>1. t = [u EXCEPT !.walk = w, !.steps = tx[c].steps + 1]
    BY <1>1 DEF StepTo
  <2> QED BY <1>2, <1>3, <2>1 DEF Transaction
<1> QED BY <1>3, <1>4, RowsType DEF Shape

LEMMA ParentShape ==
    ASSUME TxInv, NEW c \in Conns, Running(c), tx[c].pc = "parent", NEW t,
           t = [Goto(c, "walk") EXCEPT !.walk = tx[c].parent]
    PROVE  /\ Shape(t) /\ t.pc = "walk" /\ t.snapshot = AfterSelect(c)
           /\ t.domain = tx[c].domain /\ t.group = tx[c].group /\ t.parent = tx[c].parent
           /\ t.walk = tx[c].parent /\ t.steps = 0
<1>1. PICK u : u = Goto(c, "walk")
  OBVIOUS
<1>2. /\ u \in Transaction /\ u.pc = "walk" /\ u.snapshot = AfterSelect(c)
      /\ u.domain = tx[c].domain /\ u.group = tx[c].group /\ u.parent = tx[c].parent
      /\ u.steps = tx[c].steps
  BY <1>1, GotoShape
<1>3. Shape(tx[c]) /\ tx[c].parent \in Groups
  BY DEF TxInv, Shape
<1>4. /\ t \in Transaction /\ t.pc = "walk" /\ t.snapshot = AfterSelect(c)
      /\ t.domain = tx[c].domain /\ t.group = tx[c].group /\ t.parent = tx[c].parent
      /\ t.walk = tx[c].parent /\ t.steps = tx[c].steps
  BY <1>1, <1>2, <1>3 DEF Transaction
<1> QED BY <1>3, <1>4, RowsType DEF Shape

\* A step that gives a connection a well-formed transaction, or none.
LEMMA BecomeShape ==
    ASSUME TxInv, TablesOK', NEW c \in Conns, NEW t, t = Idle \/ Shape(t), Become(c, t),
           UNCHANGED <<driver, drawn>>, overlapped' \in BOOLEAN
    PROVE  TxInv'
<1>1. t \in {Idle} \cup Transaction
  BY DEF Shape
<1>2. tx' \in [Conns -> {Idle} \cup Transaction] /\ tx'[c] = t
      /\ \A e \in Conns \ {c} : tx'[e] = tx[e]
  BY <1>1 DEF TxInv, TypeOK, Become
<1>3. TypeOK'
  BY <1>2 DEF TxInv, TypeOK
<1>4. ASSUME NEW e \in Conns, Running(e)' PROVE Shape(tx[e])'
  <2>1. PICK u : u = tx'[e]
    OBVIOUS
  <2>2. Shape(u)
    BY <1>2, <1>4, <2>1 DEF TxInv, Running
  <2>3. Shape(u)'
    BY <2>2 DEF Shape
  <2> QED BY <2>1, <2>3
<1> QED BY <1>3, <1>4 DEF TxInv

LEMMA TxStart ==
    ASSUME TxInv, NEW c \in Conns, Start(c)
    PROVE  TxInv'
<1>1. PICK d \in Domains, g \in Groups, parent \in Groups \cup {NoParent, NoChange},
           title \in BOOLEAN, label \in {"get", "patch"} :
        /\ label = "get" => parent # NoChange
        /\ label = "patch" => title \/ parent # NoChange
        /\ Begin(c, d, g, parent, title, label)
  BY DEF Start, GroupSetParent, GroupPatch
<1>2. PICK none : none = NoSnapshot
  OBVIOUS
<1>3. PICK t : t = [domain |-> d, group |-> g, parent |-> parent, title |-> title,
                    locked |-> FALSE, pc |-> label, walk |-> g, steps |-> 0, snapshot |-> none]
  OBVIOUS
<1>4. 0 \in 0..(MaxSteps - 1) /\ none \in GroupTable \cup {NoSnapshot}
  BY <1>2, ConnAssumption
<1>5. t \in Transaction
  BY <1>3, <1>4 DEF Transaction
<1>6. Shape(t)
  BY <1>1, <1>2, <1>3, <1>5 DEF Shape
<1>7. Become(c, t) /\ UNCHANGED <<tables, driver, drawn>> /\ overlapped' \in BOOLEAN
  BY <1>1, <1>2, <1>3 DEF Begin
<1>8. TablesOK'
  BY <1>7 DEF TxInv, TypeOK, TablesOK, tables, entities, junctions
<1> QED BY <1>6, <1>7, <1>8, BecomeShape

\* The group a walk steps to.
LEMMA NextGroup ==
    ASSUME TxInv, NEW c \in Conns, Running(c), Finds(c, tx[c].walk),
           Rows(c)[tx[c].walk].parent # NoParent
    PROVE  Rows(c)[tx[c].walk].parent \in Groups
<1>1. tx[c].walk \in Groups /\ Rows(c) \in GroupTable
  BY RowsType DEF TxInv, Shape, Transaction
<1> QED BY <1>1 DEF Finds, GroupTable, GroupRow

\* What a SELECT or the title's UPDATE makes of the transaction.
LEMMA ReadShape ==
    ASSUME TxInv, NEW c \in Conns, PatchGet(c) \/ UpdateTitle(c) \/ GetGroup(c)
                                     \/ GetParent(c) \/ WalkStep(c)
    PROVE  \E t : (t = Idle \/ Shape(t)) /\ Become(c, t)
<1>0. Running(c) /\ Shape(tx[c]) /\ tx[c] \in Transaction
  BY DEF PatchGet, UpdateTitle, GetGroup, GetParent, WalkStep, TxInv, Shape
<1>1. ASSUME End(c) PROVE \E t : (t = Idle \/ Shape(t)) /\ Become(c, t)
  BY <1>1 DEF End, Become
<1>2. CASE PatchGet(c)
  <2>1. PICK label \in {"title", "get"} : label = IF tx[c].title THEN "title" ELSE "get"
    OBVIOUS
  <2>2. PICK t : t = Goto(c, label)
    OBVIOUS
  <2>3. Shape(t)
    <3>1. /\ t \in Transaction /\ t.pc = label /\ t.snapshot = AfterSelect(c)
          /\ t.parent = tx[c].parent /\ t.steps = tx[c].steps
      BY <1>0, <2>2, GotoShape
    <3>2. tx[c].title \in BOOLEAN /\ tx[c].steps = 0 /\ (~ tx[c].title => tx[c].parent # NoChange)
      BY <1>0, <1>2 DEF Shape, Transaction, PatchGet
    <3> QED BY <1>0, <2>1, <3>1, <3>2, RowsType DEF Shape
  <2> QED BY <1>1, <1>2, <2>1, <2>2, <2>3 DEF PatchGet
<1>3. CASE UpdateTitle(c)
  <2>0. PICK lock : lock = GroupIn(tx[c].group, tx[c].domain)
    OBVIOUS
  <2>1. PICK t : t = [tx[c] EXCEPT !.pc = "get", !.title = FALSE, !.locked = lock]
    OBVIOUS
  <2>a. lock \in BOOLEAN
    BY <2>0 DEF GroupIn
  <2>2. /\ t \in Transaction /\ t.pc = "get" /\ t.parent = tx[c].parent
        /\ t.steps = tx[c].steps /\ t.snapshot = tx[c].snapshot
    BY <1>0, <2>1, <2>a DEF Transaction
  <2>3. tx[c].parent # NoChange => Shape(t)
    BY <1>0, <1>3, <2>2 DEF Shape, UpdateTitle
  <2> QED BY <1>1, <1>3, <2>0, <2>1, <2>3 DEF UpdateTitle
<1>4. CASE GetGroup(c)
  <2>1. PICK t : t = Goto(c, "parent")
    OBVIOUS
  <2>2. tx[c].parent # NoParent /\ tx[c].parent # tx[c].group => Shape(t)
    <3>1. /\ t \in Transaction /\ t.pc = "parent" /\ t.snapshot = AfterSelect(c)
          /\ t.group = tx[c].group /\ t.parent = tx[c].parent /\ t.steps = tx[c].steps
      BY <1>0, <2>1, GotoShape
    <3>2. tx[c].parent \in Groups \cup {NoParent} /\ tx[c].steps = 0
      BY <1>0, <1>4 DEF Shape, Transaction, GetGroup
    <3> QED BY <1>0, <3>1, <3>2, RowsType, IdleAssumption DEF Shape
  <2>3. PICK u : u = GotoUpdate(c)
    OBVIOUS
  <2>4. tx[c].parent # NoChange
    BY <1>0, <1>4 DEF Shape, GetGroup
  <2>5. Shape(u)
    BY <1>0, <2>3, <2>4, GotoUpdateShape
  <2> QED BY <1>1, <1>4, <2>1, <2>2, <2>3, <2>5 DEF GetGroup
<1>5. CASE GetParent(c)
  BY <1>0, <1>1, <1>5, ParentShape DEF GetParent
<1>6. CASE WalkStep(c)
  <2>1. tx[c].parent # NoChange /\ tx[c].pc = "walk"
    BY <1>0, <1>6 DEF Shape, WalkStep
  <2>2. PICK u : u = GotoUpdate(c)
    OBVIOUS
  <2>3. Shape(u)
    BY <1>0, <2>1, <2>2, GotoUpdateShape
  <2>4. PICK w : w = Rows(c)[tx[c].walk].parent
    OBVIOUS
  <2>5. ASSUME Finds(c, tx[c].walk), w # NoParent, Become(c, StepTo(c, w))
        PROVE  \E t : Shape(t) /\ Become(c, t)
    <3>1. w \in Groups
      BY <1>0, <2>4, <2>5, NextGroup
    <3>2. CASE tx[c].steps + 1 = MaxSteps
      BY <2>2, <2>3, <2>5, <3>2 DEF StepTo
    <3>3. CASE tx[c].steps + 1 # MaxSteps
      BY <1>0, <2>1, <2>5, <3>1, <3>3, StepShape
    <3> QED BY <3>2, <3>3
  <2> QED BY <1>1, <1>6, <2>2, <2>3, <2>4, <2>5 DEF WalkStep
<1> QED BY <1>2, <1>3, <1>4, <1>5, <1>6

LEMMA TxStep ==
    ASSUME TxInv, [Next]_vars
    PROVE  TxInv'
<1>1. TablesOK'
  BY StepIsStatement, TablesStep DEF TxInv, TypeOK
<1>2. ASSUME NEW c \in Conns, PatchGet(c) \/ UpdateTitle(c) \/ GetGroup(c)
                                \/ GetParent(c) \/ WalkStep(c)
      PROVE  TxInv'
  <2>1. UNCHANGED <<driver, drawn, overlapped>>
    BY <1>2 DEF PatchGet, UpdateTitle, GetGroup, GetParent, WalkStep
  <2>2. overlapped' \in BOOLEAN
    BY <2>1 DEF TxInv, TypeOK
  <2> QED BY <1>1, <1>2, <2>1, <2>2, ReadShape, BecomeShape
<1>3. ASSUME NEW c \in Conns, Update(c) \/ DeadlockVictim(c) \/ Cancel(c) PROVE TxInv'
  <2>1. Become(c, Idle) /\ UNCHANGED <<driver, drawn, overlapped>>
    BY <1>3 DEF Update, DeadlockVictim, Cancel, End, Become
  <2>2. overlapped' \in BOOLEAN
    BY <2>1 DEF TxInv, TypeOK
  <2> QED BY <1>1, <2>1, <2>2, BecomeShape
<1>4. CASE OtherCall \/ UNCHANGED vars
  <2>1. UNCHANGED <<driver, tx, overlapped>> /\ drawn' \subseteq Groups
    BY <1>4 DEF OtherCall, vars, TxInv, TypeOK
  <2>2. TypeOK'
    BY <1>1, <2>1 DEF TxInv, TypeOK
  <2>3. \A c \in Conns : Running(c)' => Shape(tx[c])'
    BY <2>1 DEF TxInv, Running, Shape
  <2> QED BY <2>2, <2>3 DEF TxInv
<1> QED BY <1>2, <1>3, <1>4, TxStart DEF Next, Proceed

LEMMA TxInvariant == Spec => []TxInv
<1>1. Init => TxInv
  BY TablesInit DEF Init, TxInv, TypeOK, Running
<1> QED BY <1>1, TxStep, PTL DEF Spec

\* The tables keep their schema and every transaction stays one of the code's,
\* in both stores and however the statements interleave: the walk never has a
\* group that is none, or a step count past its limit.
THEOREM GroupsTypeCorrect == Spec => []TypeOK
BY TxInvariant, PTL DEF TxInv

\* A reparenting transaction and the calls around it are a program of the
\* schema's statements.
THEOREM GroupsImplementTables == Spec => Tables
<1>1. Init => EmptyTables
  BY DEF Init
<1>2. TxInv /\ [Next]_vars => [Statement]_tables
  BY StepIsStatement
<1> QED BY <1>1, <1>2, TxInvariant, PTL DEF Spec, Tables


----------------------------------------------------------------------------
(* A cycle needs two reparenting transactions that overlap.  *)

ParentIn(R, h) == IF R[h] = NoRow THEN NoParent ELSE R[h].parent

\* R is the committed table, or one that was: its links are live and form no
\* cycle, and of a group that is in both it says what groups says now.
SoundTable(R) ==
    /\ R \in GroupTable
    /\ \A h \in Groups : R[h] # NoRow =>
          /\ h \in drawn
          /\ R[h].parent # NoParent => R[R[h].parent] # NoRow
          /\ groups[h] \in {R[h], NoRow}
    /\ \A S \in SUBSET Groups : S # {} => \E h \in S : ParentIn(R, h) \notin S

\* S holds the parents of its members, g's aside.
ClosedBut(S, g) == \A h \in S \ {g} : ParentOf(h) \in S

\* The walk is on the chain of parents that starts at the new parent.
Reaches(t) ==
    \A S \in SUBSET Groups : t.parent \in S /\ ClosedBut(S, t.group) => t.walk \in S

\* C holds the groups the walk has been at, steps + 1 of them: it has not been
\* at any of them twice.
Trail(C, t) ==
    /\ C \subseteq Groups \cap drawn /\ t.walk \in C
    /\ Cardinality(C) = t.steps + 1
    /\ t.group \notin C \ {t.walk}
    /\ \A h \in C \ {t.walk} : TableOf(t)[h] # NoRow => TableOf(t)[h].parent \in C

\* What the only reparenting transaction knows; a patch of a title alone need
\* not know anything.
Sound(t) ==
    t.parent # NoChange =>
        /\ t.snapshot # NoSnapshot => SoundTable(t.snapshot)
        /\ t.pc = "walk" => t.parent \in drawn /\ Reaches(t) /\ \E C \in SUBSET Groups : Trail(C, t)
        /\ t.pc = "update" /\ t.parent # NoParent => t.parent \in drawn /\ Escapes(t.parent, t.group)

CycleInv ==
    /\ \A g \in Groups : groups[g] # NoRow => g \in drawn
    /\ ~ overlapped =>
          /\ Acyclic
          /\ \A c, e \in Conns : Reparents(c) /\ Reparents(e) => c = e
          /\ \A c \in Conns : Running(c) => Sound(tx[c])

\* What the proofs below assume of a state in which nobody has overlapped.
Quiet == TxInv /\ ReferencesLive /\ CycleInv /\ ~ overlapped

\* Every table that a lone reparenting transaction reads is sound.
LEMMA RowsSound ==
    ASSUME Quiet, NEW c \in Conns, Reparents(c)
    PROVE  /\ SoundTable(Rows(c)) /\ Sound(tx[c])
           /\ AfterSelect(c) # NoSnapshot => SoundTable(AfterSelect(c))
<1>1. Acyclic /\ (\A g \in Groups : groups[g] # NoRow => g \in drawn) /\ Sound(tx[c])
  BY DEF Quiet, CycleInv, Reparents
<1>2. groups \in GroupTable
  BY DEF Quiet, TxInv, TypeOK, TablesOK, GroupTable
<1>3. \A h \in Groups : ParentIn(groups, h) = ParentOf(h)
  BY DEF ParentIn, ParentOf
<1>4. SoundTable(groups)
  BY <1>1, <1>2, <1>3 DEF SoundTable, Quiet, ReferencesLive, Acyclic
<1>5. SoundTable(Rows(c))
  BY <1>1, <1>4 DEF Rows, Sound, Reparents
<1> QED BY <1>1, <1>5 DEF AfterSelect

\* The parent of the walk's group is the parent it has now, if it has one.
LEMMA WalkParent ==
    ASSUME Quiet, NEW c \in Conns, Reparents(c), NEW h \in Groups, Rows(c)[h] # NoRow,
           ParentOf(h) # NoParent
    PROVE  ParentOf(h) = Rows(c)[h].parent
BY RowsSound DEF SoundTable, ParentOf

\* A group without a parent ends the chain: the new parent does not lead to
\* the group that gets it.
LEMMA WalkEnds ==
    ASSUME Quiet, NEW c \in Conns, Reparents(c), tx[c].pc = "walk", tx[c].walk # tx[c].group,
           Finds(c, tx[c].walk), Rows(c)[tx[c].walk].parent = NoParent
    PROVE  Escapes(tx[c].parent, tx[c].group)
<1>1. tx[c].walk \in Groups /\ Rows(c)[tx[c].walk] # NoRow
  BY DEF Quiet, TxInv, Shape, Transaction, Reparents, Finds
<1>2. ParentOf(tx[c].walk) = NoParent
  BY <1>1, WalkParent
<1>3. Reaches(tx[c])
  BY RowsSound DEF Sound, Reparents
<1> SUFFICES ASSUME NEW S \in SUBSET Groups, tx[c].parent \in S, ClosedBut(S, tx[c].group)
             PROVE  FALSE
  BY DEF Escapes, ClosedBut
<1>4. tx[c].walk \in S
  BY <1>3 DEF Reaches
<1>5. NoParent \in S
  BY <1>2, <1>4 DEF ClosedBut
<1> QED BY <1>5, NullAssumption

\* The next group of the walk is on the chain too.
LEMMA WalkReaches ==
    ASSUME Quiet, NEW c \in Conns, Reparents(c), tx[c].pc = "walk", tx[c].walk # tx[c].group,
           Finds(c, tx[c].walk), NEW t, t.parent = tx[c].parent, t.group = tx[c].group,
           t.walk = Rows(c)[tx[c].walk].parent
    PROVE  Reaches(t)
<1>1. tx[c].walk \in Groups /\ Rows(c)[tx[c].walk] # NoRow
  BY DEF Quiet, TxInv, Shape, Transaction, Reparents, Finds
<1>2. ParentOf(tx[c].walk) \in {NoParent, t.walk}
  BY <1>1, WalkParent
<1>3. Reaches(tx[c])
  BY RowsSound DEF Sound, Reparents
<1> SUFFICES ASSUME NEW S \in SUBSET Groups, t.parent \in S, ClosedBut(S, t.group)
             PROVE  t.walk \in S
  BY DEF Reaches
<1>4. tx[c].walk \in S
  BY <1>3 DEF Reaches
<1>5. ParentOf(tx[c].walk) \in S
  BY <1>4 DEF ClosedBut
<1> QED BY <1>2, <1>5, NullAssumption

\* It is not one the walk has been at: those, as far as the table still has
\* them, would be a cycle.
LEMMA WalkIsNew ==
    ASSUME Quiet, NEW c \in Conns, Reparents(c), tx[c].pc = "walk",
           Finds(c, tx[c].walk), Rows(c)[tx[c].walk].parent # NoParent,
           NEW C \in SUBSET Groups, Trail(C, tx[c])
    PROVE  Rows(c)[tx[c].walk].parent \notin C
<1> SUFFICES ASSUME Rows(c)[tx[c].walk].parent \in C PROVE FALSE
  OBVIOUS
<1>1. PICK R, w : R = Rows(c) /\ w = tx[c].walk
  OBVIOUS
<1>2. SoundTable(R) /\ R = TableOf(tx[c])
  BY <1>1, RowsSound, RowsType DEF Quiet, Reparents
<1>3. /\ w \in C /\ R[w] # NoRow /\ R[w].parent \in C
      /\ \A h \in C \ {w} : R[h] # NoRow => R[h].parent \in C
  BY <1>1, <1>2 DEF Trail, Finds
<1>4. PICK L \in SUBSET Groups : L = { h \in C : R[h] # NoRow }
  OBVIOUS
<1>5. ASSUME NEW h \in L PROVE ParentIn(R, h) \in L
  <2>1. h \in Groups /\ R[h] # NoRow /\ R[h].parent \in C
    BY <1>3, <1>4
  <2>2. R[R[h].parent] # NoRow
    BY <1>2, <2>1, NullAssumption DEF SoundTable
  <2> QED BY <1>4, <2>1, <2>2 DEF ParentIn
<1>6. w \in L
  BY <1>3, <1>4
<1> QED BY <1>2, <1>5, <1>6 DEF SoundTable

\* So the trail grows by one group with each step ...
LEMMA WalkTrail ==
    ASSUME Quiet, NEW c \in Conns, Reparents(c), tx[c].pc = "walk", tx[c].walk # tx[c].group,
           Finds(c, tx[c].walk), NEW w, w = Rows(c)[tx[c].walk].parent, w # NoParent,
           NEW t, t.snapshot = AfterSelect(c), t.walk = w, t.steps = tx[c].steps + 1,
           t.group = tx[c].group
    PROVE  \E C \in SUBSET Groups : Trail(C, t)
<1>1. PICK C \in SUBSET Groups : Trail(C, tx[c])
  BY RowsSound DEF Sound, Reparents
<1>2. PICK R : R = Rows(c)
  OBVIOUS
<1>3. SoundTable(R) /\ R = TableOf(tx[c]) /\ R = TableOf(t)
  BY <1>2, RowsSound, RowsType DEF Quiet, Reparents, TableOf
<1>4. tx[c].walk \in Groups /\ tx[c].steps \in Nat /\ R[tx[c].walk] # NoRow /\ R[tx[c].walk].parent = w
  BY <1>2 DEF Quiet, TxInv, Shape, Transaction, Reparents, Finds
<1>5. w \in Groups /\ w \in drawn /\ w \notin C
  <2>1. w \in Groups
    BY NextGroup DEF Quiet, Reparents
  <2>2. R[w] # NoRow
    BY <1>3, <1>4 DEF SoundTable
  <2> QED BY <1>1, <1>3, <2>1, <2>2, WalkIsNew DEF SoundTable
<1>6. IsFiniteSet(C)
  BY FS_Subset, WalkAssumption
<1>7. Cardinality(C \cup {w}) = Cardinality(C) + 1
  BY <1>5, <1>6, FS_AddElement
<1>8. Trail(C \cup {w}, t)
  <2>1. Cardinality(C \cup {w}) = t.steps + 1
    BY <1>1, <1>7 DEF Trail
  <2>2. \A h \in (C \cup {w}) \ {w} : R[h] # NoRow => R[h].parent \in C \cup {w}
    BY <1>1, <1>3, <1>4 DEF Trail
  <2> QED BY <1>1, <1>3, <1>5, <2>1, <2>2 DEF Trail
<1> QED BY <1>5, <1>8

\* ... and never holds the group itself, so that a walk that may take as many
\* steps as there are groups never runs into its limit.
LEMMA WalkWithinLimit ==
    ASSUME Quiet, NEW c \in Conns, Reparents(c), tx[c].pc = "walk", tx[c].walk # tx[c].group
    PROVE  tx[c].steps + 1 # MaxSteps
<1>1. PICK C \in SUBSET Groups : Trail(C, tx[c])
  BY RowsSound DEF Sound, Reparents
<1>2. tx[c].group \in Groups /\ tx[c].steps \in Nat
  BY DEF Quiet, TxInv, Shape, Transaction, Reparents
<1>3. PICK O : O = Groups \ {tx[c].group}
  OBVIOUS
<1>4. IsFiniteSet(O) /\ Cardinality(O) = Cardinality(Groups) - 1
  BY <1>2, <1>3, WalkAssumption, FS_RemoveElement
<1>5. C \in SUBSET O
  BY <1>1, <1>3 DEF Trail
<1>6. Cardinality(C) <= Cardinality(O)
  BY <1>4, <1>5, FS_Subset
<1>7. Cardinality(Groups) \in Nat /\ Cardinality(C) = tx[c].steps + 1
  BY <1>1, WalkAssumption, FS_CardinalityType DEF Trail
<1> QED BY <1>2, <1>4, <1>6, <1>7, WalkAssumption, ConnAssumption


\* Of a step that leaves the tables alone, only its transaction is asked.
LEMMA BecomeSound ==
    ASSUME TxInv, CycleInv, NEW c \in Conns, NEW t, Become(c, t), UNCHANGED <<tables, drawn>>,
           ~ overlapped' => /\ ~ overlapped
                            /\ \/ t = Idle
                               \/ /\ Sound(t)
                                  /\ t.parent # NoChange => \A e \in Conns \ {c} : ~ Reparents(e)
    PROVE  CycleInv'
<1>1. tx'[c] = t /\ \A e \in Conns \ {c} : tx'[e] = tx[e]
  BY DEF TxInv, TypeOK, Become
<1>2. groups' = groups /\ drawn' = drawn /\ (Acyclic => Acyclic')
  BY DEF tables, entities, Acyclic, ParentOf
<1>3. \A g \in Groups : groups'[g] # NoRow => g \in drawn'
  BY <1>2 DEF CycleInv
<1>4. ASSUME ~ overlapped' PROVE \A b, e \in Conns : Reparents(b)' /\ Reparents(e)' => b = e
  BY <1>1, <1>4 DEF CycleInv, Reparents, Running
<1>5. ASSUME ~ overlapped', NEW e \in Conns, Running(e)' PROVE Sound(tx[e])'
  <2>1. PICK u : u = tx'[e]
    OBVIOUS
  <2>2. Sound(u)
    BY <1>1, <1>5, <2>1 DEF CycleInv, Running
  <2>3. Sound(u)'
    BY <1>2, <2>2 DEF Sound, SoundTable, Reaches, ClosedBut, ParentOf, Trail, TableOf, Escapes
  <2> QED BY <2>1, <2>3
<1> QED BY <1>2, <1>3, <1>4, <1>5 DEF CycleInv

LEMMA StartSound ==
    ASSUME TxInv, CycleInv, NEW c \in Conns, Start(c)
    PROVE  CycleInv'
<1>1. PICK d \in Domains, g \in Groups, parent \in Groups \cup {NoParent, NoChange},
           title \in BOOLEAN, label \in {"get", "patch"} : Begin(c, d, g, parent, title, label)
  BY DEF Start, GroupSetParent, GroupPatch
<1>2. PICK t : t = [domain |-> d, group |-> g, parent |-> parent, title |-> title,
                    locked |-> FALSE, pc |-> label, walk |-> g, steps |-> 0,
                    snapshot |-> NoSnapshot]
  OBVIOUS
<1>3. Sound(t)
  BY <1>2 DEF Sound
<1>4. Become(c, t) /\ UNCHANGED <<tables, drawn>>
  BY <1>1, <1>2 DEF Begin
<1>5. ~ overlapped' =>
        ~ overlapped /\ (t.parent # NoChange => \A e \in Conns : ~ Reparents(e))
  BY <1>1, <1>2 DEF Begin, TxInv, TypeOK
<1> QED BY <1>3, <1>4, <1>5, BecomeSound

\* A patch of a title alone stays one.
LEMMA TitleSound ==
    ASSUME TxInv, NEW c \in Conns, tx[c].parent = NoChange,
           PatchGet(c) \/ UpdateTitle(c) \/ GetGroup(c) \/ GetParent(c) \/ WalkStep(c)
    PROVE  \E t : (t = Idle \/ (Sound(t) /\ t.parent = tx[c].parent)) /\ Become(c, t)
<1>1. Running(c) /\ Shape(tx[c])
  BY DEF PatchGet, UpdateTitle, GetGroup, GetParent, WalkStep, TxInv
<1>2. PatchGet(c) \/ UpdateTitle(c)
  BY <1>1 DEF Shape, GetGroup, GetParent, WalkStep
<1>3. ASSUME End(c) PROVE Become(c, Idle)
  BY <1>3 DEF End, Become
<1>4. ASSUME NEW label \in {"title", "get"}, NEW t, t = Goto(c, label)
      PROVE  Sound(t) /\ t.parent = tx[c].parent
  <2>1. t.parent = tx[c].parent
    BY <1>1, <1>4, GotoShape
  <2> QED BY <2>1 DEF Sound
<1> QED BY <1>2, <1>3, <1>4 DEF PatchGet, UpdateTitle

\* What a transaction knows after a statement.
LEMMA ReadSound ==
    ASSUME Quiet, NEW c \in Conns, tx[c].parent # NoChange,
           PatchGet(c) \/ UpdateTitle(c) \/ GetGroup(c) \/ GetParent(c) \/ WalkStep(c)
    PROVE  \E t : (t = Idle \/ (Sound(t) /\ t.parent = tx[c].parent)) /\ Become(c, t)
<1>0. /\ TxInv /\ Running(c) /\ Reparents(c)
      /\ Shape(tx[c]) /\ tx[c] \in Transaction /\ Sound(tx[c])
  BY RowsSound DEF Quiet, Reparents, PatchGet, UpdateTitle, GetGroup, GetParent, WalkStep, TxInv, Shape
<1>1. ASSUME End(c) PROVE Become(c, Idle)
  BY <1>1 DEF End, Become
<1>2. ASSUME NEW label \in {"title", "get", "parent"}, NEW t, t = Goto(c, label)
      PROVE  Sound(t) /\ t.parent = tx[c].parent
  <2>1. t.pc = label /\ t.snapshot = AfterSelect(c) /\ t.parent = tx[c].parent
    BY <1>0, <1>2, GotoShape
  <2> QED BY <1>0, <2>1, RowsSound DEF Sound
<1>3. ASSUME NEW t, t = GotoUpdate(c), tx[c].parent # NoChange,
             tx[c].parent # NoParent => tx[c].parent \in drawn /\ Escapes(tx[c].parent, tx[c].group)
      PROVE  Sound(t) /\ t.parent = tx[c].parent
  <2>1. t.pc = "update" /\ t.snapshot = NoSnapshot /\ t.group = tx[c].group /\ t.parent = tx[c].parent
    BY <1>0, <1>3, GotoUpdateShape
  <2> QED BY <1>3, <2>1 DEF Sound
<1>4. CASE PatchGet(c)
  BY <1>1, <1>2, <1>4 DEF PatchGet
<1>5. CASE UpdateTitle(c)
  <2>1. PICK lock : lock = GroupIn(tx[c].group, tx[c].domain)
    OBVIOUS
  <2>2. PICK t : t = [tx[c] EXCEPT !.pc = "get", !.title = FALSE, !.locked = lock]
    OBVIOUS
  <2>3. t.pc = "get" /\ t.snapshot = tx[c].snapshot /\ t.parent = tx[c].parent
    BY <1>0, <2>2 DEF Transaction
  <2>4. Sound(t)
    BY <1>0, <2>3 DEF Sound
  <2> QED BY <1>1, <1>5, <2>1, <2>2, <2>3, <2>4 DEF UpdateTitle
<1>6. CASE GetGroup(c)
  BY <1>1, <1>2, <1>3, <1>6 DEF GetGroup
<1>7. CASE GetParent(c)
  <2>1. PICK t : t = [Goto(c, "walk") EXCEPT !.walk = tx[c].parent]
    OBVIOUS
  <2>2. /\ t.pc = "walk" /\ t.snapshot = AfterSelect(c) /\ t.group = tx[c].group
        /\ t.parent = tx[c].parent /\ t.walk = tx[c].parent /\ t.steps = 0
    BY <1>0, <1>7, <2>1, ParentShape DEF GetParent
  <2>3. tx[c].parent \in Groups /\ tx[c].parent # tx[c].group
    BY <1>0, <1>7 DEF Shape, GetParent
  <2>4. ASSUME Finds(c, tx[c].parent) PROVE Sound(t)
    <3>1. tx[c].parent \in drawn
      BY <1>0, <2>3, <2>4, RowsSound DEF SoundTable, Finds
    <3>2. Reaches(t)
      BY <2>2 DEF Reaches
    <3>3. Trail({tx[c].parent}, t)
      <4>1. Cardinality({tx[c].parent}) = t.steps + 1
        <5>1. Cardinality({tx[c].parent}) = 1
          BY FS_Singleton, Zenon
        <5> QED BY <2>2, <5>1
      <4> QED BY <2>2, <2>3, <3>1, <4>1 DEF Trail
    <3> QED BY <1>0, <2>2, <2>3, <3>1, <3>2, <3>3, RowsSound DEF Sound
  <2> QED BY <1>1, <1>7, <2>1, <2>2, <2>4 DEF GetParent
<1>8. CASE WalkStep(c)
  <2>1. /\ tx[c].pc = "walk" /\ tx[c].parent # NoChange /\ tx[c].parent \in drawn
        /\ tx[c].parent \in Groups
    BY <1>0, <1>8 DEF Shape, WalkStep, Sound
  <2>2. PICK u : u = GotoUpdate(c)
    OBVIOUS
  <2>3. PICK w : w = Rows(c)[tx[c].walk].parent
    OBVIOUS
  <2>4. ASSUME tx[c].walk # tx[c].group, Finds(c, tx[c].walk), w = NoParent, Become(c, u)
        PROVE  \E t : Sound(t) /\ t.parent = tx[c].parent /\ Become(c, t)
    BY <1>0, <1>3, <2>1, <2>2, <2>3, <2>4, WalkEnds
  <2>5. ASSUME tx[c].walk # tx[c].group, Finds(c, tx[c].walk), w # NoParent, Become(c, StepTo(c, w))
        PROVE  \E t : Sound(t) /\ t.parent = tx[c].parent /\ Become(c, t)
    <3>1. PICK t : t = StepTo(c, w)
      OBVIOUS
    <3>2. tx[c].steps + 1 # MaxSteps /\ w \in Groups
      BY <1>0, <2>1, <2>3, <2>5, WalkWithinLimit, NextGroup
    <3>3. /\ t.pc = "walk" /\ t.snapshot = AfterSelect(c) /\ t.group = tx[c].group
          /\ t.parent = tx[c].parent /\ t.walk = w /\ t.steps = tx[c].steps + 1
      BY <1>0, <2>1, <3>1, <3>2, StepShape
    <3>4. Reaches(t)
      BY <1>0, <2>1, <2>3, <2>5, <3>3, WalkReaches
    <3>5. \E C \in SUBSET Groups : Trail(C, t)
      BY <1>0, <2>1, <2>3, <2>5, <3>3, WalkTrail
    <3>6. Sound(t)
      BY <1>0, <2>1, <3>3, <3>4, <3>5, RowsSound DEF Sound
    <3> QED BY <2>5, <3>1, <3>3, <3>6
  <2> QED BY <1>1, <1>8, <2>2, <2>3, <2>4, <2>5 DEF WalkStep
<1> QED BY <1>4, <1>5, <1>6, <1>7, <1>8


\* What a call of one statement does to the groups: a new one has a fresh id.
LEMMA CallOnGroups ==
    ASSUME TxInv, CycleInv, OtherCall
    PROVE  \/ groups' = groups
           \/ \E d \in Domains, g \in Groups : DeleteGroup(d, g)
           \/ \E d \in Domains, g \in Groups \ drawn, parent \in Groups \cup {NoParent} :
                 InsertGroup(d, g, parent)
<1>1. PICK d \in Domains : EntityCall(d) \/ AuthzCall(d)
  BY DEF OtherCall, SingleCall
<1>2. ASSUME NEW g \in Groups, NEW parent \in Groups \cup {NoParent}, InsertGroup(d, g, parent)
      PROVE  g \notin drawn
  <2>1. groups'[g] # NoRow /\ groups[g] = NoRow
    BY <1>2, WrittenRows, NullAssumption DEF InsertGroup, TxInv, TypeOK, TablesOK
  <2> QED BY <2>1 DEF OtherCall
<1>3. CASE EntityCall(d)
  BY <1>2, <1>3 DEF EntityCall, DomainCreate, DomainDelete, UserCreate, UserDelete,
     ResourceCreate, ResourceDelete, GroupCreate, GroupDelete, PermissionCreate, PermissionDelete,
     InsertDomain, DeleteDomain, InsertUser, DeleteUser, InsertResource, DeleteResource,
     InsertPermission, DeletePermission
<1>4. CASE AuthzCall(d)
  BY <1>4 DEF AuthzCall, AddUserToGroup, RemoveUserFromGroup, GrantUserPermission,
     RevokeUserPermission, GrantGroupPermission, RevokeGroupPermission, InsertMember,
     DeleteMember, InsertUserPermission, DeleteUserPermission, InsertGroupPermission,
     DeleteGroupPermission, entities
<1> QED BY <1>1, <1>3, <1>4

\* A group whose id is drawn keeps its row or loses it.
LEMMA CallKeepsGroup ==
    ASSUME TxInv, CycleInv, OtherCall, NEW h \in Groups, h \in drawn
    PROVE  groups'[h] \in {groups[h], NoRow} /\ h \in drawn'
<1>1. ASSUME NEW d, NEW g \in Groups, DeleteGroup(d, g) PROVE groups'[h] \in {groups[h], NoRow}
  BY <1>1 DEF DeleteGroup, TxInv, TypeOK, TablesOK
<1>2. ASSUME NEW d, NEW g \in Groups \ drawn, NEW parent, InsertGroup(d, g, parent)
      PROVE  groups'[h] \in {groups[h], NoRow}
  BY <1>2 DEF InsertGroup, TxInv, TypeOK, TablesOK
<1>3. h \in drawn'
  BY DEF OtherCall
<1> QED BY <1>1, <1>2, <1>3, CallOnGroups

\* A set that is closed after the call holds one that was closed before it: the
\* call opens no new way up from a group that was there.
LEMMA CallOpensNoWay ==
    ASSUME TxInv, ReferencesLive, CycleInv, OtherCall, NEW g, NEW S \in SUBSET Groups,
           ClosedBut(S, g)', NEW x \in S, x \in drawn
    PROVE  \E T \in SUBSET S : x \in T /\ ClosedBut(T, g)
<1>1. CASE groups' = groups
  BY <1>1 DEF ClosedBut, ParentOf
<1>2. ASSUME NEW d \in Domains, NEW k \in Groups, DeleteGroup(d, k) PROVE ClosedBut(S, g)
  <2>1. ParentOf(k)' = NoParent /\ \A h \in Groups \ {k} : ParentOf(h)' = ParentOf(h)
    BY <1>2 DEF DeleteGroup, TxInv, TypeOK, TablesOK, ParentOf
  <2>2. k \notin S \ {g}
    BY <2>1, NullAssumption DEF ClosedBut
  <2> QED BY <2>1, <2>2 DEF ClosedBut
<1>3. ASSUME NEW d \in Domains, NEW k \in Groups \ drawn, NEW parent \in Groups \cup {NoParent},
             InsertGroup(d, k, parent)
      PROVE  x \in S \ {k} /\ ClosedBut(S \ {k}, g)
  <2>1. \A h \in Groups \ {k} : ParentOf(h)' = ParentOf(h) /\ ParentOf(h) # k
    BY <1>3, NullAssumption DEF InsertGroup, TxInv, TypeOK, TablesOK, ReferencesLive, ParentOf, GroupRow
  <2> QED BY <2>1 DEF ClosedBut
<1> QED BY <1>1, <1>2, <1>3, CallOnGroups

\* A call in the middle of the walk leaves what the transaction knows true.
LEMMA CallSound ==
    ASSUME TxInv, ReferencesLive, CycleInv, OtherCall, NEW t \in Transaction, Sound(t)
    PROVE  Sound(t)'
<1>1. \A h \in drawn \cap Groups : groups'[h] \in {groups[h], NoRow} /\ h \in drawn'
  BY CallKeepsGroup
<1>2. ASSUME NEW R, SoundTable(R) PROVE SoundTable(R)'
  BY <1>1, <1>2 DEF SoundTable, ParentIn
<1>3. ASSUME t.parent \in drawn, Reaches(t) PROVE Reaches(t)'
  <2> SUFFICES ASSUME NEW S \in SUBSET Groups, t.parent \in S, ClosedBut(S, t.group)'
               PROVE  t.walk \in S
    BY DEF Reaches
  <2>1. PICK T \in SUBSET S : t.parent \in T /\ ClosedBut(T, t.group)
    BY <1>3, CallOpensNoWay
  <2> QED BY <1>3, <2>1 DEF Reaches
<1>4. ASSUME t.parent \in drawn, Escapes(t.parent, t.group) PROVE Escapes(t.parent, t.group)'
  <2> SUFFICES ASSUME NEW S \in SUBSET Groups, t.parent \in S, ClosedBut(S, t.group)'
               PROVE  FALSE
    BY DEF Escapes, ClosedBut
  <2>1. PICK T \in SUBSET S : t.parent \in T /\ ClosedBut(T, t.group)
    BY <1>4, CallOpensNoWay
  <2> QED BY <1>4, <2>1 DEF Escapes, ClosedBut
<1>5. ASSUME NEW C \in SUBSET Groups, Trail(C, t) PROVE Trail(C, t)'
  <2>1. \A h \in C : TableOf(t)'[h] \in {TableOf(t)[h], NoRow}
    BY <1>1, <1>5 DEF Trail, TableOf
  <2>2. \A h \in C \ {t.walk} : TableOf(t)'[h] # NoRow => TableOf(t)'[h].parent \in C
    BY <1>5, <2>1 DEF Trail
  <2>3. C \subseteq Groups \cap drawn'
    BY <1>1, <1>5 DEF Trail
  <2> QED BY <1>5, <2>2, <2>3 DEF Trail
<1>6. drawn \subseteq drawn'
  BY DEF OtherCall
<1> QED BY <1>2, <1>3, <1>4, <1>5, <1>6 DEF Sound

LEMMA CallKeepsCycleInv ==
    ASSUME TxInv, ReferencesLive, CycleInv, OtherCall
    PROVE  CycleInv'
<1>1. tx' = tx /\ overlapped' = overlapped
  BY DEF OtherCall
<1>2. \A g \in Groups : groups'[g] # NoRow => g \in drawn'
  BY DEF OtherCall
<1>3. ASSUME Acyclic PROVE Acyclic'
  <2>1. CASE groups' = groups
    BY <1>3, <2>1 DEF Acyclic, ParentOf
  <2> QED BY <1>3, <2>1, CallOnGroups, AcyclicInsert, AcyclicDelete DEF TxInv, TypeOK
<1>4. ASSUME NEW c \in Conns, Running(c), Sound(tx[c]) PROVE Sound(tx[c])'
  <2>1. PICK t : t = tx[c]
    OBVIOUS
  <2>2. t \in Transaction /\ Sound(t)
    BY <1>4, <2>1 DEF TxInv, Shape
  <2>3. Sound(t)'
    BY <2>2, CallSound
  <2> QED BY <1>1, <2>1, <2>3
<1> QED BY <1>1, <1>2, <1>3, <1>4 DEF CycleInv, Reparents, Running

\* The UPDATE gives the group a parent whose chain does not come back to it,
\* and ends the only reparenting transaction.
LEMMA UpdateKeepsCycleInv ==
    ASSUME TxInv, ReferencesLive, CycleInv, NEW c \in Conns, Update(c)
    PROVE  CycleInv'
<1>1. Running(c) /\ tx[c].pc = "update" /\ UNCHANGED <<drawn, overlapped>>
  BY DEF Update
<1>2. tx'[c] = Idle /\ \A e \in Conns \ {c} : tx'[e] = tx[e]
  BY DEF Update, End, TxInv, TypeOK
<1>3. CASE UNCHANGED tables
  <2>1. Become(c, Idle)
    BY DEF Update, End, Become
  <2> QED BY <1>1, <1>3, <2>1, BecomeSound
<1>4. CASE UpdateGroupParent(tx[c].domain, tx[c].group, tx[c].parent)
  <2>1. PICK d \in Domains, g \in Groups, parent \in Groups \cup {NoParent} :
          d = tx[c].domain /\ g = tx[c].group /\ parent = tx[c].parent
    BY UpdateColumns
  <2>2. UpdateGroupParent(d, g, parent)
    BY <1>4, <2>1
  <2>3. \A h \in Groups : groups'[h] # NoRow => groups[h] # NoRow
    BY <2>2 DEF UpdateGroupParent, GroupIn, TxInv, TypeOK, TablesOK
  <2>4. ASSUME ~ overlapped
        PROVE  Acyclic' /\ \A e \in Conns : ~ Reparents(e)' /\ (Running(e)' => Sound(tx[e])')
    <3>0. Reparents(c)
      BY <1>1 DEF TxInv, Shape, Reparents
    <3>1. Acyclic /\ Sound(tx[c]) /\ \A e \in Conns \ {c} : ~ Reparents(e)
      BY <1>1, <2>4, <3>0 DEF CycleInv
    <3>2. parent = NoParent \/ Escapes(parent, g)
      BY <1>1, <2>1, <3>0, <3>1 DEF Sound, Reparents
    <3>3. Acyclic'
      BY <2>2, <3>1, <3>2, AcyclicReparent DEF TxInv, TypeOK
    <3>4. \A e \in Conns : ~ Reparents(e)'
      BY <1>2, <3>1 DEF Reparents, Running
    <3>5. \A e \in Conns : Running(e)' => Sound(tx[e])'
      BY <3>4 DEF Reparents, Sound
    <3> QED BY <3>3, <3>4, <3>5
  <2> QED BY <1>1, <2>3, <2>4 DEF CycleInv
<1> QED BY <1>3, <1>4, UpdateColumns

LEMMA CycleStep ==
    ASSUME TxInv, ReferencesLive, CycleInv, [Next]_vars
    PROVE  CycleInv'
<1>1. ASSUME NEW c \in Conns, PatchGet(c) \/ UpdateTitle(c) \/ GetGroup(c)
                                \/ GetParent(c) \/ WalkStep(c)
      PROVE  CycleInv'
  <2>1. UNCHANGED <<tables, drawn, overlapped>> /\ Running(c)
    BY <1>1 DEF PatchGet, UpdateTitle, GetGroup, GetParent, WalkStep
  <2>2. PICK t : Become(c, t) /\ (Quiet => t = Idle \/ (Sound(t) /\ t.parent = tx[c].parent))
    <3>1. CASE Quiet
      BY <1>1, <3>1, ReadSound, TitleSound DEF Quiet
    <3>2. CASE ~ Quiet
      BY <1>1, <3>2, ReadShape
    <3> QED BY <3>1, <3>2
  <2>3. ~ overlapped =>
          Quiet /\ (tx[c].parent # NoChange => \A e \in Conns \ {c} : ~ Reparents(e))
    BY <2>1 DEF Quiet, CycleInv, Reparents
  <2> QED BY <2>1, <2>2, <2>3, BecomeSound
<1>2. ASSUME NEW c \in Conns, DeadlockVictim(c) \/ Cancel(c) PROVE CycleInv'
  <2>1. Become(c, Idle) /\ UNCHANGED <<tables, drawn, overlapped>>
    BY <1>2 DEF DeadlockVictim, Cancel, End, Become
  <2> QED BY <2>1, BecomeSound
<1>3. CASE UNCHANGED vars
  <2>1. UNCHANGED <<groups, drawn, tx, overlapped>>
    BY <1>3 DEF vars, tables, entities
  <2>2. ASSUME NEW t, Sound(t) PROVE Sound(t)'
    BY <2>1, <2>2 DEF Sound, SoundTable, Reaches, ClosedBut, ParentOf, Trail, TableOf, Escapes
  <2>3. Acyclic => Acyclic'
    BY <2>1 DEF Acyclic, ParentOf
  <2>4. ASSUME NEW c \in Conns, Sound(tx[c]) PROVE Sound(tx[c])'
    <3>1. PICK t : t = tx[c]
      OBVIOUS
    <3> QED BY <2>1, <2>2, <2>4, <3>1
  <2> QED BY <2>1, <2>3, <2>4 DEF CycleInv, Reparents, Running
<1> QED BY <1>1, <1>2, <1>3, StartSound, UpdateKeepsCycleInv, CallKeepsCycleInv DEF Next, Proceed

LEMMA CycleInvariant == Spec => []CycleInv
<1>1. Init => CycleInv
  BY NullAssumption DEF Init, EmptyTables, CycleInv, Acyclic, ParentOf, Reparents, Running
<1> QED BY <1>1, CycleStep, TxInvariant, GroupsImplementTables, SchemaIntegrity, PTL DEF Spec

\* As long as no two reparenting transactions have run at the same time, the
\* parents form no cycle: in both stores, for any number of groups up to the
\* step limit of the walk, and whatever calls patch titles and create and
\* delete groups between its statements.
THEOREM CyclesNeedOverlap == Spec => []CycleNeedsOverlap
BY CycleInvariant, PTL DEF CycleInv, CycleNeedsOverlap

=============================================================================
