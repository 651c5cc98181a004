-------------------------- MODULE AccessTypePatches --------------------------
(***************************************************************************)
(* AccessTypePatch of the Postgres and MySQL stores: the SELECT and the    *)
(* UPDATE, which writes both columns, of one transaction, with the calls   *)
(* of AccessTypes by other clients in between.  The SELECT takes no lock,  *)
(* so the row may have changed when the UPDATE is run.                     *)
(***************************************************************************)
EXTENDS AccessTypes

CONSTANT Patchers       \* connections that run such a transaction

VARIABLE patch          \* connection -> its transaction, or Idle

patchVars == <<access_types, req, patch>>

\* row is what the SELECT read, and NoRow before it; raced says that somebody
\* has changed the row since.
Patch ==
    [id : Ids, title : Titles \cup {NoChange}, bit : SentBits \cup {NoChange},
     row : AccessType \cup {NoRow}, raced : BOOLEAN]

\* Any single bit may be sent, as the v2 create may allocate any.
ASSUME PatchAssumption == Idle \notin Patch /\ \A b \in Bits : {b} \in SentBits

----------------------------------------------------------------------------

Patching(w) == patch[w] # Idle
HasRead(w) == Patching(w) /\ patch[w].row # NoRow

\* Transactions that have read a row which this step changes.
Raced ==
    [w \in Patchers |->
        IF HasRead(w) /\ access_types'[patch[w].id] # access_types[patch[w].id]
        THEN [patch[w] EXCEPT !.raced = TRUE] ELSE patch[w]]

BeginPatch(w, i, title, bit) ==
    /\ ~ Patching(w)
    /\ title # NoChange \/ bit # NoChange
    /\ patch' = [patch EXCEPT ![w] = [id |-> i, title |-> title, bit |-> bit,
                                      row |-> NoRow, raced |-> FALSE]]
    /\ UNCHANGED <<access_types, req>>

\* SELECT title, bit; ErrNotFound if there is no row.
SelectRow(w) ==
    LET row == access_types[patch[w].id] IN
    /\ Patching(w) /\ ~ HasRead(w)
    /\ \/ row = NoRow /\ patch' = [patch EXCEPT ![w] = Idle]
       \/ row # NoRow /\ patch' = [patch EXCEPT ![w].row = row]
    /\ UNCHANGED <<access_types, req>>

NewRow_NilIsZero(w) ==
    [title |-> IF patch[w].title = NoChange THEN patch[w].row.title ELSE patch[w].title,
     bit |-> IF patch[w].bit = NoChange THEN {} ELSE patch[w].bit]
NewRow(w) ==
    [title |-> IF patch[w].title = NoChange THEN patch[w].row.title ELSE patch[w].title,
     bit |-> IF patch[w].bit = NoChange THEN patch[w].row.bit ELSE patch[w].bit]

Others(i) == { access_types[j] : j \in { k \in Ids \ {i} : access_types[k] # NoRow } }

\* UPDATE of both columns, and Commit.
UpdateRow_NoConstraint(w) ==
    LET i == patch[w].id IN
    /\ HasRead(w) /\ access_types[i] # NoRow
    /\ access_types' = [access_types EXCEPT ![i] = NewRow(w)]
    /\ req' = CountRival({})
    /\ patch' = [Raced EXCEPT ![w] = Idle]
UpdateRow(w) ==
    LET i == patch[w].id
        new == NewRow(w)
    IN
    /\ HasRead(w) /\ access_types[i] # NoRow
    /\ \A t \in Others(i) : t.title # new.title /\ t.bit # new.bit
    /\ access_types' = [access_types EXCEPT ![i] = new]
    /\ req' = CountRival({})
    /\ patch' = [Raced EXCEPT ![w] = Idle]

\* ErrConflict, an UPDATE of no row, or a cancelled context.
EndPatch(w) ==
    /\ Patching(w)
    /\ patch' = [patch EXCEPT ![w] = Idle]
    /\ UNCHANGED <<access_types, req>>

PatchInit == Init /\ patch = [w \in Patchers |-> Idle]

PatchNext ==
    \/ Next /\ patch' = Raced
    \/ \E w \in Patchers :
          \/ \E i \in Ids, title \in Titles \cup {NoChange}, bit \in SentBits \cup {NoChange} :
                BeginPatch(w, i, title, bit)
          \/ SelectRow(w) \/ UpdateRow(w) \/ EndPatch(w)

PatchSpec == PatchInit /\ [][PatchNext]_patchVars

----------------------------------------------------------------------------
(* Properties.  *)

PatchTypeOK ==
    /\ TypeOK
    /\ patch \in [Patchers -> {Idle} \cup Patch]

\* A patch takes back what another client wrote into a column it does not name
\* only if that client changed the same row between the SELECT and the UPDATE:
\* no other interleaving, and no other row, can be hit.
RevertsOnlyWhenRaced ==
    [][\A w \in Patchers : \A i \in Ids :
         LET old == access_types[i]
             new == access_types'[i]
         IN
         HasRead(w) /\ ~ Patching(w)' /\ old # NoRow /\ new # NoRow /\ old # new =>
            \/ patch[w].raced
            \/ /\ i = patch[w].id
               /\ patch[w].title = NoChange => new.title = old.title
               /\ patch[w].bit = NoChange => new.bit = old.bit]_patchVars

\* The two statements of a pooled patch are as good as the one call of
\* AccessTypes: whatever happened in between, the UPDATE is an AccessTypePatch
\* of both columns that the constraints have accepted.
PooledPatchIsPatch == Init /\ [][Next]_vars

=============================================================================
