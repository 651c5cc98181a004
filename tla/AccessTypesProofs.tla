-------------------------- MODULE AccessTypesProofs --------------------------
(***************************************************************************)
(* Proofs about AccessTypes and the two modules that extend it, for every  *)
(* number of bits, titles, ids, clients, retries and permissions: the calls *)
(* on the table, the patch of the pooled stores, and the v2 calls that speak *)
(* titles.                                                                 *)
(***************************************************************************)
EXTENDS AccessTypePatches, TitlePermissions, FiniteSetTheorems, TLAPS

\* The two UNIQUE constraints, as a fact about pairs of ids.
RowsUnique ==
    \A i, j \in Ids :
        i # j /\ access_types[i] # NoRow /\ access_types[j] # NoRow
           => /\ access_types[i].title # access_types[j].title
              /\ access_types[i].bit # access_types[j].bit

\* Every type has exactly one bit, if clients send nothing else.
RowsSingle ==
    SingleBitsSent => \A i \in Ids : access_types[i] # NoRow => IsPowerOfTwo(access_types[i].bit)

\* A request that is about to allocate again has an attempt left.
Sound == { r \in Request : r.pc = "reload" => r.attempt # MaxRetries }
RequestsSound == req \in [Clients -> {Idle} \cup Sound]

\* The inductive invariant.
TypesInv == TypeOK /\ RowsUnique /\ RowsSingle /\ RequestsSound

----------------------------------------------------------------------------

\* A row in the table is a record of the schema.
LEMMA RowType ==
    ASSUME TypeOK, NEW i \in Ids, access_types[i] # NoRow
    PROVE  /\ access_types[i] \in AccessType
           /\ access_types[i].title \in Titles
           /\ access_types[i].bit \in SUBSET Bits
<1>1. access_types[i] \in AccessType
  BY DEF TypeOK
<1> QED BY <1>1 DEF AccessType

\* One insert, whoever makes it, keeps the table as the invariant says.
LEMMA InsertKeeps ==
    ASSUME TypesInv, NEW title \in Titles, NEW bit \in SUBSET Bits,
           SingleBitsSent => IsPowerOfTwo(bit),
           AccessTypeCreate(title, bit)
    PROVE  /\ access_types' \in [Ids -> {NoRow} \cup AccessType]
           /\ RowsUnique' /\ RowsSingle'
<1> DEFINE new == [title |-> title, bit |-> bit]
<1>1. PICK i \in Ids : /\ access_types[i] = NoRow
                       /\ access_types' = [access_types EXCEPT ![i] = new]
  BY DEF AccessTypeCreate
<1>2. new \in AccessType /\ new.title = title /\ new.bit = bit
  BY DEF AccessType
<1>3. \A j \in Ids : access_types[j] # NoRow => access_types[j].title # title /\ access_types[j].bit # bit
  BY DEF AccessTypeCreate, TitleTaken, BitTaken, Rows
<1> HIDE DEF new
<1>4. access_types' \in [Ids -> {NoRow} \cup AccessType]
  BY <1>1, <1>2 DEF TypesInv, TypeOK
<1>5. \A j \in Ids : access_types'[j] = IF j = i THEN new ELSE access_types[j]
  BY <1>1 DEF TypesInv, TypeOK
<1>6. RowsUnique'
  BY <1>2, <1>3, <1>5 DEF TypesInv, RowsUnique
<1>7. RowsSingle'
  BY <1>2, <1>5 DEF TypesInv, RowsSingle, SingleBitsSent
<1> QED BY <1>4, <1>6, <1>7

\* Counting a rival keeps a request a request, with the attempts it has left.
LEMMA CountedType ==
    ASSUME NEW r \in Sound
    PROVE  Counted(r) \in Sound
<1>1. Counted(r) \in Request /\ Counted(r).pc = r.pc /\ Counted(r).attempt = r.attempt
  BY TypesAssumption DEF Counted, Sound, Request
<1> QED BY <1>1 DEF Sound

\* Counting rivals keeps the requests as the invariant says.
LEMMA RivalsCounted ==
    ASSUME RequestsSound, NEW own
    PROVE  CountRival(own) \in [Clients -> {Idle} \cup Sound]
BY CountedType DEF CountRival, RequestsSound

LEMMA InitEstablishes == Init => TypesInv
BY DEF Init, TypesInv, TypeOK, RowsUnique, RowsSingle, RequestsSound

\* A step that leaves the table alone and replaces one request.
LEMMA RequestStep ==
    ASSUME TypesInv, UNCHANGED access_types,
           NEW c \in Clients, NEW next \in {Idle} \cup Sound, Become(c, next)
    PROVE  TypesInv'
<1>1. RequestsSound' /\ req' \in [Clients -> {Idle} \cup Request]
  BY DEF TypesInv, TypeOK, RequestsSound, Sound, Become
<1>2. (RowsUnique /\ RowsSingle)'
  BY DEF TypesInv, RowsUnique, RowsSingle, SingleBitsSent, IsPowerOfTwo
<1> QED BY <1>1, <1>2 DEF TypesInv, TypeOK

LEMMA CreateStepKeeps ==
    ASSUME TypesInv, CreateStep
    PROVE  TypesInv'
<1> USE DEF TypesInv
<1>1. ASSUME NEW title \in Titles, NEW bit \in SentBits, accessTypeCreate(title, bit)
      PROVE  TypesInv'
  <2>1. bit \in SUBSET Bits /\ (SingleBitsSent => IsPowerOfTwo(bit))
    BY TypesAssumption DEF SingleBitsSent
  <2>2. /\ access_types' \in [Ids -> {NoRow} \cup AccessType]
        /\ RowsUnique' /\ RowsSingle'
    BY <1>1, <2>1, InsertKeeps DEF accessTypeCreate
  <2>3. req' \in [Clients -> {Idle} \cup Sound]
    BY <1>1, RivalsCounted DEF accessTypeCreate
  <2> QED BY <2>2, <2>3 DEF TypeOK, RequestsSound, Sound
<1>2. ASSUME NEW c \in Clients, Create(c)
      PROVE  TypesInv'
  <2>1. req[c] \in Request
    BY <1>2 DEF Create, Running, TypeOK
  <2>2. req[c].title \in Titles /\ {req[c].bit} \in SUBSET Bits /\ IsPowerOfTwo({req[c].bit})
    BY <2>1 DEF Request, IsPowerOfTwo
  <2>3. /\ access_types' \in [Ids -> {NoRow} \cup AccessType]
        /\ RowsUnique' /\ RowsSingle'
    BY <1>2, <2>2, InsertKeeps DEF Create
  <2>4. CountRival({c}) \in [Clients -> {Idle} \cup Sound]
    BY RivalsCounted
  <2>5. req' \in [Clients -> {Idle} \cup Sound]
    BY <1>2, <2>4 DEF Create
  <2> QED BY <2>3, <2>5 DEF TypeOK, RequestsSound, Sound
<1>3. ASSUME NEW c \in Clients, NEW title \in Titles, accessTypeCreateV2(c, title)
      PROVE  TypesInv'
  <2> DEFINE next == [title |-> title, pc |-> "load", bit |-> 0, attempt |-> 0,
                      reason |-> "none", rivals |-> 0]
  <2>1. next \in Sound
    BY TypesAssumption DEF Sound, Request, Bits
  <2> QED BY <1>3, <2>1, RequestStep DEF accessTypeCreateV2
<1>4. ASSUME NEW c \in Clients,
             Allocate(c) \/ Conflict(c) \/ Reallocate(c) \/ Answer(c) \/ Cancel(c)
      PROVE  TypesInv'
  <2>1. req[c] \in Request /\ (req[c].pc = "reload" => req[c].attempt # MaxRetries)
    BY <1>4 DEF Allocate, Conflict, Reallocate, Answer, Refused, Cancel, Running, RequestsSound, Sound
  <2>2. UNCHANGED access_types
    BY <1>4 DEF Allocate, Conflict, Reallocate, Answer, Cancel
  <2>3. PICK next \in {Idle} \cup Sound : Become(c, next)
    <3>1. CASE Allocate(c)
      <4>1. \A b \in Bits : [req[c] EXCEPT !.pc = "create", !.bit = b] \in Sound
        BY <2>1 DEF Sound, Request
      <4> QED BY <3>1, <4>1 DEF Allocate
    <3>2. CASE Conflict(c)
      <4> DEFINE pc == IF req[c].attempt = MaxRetries THEN "conflict" ELSE "reload"
                 reason == IF TitleTaken(req[c].title) THEN "title" ELSE "bit"
                 out == [req[c] EXCEPT !.pc = pc, !.reason = reason]
      <4>1. out \in Request /\ out.pc = pc /\ out.attempt = req[c].attempt
        BY <2>1 DEF Request
      <4>2. pc = "reload" => req[c].attempt # MaxRetries
        OBVIOUS
      <4> HIDE DEF pc, out
      <4>3. out \in Sound
        BY <4>1, <4>2 DEF Sound
      <4> USE DEF pc, out
      <4> QED BY <3>2, <4>3 DEF Conflict
    <3>3. CASE Reallocate(c)
      <4>1. [req[c] EXCEPT !.pc = "same_bit"] \in Sound
        BY <2>1 DEF Sound, Request
      <4>2. req[c].attempt + 1 \in 0..MaxRetries
        <5>1. req[c].attempt \in 0..MaxRetries
          BY <2>1 DEF Request
        <5>2. req[c].attempt # MaxRetries
          BY <2>1, <3>3 DEF Reallocate
        <5> QED BY <5>1, <5>2, TypesAssumption
      <4>3. ASSUME NEW b \in Bits
            PROVE  [req[c] EXCEPT !.pc = "create", !.bit = b, !.attempt = req[c].attempt + 1] \in Sound
        BY <2>1, <4>2 DEF Sound, Request
      <4> QED BY <3>3, <4>1, <4>3 DEF Reallocate
    <3>4. CASE Answer(c) \/ Cancel(c)
      BY <3>4 DEF Answer, Cancel
    <3> QED BY <1>4, <3>1, <3>2, <3>3, <3>4
  <2> QED BY <2>2, <2>3, RequestStep
<1> QED BY <1>1, <1>2, <1>3, <1>4 DEF CreateStep, accessTypeCreateV2Explicit

\* A patch writes a row that differs from every other row in title and bit.
LEMMA PatchKeeps ==
    ASSUME TypesInv, NEW i \in Ids, NEW title \in Titles \cup {NoChange},
           NEW bit \in SentBits \cup {NoChange}, AccessTypePatch(i, title, bit)
    PROVE  TypesInv'
<1> DEFINE old == access_types[i]
           newTitle == IF title = NoChange THEN old.title ELSE title
           newBit == IF bit = NoChange THEN old.bit ELSE bit
           new == [title |-> newTitle, bit |-> newBit]
<1>1. access_types[i] # NoRow /\ access_types' = [access_types EXCEPT ![i] = new] /\ req' = CountRival({})
  BY DEF AccessTypePatch
<1>2. newTitle \in Titles /\ newBit \in SUBSET Bits
  BY <1>1, RowType, TypesAssumption DEF TypesInv
<1>3. SingleBitsSent => IsPowerOfTwo(newBit)
  BY <1>1 DEF TypesInv, RowsSingle, SingleBitsSent
<1>4. \A j \in Ids \ {i} : access_types[j] # NoRow =>
         access_types[j].title # newTitle /\ access_types[j].bit # newBit
  BY DEF AccessTypePatch
<1> HIDE DEF newTitle, newBit
<1>5. new \in AccessType /\ new.title = newTitle /\ new.bit = newBit
  BY <1>2 DEF AccessType
<1> HIDE DEF new
<1>6. access_types' \in [Ids -> {NoRow} \cup AccessType]
  BY <1>1, <1>5 DEF TypesInv, TypeOK
<1>7. \A j \in Ids : access_types'[j] = IF j = i THEN new ELSE access_types[j]
  BY <1>1 DEF TypesInv, TypeOK
<1>8. RowsUnique'
  BY <1>4, <1>5, <1>7 DEF TypesInv, RowsUnique
<1>9. RowsSingle'
  BY <1>3, <1>5, <1>7 DEF TypesInv, RowsSingle, SingleBitsSent
<1>10. req' \in [Clients -> {Idle} \cup Sound]
  BY <1>1, RivalsCounted DEF TypesInv
<1> QED BY <1>6, <1>8, <1>9, <1>10 DEF TypesInv, TypeOK, RequestsSound, Sound

LEMMA DeleteKeeps ==
    ASSUME TypesInv, NEW i \in Ids, AccessTypeDelete(i)
    PROVE  TypesInv'
<1>1. access_types' = [access_types EXCEPT ![i] = NoRow] /\ req' = CountRival({})
  BY DEF AccessTypeDelete
<1>2. access_types' \in [Ids -> {NoRow} \cup AccessType]
  BY <1>1 DEF TypesInv, TypeOK
<1>3. \A j \in Ids : access_types'[j] = IF j = i THEN NoRow ELSE access_types[j]
  BY <1>1 DEF TypesInv, TypeOK
<1>4. RowsUnique'
  BY <1>3 DEF TypesInv, RowsUnique
<1>5. RowsSingle'
  BY <1>3 DEF TypesInv, RowsSingle, SingleBitsSent
<1>6. req' \in [Clients -> {Idle} \cup Sound]
  BY <1>1, RivalsCounted DEF TypesInv
<1> QED BY <1>2, <1>4, <1>5, <1>6 DEF TypesInv, TypeOK, RequestsSound, Sound

LEMMA NextKeeps ==
    ASSUME TypesInv, [Next]_vars
    PROVE  TypesInv'
<1>1. CASE Next
  BY <1>1, CreateStepKeeps, PatchKeeps, DeleteKeeps DEF Next
<1>2. CASE UNCHANGED vars
  BY <1>2 DEF vars, TypesInv, TypeOK, RowsUnique, RowsSingle, SingleBitsSent, IsPowerOfTwo, RequestsSound
<1> QED BY <1>1, <1>2

\* The table and the requests are as the invariant says in every reachable state.
THEOREM TypesInvariant == Spec => []TypesInv
<1>1. TypesInv /\ [Next]_vars => TypesInv'
  BY NextKeeps
<1> QED BY <1>1, InitEstablishes, PTL DEF Spec

----------------------------------------------------------------------------

\* Two types with one bit each, and not the same, share none.
LEMMA InvImpliesOneBit == TypesInv => OneBitPerTitle
<1> SUFFICES ASSUME TypesInv, SingleBitsSent, NEW i \in Ids, NEW j \in Ids,
                    i # j, access_types[i] # NoRow, access_types[j] # NoRow
             PROVE  access_types[i].bit \cap access_types[j].bit = {}
  BY DEF OneBitPerTitle
<1>1. PICK a \in Bits : access_types[i].bit = {a}
  BY DEF TypesInv, RowsSingle, IsPowerOfTwo
<1>2. PICK b \in Bits : access_types[j].bit = {b}
  BY DEF TypesInv, RowsSingle, IsPowerOfTwo
<1>3. access_types[i].bit # access_types[j].bit
  BY DEF TypesInv, RowsUnique
<1> QED BY <1>1, <1>2, <1>3

\* accessTypeCreateV2 and the v1 calls never let two access types of a domain
\* share a bit, as long as clients send single bits.
THEOREM BitsDisjoint == Spec => []OneBitPerTitle
BY TypesInvariant, InvImpliesOneBit, PTL

\* What loadDomainAccessTypes returns: rows of one bit, no two with the same
\* title or the same bit.
LEMMA LoadedRows ==
    ASSUME TypesInv, SingleBitsSent
    PROVE  /\ \A t \in loadDomainAccessTypes : IsPowerOfTwo(t.bit)
           /\ \A s, t \in loadDomainAccessTypes : s.title = t.title \/ s.bit = t.bit => s = t
<1>1. \A t \in loadDomainAccessTypes : \E i \in Ids : access_types[i] # NoRow /\ t = access_types[i]
  BY DEF loadDomainAccessTypes, Rows
<1>2. \A t \in loadDomainAccessTypes : IsPowerOfTwo(t.bit)
  BY <1>1 DEF TypesInv, RowsSingle
<1>3. \A s, t \in loadDomainAccessTypes : s.title = t.title \/ s.bit = t.bit => s = t
  BY <1>1 DEF TypesInv, RowsUnique
<1> QED BY <1>2, <1>3

\* Titles survive the way to a mask and back.
LEMMA TitlesSurvive ==
    ASSUME NEW rows, \A t \in rows : IsPowerOfTwo(t.bit),
           \A s, t \in rows : s.title = t.title \/ s.bit = t.bit => s = t,
           NEW T \in SUBSET KnownTitles(rows)
    PROVE  MaskToTitles(TitlesToMask(T, rows), rows) = [titles |-> T, sentinels |-> {}]
<1> DEFINE mask == TitlesToMask(T, rows)
           listed == { t \in rows : t.bit \cap mask # {} }
<1>1. \A t \in rows : t.title \in T => t \in listed
  BY DEF TitlesToMask, IsPowerOfTwo
<1>2. ASSUME NEW t \in listed
      PROVE  t.title \in T
  <2>1. PICK b : b \in t.bit /\ b \in mask
    OBVIOUS
  <2>2. PICK s \in rows : s.title \in T /\ b \in s.bit
    BY <2>1 DEF TitlesToMask
  <2>3. t.bit = {b} /\ s.bit = {b}
    BY <2>1, <2>2 DEF IsPowerOfTwo
  <2> QED BY <2>2, <2>3
<1>3. { t.title : t \in listed } = T
  BY <1>1, <1>2 DEF KnownTitles
<1>4. mask \ UNION { t.bit : t \in listed } = {}
  BY <1>1 DEF TitlesToMask
<1> QED BY <1>3, <1>4 DEF MaskToTitles

\* A mask survives the way to titles and back.
LEMMA MaskSurvives ==
    ASSUME NEW rows, \A t \in rows : IsPowerOfTwo(t.bit),
           \A s, t \in rows : s.title = t.title \/ s.bit = t.bit => s = t,
           NEW m \in SUBSET Bits
    PROVE  LET out == MaskToTitles(m, rows)
           IN TitlesToMask(out.titles, rows) \cup out.sentinels = m
<1> DEFINE listed == { t \in rows : t.bit \cap m # {} }
           bits == UNION { t.bit : t \in listed }
           names == { t.title : t \in listed }
<1>1. MaskToTitles(m, rows) = [titles |-> names, sentinels |-> m \ bits]
  BY DEF MaskToTitles
<1>2. { t \in rows : t.title \in names } = listed
  OBVIOUS
<1>3. TitlesToMask(names, rows) = bits
  BY <1>2 DEF TitlesToMask
<1>4. bits \subseteq m
  BY DEF IsPowerOfTwo
<1> QED BY <1>1, <1>3, <1>4

\* MaskToTitles and TitlesToMask lose nothing on the types any request of a
\* domain with single-bit types can load.
THEOREM TitlesAreFaithful == Spec => []TitlesRoundTrip
<1>1. TypesInv => TitlesRoundTrip
  BY LoadedRows, TitlesSurvive, MaskSurvives DEF TitlesRoundTrip
<1> QED BY <1>1, TypesInvariant, PTL

----------------------------------------------------------------------------
(* The page of types and the retries of a create.  *)

\* Types of one bit each, no two of the same bit: there are no more of them
\* than bits, so the page that loadDomainAccessTypes reads holds them all.
LEMMA LoadsAll ==
    ASSUME TypesInv, SingleBitsSent
    PROVE  loadDomainAccessTypes = Rows
<1> SUFFICES ASSUME NEW t \in Rows
             PROVE  Cardinality({ s \in Rows : s.title < t.title }) < NumBits
  BY DEF loadDomainAccessTypes
<1>1. \A s \in Rows : \E i \in Ids : access_types[i] # NoRow /\ s = access_types[i]
  BY DEF Rows
<1>2. \A s \in Rows : s.title \in Nat /\ \E b \in Bits : s.bit = {b}
  <2> SUFFICES ASSUME NEW i \in Ids, access_types[i] # NoRow
               PROVE  access_types[i].title \in Nat /\ \E b \in Bits : access_types[i].bit = {b}
    BY <1>1
  <2>1. access_types[i].title \in Nat
    BY RowType, TypesAssumption DEF TypesInv
  <2>2. \E b \in Bits : access_types[i].bit = {b}
    BY DEF TypesInv, RowsSingle, IsPowerOfTwo
  <2> QED BY <2>1, <2>2
<1>3. \A r, s \in Rows : r.bit = s.bit => r = s
  BY <1>1 DEF TypesInv, RowsUnique
<1> DEFINE B == { s \in Rows : s.title < t.title }
           f == [s \in B |-> CHOOSE b \in Bits : s.bit = {b}]
<1>4. \A s \in B : f[s] \in Bits /\ s.bit = {f[s]}
  BY <1>2
<1>5. PICK top \in Bits : t.bit = {top}
  BY <1>2
<1>6. t \notin B
  BY <1>2
<1>7. \A s \in B : f[s] # top
  BY <1>3, <1>4, <1>5, <1>6
<1>8. f \in Injection(B, Bits \ {top})
  <2>1. f \in [B -> Bits \ {top}]
    BY <1>4, <1>7
  <2> HIDE DEF f
  <2>2. \A r, s \in B : f[r] = f[s] => r = s
    <3> SUFFICES ASSUME NEW r \in B, NEW s \in B, f[r] = f[s] PROVE r = s
      OBVIOUS
    <3>1. r.bit = s.bit
      BY <1>4
    <3> QED BY <1>3, <3>1
  <2> HIDE DEF B
  <2> QED BY <2>1, <2>2 DEF Injection, IsInjective
<1>9. /\ IsFiniteSet(Bits \ {top})
      /\ Cardinality(Bits \ {top}) = NumBits - 1
  <2>1. IsFiniteSet(Bits) /\ Cardinality(Bits) = NumBits
    BY FS_Interval, TypesAssumption DEF Bits
  <2> QED BY <2>1, FS_RemoveElement
<1>10. IsFiniteSet(B) /\ Cardinality(B) <= NumBits - 1
  <2> HIDE DEF f, B
  <2> QED BY <1>8, <1>9, FS_Injection
<1>11. Cardinality(B) \in Nat
  <2> HIDE DEF B
  <2> QED BY <1>10, FS_CardinalityType
<1> QED BY <1>10, <1>11, TypesAssumption

\* loadDomainAccessTypes returns every type of a domain whose clients send
\* single bits.
THEOREM LoadsAreComplete == Spec => []LoadIsComplete
<1>1. TypesInv => LoadIsComplete
  BY LoadsAll DEF LoadIsComplete
<1> QED BY <1>1, TypesInvariant, PTL

\* What the rivals of a request have done, by how far it is.  A bit that was
\* drawn is the next one until somebody changes the table, and every attempt
\* after the first stands for such a change; a bit found taken was taken by
\* another change, and one found free again was given back by a third.
Contended(r, types) ==
    /\ r.pc = "load" => r.attempt = 0
    /\ r.pc \in {"create", "reload"} =>
          /\ r.rivals >= r.attempt
          /\ r.rivals = r.attempt => IsNextBit(r.bit, types)
    /\ r.pc = "reload" /\ r.reason = "bit" =>
          /\ r.rivals >= r.attempt + 1
          /\ r.rivals = r.attempt + 1 => r.bit \in UsedBits(types)
    /\ r.pc = "same_bit" /\ r.reason = "bit" => r.rivals >= 2
    /\ r.pc = "conflict" /\ r.reason = "bit" => r.rivals >= MaxRetries + 1

RivalsInv ==
    SingleBitsSent => \A c \in Clients : req[c] # Idle => Contended(req[c], loadDomainAccessTypes)

\* A change of the table by somebody else is counted, so the table as it was
\* when the request looked no longer matters.
LEMMA CountedContended ==
    ASSUME NEW r \in Sound, NEW old, NEW new, Contended(r, old)
    PROVE  Contended(Counted(r), new)
<1> DEFINE n == IF r.rivals > MaxRetries THEN r.rivals ELSE r.rivals + 1
           s == [r EXCEPT !.rivals = n]
<1>1. /\ r.rivals \in 0..(MaxRetries + 1) /\ r.attempt \in 0..MaxRetries /\ MaxRetries \in Nat
      /\ r.pc = "reload" => r.attempt # MaxRetries
  BY TypesAssumption DEF Sound, Request
<1>2. /\ s.pc = r.pc /\ s.attempt = r.attempt /\ s.reason = r.reason /\ s.bit = r.bit
      /\ s.rivals = n
  BY DEF Sound, Request
<1>3. n >= r.rivals /\ n \in 0..(MaxRetries + 1) /\ (n = r.rivals + 1 \/ n = MaxRetries + 1)
  BY <1>1
<1>4. Counted(r) = s
  BY DEF Counted
<1> HIDE DEF n, s
<1> QED BY <1>1, <1>2, <1>3, <1>4 DEF Contended

\* A change of the table counts as a rival's for every request but its own.
LEMMA ChangeContended ==
    ASSUME TypesInv, RivalsInv, NEW own,
           \A c \in Clients : req'[c] = Idle \/ (req'[c] = CountRival(own)[c] /\ c \notin own)
    PROVE  RivalsInv'
<1> SUFFICES ASSUME SingleBitsSent, NEW c \in Clients, req'[c] # Idle
             PROVE  Contended(req'[c], loadDomainAccessTypes')
  BY DEF RivalsInv, SingleBitsSent, Contended
<1>1. req[c] # Idle /\ req'[c] = Counted(req[c])
  BY DEF CountRival
<1>2. req[c] \in Sound /\ Contended(req[c], loadDomainAccessTypes)
  BY <1>1 DEF TypesInv, RequestsSound, RivalsInv
<1> QED BY <1>1, <1>2, CountedContended

\* Only one bit is the next.
LEMMA NextBitUnique ==
    ASSUME NEW types, NEW a \in Bits, NEW b \in Bits, IsNextBit(a, types), IsNextBit(b, types)
    PROVE  a = b
<1>1. a \in Int /\ b \in Int
  BY TypesAssumption DEF Bits
<1> QED BY <1>1 DEF IsNextBit

\* The steps of a create, one request at a time.
LEMMA CreateContended ==
    ASSUME TypesInv, RivalsInv, SingleBitsSent, NEW c \in Clients,
           NEW next, Become(c, next), UNCHANGED access_types,
           next # Idle => Contended(next, loadDomainAccessTypes)
    PROVE  RivalsInv'
<1>1. loadDomainAccessTypes' = loadDomainAccessTypes
  BY DEF loadDomainAccessTypes, Rows
<1>2. \A e \in Clients : req'[e] = IF e = c THEN next ELSE req[e]
  BY DEF Become, TypesInv, TypeOK
<1> QED BY <1>1, <1>2 DEF RivalsInv, SingleBitsSent

LEMMA AllocateContended ==
    ASSUME TypesInv, RivalsInv, SingleBitsSent, NEW c \in Clients,
           Allocate(c) \/ Conflict(c) \/ Reallocate(c)
    PROVE  RivalsInv'
<1> DEFINE r == req[c]
           types == loadDomainAccessTypes
<1>1. r \in Sound /\ r \in Request /\ Contended(r, types) /\ UNCHANGED access_types
  BY DEF Allocate, Conflict, Reallocate, Running, TypesInv, RequestsSound, RivalsInv, Sound
<1>2. /\ r.rivals \in 0..(MaxRetries + 1) /\ r.attempt \in 0..MaxRetries /\ MaxRetries \in Nat
      /\ r.bit \in Bits /\ (r.pc = "reload" => r.attempt # MaxRetries)
  BY <1>1, TypesAssumption DEF Sound, Request
<1>3. ASSUME NEW next, Become(c, next), next # Idle => Contended(next, types) PROVE RivalsInv'
  BY <1>1, <1>3, CreateContended
<1>4. CASE Allocate(c)
  <2>1. ASSUME NEW b \in Bits, IsNextBit(b, types)
        PROVE  Contended([r EXCEPT !.pc = "create", !.bit = b], types)
    <3> DEFINE s == [r EXCEPT !.pc = "create", !.bit = b]
    <3>1. s.pc = "create" /\ s.bit = b /\ s.attempt = r.attempt /\ s.rivals = r.rivals
      BY <1>1 DEF Request
    <3>2. r.attempt = 0
      BY <1>1, <1>4 DEF Allocate, Contended
    <3> HIDE DEF s, r, types
    <3>3. Contended(s, types)
      BY <1>2, <2>1, <3>1, <3>2 DEF Contended
    <3> QED BY <3>3 DEF s
  <2> QED BY <1>3, <1>4, <2>1 DEF Allocate
<1>5. CASE Conflict(c)
  <2> DEFINE pc == IF r.attempt = MaxRetries THEN "conflict" ELSE "reload"
             reason == IF TitleTaken(r.title) THEN "title" ELSE "bit"
             s == [r EXCEPT !.pc = pc, !.reason = reason]
  <2>1. /\ r.pc = "create" /\ Become(c, s)
        /\ reason = "bit" => BitTaken({r.bit})
    BY <1>5 DEF Conflict
  <2>2. s.pc = pc /\ s.reason = reason /\ s.bit = r.bit /\ s.attempt = r.attempt /\ s.rivals = r.rivals
    BY <1>1 DEF Request
  <2>3. BitTaken({r.bit}) => r.bit \in UsedBits(types)
    BY LoadsAll DEF BitTaken, UsedBits
  <2>4. r.rivals >= r.attempt /\ (r.rivals = r.attempt => IsNextBit(r.bit, types))
    BY <1>1, <2>1 DEF Contended
  <2>5. reason = "bit" => r.bit \in UsedBits(types) /\ r.rivals >= r.attempt + 1
    BY <1>2, <2>1, <2>3, <2>4 DEF IsNextBit
  <2>6. /\ pc \in {"conflict", "reload"} /\ (pc = "conflict" => r.attempt = MaxRetries)
    OBVIOUS
  <2> HIDE DEF s, pc, reason, r, types
  <2>7. Contended(s, types)
    BY <1>2, <2>2, <2>4, <2>5, <2>6 DEF Contended
  <2> QED BY <1>3, <2>1, <2>7
<1>6. CASE Reallocate(c)
  <2>1. /\ r.pc = "reload" /\ r.attempt # MaxRetries
        /\ r.rivals >= r.attempt /\ (r.rivals = r.attempt => IsNextBit(r.bit, types))
        /\ r.reason = "bit" => /\ r.rivals >= r.attempt + 1
                               /\ r.rivals = r.attempt + 1 => r.bit \in UsedBits(types)
    BY <1>1, <1>2, <1>6 DEF Reallocate, Contended
  <2>2. ASSUME IsNextBit(r.bit, types)
        PROVE  Contended([r EXCEPT !.pc = "same_bit"], types)
    <3> DEFINE s == [r EXCEPT !.pc = "same_bit"]
    <3>1. s.pc = "same_bit" /\ s.reason = r.reason /\ s.rivals = r.rivals
      BY <1>1 DEF Request
    <3>2. r.bit \notin UsedBits(types)
      BY <2>2 DEF IsNextBit
    <3> HIDE DEF s, r, types
    <3>3. Contended(s, types)
      BY <1>2, <2>1, <3>1, <3>2 DEF Contended
    <3> QED BY <3>3 DEF s
  <2>3. ASSUME NEW b \in Bits, IsNextBit(b, types), b # r.bit
        PROVE  Contended([r EXCEPT !.pc = "create", !.bit = b, !.attempt = r.attempt + 1], types)
    <3> DEFINE s == [r EXCEPT !.pc = "create", !.bit = b, !.attempt = r.attempt + 1]
    <3>1. s.pc = "create" /\ s.bit = b /\ s.attempt = r.attempt + 1 /\ s.rivals = r.rivals
      BY <1>1 DEF Request
    <3>2. r.rivals # r.attempt
      BY <1>2, <2>1, <2>3, NextBitUnique
    <3> HIDE DEF s, r, types
    <3>3. Contended(s, types)
      BY <1>2, <2>1, <2>3, <3>1, <3>2 DEF Contended
    <3> QED BY <3>3 DEF s
  <2> QED BY <1>3, <1>6, <2>2, <2>3 DEF Reallocate
<1> QED BY <1>4, <1>5, <1>6

LEMMA RivalsStep ==
    ASSUME TypesInv, RivalsInv, [Next]_vars
    PROVE  RivalsInv'
<1> SUFFICES ASSUME SingleBitsSent PROVE RivalsInv'
  BY DEF RivalsInv, SingleBitsSent
<1>1. ASSUME req' = CountRival({}) PROVE RivalsInv'
  BY <1>1, ChangeContended
<1>2. ASSUME NEW c \in Clients, Create(c) PROVE RivalsInv'
  <2> DEFINE counted == CountRival({c})
  <2>1. DOMAIN counted = Clients
    BY DEF CountRival
  <2>2. req' = [counted EXCEPT ![c] = Idle]
    BY <1>2 DEF Create
  <2>3. \A e \in Clients : req'[e] = Idle \/ (req'[e] = CountRival({c})[e] /\ e \notin {c})
    <3> HIDE DEF counted
    <3>1. \A e \in Clients : req'[e] = Idle \/ (req'[e] = counted[e] /\ e \notin {c})
      BY <2>1, <2>2
    <3> QED BY <3>1 DEF counted
  <2> QED BY <2>3, ChangeContended
<1>3. ASSUME NEW c \in Clients, NEW title \in Titles, accessTypeCreateV2(c, title) PROVE RivalsInv'
  <2> DEFINE s == [title |-> title, pc |-> "load", bit |-> 0, attempt |-> 0,
                   reason |-> "none", rivals |-> 0]
  <2>1. Contended(s, loadDomainAccessTypes)
    BY DEF Contended
  <2> QED BY <1>3, <2>1, CreateContended DEF accessTypeCreateV2
<1>4. ASSUME NEW c \in Clients, Answer(c) \/ Cancel(c) PROVE RivalsInv'
  BY <1>4, CreateContended DEF Answer, Cancel
<1>5. CASE CreateStep
  BY <1>1, <1>2, <1>3, <1>4, <1>5, AllocateContended
     DEF CreateStep, accessTypeCreate, accessTypeCreateV2Explicit
<1>6. CASE UNCHANGED vars
  BY <1>6 DEF vars, RivalsInv, loadDomainAccessTypes, Rows
<1> QED BY <1>1, <1>5, <1>6 DEF Next, AccessTypePatch, AccessTypeDelete

\* A create is refused over a bit only after more changes by others than it has
\* retries, or when its bit was taken and given back.
THEOREM RetriesAreEnough == Spec => []RetriesSuffice
<1>1. Init => RivalsInv
  BY DEF Init, RivalsInv
<1>2. TypesInv /\ RivalsInv /\ [Next]_vars => RivalsInv'
  BY RivalsStep
<1>3. TypesInv /\ RivalsInv => RetriesSuffice
  <2> SUFFICES ASSUME TypesInv, RivalsInv, SingleBitsSent, NEW c \in Clients,
                      Refused(c), req[c].reason = "bit"
               PROVE  req[c].rivals > IF req[c].pc = "same_bit" THEN 1 ELSE MaxRetries
    BY DEF RetriesSuffice
  <2>1. req[c].rivals \in 0..(MaxRetries + 1) /\ MaxRetries \in Nat
    BY TypesAssumption DEF Refused, Running, TypesInv, TypeOK, Request
  <2>2. Contended(req[c], loadDomainAccessTypes)
    BY DEF RivalsInv, Refused, Running
  <2> QED BY <2>1, <2>2 DEF Contended, Refused
<1> QED BY <1>1, <1>2, <1>3, TypesInvariant, PTL DEF Spec

----------------------------------------------------------------------------
(* AccessTypePatches: the patch of the pooled stores.  *)

\* Every bit value in the table, and every one a patch has read, was sent or
\* allocated.
RowsSent == \A i \in Ids : access_types[i] # NoRow => access_types[i].bit \in SentBits

ReadsSent(x) == x # Idle /\ x.row # NoRow => x.row \in AccessType /\ x.row.bit \in SentBits

PatchInv ==
    /\ TypesInv /\ RowsSent
    /\ patch \in [Patchers -> {Idle} \cup Patch]
    /\ \A w \in Patchers : ReadsSent(patch[w])

----------------------------------------------------------------------------

\* A step of AccessTypes leaves only bits that were sent.
LEMMA SentStep ==
    ASSUME TypesInv, RowsSent, [Next]_vars
    PROVE  RowsSent'
<1>0. access_types \in [Ids -> {NoRow} \cup AccessType]
  BY DEF TypesInv, TypeOK
<1>1. ASSUME NEW title, NEW bit \in SentBits, AccessTypeCreate(title, bit) PROVE RowsSent'
  BY <1>0, <1>1 DEF AccessTypeCreate, RowsSent
<1>2. ASSUME NEW c \in Clients, Create(c) PROVE RowsSent'
  <2>1. req[c] \in Request
    BY <1>2 DEF Create, Running, TypesInv, TypeOK
  <2>2. {req[c].bit} \in SentBits
    BY <2>1, PatchAssumption DEF Request
  <2> QED BY <1>1, <1>2, <2>2 DEF Create
<1>3. ASSUME UNCHANGED access_types PROVE RowsSent'
  BY <1>3 DEF RowsSent
<1>4. CASE CreateStep
  BY <1>1, <1>2, <1>3, <1>4 DEF CreateStep, accessTypeCreate, accessTypeCreateV2Explicit,
     accessTypeCreateV2, Allocate, Conflict, Reallocate, Answer, Cancel
<1>5. ASSUME NEW i \in Ids, NEW title \in Titles \cup {NoChange},
             NEW bit \in SentBits \cup {NoChange}, AccessTypePatch(i, title, bit)
      PROVE  RowsSent'
  <2> DEFINE newTitle == IF title = NoChange THEN access_types[i].title ELSE title
             newBit == IF bit = NoChange THEN access_types[i].bit ELSE bit
             new == [title |-> newTitle, bit |-> newBit]
  <2>1. access_types[i] # NoRow /\ access_types' = [access_types EXCEPT ![i] = new]
    BY <1>5 DEF AccessTypePatch
  <2>2. newBit \in SentBits
    BY <2>1 DEF RowsSent
  <2> HIDE DEF newTitle, newBit
  <2>3. new.bit \in SentBits
    BY <2>2
  <2> HIDE DEF new
  <2> QED BY <1>0, <2>1, <2>3 DEF RowsSent
<1>6. ASSUME NEW i \in Ids, AccessTypeDelete(i) PROVE RowsSent'
  BY <1>0, <1>6 DEF AccessTypeDelete, RowsSent
<1> QED BY <1>3, <1>4, <1>5, <1>6 DEF Next, vars

\* Marking a transaction as raced changes nothing that it has read.
LEMMA RacedKeeps ==
    ASSUME PatchInv
    PROVE  /\ Raced \in [Patchers -> {Idle} \cup Patch]
           /\ \A w \in Patchers : ReadsSent(Raced[w])
<1>1. ASSUME NEW w \in Patchers
      PROVE  Raced[w] \in {Idle} \cup Patch /\ ReadsSent(Raced[w])
  <2>1. patch[w] \in {Idle} \cup Patch /\ ReadsSent(patch[w])
    BY DEF PatchInv
  <2>2. CASE Raced[w] = patch[w]
    BY <2>1, <2>2
  <2>3. CASE HasRead(w) /\ Raced[w] = [patch[w] EXCEPT !.raced = TRUE]
    <3> DEFINE x == patch[w]
               y == [x EXCEPT !.raced = TRUE]
    <3>1. x \in Patch
      BY <2>1, <2>3 DEF HasRead, Patching
    <3> HIDE DEF x
    <3>2. y \in Patch /\ y.row = x.row
      BY <3>1 DEF Patch
    <3>3. x.row \in AccessType /\ x.row.bit \in SentBits
      BY <2>1, <2>3 DEF HasRead, Patching, ReadsSent, x
    <3> QED BY <2>3, <3>2, <3>3 DEF ReadsSent, x
  <2> QED BY <2>2, <2>3 DEF Raced
<1> QED BY <1>1 DEF Raced

\* The UPDATE of a pooled patch is a patch of both columns.
LEMMA UpdateIsPatch ==
    ASSUME PatchInv, NEW w \in Patchers, UpdateRow(w)
    PROVE  Next
<1> DEFINE x == patch[w]
           title == IF x.title = NoChange THEN x.row.title ELSE x.title
           bit == IF x.bit = NoChange THEN x.row.bit ELSE x.bit
<1>1. x \in Patch /\ x.row \in AccessType /\ x.row.bit \in SentBits
  BY DEF UpdateRow, HasRead, Patching, PatchInv, ReadsSent
<1>2. x.id \in Ids /\ x.title \in Titles \cup {NoChange} /\ x.bit \in SentBits \cup {NoChange}
  BY <1>1 DEF Patch
<1>3. x.row.title \in Titles
  BY <1>1 DEF AccessType
<1>4. title \in Titles /\ bit \in SentBits
  BY <1>1, <1>2, <1>3
<1>5. title # NoChange /\ bit # NoChange
  BY <1>4, TypesAssumption
<1>6. NewRow(w) = [title |-> title, bit |-> bit]
  BY DEF NewRow
<1>7. /\ access_types[x.id] # NoRow
      /\ \A t \in Others(x.id) : t.title # NewRow(w).title /\ t.bit # NewRow(w).bit
      /\ access_types' = [access_types EXCEPT ![x.id] = NewRow(w)] /\ req' = CountRival({})
  BY DEF UpdateRow
<1> HIDE DEF x, title, bit
<1>8. AccessTypePatch(x.id, title, bit)
  BY <1>5, <1>6, <1>7 DEF AccessTypePatch, Others
<1> QED BY <1>2, <1>4, <1>8 DEF Next

LEMMA PatchStep ==
    ASSUME PatchInv, [PatchNext]_patchVars
    PROVE  PatchInv' /\ [Next]_vars
<1>1. ASSUME [Next]_vars, patch' \in [Patchers -> {Idle} \cup Patch],
             \A w \in Patchers : ReadsSent(patch'[w])
      PROVE  PatchInv' /\ [Next]_vars
  BY <1>1, NextKeeps, SentStep DEF PatchInv, ReadsSent
<1>2. CASE Next /\ patch' = Raced
  BY <1>1, <1>2, RacedKeeps
<1>3. ASSUME NEW w \in Patchers, UpdateRow(w) PROVE PatchInv' /\ [Next]_vars
  <2>1. patch' = [Raced EXCEPT ![w] = Idle]
    BY <1>3 DEF UpdateRow
  <2>2. /\ patch' \in [Patchers -> {Idle} \cup Patch]
        /\ \A v \in Patchers : patch'[v] = IF v = w THEN Idle ELSE Raced[v]
    BY <2>1, RacedKeeps
  <2>3. \A v \in Patchers : ReadsSent(patch'[v])
    BY <2>2, RacedKeeps DEF ReadsSent
  <2> QED BY <1>1, <1>3, <2>2, <2>3, UpdateIsPatch
<1>4. ASSUME NEW w \in Patchers, NEW y \in {Idle} \cup Patch, ReadsSent(y),
             patch' = [patch EXCEPT ![w] = y], UNCHANGED <<access_types, req>>
      PROVE  PatchInv' /\ [Next]_vars
  <2>1. \A v \in Patchers : patch'[v] = IF v = w THEN y ELSE patch[v]
    BY <1>4 DEF PatchInv
  <2>2. patch' \in [Patchers -> {Idle} \cup Patch] /\ \A v \in Patchers : ReadsSent(patch'[v])
    BY <1>4, <2>1 DEF PatchInv
  <2> QED BY <1>1, <1>4, <2>2 DEF vars
<1>5. ASSUME NEW w \in Patchers, NEW i \in Ids, NEW title \in Titles \cup {NoChange},
             NEW bit \in SentBits \cup {NoChange}, BeginPatch(w, i, title, bit)
      PROVE  PatchInv' /\ [Next]_vars
  <2> DEFINE y == [id |-> i, title |-> title, bit |-> bit, row |-> NoRow, raced |-> FALSE]
  <2>1. y \in Patch /\ y.row = NoRow
    BY DEF Patch
  <2>2. patch' = [patch EXCEPT ![w] = y] /\ UNCHANGED <<access_types, req>>
    BY <1>5 DEF BeginPatch
  <2> HIDE DEF y
  <2>3. ReadsSent(y)
    BY <2>1 DEF ReadsSent
  <2> QED BY <1>4, <2>1, <2>2, <2>3
<1>6. ASSUME NEW w \in Patchers, SelectRow(w) PROVE PatchInv' /\ [Next]_vars
  <2> DEFINE x == patch[w]
             row == access_types[x.id]
             y == [x EXCEPT !.row = row]
  <2>1. UNCHANGED <<access_types, req>> /\ x \in Patch
    BY <1>6 DEF SelectRow, Patching, PatchInv
  <2>2. CASE patch' = [patch EXCEPT ![w] = Idle]
    BY <1>4, <2>1, <2>2 DEF ReadsSent
  <2>3. CASE row # NoRow /\ patch' = [patch EXCEPT ![w].row = row]
    <3>1. x.id \in Ids
      BY <2>1 DEF Patch
    <3>2. row \in AccessType /\ row.bit \in SentBits
      BY <2>3, <3>1 DEF PatchInv, RowsSent, TypesInv, TypeOK
    <3>3. patch' = [patch EXCEPT ![w] = y]
      BY <2>3 DEF PatchInv
    <3> HIDE DEF row, x
    <3>4. y \in Patch /\ y.row = row
      BY <2>1, <3>2 DEF Patch
    <3> HIDE DEF y
    <3>5. ReadsSent(y)
      BY <3>2, <3>4 DEF ReadsSent
    <3> QED BY <1>4, <2>1, <3>3, <3>4, <3>5
  <2> QED BY <1>6, <2>2, <2>3 DEF SelectRow
<1>7. ASSUME NEW w \in Patchers, EndPatch(w) PROVE PatchInv' /\ [Next]_vars
  BY <1>4, <1>7 DEF EndPatch, ReadsSent
<1>8. CASE UNCHANGED patchVars
  BY <1>1, <1>8 DEF patchVars, vars, PatchInv
<1> QED BY <1>2, <1>3, <1>5, <1>6, <1>7, <1>8 DEF PatchNext

\* In every reachable state the table, the requests and the pooled patches are
\* as the invariant says.
THEOREM PatchInvariant == PatchSpec => []PatchInv
<1>1. PatchInit => PatchInv
  BY InitEstablishes DEF PatchInit, Init, PatchInv, RowsSent, ReadsSent
<1>2. PatchInv /\ [PatchNext]_patchVars => PatchInv'
  BY PatchStep
<1> QED BY <1>1, <1>2, PTL DEF PatchSpec

\* A pooled patch holds a row and columns of the schema at every point between
\* its statements.
THEOREM PatchTypeCorrect == PatchSpec => []PatchTypeOK
<1>1. PatchInv => PatchTypeOK
  BY DEF PatchInv, PatchTypeOK, TypesInv
<1> QED BY <1>1, PatchInvariant, PTL

\* The SELECT and the UPDATE of a pooled AccessTypePatch, with any calls in
\* between, are one AccessTypePatch of the specification.
THEOREM PooledPatchImplements == PatchSpec => PooledPatchIsPatch
<1>1. PatchInit => Init
  BY DEF PatchInit
<1>2. PatchInv /\ [PatchNext]_patchVars => [Next]_vars
  BY PatchStep
<1> QED BY <1>1, <1>2, PatchInvariant, PTL DEF PatchSpec, PooledPatchIsPatch

\* Hence the pooled stores keep everything that was proved of the table: one bit
\* per title, faithful titles, complete loads and retries that are enough.
THEOREM PooledTypesCorrect ==
    PatchSpec => [](OneBitPerTitle /\ TitlesRoundTrip /\ LoadIsComplete /\ RetriesSuffice)
<1>1. PooledPatchIsPatch => Spec
  BY PTL DEF PooledPatchIsPatch, Spec
<1> QED BY <1>1, PooledPatchImplements, BitsDisjoint, TitlesAreFaithful, LoadsAreComplete,
           RetriesAreEnough, PTL

\* The row a transaction has read is the one in the table, unless it was raced.
Fresh(x, table) == x # Idle /\ x.row # NoRow /\ ~ x.raced => table[x.id] = x.row

FreshReads == \A w \in Patchers : Fresh(patch[w], access_types)

\* Marking the raced transactions keeps the others fresh, whatever the step
\* does to the table, and ends none.
LEMMA RacedFresh ==
    ASSUME PatchInv, FreshReads, NEW w \in Patchers
    PROVE  /\ Fresh(Raced[w], access_types')
           /\ HasRead(w) => Raced[w] # Idle
<1> DEFINE x == patch[w]
           y == [x EXCEPT !.raced = TRUE]
<1>1. x \in {Idle} \cup Patch /\ Fresh(x, access_types)
  BY DEF PatchInv, FreshReads
<1>2. CASE HasRead(w) /\ access_types'[x.id] # access_types[x.id]
  <2>1. Raced[w] = y
    BY <1>2 DEF Raced
  <2>2. x \in Patch
    BY <1>1, <1>2 DEF HasRead, Patching
  <2> HIDE DEF x
  <2>3. y \in Patch /\ y.raced = TRUE
    BY <2>2 DEF Patch
  <2> QED BY <2>1, <2>3, PatchAssumption DEF Fresh
<1>3. CASE ~ (HasRead(w) /\ access_types'[x.id] # access_types[x.id])
  <2>1. Raced[w] = x
    BY <1>3 DEF Raced
  <2>2. x # Idle /\ x.row # NoRow => access_types'[x.id] = access_types[x.id]
    BY <1>3 DEF HasRead, Patching
  <2> QED BY <1>1, <2>1, <2>2 DEF Fresh, HasRead, Patching
<1> QED BY <1>2, <1>3

LEMMA FreshStep ==
    ASSUME PatchInv, FreshReads, [PatchNext]_patchVars
    PROVE  FreshReads'
<1>0. DOMAIN patch = Patchers /\ DOMAIN Raced = Patchers
  BY DEF PatchInv, Raced
<1>1. CASE patch' = Raced
  BY <1>1, RacedFresh DEF FreshReads
<1>2. ASSUME NEW w \in Patchers, UpdateRow(w) PROVE FreshReads'
  <2>1. patch' = [Raced EXCEPT ![w] = Idle]
    BY <1>2 DEF UpdateRow
  <2>2. \A v \in Patchers : patch'[v] = IF v = w THEN Idle ELSE Raced[v]
    BY <1>0, <2>1
  <2> QED BY <2>2, RacedFresh DEF FreshReads, Fresh
<1>3. ASSUME NEW w \in Patchers, NEW y, Fresh(y, access_types),
             patch' = [patch EXCEPT ![w] = y], UNCHANGED access_types
      PROVE  FreshReads'
  <2>1. \A v \in Patchers : patch'[v] = IF v = w THEN y ELSE patch[v]
    BY <1>0, <1>3
  <2> QED BY <1>3, <2>1 DEF FreshReads
<1>4. ASSUME NEW w \in Patchers, NEW i \in Ids, NEW title, NEW bit, BeginPatch(w, i, title, bit)
      PROVE  FreshReads'
  <2> DEFINE y == [id |-> i, title |-> title, bit |-> bit, row |-> NoRow, raced |-> FALSE]
  <2>1. Fresh(y, access_types)
    BY DEF Fresh
  <2> QED BY <1>3, <1>4, <2>1 DEF BeginPatch
<1>5. ASSUME NEW w \in Patchers, SelectRow(w) PROVE FreshReads'
  <2> DEFINE x == patch[w]
             y == [x EXCEPT !.row = access_types[x.id]]
  <2>1. x \in Patch /\ UNCHANGED access_types
    BY <1>5 DEF SelectRow, Patching, PatchInv
  <2>2. CASE patch' = [patch EXCEPT ![w] = Idle]
    BY <1>3, <2>1, <2>2 DEF Fresh
  <2>3. CASE patch' = [patch EXCEPT ![w].row = access_types[x.id]]
    <3>1. patch' = [patch EXCEPT ![w] = y]
      BY <1>0, <2>3
    <3> HIDE DEF x
    <3>2. y.id = x.id /\ y.row = access_types[x.id]
      BY <2>1 DEF Patch
    <3>3. Fresh(y, access_types)
      BY <3>2 DEF Fresh
    <3> QED BY <1>3, <2>1, <3>1, <3>3
  <2> QED BY <1>5, <2>2, <2>3 DEF SelectRow
<1>6. ASSUME NEW w \in Patchers, EndPatch(w) PROVE FreshReads'
  BY <1>3, <1>6 DEF EndPatch, Fresh
<1>7. CASE UNCHANGED patchVars
  BY <1>7 DEF patchVars, FreshReads
<1> QED BY <1>1, <1>2, <1>4, <1>5, <1>6, <1>7 DEF PatchNext

\* Only the UPDATE of a patch that has read its row changes the table while that
\* patch ends.
LEMMA EndsByUpdate ==
    ASSUME PatchInv, FreshReads, [PatchNext]_patchVars, NEW w \in Patchers,
           HasRead(w), ~ Patching(w)', access_types' # access_types
    PROVE  UpdateRow(w)
<1>0. DOMAIN Raced = Patchers
  BY DEF Raced
<1>1. patch'[w] = Idle /\ Raced[w] # Idle
  BY RacedFresh DEF Patching
<1>2. ASSUME NEW v \in Patchers, UpdateRow(v) PROVE v = w
  BY <1>0, <1>1, <1>2 DEF UpdateRow
<1> QED BY <1>1, <1>2 DEF PatchNext, patchVars, BeginPatch, SelectRow, EndPatch

\* A pooled patch gives an unnamed column back an older value only if somebody
\* changed the row between its SELECT and its UPDATE, and hits no other row.
THEOREM RevertsNeedRace == PatchSpec => RevertsOnlyWhenRaced
<1>1. PatchInit => FreshReads
  BY DEF PatchInit, FreshReads, Fresh
<1>2. PatchInv /\ FreshReads /\ [PatchNext]_patchVars => FreshReads'
  BY FreshStep
<1> DEFINE Reverts ==
      \A w \in Patchers : \A i \in Ids :
         LET old == access_types[i]
             new == access_types'[i]
         IN
         HasRead(w) /\ ~ Patching(w)' /\ old # NoRow /\ new # NoRow /\ old # new =>
            \/ patch[w].raced
            \/ /\ i = patch[w].id
               /\ patch[w].title = NoChange => new.title = old.title
               /\ patch[w].bit = NoChange => new.bit = old.bit
<1>3. PatchInv /\ FreshReads /\ [PatchNext]_patchVars => [Reverts]_patchVars
  <2> SUFFICES ASSUME PatchInv, FreshReads, [PatchNext]_patchVars,
                      NEW w \in Patchers, NEW i \in Ids,
                      HasRead(w), ~ Patching(w)', access_types[i] # access_types'[i], ~ patch[w].raced
               PROVE  /\ i = patch[w].id
                      /\ patch[w].title = NoChange => access_types'[i].title = access_types[i].title
                      /\ patch[w].bit = NoChange => access_types'[i].bit = access_types[i].bit
    OBVIOUS
  <2>1. UpdateRow(w)
    BY EndsByUpdate
  <2>2. access_types \in [Ids -> {NoRow} \cup AccessType]
    BY DEF PatchInv, TypesInv, TypeOK
  <2>3. access_types' = [access_types EXCEPT ![patch[w].id] = NewRow(w)]
    BY <2>1 DEF UpdateRow
  <2>4. i = patch[w].id /\ access_types'[i] = NewRow(w)
    BY <2>2, <2>3
  <2>5. access_types[i] = patch[w].row
    BY <2>4 DEF FreshReads, Fresh, HasRead, Patching
  <2>6. /\ patch[w].title = NoChange => NewRow(w).title = patch[w].row.title
        /\ patch[w].bit = NoChange => NewRow(w).bit = patch[w].row.bit
    BY DEF NewRow
  <2> QED BY <2>4, <2>5, <2>6
<1> QED BY <1>1, <1>2, <1>3, PatchInvariant, PTL DEF PatchSpec, RevertsOnlyWhenRaced

----------------------------------------------------------------------------
(* TitlePermissions: the v2 calls that speak titles.  *)

\* Types of one bit each, no two with the same title or the same bit.
Unambiguous(types) ==
    /\ \A t \in types : IsPowerOfTwo(t.bit)
    /\ \A s, t \in types : s.title = t.title \/ s.bit = t.bit => s = t

\* A call with titles keeps the types it has loaded and the mask it made of
\* them, until it has written; a patch finds that mask in its row again, unless
\* somebody changed the row; it loads types for the answer only if there were
\* none, and then it was asked for no title.
Echoes(c) ==
    c.titles # NoChange =>
        /\ c.pc # "read"
        /\ c.pc \in {"write", "readback"} =>
              /\ c.titles \subseteq KnownTitles(c.types)
              /\ c.masks = {TitlesToMask(c.titles, c.types)}
              /\ SingleBitsSent => Unambiguous(c.types)
        /\ c.pc = "readback" /\ "row" \notin c.changed =>
              \A p \in c.perms : permissions[p] = TitlesToMask(c.titles, c.types)
        /\ c.pc = "render" =>
              /\ c.types = {} /\ c.titles \subseteq KnownTitles({})
              /\ "row" \notin c.changed => c.masks = {TitlesToMask(c.titles, {})}
        /\ c.pc = "done" /\ SingleBitsSent /\ "row" \notin c.changed =>
              c.out = {[titles |-> c.titles, sentinels |-> {}]}

\* A call without titles has read the masks that are still there, and noted
\* what was right then, up to what others have changed since.
Reports(c) ==
    /\ c.kind = "create" \/ c.pc = "convert" => c.titles # NoChange
    /\ c.kind = "patch" => \E p \in Perms : c.perms = {p}
    /\ c.pc = "readback" => c.kind = "patch"
    /\ c.titles = NoChange =>
        /\ c.types = {}
        /\ c.pc = "render" =>
              /\ "masks" \notin c.changed => c.masks = MasksRead(c.kind, c.perms)
              /\ "types" \notin c.changed =>
                    c.right = {toPermissionResponseV2(c.masks, loadDomainAccessTypes)}
        /\ c.pc = "done" /\ ~ ({"masks", "types"} \subseteq c.changed) => c.out \in c.right

CallInv(c) == c \in Call /\ Echoes(c) /\ Reports(c)

TitleInv ==
    /\ TypesInv
    /\ permissions \in [Perms -> {NoRow} \cup Masks]
    /\ call # NoCall => CallInv(call)

----------------------------------------------------------------------------

\* What is loaded, read and rendered has its type.
LEMMA LoadType ==
    ASSUME TypesInv
    PROVE  loadDomainAccessTypes \in SUBSET AccessType
BY DEF loadDomainAccessTypes, Rows, TypesInv, TypeOK

LEMMA ReadType ==
    ASSUME permissions \in [Perms -> {NoRow} \cup Masks], NEW P \in SUBSET Perms, NEW kind
    PROVE  MasksRead(kind, P) \in SUBSET Masks
<1>1. \A p \in Live(P) : permissions[p] \in Masks
  BY DEF Live
<1>2. UNION { permissions[p] : p \in Live(P) } \in Masks
  BY <1>1 DEF Masks
<1> QED BY <1>1, <1>2 DEF MasksRead

LEMMA RenderType ==
    ASSUME NEW masks \in SUBSET Masks, NEW types \in SUBSET AccessType
    PROVE  toPermissionResponseV2(masks, types) \in SUBSET Reply
<1> SUFFICES ASSUME NEW m \in masks PROVE MaskToTitles(m, types) \in Reply
  BY DEF toPermissionResponseV2
<1> DEFINE names == { t.title : t \in { u \in types : u.bit \cap m # {} } }
           rest == m \ UNION { t.bit : t \in { u \in types : u.bit \cap m # {} } }
<1>1. \A t \in types : t.title \in Titles
  BY DEF AccessType
<1>2. names \in SUBSET Titles
  BY <1>1
<1>3. rest \in Masks
  BY DEF Masks
<1>4. MaskToTitles(m, types) = [titles |-> names, sentinels |-> rest]
  BY DEF MaskToTitles
<1> HIDE DEF names, rest
<1> QED BY <1>2, <1>3, <1>4 DEF Reply

LEMMA MaskType ==
    ASSUME NEW T, NEW types \in SUBSET AccessType
    PROVE  TitlesToMask(T, types) \in Masks
<1>1. \A t \in types : t.bit \in SUBSET Bits
  BY DEF AccessType
<1> QED BY <1>1 DEF TitlesToMask, Masks

\* Rendering the mask of some known titles gives those titles back.
LEMMA EchoRendered ==
    ASSUME NEW types, Unambiguous(types), NEW T, T \subseteq KnownTitles(types)
    PROVE  toPermissionResponseV2({TitlesToMask(T, types)}, types)
              = {[titles |-> T, sentinels |-> {}]}
<1>1. MaskToTitles(TitlesToMask(T, types), types) = [titles |-> T, sentinels |-> {}]
  BY TitlesSurvive DEF Unambiguous
<1> QED BY <1>1 DEF toPermissionResponseV2

\* Without types, no title is known and the mask is empty, in any list of types.
LEMMA NothingRendered ==
    ASSUME NEW T, T \subseteq KnownTitles({}), NEW types
    PROVE  toPermissionResponseV2({TitlesToMask(T, {})}, types) = {[titles |-> T, sentinels |-> {}]}
<1>1. T = {} /\ TitlesToMask(T, {}) = {}
  BY DEF KnownTitles, TitlesToMask
<1>2. MaskToTitles({}, types) = [titles |-> {}, sentinels |-> {}]
  BY DEF MaskToTitles
<1> QED BY <1>1, <1>2 DEF toPermissionResponseV2

----------------------------------------------------------------------------

\* A step of the call itself: the types stay, and the call becomes y.
LEMMA OwnStep ==
    ASSUME TitleInv, UNCHANGED <<access_types, req>>,
           permissions' \in [Perms -> {NoRow} \cup Masks],
           NEW y, call' = y, y # NoCall => CallInv(y)'
    PROVE  TitleInv' /\ [Next]_vars
<1>1. UNCHANGED vars
  BY DEF vars
<1>2. TypesInv'
  BY <1>1, NextKeeps DEF TitleInv
<1> QED BY <1>1, <1>2 DEF TitleInv

LEMMA StartKeeps ==
    ASSUME TitleInv, NEW kind \in {"create", "patch", "get", "list", "authz"},
           NEW P \in SUBSET Perms, NEW T \in (SUBSET Titles) \cup {NoChange},
           NEW label \in {"convert", "write", "read"}, Begin(kind, P, T, label),
           kind = "create" \/ label = "convert" => T # NoChange,
           kind = "patch" => \E p \in Perms : P = {p},
           T # NoChange => label = "convert"
    PROVE  TitleInv' /\ [Next]_vars
<1> DEFINE y == [kind |-> kind, perms |-> P, titles |-> T, pc |-> label,
                 types |-> {}, masks |-> {}, out |-> {}, right |-> {}, changed |-> {}]
<1>1. y \in Call
  BY DEF Call
<1>2. /\ y.kind = kind /\ y.perms = P /\ y.titles = T /\ y.pc = label
      /\ y.pc \notin {"readback", "render", "done"} /\ y.types = {}
  OBVIOUS
<1>3. call' = y /\ UNCHANGED <<access_types, req>> /\ UNCHANGED permissions
  BY DEF Begin
<1>4. permissions' \in [Perms -> {NoRow} \cup Masks]
  BY <1>3 DEF TitleInv
<1> HIDE DEF y
<1>5. Echoes(y)'
  BY <1>2 DEF Echoes
<1>6. Reports(y)'
  BY <1>2 DEF Reports
<1>7. CallInv(y)'
  BY <1>1, <1>5, <1>6 DEF CallInv
<1> QED BY <1>3, <1>4, <1>7, OwnStep

LEMMA ConvertKeeps ==
    ASSUME TitleInv, Convert
    PROVE  TitleInv' /\ [Next]_vars
<1> DEFINE types == loadDomainAccessTypes
           mask == TitlesToMask(call.titles, types)
<1>1. /\ UNCHANGED <<access_types, req>> /\ UNCHANGED permissions
      /\ call # NoCall /\ call.pc = "convert" /\ call \in Call /\ Reports(call)
  BY DEF Convert, At, TitleInv, CallInv
<1>2. permissions' \in [Perms -> {NoRow} \cup Masks]
  BY <1>1 DEF TitleInv
<1>3. CASE call' = NoCall
  BY <1>1, <1>2, <1>3, OwnStep
<1>4. CASE /\ call.titles \subseteq KnownTitles(types)
           /\ call' = [call EXCEPT !.pc = "write", !.types = types, !.masks = {mask}]
  <2>1. types \in SUBSET AccessType /\ mask \in Masks
    BY LoadType, MaskType DEF TitleInv
  <2>2. SingleBitsSent => Unambiguous(types)
    BY LoadedRows DEF TitleInv, Unambiguous
  <2>3. PICK y : y = [call EXCEPT !.pc = "write", !.types = types, !.masks = {mask}]
    OBVIOUS
  <2>4. /\ y.kind = call.kind /\ y.perms = call.perms /\ y.titles = call.titles
        /\ y.pc = "write" /\ y.types = types /\ y.masks = {mask}
    BY <1>1, <2>3 DEF Call
  <2>5. y \in Call
    <3> HIDE DEF types, mask
    <3> QED BY <1>1, <2>1, <2>3 DEF Call
  <2>6. Echoes(y)
    BY <1>4, <2>2, <2>4 DEF Echoes
  <2>7. Reports(y)'
    BY <1>1, <2>4 DEF Reports
  <2>8. CallInv(y)'
    BY <2>4, <2>5, <2>6, <2>7 DEF CallInv, Echoes, SingleBitsSent
  <2> QED BY <1>1, <1>2, <1>4, <2>3, <2>8, OwnStep
<1> QED BY <1>3, <1>4 DEF Convert

\* The answer to a create, or to a patch whose titles were converted with types.
LEMMA WriteAnswered ==
    ASSUME NEW y, CallInv(y), y.pc = "write", y.titles # NoChange, NEW z,
           z = [y EXCEPT !.pc = "done", !.out = toPermissionResponseV2(y.masks, y.types)]
    PROVE  CallInv(z)'
<1> DEFINE out == toPermissionResponseV2(y.masks, y.types)
<1>1. y \in Call /\ y.masks \in SUBSET Masks /\ y.types \in SUBSET AccessType
  BY DEF CallInv, Call
<1>2. out \in SUBSET Reply
  BY <1>1, RenderType
<1>3. SingleBitsSent => out = {[titles |-> y.titles, sentinels |-> {}]}
  BY EchoRendered DEF CallInv, Echoes
<1> HIDE DEF out
<1>4. z = [y EXCEPT !.pc = "done", !.out = out]
  BY DEF out
<1>5. z \in Call
  BY <1>1, <1>2, <1>4 DEF Call
<1>6. /\ z.kind = y.kind /\ z.perms = y.perms /\ z.titles = y.titles
      /\ z.pc = "done" /\ z.out = out
  BY <1>1, <1>4 DEF Call
<1>7. Echoes(z)
  BY <1>3, <1>6 DEF Echoes
<1>8. Reports(z)'
  BY <1>6 DEF Reports, CallInv
<1> QED BY <1>5, <1>7, <1>8 DEF CallInv, Echoes, SingleBitsSent

\* A call that has just read its masks, and what was right then.
LEMMA ReadKeeps ==
    ASSUME TitleInv, UNCHANGED <<access_types, req, permissions>>,
           call # NoCall, call.titles = NoChange, NEW masks, masks = MasksRead(call.kind, call.perms),
           call' = [call EXCEPT !.pc = "render", !.masks = masks, !.right = {RightAnswer}]
    PROVE  TitleInv' /\ [Next]_vars
<1>1. call \in Call /\ call.perms \in SUBSET Perms /\ Reports(call)
  BY DEF TitleInv, CallInv, Call
<1>2. masks \in SUBSET Masks
  BY <1>1, ReadType DEF TitleInv
<1>3. PICK right : right = toPermissionResponseV2(masks, loadDomainAccessTypes)
  OBVIOUS
<1>4. right \in SUBSET Reply /\ right = RightAnswer
  BY <1>2, <1>3, RenderType, LoadType DEF TitleInv, RightAnswer
<1>5. PICK y : y = [call EXCEPT !.pc = "render", !.masks = masks, !.right = {right}]
  OBVIOUS
<1>6. y \in Call
  BY <1>1, <1>2, <1>4, <1>5 DEF Call
<1>7. /\ y.kind = call.kind /\ y.perms = call.perms /\ y.titles = NoChange
      /\ y.pc = "render" /\ y.masks = masks /\ y.right = {right} /\ y.types = call.types
  BY <1>1, <1>5 DEF Call
<1>8. Echoes(y)'
  BY <1>7 DEF Echoes
<1>9. /\ MasksRead(y.kind, y.perms)' = masks
      /\ loadDomainAccessTypes' = loadDomainAccessTypes
  BY <1>7 DEF MasksRead, Live, loadDomainAccessTypes, Rows
<1>10. Reports(y)'
  BY <1>1, <1>3, <1>7, <1>9 DEF Reports
<1>11. CallInv(y)'
  BY <1>6, <1>8, <1>10 DEF CallInv
<1>12. permissions' \in [Perms -> {NoRow} \cup Masks]
  BY DEF TitleInv
<1> QED BY <1>4, <1>5, <1>11, <1>12, OwnStep

LEMMA WriteKeeps ==
    ASSUME TitleInv, WriteCreate \/ WritePatch
    PROVE  TitleInv' /\ [Next]_vars
<1>1. /\ call # NoCall /\ call.pc = "write" /\ CallInv(call) /\ call \in Call
      /\ UNCHANGED <<access_types, req>>
  BY DEF WriteCreate, WritePatch, At, TitleInv, CallInv
<1>2. call.masks \in SUBSET Masks /\ call.perms \in SUBSET Perms
  BY <1>1 DEF Call
<1>3. ASSUME NEW p \in Perms, NEW m \in call.masks, permissions' = [permissions EXCEPT ![p] = m]
      PROVE  permissions' \in [Perms -> {NoRow} \cup Masks] /\ permissions'[p] = m
  BY <1>2, <1>3 DEF TitleInv
<1>4. CASE WriteCreate
  <2>1. PICK y : y = call
    OBVIOUS
  <2>2. PICK z : z = [y EXCEPT !.pc = "done", !.out = toPermissionResponseV2(y.masks, y.types)]
    OBVIOUS
  <2>3. y.titles # NoChange
    BY <1>1, <1>4, <2>1 DEF WriteCreate, CallInv, Reports
  <2>4. CallInv(z)'
    BY <1>1, <2>1, <2>2, <2>3, WriteAnswered
  <2>5. call' = z
    BY <1>4, <2>1, <2>2 DEF WriteCreate
  <2>6. permissions' \in [Perms -> {NoRow} \cup Masks]
    BY <1>3, <1>4 DEF WriteCreate
  <2> QED BY <1>1, <2>4, <2>5, <2>6, OwnStep
<1>5. CASE WritePatch
  <2>1. PICK p \in call.perms :
          \/ call' = NoCall /\ UNCHANGED permissions
          \/ /\ \/ call.titles = NoChange /\ UNCHANGED permissions
                \/ /\ call.titles # NoChange
                   /\ \E m \in call.masks : permissions' = [permissions EXCEPT ![p] = m]
             /\ call' = [call EXCEPT !.pc = "readback"]
    BY <1>5 DEF WritePatch
  <2>2. p \in Perms /\ call.perms = {p} /\ call.kind = "patch"
    BY <1>1, <1>2, <1>5 DEF WritePatch, CallInv, Reports
  <2>3. permissions' \in [Perms -> {NoRow} \cup Masks]
    BY <1>3, <2>1, <2>2 DEF TitleInv
  <2>4. CASE call' = NoCall
    BY <1>1, <2>3, <2>4, OwnStep
  <2>5. CASE call' = [call EXCEPT !.pc = "readback"] /\ call' # NoCall
    <3>1. PICK y : y = [call EXCEPT !.pc = "readback"]
      OBVIOUS
    <3>2. /\ y \in Call /\ y.kind = "patch" /\ y.perms = {p} /\ y.titles = call.titles
          /\ y.pc = "readback" /\ y.masks = call.masks /\ y.types = call.types
      BY <1>1, <2>2, <3>1 DEF Call
    <3>3. call.titles # NoChange => permissions'[p] = TitlesToMask(call.titles, call.types)
      BY <1>1, <1>3, <2>1, <2>2, <2>5 DEF CallInv, Echoes
    <3>4. Echoes(y)'
      <4>1. call.titles # NoChange =>
              /\ call.titles \subseteq KnownTitles(call.types)
              /\ call.masks = {TitlesToMask(call.titles, call.types)}
              /\ SingleBitsSent => Unambiguous(call.types)
        BY <1>1 DEF CallInv, Echoes
      <4> QED BY <3>2, <3>3, <4>1 DEF Echoes, SingleBitsSent
    <3>5. Reports(y)'
      BY <1>1, <2>2, <3>2 DEF Reports, CallInv
    <3>6. CallInv(y)'
      BY <3>2, <3>4, <3>5 DEF CallInv
    <3> QED BY <1>1, <2>3, <2>5, <3>1, <3>6, OwnStep
  <2> QED BY <2>1, <2>4, <2>5
<1> QED BY <1>4, <1>5

\* The read-back: the row holds the mask that was written, unless somebody
\* changed it since the Commit.
LEMMA ReadBackKeeps ==
    ASSUME TitleInv, ReadBack
    PROVE  TitleInv' /\ [Next]_vars
<1>1. /\ call # NoCall /\ call.pc = "readback" /\ CallInv(call) /\ call \in Call
      /\ UNCHANGED <<access_types, req, permissions>>
  BY DEF ReadBack, At, TitleInv, CallInv
<1>2. permissions' \in [Perms -> {NoRow} \cup Masks]
  BY <1>1 DEF TitleInv
<1>3. PICK p \in call.perms :
        \/ call' = NoCall
        \/ /\ permissions[p] # NoRow /\ call.types = {}
           /\ call' = [call EXCEPT !.pc = "render", !.masks = {permissions[p]},
                                   !.right = {RightAnswer}]
        \/ /\ permissions[p] # NoRow /\ call.types # {}
           /\ call' = [call EXCEPT !.pc = "done", !.masks = {permissions[p]},
                          !.out = toPermissionResponseV2({permissions[p]}, call.types)]
  BY DEF ReadBack
<1>4. call.kind = "patch" /\ call.perms = {p} /\ p \in Perms /\ call.types \in SUBSET AccessType
  BY <1>1, <1>3 DEF CallInv, Reports, Call
<1>5. call.titles = NoChange => call.types = {}
  BY <1>1 DEF CallInv, Reports
<1>6. call.titles # NoChange =>
        /\ call.titles \subseteq KnownTitles(call.types)
        /\ SingleBitsSent => Unambiguous(call.types)
        /\ "row" \notin call.changed => permissions[p] = TitlesToMask(call.titles, call.types)
  BY <1>1, <1>4 DEF CallInv, Echoes
<1>7. PICK masks : masks = {permissions[p]}
  OBVIOUS
<1>8. permissions[p] # NoRow => masks \in SUBSET Masks
  BY <1>4, <1>7 DEF TitleInv
<1>9. CASE call' = NoCall
  BY <1>1, <1>2, <1>9, OwnStep
<1>10. CASE /\ permissions[p] # NoRow /\ call.types = {}
            /\ call' = [call EXCEPT !.pc = "render", !.masks = {permissions[p]},
                                    !.right = {RightAnswer}]
  <2>1. CASE call.titles = NoChange
    <3>1. masks = MasksRead(call.kind, call.perms)
      BY <1>4, <1>7, <1>10 DEF MasksRead, Live
    <3> QED BY <1>1, <1>7, <1>10, <2>1, <3>1, ReadKeeps
  <2>2. CASE call.titles # NoChange
    <3>1. PICK right : right = RightAnswer
      OBVIOUS
    <3>2. right \in SUBSET Reply
      BY <1>4, <3>1, RenderType, LoadType, ReadType DEF TitleInv, RightAnswer
    <3>3. PICK y : y = [call EXCEPT !.pc = "render", !.masks = masks, !.right = {right}]
      OBVIOUS
    <3>4. y \in Call
      BY <1>1, <1>8, <1>10, <3>2, <3>3 DEF Call
    <3>5. /\ y.kind = call.kind /\ y.perms = call.perms /\ y.titles = call.titles /\ y.pc = "render"
          /\ y.masks = masks /\ y.types = {} /\ y.changed = call.changed
      BY <1>1, <1>10, <3>3 DEF Call
    <3>6. Echoes(y)'
      BY <1>6, <1>7, <1>10, <2>2, <3>5 DEF Echoes
    <3>7. Reports(y)'
      BY <1>4, <2>2, <3>5 DEF Reports
    <3>8. CallInv(y)'
      BY <3>4, <3>6, <3>7 DEF CallInv
    <3>9. call' = y
      BY <1>7, <1>10, <3>1, <3>3
    <3> QED BY <1>1, <1>2, <3>8, <3>9, OwnStep
  <2> QED BY <2>1, <2>2
<1>11. CASE /\ permissions[p] # NoRow /\ call.types # {}
            /\ call' = [call EXCEPT !.pc = "done", !.masks = {permissions[p]},
                           !.out = toPermissionResponseV2({permissions[p]}, call.types)]
  <2>1. PICK out : out = toPermissionResponseV2(masks, call.types)
    OBVIOUS
  <2>2. out \in SUBSET Reply
    BY <1>4, <1>8, <1>11, <2>1, RenderType
  <2>3. SingleBitsSent /\ "row" \notin call.changed
          => out = {[titles |-> call.titles, sentinels |-> {}]}
    BY <1>5, <1>6, <1>7, <1>11, <2>1, EchoRendered
  <2>4. PICK y : y = [call EXCEPT !.pc = "done", !.masks = masks, !.out = out]
    OBVIOUS
  <2>5. y \in Call
    BY <1>1, <1>8, <1>11, <2>2, <2>4 DEF Call
  <2>6. /\ y.kind = call.kind /\ y.perms = call.perms /\ y.titles = call.titles /\ y.pc = "done"
        /\ y.out = out /\ y.changed = call.changed
    BY <1>1, <2>4 DEF Call
  <2>7. Echoes(y)'
    BY <2>3, <2>6 DEF Echoes, SingleBitsSent
  <2>8. Reports(y)'
    BY <1>4, <1>5, <1>11, <2>6 DEF Reports
  <2>9. CallInv(y)'
    BY <2>5, <2>7, <2>8 DEF CallInv
  <2>10. call' = y
    BY <1>7, <1>11, <2>1, <2>4
  <2> QED BY <1>1, <1>2, <2>9, <2>10, OwnStep
<1> QED BY <1>3, <1>9, <1>10, <1>11

\* The answer: right when the types are the ones of before, or when the masks
\* are still the ones that were read.
LEMMA RenderKeeps ==
    ASSUME TitleInv, Render
    PROVE  TitleInv' /\ [Next]_vars
<1>1. /\ call # NoCall /\ call.pc = "render" /\ CallInv(call) /\ call \in Call
      /\ UNCHANGED <<access_types, req>> /\ UNCHANGED permissions
  BY DEF Render, At, TitleInv, CallInv
<1>2. call.masks \in SUBSET Masks /\ call.perms \in SUBSET Perms
      /\ call.changed \in SUBSET {"row", "masks", "types"} /\ call.right \in SUBSET (SUBSET Reply)
  BY <1>1 DEF Call
<1>3. PICK out : out = toPermissionResponseV2(call.masks, loadDomainAccessTypes)
  OBVIOUS
<1>4. PICK now : now = RightAnswer
  OBVIOUS
<1>5. out \in SUBSET Reply /\ now \in SUBSET Reply
  BY <1>2, <1>3, <1>4, RenderType, LoadType, ReadType DEF TitleInv, RightAnswer
<1>6. PICK y : y = [call EXCEPT !.pc = "done", !.right = @ \cup {now}, !.out = out]
  OBVIOUS
<1>7. call' = y
  BY <1>3, <1>4, <1>6 DEF Render
<1>8. y \in Call
  BY <1>1, <1>2, <1>5, <1>6 DEF Call
<1>9. /\ y.kind = call.kind /\ y.perms = call.perms /\ y.titles = call.titles /\ y.pc = "done"
      /\ y.out = out /\ y.right = call.right \cup {now} /\ y.changed = call.changed
      /\ y.types = call.types
  BY <1>1, <1>6 DEF Call
<1>10. Echoes(y)
  <2> SUFFICES ASSUME call.titles # NoChange, "row" \notin call.changed
               PROVE  out = {[titles |-> call.titles, sentinels |-> {}]}
    BY <1>9 DEF Echoes
  <2>1. call.types = {} /\ call.titles \subseteq KnownTitles({})
        /\ call.masks = {TitlesToMask(call.titles, {})}
    BY <1>1 DEF CallInv, Echoes
  <2> QED BY <1>3, <2>1, NothingRendered
<1>11. Reports(y)'
  <2>1. ASSUME call.titles = NoChange, ~ ({"masks", "types"} \subseteq call.changed)
        PROVE  out \in y.right
    <3>1. CASE "types" \notin call.changed
      BY <1>1, <1>3, <1>9, <2>1, <3>1 DEF CallInv, Reports
    <3>2. CASE "masks" \notin call.changed
      <4>1. call.masks = MasksRead(call.kind, call.perms)
        BY <1>1, <2>1, <3>2 DEF CallInv, Reports
      <4> QED BY <1>3, <1>4, <1>9, <4>1 DEF RightAnswer
    <3> QED BY <1>2, <2>1, <3>1, <3>2
  <2>2. /\ call.kind = "create" \/ call.pc = "convert" => call.titles # NoChange
        /\ call.kind = "patch" => \E p \in Perms : call.perms = {p}
        /\ call.titles = NoChange => call.types = {}
    BY <1>1 DEF CallInv, Reports
  <2> QED BY <1>9, <2>1, <2>2 DEF Reports
<1>12. CallInv(y)'
  BY <1>8, <1>9, <1>10, <1>11 DEF CallInv, Echoes, SingleBitsSent
<1>13. permissions' \in [Perms -> {NoRow} \cup Masks]
  BY <1>1 DEF TitleInv
<1> QED BY <1>1, <1>7, <1>12, <1>13, OwnStep

\* A call of somebody else: what it changes is noted while the masks have been
\* read and the types have not.
LEMMA OtherKeeps ==
    ASSUME TitleInv, OtherCall
    PROVE  TitleInv' /\ [Next]_vars
<1>1. [Next]_vars
  BY DEF OtherCall, PermissionCall, TypeCall, vars
<1>2. permissions' \in [Perms -> {NoRow} \cup Masks]
  <2>0. permissions \in [Perms -> {NoRow} \cup Masks]
    BY DEF TitleInv
  <2>1. ASSUME NEW p \in Perms, NEW m \in {NoRow} \cup Masks, permissions' = [permissions EXCEPT ![p] = m]
        PROVE  permissions' \in [Perms -> {NoRow} \cup Masks]
    BY <2>0, <2>1
  <2> QED BY <2>0, <2>1 DEF OtherCall, PermissionCall, TypeCall, permissionCreate,
             permissionPatch, permissionDelete
<1>3. TypesInv'
  BY <1>1, NextKeeps DEF TitleInv
<1>4. CASE call = NoCall
  BY <1>1, <1>2, <1>3, <1>4 DEF TitleInv, OtherCall, At
<1>5. CASE call # NoCall
  <2>1. PICK changes : changes = Changes
    OBVIOUS
  <2>2. PICK y : y = [call EXCEPT !.changed = @ \cup changes]
    OBVIOUS
  <2>3. call' = y /\ CallInv(call) /\ call \in Call
    BY <1>5, <2>1, <2>2 DEF TitleInv, OtherCall, CallInv
  <2>4. /\ changes \in SUBSET {"row", "masks", "types"}
        /\ call.pc = "readback" /\ "row" \notin changes =>
              \A p \in call.perms : permissions'[p] = permissions[p]
        /\ call.pc = "render" /\ "masks" \notin changes =>
              \A p \in call.perms : permissions'[p] = permissions[p]
        /\ call.pc = "render" /\ "types" \notin changes => access_types' = access_types
    BY <1>5, <2>1 DEF Changes, RowsChange, At
  <2>5. y \in Call
    BY <2>2, <2>3, <2>4 DEF Call
  <2>6. /\ y.kind = call.kind /\ y.perms = call.perms /\ y.titles = call.titles
        /\ y.pc = call.pc /\ y.types = call.types /\ y.masks = call.masks /\ y.right = call.right
        /\ y.out = call.out /\ y.changed = call.changed \cup changes
    BY <2>2, <2>3 DEF Call
  <2>7. Echoes(y)'
    <3>1. Echoes(call)
      BY <2>3 DEF CallInv
    <3> QED BY <2>4, <2>6, <3>1 DEF Echoes, SingleBitsSent
  <2>8. /\ call.pc = "render" /\ "masks" \notin changes =>
              MasksRead(y.kind, y.perms)' = MasksRead(y.kind, y.perms)
        /\ call.pc = "render" /\ "types" \notin changes =>
              loadDomainAccessTypes' = loadDomainAccessTypes
    <3>1. ASSUME \A p \in call.perms : permissions'[p] = permissions[p]
          PROVE  MasksRead(y.kind, y.perms)' = MasksRead(y.kind, y.perms)
      <4>1. Live(y.perms)' = Live(y.perms)
        BY <2>6, <3>1 DEF Live
      <4>2. \A p \in Live(y.perms) : permissions'[p] = permissions[p]
        BY <2>6, <3>1 DEF Live
      <4> QED BY <4>1, <4>2 DEF MasksRead
    <3> QED BY <2>4, <3>1 DEF loadDomainAccessTypes, Rows
  <2>9. Reports(y)'
    <3>1. Reports(call)
      BY <2>3 DEF CallInv
    <3> QED BY <2>6, <2>8, <3>1 DEF Reports
  <2>10. CallInv(y)'
    BY <2>5, <2>7, <2>9 DEF CallInv
  <2> QED BY <1>1, <1>2, <1>3, <2>3, <2>10 DEF TitleInv
<1> QED BY <1>4, <1>5

LEMMA TitleStep ==
    ASSUME TitleInv, [TitleNext]_titleVars
    PROVE  TitleInv' /\ [Next]_vars
<1>1. CASE Start
  <2>1. ASSUME NEW T \in (SUBSET Titles) \cup {NoChange}, permissionCreateV2(T)
        PROVE  TitleInv' /\ [Next]_vars
    BY <2>1, StartKeeps DEF permissionCreateV2
  <2>2. ASSUME NEW T \in (SUBSET Titles) \cup {NoChange}, NEW p \in Perms, permissionPatchV2(p, T)
        PROVE  TitleInv' /\ [Next]_vars
    <3>1. CASE T = NoChange
      BY <2>2, <3>1, StartKeeps DEF permissionPatchV2
    <3>2. CASE T # NoChange
      BY <2>2, <3>2, StartKeeps DEF permissionPatchV2
    <3> QED BY <3>1, <3>2
  <2>3. ASSUME NEW kind \in {"get", "list", "authz"}, NEW P \in SUBSET Perms,
               Begin(kind, P, NoChange, "read")
        PROVE  TitleInv' /\ [Next]_vars
    <3>1. PICK T \in (SUBSET Titles) \cup {NoChange} : T = NoChange
      OBVIOUS
    <3>2. Begin(kind, P, T, "read") /\ kind # "create" /\ kind # "patch"
      BY <2>3, <3>1
    <3> QED BY <3>1, <3>2, StartKeeps
  <2>4. ASSUME NEW p \in Perms, permissionGetV2(p) PROVE TitleInv' /\ [Next]_vars
    BY <2>3, <2>4 DEF permissionGetV2
  <2>5. CASE permissionListV2
    BY <2>3, <2>5 DEF permissionListV2
  <2>6. ASSUME NEW P \in SUBSET Perms, authzV2(P) PROVE TitleInv' /\ [Next]_vars
    BY <2>3, <2>6 DEF authzV2
  <2> QED BY <1>1, <2>1, <2>2, <2>4, <2>5, <2>6 DEF Start
<1>2. ASSUME call' = NoCall, UNCHANGED <<access_types, req, permissions>>
      PROVE  TitleInv' /\ [Next]_vars
  <2>1. permissions' \in [Perms -> {NoRow} \cup Masks]
    BY <1>2 DEF TitleInv
  <2> QED BY <1>2, <2>1, OwnStep
<1>3. CASE Read
  <2>1. CASE call' = NoCall
    BY <1>2, <1>3, <2>1 DEF Read
  <2>2. CASE call' = [call EXCEPT !.pc = "render", !.masks = MasksRead(call.kind, call.perms),
                                  !.right = {RightAnswer}]
    <3>1. call # NoCall /\ call.titles = NoChange /\ UNCHANGED <<access_types, req, permissions>>
      BY <1>3 DEF Read, At, TitleInv, CallInv, Echoes
    <3>2. PICK masks : masks = MasksRead(call.kind, call.perms)
      OBVIOUS
    <3> QED BY <2>2, <3>1, <3>2, ReadKeeps
  <2> QED BY <1>3, <2>1, <2>2 DEF Read
<1>4. CASE Finish
  BY <1>2, <1>4 DEF Finish
<1>5. CASE UNCHANGED titleVars
  <2>1. UNCHANGED vars /\ UNCHANGED <<access_types, req, permissions>> /\ call' = call
    BY <1>5 DEF titleVars, vars
  <2>2. TypesInv'
    BY <2>1, NextKeeps DEF TitleInv
  <2>3. CASE call = NoCall
    BY <2>1, <2>2, <2>3 DEF TitleInv
  <2>4. CASE call # NoCall
    <3>1. CallInv(call)
      BY <2>4 DEF TitleInv
    <3>2. PICK y : y = call
      OBVIOUS
    <3>3. /\ MasksRead(y.kind, y.perms)' = MasksRead(y.kind, y.perms)
          /\ loadDomainAccessTypes' = loadDomainAccessTypes
      BY <2>1 DEF MasksRead, Live, loadDomainAccessTypes, Rows
    <3>4. CallInv(y)'
      BY <2>1, <3>1, <3>2, <3>3 DEF CallInv, Echoes, Reports, SingleBitsSent
    <3> QED BY <2>1, <2>2, <3>2, <3>4 DEF TitleInv
  <2> QED BY <2>1, <2>3, <2>4
<1> QED BY <1>1, <1>3, <1>4, <1>5, ConvertKeeps, WriteKeeps, ReadBackKeeps, RenderKeeps,
       OtherKeeps DEF TitleNext

\* The types, the masks and the v2 call are as the invariant says in every
\* reachable state.
THEOREM TitleInvariant == TitleSpec => []TitleInv
<1>1. TitleInit => TitleInv
  BY InitEstablishes DEF TitleInit, TitleInv
<1>2. TitleInv /\ [TitleNext]_titleVars => TitleInv'
  BY TitleStep
<1> QED BY <1>1, <1>2, PTL DEF TitleSpec

\* The v2 call has its type at every point between its store calls.
THEOREM TitleTypeCorrect == TitleSpec => []TitleTypeOK
<1>1. TitleInv => TitleTypeOK
  BY DEF TitleInv, TitleTypeOK, TypesInv, CallInv
<1> QED BY <1>1, TitleInvariant, PTL

\* permissionCreateV2 and permissionPatchV2 answer with the titles they were
\* asked for, whatever happens to the types between their store calls, unless
\* another client changed the patched row between the Commit and the read-back.
THEOREM AnswersEcho == TitleSpec => []AnswerEchoesRequest
<1>1. TitleInv => AnswerEchoesRequest
  BY DEF TitleInv, AnswerEchoesRequest, At, CallInv, Echoes
<1> QED BY <1>1, TitleInvariant, PTL

\* A v2 read reports one moment, unless both the masks and the types changed
\* between its two store calls.
THEOREM ReadsAreOfOneMoment == TitleSpec => []ReadsOneMoment
<1>1. TitleInv => ReadsOneMoment
  BY DEF TitleInv, ReadsOneMoment, At, CallInv, Reports
<1> QED BY <1>1, TitleInvariant, PTL

\* The mask a v2 create or patch writes is wrong only about types that changed
\* since they were loaded.
THEOREM MasksAreStaleOnly == TitleSpec => StaleTitlesOnly
<1> DEFINE Given ==
      SingleBitsSent /\ At("write") /\ call.titles # NoChange /\ call' # NoCall =>
         \A m \in call.masks :
            LET given == MaskToTitles(m, Rows).titles IN
            \A t \in Rows \cap call.types : t.title \in given <=> t.title \in call.titles
<1>1. TitleInv => Given
  <2> SUFFICES ASSUME TitleInv, SingleBitsSent, At("write"), call.titles # NoChange,
                      NEW m \in call.masks, NEW t \in Rows \cap call.types
               PROVE  t.title \in MaskToTitles(m, Rows).titles <=> t.title \in call.titles
    OBVIOUS
  <2>1. m = TitlesToMask(call.titles, call.types) /\ Unambiguous(call.types)
    BY DEF TitleInv, At, CallInv, Echoes
  <2>2. loadDomainAccessTypes = Rows
    BY LoadsAll DEF TitleInv
  <2>3. Unambiguous(Rows)
    BY <2>2, LoadedRows DEF TitleInv, Unambiguous
  <2>4. MaskToTitles(m, Rows).titles = { s.title : s \in { r \in Rows : r.bit \cap m # {} } }
    BY DEF MaskToTitles
  <2>5. PICK b \in Bits : t.bit = {b}
    BY <2>3 DEF Unambiguous, IsPowerOfTwo
  <2>6. t.title \in call.titles => b \in m
    BY <2>1, <2>5 DEF TitlesToMask
  <2>7. ASSUME b \in m PROVE t.title \in call.titles
    <3>1. PICK u \in call.types : u.title \in call.titles /\ b \in u.bit
      BY <2>1, <2>7 DEF TitlesToMask
    <3>2. u.bit = t.bit
      BY <2>1, <2>5, <3>1 DEF Unambiguous, IsPowerOfTwo
    <3> QED BY <2>1, <3>1, <3>2 DEF Unambiguous
  <2>8. t.title \in MaskToTitles(m, Rows).titles => b \in m
    BY <2>3, <2>4, <2>5 DEF Unambiguous
  <2>9. b \in m => t.title \in MaskToTitles(m, Rows).titles
    BY <2>4, <2>5
  <2> QED BY <2>6, <2>7, <2>8, <2>9
<1> QED BY <1>1, TitleInvariant, PTL DEF StaleTitlesOnly

=============================================================================
