----------------------------- MODULE AccessTypes -----------------------------
(***************************************************************************)
(* The access types of one domain: the named bits of a mask, the v1 calls  *)
(* that write them, the v2 create that draws the lowest unused bit, and    *)
(* the conversions between masks and titles.                               *)
(*                                                                         *)
(* A v2 create without a bit reads the types, picks a bit and inserts, in  *)
(* separate store calls with no transaction around them, and starts over   *)
(* when the insert meets a uniqueness conflict.  Every other call is one   *)
(* transaction and one step.  Titles are numbers: only their order, which  *)
(* is the order of a listing, and their equality matter.                   *)
(***************************************************************************)
EXTENDS Naturals, FiniteSets

CONSTANTS
    NumBits,    \* bits 0..NumBits-1 may be assigned: 63 in the code
    Titles,     \* titles, in their sort order
    Ids,        \* access type ids the server may draw
    SentBits,   \* the explicit bit values, as sets of bits, that clients send
    MaxRetries, \* maxRetries of accessTypeCreateV2: 2 in the code
    Clients,    \* concurrent v2 create requests
    NoRow,      \* no access type has this id
    Idle,       \* the client has no request under way
    NoChange    \* a nil field of a patch

Bits == 0..(NumBits - 1)
AccessType == [title : Titles, bit : SUBSET Bits]

\* parseUint64Validated(_, maxAccessMask) refuses bit 63.
ASSUME TypesAssumption ==
    /\ NumBits \in Nat \ {0} /\ MaxRetries \in Nat
    /\ Titles \subseteq Nat /\ SentBits \subseteq SUBSET Bits
    /\ NoRow \notin AccessType
    /\ NoChange \notin Titles /\ \A m \in SentBits : m # NoChange

VARIABLES
    access_types,   \* id -> its row, or NoRow
    req             \* client -> its v2 create request, or Idle

vars == <<access_types, req>>

\* A v2 create without a bit.  reason is the constraint the last insert met,
\* and rivals counts the changes others have made to the table since the
\* request began, up to one more than the retries.
Request ==
    [title : Titles, pc : {"load", "create", "reload", "conflict", "same_bit"}, bit : Bits,
     attempt : 0..MaxRetries, reason : {"none", "title", "bit"}, rivals : 0..(MaxRetries + 1)]

ASSUME IdleAssumption == Idle \notin Request

----------------------------------------------------------------------------
(* Package access, on a set of access type rows.  A uint64 mask is the set of *)
(* its one bits.                                                              *)

Rows == { access_types[i] : i \in { j \in Ids : access_types[j] # NoRow } }

\* Neither the type with bit 0 nor one outside the mask has its title listed;
\* a bit no listed type covers is the sentinel "_bit:V".
MaskToTitles_NoCover(mask, rows) ==
    LET listed == { t \in rows : t.bit \cap mask # {} } IN
    [titles |-> { t.title : t \in listed }, sentinels |-> mask]
MaskToTitles(mask, rows) ==
    LET listed == { t \in rows : t.bit \cap mask # {} } IN
    [titles |-> { t.title : t \in listed },
     sentinels |-> mask \ UNION { t.bit : t \in listed }]

\* A title with no type, or whose type has bit 0, is an UnknownTitleError.
KnownTitles(rows) == { t.title : t \in { s \in rows : s.bit # {} } }
TitlesToMask(titles, rows) == UNION { t.bit : t \in { s \in rows : s.title \in titles } }

\* AllocateNextBit: the lowest bit no type uses; ErrBitsExhausted when none is left.
UsedBits(rows) == UNION { t.bit : t \in rows }
IsNextBit(b, rows) == b \notin UsedBits(rows) /\ \A a \in Bits : a < b => a \in UsedBits(rows)
BitsExhausted(rows) == Bits \subseteq UsedBits(rows)

\* loadDomainAccessTypes: the first NumBits rows in the order of their titles.
loadDomainAccessTypes_OneShort ==
    { t \in Rows : Cardinality({ s \in Rows : s.title < t.title }) < NumBits - 1 }
loadDomainAccessTypes ==
    { t \in Rows : Cardinality({ s \in Rows : s.title < t.title }) < NumBits }

----------------------------------------------------------------------------
(* The table.  UNIQUE (domain_id, bit) and UNIQUE (domain_id, title).  *)

TitleTaken_Never(title) == FALSE
TitleTaken(title) == \E t \in Rows : t.title = title
BitTaken_Never(bit) == FALSE
BitTaken(bit) == \E t \in Rows : t.bit = bit

\* The row of AccessTypeCreate, under a fresh id.
AccessTypeCreate(title, bit) ==
    /\ ~ TitleTaken(title) /\ ~ BitTaken(bit)
    /\ \E i \in Ids : /\ access_types[i] = NoRow
                      /\ access_types' = [access_types EXCEPT ![i] = [title |-> title, bit |-> bit]]

\* Every request under way, but those of the clients in own, has one more rival.
Counted(r) == [r EXCEPT !.rivals = IF r.rivals > MaxRetries THEN r.rivals ELSE r.rivals + 1]
CountRival(own) ==
    [e \in Clients |-> IF e \in own \/ req[e] = Idle THEN req[e] ELSE Counted(req[e])]

----------------------------------------------------------------------------
(* Calls of one transaction.  *)

\* accessTypeCreate of v1 takes any bit value, 0 and several bits included.
accessTypeCreate(title, bit) ==
    /\ AccessTypeCreate(title, bit)
    /\ req' = CountRival({})

\* A v2 create with an explicit bit: a non-zero power of two.
IsPowerOfTwo(m) == \E b \in Bits : m = {b}

accessTypeCreateV2Explicit(title, bit) ==
    /\ IsPowerOfTwo(bit)
    /\ accessTypeCreate(title, bit)

AccessTypePatch(i, title, bit) ==
    LET old == access_types[i]
        new == [title |-> IF title = NoChange THEN old.title ELSE title,
                bit |-> IF bit = NoChange THEN old.bit ELSE bit]
        others == { access_types[j] : j \in { k \in Ids \ {i} : access_types[k] # NoRow } }
    IN
    /\ title # NoChange \/ bit # NoChange
    /\ access_types[i] # NoRow
    /\ \A t \in others : t.title # new.title /\ t.bit # new.bit
    /\ access_types' = [access_types EXCEPT ![i] = new]
    /\ req' = CountRival({})

AccessTypeDelete(i) ==
    /\ access_types[i] # NoRow
    /\ access_types' = [access_types EXCEPT ![i] = NoRow]
    /\ req' = CountRival({})

----------------------------------------------------------------------------
(* accessTypeCreateV2 without a bit, store call by store call.  *)

Running(c) == req[c] # Idle

Become(c, next) == req' = [req EXCEPT ![c] = next]

accessTypeCreateV2(c, title) ==
    /\ ~ Running(c)
    /\ Become(c, [title |-> title, pc |-> "load", bit |-> 0, attempt |-> 0,
                  reason |-> "none", rivals |-> 0])
    /\ UNCHANGED access_types

\* The first allocation.  Exhausted bits are a 409.
Allocate(c) ==
    /\ Running(c) /\ req[c].pc = "load"
    /\ \/ BitsExhausted(loadDomainAccessTypes) /\ Become(c, Idle)
       \/ \E b \in Bits : /\ IsNextBit(b, loadDomainAccessTypes)
                          /\ Become(c, [req[c] EXCEPT !.pc = "create", !.bit = b])
    /\ UNCHANGED access_types

Create(c) ==
    /\ Running(c) /\ req[c].pc = "create"
    /\ AccessTypeCreate(req[c].title, {req[c].bit})
    /\ req' = [CountRival({c}) EXCEPT ![c] = Idle]

\* The insert meets a constraint: another attempt, or the conflict is the answer.
Conflict_OneTryLess(c) ==
    /\ Running(c) /\ req[c].pc = "create"
    /\ TitleTaken(req[c].title) \/ BitTaken({req[c].bit})
    /\ Become(c, [req[c] EXCEPT !.pc = IF req[c].attempt + 1 = MaxRetries THEN "conflict" ELSE "reload",
                                !.reason = IF TitleTaken(req[c].title) THEN "title" ELSE "bit"])
    /\ UNCHANGED access_types
Conflict_Forever(c) ==
    /\ Running(c) /\ req[c].pc = "create"
    /\ TitleTaken(req[c].title) \/ BitTaken({req[c].bit})
    /\ Become(c, [req[c] EXCEPT !.pc = "reload",
                                !.reason = IF TitleTaken(req[c].title) THEN "title" ELSE "bit"])
    /\ UNCHANGED access_types
Conflict(c) ==
    /\ Running(c) /\ req[c].pc = "create"
    /\ TitleTaken(req[c].title) \/ BitTaken({req[c].bit})
    /\ Become(c, [req[c] EXCEPT !.pc = IF req[c].attempt = MaxRetries THEN "conflict" ELSE "reload",
                                !.reason = IF TitleTaken(req[c].title) THEN "title" ELSE "bit"])
    /\ UNCHANGED access_types

\* The allocation of a retry.  The same bit again is answered as a conflict.
Reallocate(c) ==
    /\ Running(c) /\ req[c].pc = "reload"
    /\ \/ BitsExhausted(loadDomainAccessTypes) /\ Become(c, Idle)
       \/ \E b \in Bits :
             /\ IsNextBit(b, loadDomainAccessTypes)
             /\ \/ b = req[c].bit /\ Become(c, [req[c] EXCEPT !.pc = "same_bit"])
                \/ /\ b # req[c].bit
                   /\ Become(c, [req[c] EXCEPT !.pc = "create", !.bit = b,
                                               !.attempt = req[c].attempt + 1])
    /\ UNCHANGED access_types

\* A conflict has been answered.
Refused(c) == Running(c) /\ req[c].pc \in {"conflict", "same_bit"}

Answer(c) ==
    /\ Refused(c)
    /\ Become(c, Idle)
    /\ UNCHANGED access_types

\* The request's context is cancelled, or a store call fails.
Cancel(c) ==
    /\ Running(c)
    /\ Become(c, Idle)
    /\ UNCHANGED access_types

----------------------------------------------------------------------------

Init ==
    /\ access_types = [i \in Ids |-> NoRow]
    /\ req = [c \in Clients |-> Idle]

CreateStep ==
    \/ \E title \in Titles, bit \in SentBits :
          accessTypeCreate(title, bit) \/ accessTypeCreateV2Explicit(title, bit)
    \/ \E c \in Clients :
          \/ \E title \in Titles : accessTypeCreateV2(c, title)
          \/ Allocate(c) \/ Create(c) \/ Conflict(c) \/ Reallocate(c)
          \/ Answer(c) \/ Cancel(c)

Next ==
    \/ CreateStep
    \/ \E i \in Ids :
          \/ \E title \in Titles \cup {NoChange}, bit \in SentBits \cup {NoChange} :
                AccessTypePatch(i, title, bit)
          \/ AccessTypeDelete(i)

Spec == Init /\ [][Next]_vars

----------------------------------------------------------------------------
(* Properties.  *)

\* Rows are rows of the schema, and every request is one of the code's.
TypeOK ==
    /\ access_types \in [Ids -> {NoRow} \cup AccessType]
    /\ req \in [Clients -> {Idle} \cup Request]

\* What most of the next properties need: v1 creates and patches accept more.
SingleBitsSent == \A m \in SentBits : IsPowerOfTwo(m)

\* One bit per title per domain: while clients send single bits, no two types
\* share a bit, whatever bits are allocated, patched and freed meanwhile.
OneBitPerTitle ==
    SingleBitsSent =>
        \A i, j \in Ids :
            i # j /\ access_types[i] # NoRow /\ access_types[j] # NoRow
               => access_types[i].bit \cap access_types[j].bit = {}

\* A v2 client sees what it asked for, and what is stored: titles turned into a
\* mask come back as the same titles with no sentinel, and no mask loses or
\* gains a bit on its way to titles and back.
TitlesRoundTrip ==
    LET rows == loadDomainAccessTypes IN
    SingleBitsSent =>
        /\ \A T \in SUBSET KnownTitles(rows) :
              MaskToTitles(TitlesToMask(T, rows), rows) = [titles |-> T, sentinels |-> {}]
        /\ \A m \in SUBSET Bits :
              LET out == MaskToTitles(m, rows)
              IN TitlesToMask(out.titles, rows) \cup out.sentinels = m

\* loadDomainAccessTypes returns all access types of the domain: at most
\* maxAccessTypesPerDomain rows can exist, one per available bit.  Clients that
\* send 0 or several bits to the v1 endpoints can make more.
LoadIsComplete == SingleBitsSent => loadDomainAccessTypes = Rows

\* The retries are enough: accessTypeCreateV2 gives up over a bit only when
\* others changed the table more often than it retries, or took the bit and
\* gave it back between the insert and the reload.
RetriesSuffice ==
    SingleBitsSent =>
        \A c \in Clients :
            Refused(c) /\ req[c].reason = "bit" =>
                req[c].rivals > IF req[c].pc = "same_bit" THEN 1 ELSE MaxRetries

=============================================================================
