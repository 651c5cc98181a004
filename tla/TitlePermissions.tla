-------------------------- MODULE TitlePermissions --------------------------
(***************************************************************************)
(* The v2 permission and authz endpoints of one domain, which speak titles *)
(* where the store keeps masks.  Such a call loads the access types in one *)
(* store call and reads or writes masks in another, with no transaction    *)
(* around them: types and masks may change in between.  One v2 call is     *)
(* followed here, against all other calls, each of which is one step (the  *)
(* SQLite store; PermissionTransactions has the patch of the others).      *)
(*                                                                         *)
(* Of a permission only its mask is kept.                                  *)
(***************************************************************************)
EXTENDS AccessTypes

CONSTANTS
    Perms,      \* permission ids
    NoCall      \* no v2 call is under way

VARIABLES
    permissions,    \* permission id -> its access_mask, or NoRow
    call            \* the v2 call under way, or NoCall

titleVars == <<access_types, req, permissions, call>>

Masks == SUBSET Bits
Reply == [titles : SUBSET Titles, sentinels : Masks]

\* titles is what the body asks for, and NoChange in a read or in a patch of
\* other fields.  types is the list loaded, masks what the store was given or
\* returned, out the answer.  right holds the answers that were right when the
\* masks and when the types for the answer were read.  changed is what others
\* changed: the row of a patch between its Commit and its read-back, the masks
\* and the types between the two reads of the answer.
Call ==
    [kind : {"create", "patch", "get", "list", "authz"}, perms : SUBSET Perms,
     titles : (SUBSET Titles) \cup {NoChange},
     pc : {"convert", "write", "readback", "read", "render", "done"},
     types : SUBSET AccessType, masks : SUBSET Masks, out : SUBSET Reply,
     right : SUBSET (SUBSET Reply), changed : SUBSET {"row", "masks", "types"}]

ASSUME CallAssumption ==
    /\ NoCall \notin Call
    /\ \A m \in Masks : m # NoRow
    /\ \A T \in SUBSET Titles : T # NoChange

----------------------------------------------------------------------------
(* What a call reads.  *)

Live(P) == { p \in P : permissions[p] # NoRow }

\* One mask per permission, or, in the authz endpoints, the OR of the masks
\* somebody holds on a resource.
MasksRead(kind, P) ==
    IF kind = "authz"
    THEN { UNION { permissions[p] : p \in Live(P) } }
    ELSE { permissions[p] : p \in Live(P) }

toPermissionResponseV2(masks, types) == { MaskToTitles(m, types) : m \in masks }

\* The answer to the call that is right now.
RightAnswer == toPermissionResponseV2(MasksRead(call.kind, call.perms), loadDomainAccessTypes)

----------------------------------------------------------------------------
(* The v2 calls, store call by store call.  *)

At(label) == call # NoCall /\ call.pc = label

Begin(kind, P, titles, label) ==
    /\ call = NoCall
    /\ call' = [kind |-> kind, perms |-> P, titles |-> titles, pc |-> label,
                types |-> {}, masks |-> {}, out |-> {}, right |-> {}, changed |-> {}]
    /\ UNCHANGED <<access_types, req, permissions>>

permissionCreateV2(titles) == titles # NoChange /\ Begin("create", {}, titles, "convert")
permissionPatchV2(p, titles) ==
    Begin("patch", {p}, titles, IF titles = NoChange THEN "write" ELSE "convert")
permissionGetV2(p) == Begin("get", {p}, NoChange, "read")
permissionListV2 == Begin("list", Perms, NoChange, "read")
authzV2(P) == Begin("authz", P, NoChange, "read")

\* Bits counted from one.
Convert_FromOne ==
    LET types == loadDomainAccessTypes IN
    /\ At("convert") /\ call.titles \subseteq KnownTitles(types)
    /\ call' = [call EXCEPT !.pc = "write", !.types = types,
                            !.masks = {{ b + 1 : b \in TitlesToMask(call.titles, types) }}]
    /\ UNCHANGED <<access_types, req, permissions>>
\* The types are loaded; an unknown title is a 400.
Convert ==
    LET types == loadDomainAccessTypes
        known == call.titles \subseteq KnownTitles(types)
    IN
    /\ At("convert")
    /\ \/ ~ known /\ call' = NoCall
       \/ /\ known
          /\ call' = [call EXCEPT !.pc = "write", !.types = types,
                                  !.masks = {TitlesToMask(call.titles, types)}]
    /\ UNCHANGED <<access_types, req, permissions>>

WriteCreate ==
    /\ At("write") /\ call.kind = "create"
    /\ \E p \in Perms, m \in call.masks :
          permissions[p] = NoRow /\ permissions' = [permissions EXCEPT ![p] = m]
    /\ call' = [call EXCEPT !.pc = "done", !.out = toPermissionResponseV2(call.masks, call.types)]
    /\ UNCHANGED <<access_types, req>>

\* A patch without titles leaves the mask alone.  A row that is gone is a 404.
WritePatch ==
    /\ At("write") /\ call.kind = "patch"
    /\ \E p \in call.perms :
          \/ permissions[p] = NoRow /\ call' = NoCall /\ UNCHANGED permissions
          \/ /\ permissions[p] # NoRow
             /\ \/ call.titles = NoChange /\ UNCHANGED permissions
                \/ /\ call.titles # NoChange
                   /\ \E m \in call.masks : permissions' = [permissions EXCEPT ![p] = m]
             /\ call' = [call EXCEPT !.pc = "readback"]
    /\ UNCHANGED <<access_types, req>>

\* A response rendered from types loaded after the write.
ReadBack_Reloads ==
    /\ At("readback")
    /\ \E p \in call.perms :
          \/ permissions[p] = NoRow /\ call' = NoCall
          \/ /\ permissions[p] # NoRow
             /\ call' = [call EXCEPT !.pc = "render", !.masks = {permissions[p]},
                                     !.right = {RightAnswer}]
    /\ UNCHANGED <<access_types, req, permissions>>
\* The PermissionGet after the Commit, outside the transaction: another client
\* may have patched or deleted the row by then.  Types that were not loaded,
\* or of which there are none (a nil slice), are loaded for the response.
ReadBack ==
    /\ At("readback")
    /\ \E p \in call.perms :
          \/ permissions[p] = NoRow /\ call' = NoCall
          \/ /\ permissions[p] # NoRow /\ call.types = {}
             /\ call' = [call EXCEPT !.pc = "render", !.masks = {permissions[p]},
                                     !.right = {RightAnswer}]
          \/ /\ permissions[p] # NoRow /\ call.types # {}
             /\ call' = [call EXCEPT !.pc = "done", !.masks = {permissions[p]},
                            !.out = toPermissionResponseV2({permissions[p]}, call.types)]
    /\ UNCHANGED <<access_types, req, permissions>>

\* A permission that is not there is a 404.
Read ==
    /\ At("read")
    /\ \/ call.kind = "get" /\ Live(call.perms) = {} /\ call' = NoCall
       \/ /\ call.kind = "get" => Live(call.perms) # {}
          /\ call' = [call EXCEPT !.pc = "render", !.masks = MasksRead(call.kind, call.perms),
                                  !.right = {RightAnswer}]
    /\ UNCHANGED <<access_types, req, permissions>>

\* The types for the response are not loaded.
Render_NilTypes ==
    /\ At("render")
    /\ call' = [call EXCEPT !.pc = "done", !.right = @ \cup {RightAnswer},
                            !.out = toPermissionResponseV2(call.masks, {})]
    /\ UNCHANGED <<access_types, req, permissions>>
Render ==
    /\ At("render")
    /\ call' = [call EXCEPT !.pc = "done", !.right = @ \cup {RightAnswer},
                            !.out = toPermissionResponseV2(call.masks, loadDomainAccessTypes)]
    /\ UNCHANGED <<access_types, req, permissions>>

\* The answer is sent, the request's context is cancelled, or a store call fails.
Finish ==
    /\ call # NoCall
    /\ call' = NoCall
    /\ UNCHANGED <<access_types, req, permissions>>

----------------------------------------------------------------------------
(* The calls of other clients.  *)

permissionCreate(p, m) ==
    permissions[p] = NoRow /\ permissions' = [permissions EXCEPT ![p] = m]
permissionPatch(p, m) ==
    permissions[p] # NoRow /\ permissions' = [permissions EXCEPT ![p] = m]
permissionDelete(p) ==
    permissions[p] # NoRow /\ permissions' = [permissions EXCEPT ![p] = NoRow]

PermissionCall ==
    /\ \E p \in Perms : \/ \E m \in Masks : permissionCreate(p, m) \/ permissionPatch(p, m)
                        \/ permissionDelete(p)
    /\ UNCHANGED <<access_types, req>>

TypeCall == Next /\ UNCHANGED permissions

RowsChange == \E p \in call.perms : permissions'[p] # permissions[p]

\* What the step changes that the call is about to read, or has read.
Changes ==
    (IF At("readback") /\ RowsChange THEN {"row"} ELSE {})
    \cup (IF At("render") /\ RowsChange THEN {"masks"} ELSE {})
    \cup (IF At("render") /\ access_types' # access_types THEN {"types"} ELSE {})

OtherCall ==
    /\ PermissionCall \/ TypeCall
    /\ call' = IF call = NoCall THEN NoCall ELSE [call EXCEPT !.changed = @ \cup Changes]

----------------------------------------------------------------------------

TitleInit ==
    /\ Init
    /\ permissions = [p \in Perms |-> NoRow]
    /\ call = NoCall

Start ==
    \/ \E T \in (SUBSET Titles) \cup {NoChange} :
          permissionCreateV2(T) \/ \E p \in Perms : permissionPatchV2(p, T)
    \/ \E p \in Perms : permissionGetV2(p)
    \/ permissionListV2
    \/ \E P \in SUBSET Perms : authzV2(P)

TitleNext ==
    \/ Start
    \/ Convert \/ WriteCreate \/ WritePatch \/ ReadBack \/ Read \/ Render \/ Finish
    \/ OtherCall

TitleSpec == TitleInit /\ [][TitleNext]_titleVars

----------------------------------------------------------------------------
(* Properties.  *)

\* Masks are masks, and the call is one of the code's.
TitleTypeOK ==
    /\ TypeOK
    /\ permissions \in [Perms -> {NoRow} \cup Masks]
    /\ call \in {NoCall} \cup Call

\* A v2 create or patch answers with the titles it was asked for, and no
\* sentinel, whatever happens to the types between its store calls, unless
\* another client changed a patch's row between its Commit and its read-back.
AnswerEchoesRequest ==
    SingleBitsSent /\ At("done") /\ call.titles # NoChange /\ "row" \notin call.changed
        => call.out = {[titles |-> call.titles, sentinels |-> {}]}

\* A mask written for titles means, when it is written, those titles up to the
\* types that changed since they were loaded: a title it gives beyond those
\* asked for belongs to a type that is new or changed, and a title asked for
\* whose type is unchanged is given.
StaleTitlesOnly ==
    [][SingleBitsSent /\ At("write") /\ call.titles # NoChange /\ call' # NoCall =>
         \A m \in call.masks :
            LET given == MaskToTitles(m, Rows).titles IN
            \A t \in Rows \cap call.types : t.title \in given <=> t.title \in call.titles]_titleVars

\* A v2 read, or a patch without titles, reports what was true at one moment,
\* when it read the masks or when it read the types, unless both were changed
\* in between.
ReadsOneMoment ==
    At("done") /\ call.titles = NoChange /\ ~ ({"masks", "types"} \subseteq call.changed)
        => call.out \in call.right

=============================================================================
