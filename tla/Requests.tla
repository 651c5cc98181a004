------------------------------- MODULE Requests -------------------------------
(***************************************************************************)
(* A request's way through the router: CORS first, then the metrics, then  *)
(* the Bearer token, then a handler that reads its input, calls the store  *)
(* and answers.  The handlers differ in what they decode and in the store  *)
(* call; what they share is here.  A check is authzCheck or authzMasks, a  *)
(* read is a get or one of the authz listings, a list is a page of an      *)
(* entity's rows, a mutation is a handler with one store call, an audit    *)
(* event and a 2xx answer, and a patch is a mutation whose store call      *)
(* reads the row again after it was committed; patchV2 is                  *)
(* permissionPatchV2, which may load the access types for its answer after *)
(* the audit event.                                                        *)
(***************************************************************************)
EXTENDS Naturals, Sequences

CONSTANTS
    Clients,        \* clients, each with one request at a time
    TokenRequired,  \* APIBearerToken is set
    Idle            \* no request

ASSUME TokenAssumption == TokenRequired \in BOOLEAN

VARIABLES
    req             \* client -> how far its request is, or Idle

Kinds == {"preflight", "health", "check", "read", "list", "mutation", "patch", "patchV2"}
ApiKinds == {"check", "read", "list", "mutation", "patch", "patchV2"}
Mutations == {"mutation", "patch", "patchV2"}
Patches == {"patch", "patchV2"}

Statuses == {0, 200, 204, 400, 401, 404, 409, 413, 500}

\* A request at process at.  committed is what the store did; http and authz
\* are the request's increments of http_requests_total and authz_checks_total.
Request(processes) ==
    [at : processes, kind : Kinds, pc : {"running", "audit", "done"}, status : Statuses,
     committed : BOOLEAN, audited : BOOLEAN, http : Seq(Statuses), authz : Seq({"ok", "err"})]

----------------------------------------------------------------------------

Active(q) == req[q] # Idle
InFlight(q, p) == Active(q) /\ req[q].at = p /\ req[q].pc # "done"

Arrive(q, p, kind) ==
    /\ ~ Active(q)
    /\ req' = [req EXCEPT ![q] =
                  [at |-> p, kind |-> kind, pc |-> "running", status |-> 0, committed |-> FALSE,
                   audited |-> FALSE, http |-> <<>>, authz |-> <<>>]]

At(q, kinds) == Active(q) /\ req[q].pc = "running" /\ req[q].kind \in kinds

\* The metrics middleware, after the handler has returned: /health and /metrics
\* are left out.
Count(r) == [r EXCEPT !.http = IF r.kind \in ApiKinds THEN Append(@, r.status) ELSE @]

\* What wraps the handler has answered for it.
Answer(r, status) == Count([r EXCEPT !.status = status, !.pc = "done"])

\* The handler answers and returns; authzCheck and authzMasks have deferred
\* recordAuthz(result).
Return(r, result, status) ==
    Answer([r EXCEPT !.authz = IF r.kind = "check" THEN Append(@, result) ELSE @], status)

\* CORSMiddleware answers a preflight of an allowed origin and calls nothing
\* else: no metrics, no token.
Preflight(q) ==
    /\ At(q, {"preflight"})
    /\ req' = [req EXCEPT ![q].status = 204, ![q].pc = "done"]

Health(q) ==
    /\ At(q, {"health"})
    /\ req' = [req EXCEPT ![q] = Answer(@, 200)]

\* BearerAuth: the token is missing or wrong.
Unauthorized(q) ==
    /\ At(q, ApiKinds) /\ TokenRequired
    /\ req' = [req EXCEPT ![q] = Answer(@, 401)]

\* readJSON, parseUint64Validated or the checks of required parameters refuse
\* the input; only a body can be too large.
BadInput(q) ==
    /\ At(q, ApiKinds)
    /\ \/ req' = [req EXCEPT ![q] = Return(@, "err", 400)]
       \/ req[q].kind \in Mutations /\ req' = [req EXCEPT ![q] = Return(@, "err", 413)]

\* writeStoreErr: the status of an error of the store.
writeStoreErr(err) ==
    CASE err = "ErrNotFound" -> 404
      [] err = "ErrFKViolation" -> 400
      [] err = "ErrInvalidInput" -> 400
      [] err = "ErrConflict" -> 409
      [] OTHER -> 500

\* The store's own refusals; any other error is a cancelled context, a lost
\* connection or a closed database.
Refusals == {"ErrNotFound", "ErrFKViolation", "ErrInvalidInput", "ErrConflict"}

\* The handler returns with an error of the store: a list has writeInternalErr.
ReturnErrOf(r, err) ==
    Return(r, "err", IF r.kind = "list" THEN 500 ELSE writeStoreErr(err))

\* The store call of a handler succeeds.
StoreOK(q, open) ==
    /\ At(q, ApiKinds) /\ open
    /\ \/ /\ req[q].kind \notin Mutations
          /\ req' = [req EXCEPT ![q] = Return(@, "ok", 200)]
       \/ /\ req[q].kind \in Mutations
          /\ req' = [req EXCEPT ![q].committed = TRUE, ![q].pc = "audit"]

\* It fails and has changed nothing.
StoreErr_ResultOK(q, open) ==
    /\ At(q, ApiKinds)
    /\ \E err \in Refusals \cup {"other"} :
          /\ err \in Refusals => open
          /\ req' = [req EXCEPT ![q] = Return(@, "ok", ReturnErrOf(@, err).status)]
StoreErr(q, open) ==
    /\ At(q, ApiKinds)
    /\ \E err \in Refusals \cup {"other"} :
          /\ err \in Refusals => open
          /\ req' = [req EXCEPT ![q] = ReturnErrOf(@, err)]

\* It fails and the change is committed: a lost connection may hide that, and
\* the row a patch reads again may be gone.
StoreCommittedErr(q, open) ==
    /\ At(q, Mutations) /\ open
    /\ \E err \in {"other"} \cup (IF req[q].kind \in Patches THEN {"ErrNotFound"} ELSE {}) :
          req' = [req EXCEPT ![q] = ReturnErrOf([@ EXCEPT !.committed = TRUE], err)]

\* auditLog, then the 2xx answer of a mutation (201, 200 or 204), or the error
\* of the types that permissionPatchV2 loads for its answer.
Audit_Missing(q) ==
    /\ Active(q) /\ req[q].pc = "audit"
    /\ req' = [req EXCEPT ![q] = Return(@, "ok", 204)]
Audit(q) ==
    LET r == [req[q] EXCEPT !.audited = TRUE] IN
    /\ Active(q) /\ req[q].pc = "audit"
    /\ \/ req' = [req EXCEPT ![q] = Return(r, "ok", 204)]
       \/ r.kind = "patchV2" /\ req' = [req EXCEPT ![q] = Return(r, "err", 500)]

\* The connection takes its next request.
Forget(q) ==
    /\ Active(q) /\ req[q].pc = "done"
    /\ req' = [req EXCEPT ![q] = Idle]

\* The handler goes on.
HandlerStep(q, open) ==
    \/ Preflight(q) \/ Health(q) \/ Unauthorized(q) \/ BadInput(q)
    \/ StoreOK(q, open) \/ StoreErr(q, open) \/ StoreCommittedErr(q, open) \/ Audit(q)

----------------------------------------------------------------------------
(* Properties.  *)

\* An API request that has left the router is in http_requests_total once,
\* with the status the client got; a check is in authz_checks_total exactly
\* once, as "ok" if and only if it answered 200, on every path through the
\* handler; what never reached the handler is not in it.
CountersMatchAnswers ==
    \A q \in Clients : Active(q) /\ req[q].pc = "done" =>
        LET r == req[q] IN
        /\ r.http = IF r.kind \in ApiKinds THEN <<r.status>> ELSE <<>>
        /\ r.authz = IF r.kind = "check" /\ r.status # 401
                     THEN <<IF r.status = 200 THEN "ok" ELSE "err">> ELSE <<>>

\* What a mutation's answer says is true: 2xx means committed and audited, a
\* 4xx that nothing changed, except for the 404 of a patch, whose row may have
\* been deleted after it was patched.  An audit event reports a change that
\* was committed, also when permissionPatchV2 answers 500 after it.
AnswerTellsEffect ==
    \A q \in Clients : Active(q) /\ req[q].pc = "done" /\ req[q].kind \in Mutations =>
        LET r == req[q] IN
        /\ r.status = 204 => r.audited
        /\ r.audited => r.committed
        /\ r.status \in 400..499 /\ r.committed => r.kind \in Patches /\ r.status = 404

=============================================================================
