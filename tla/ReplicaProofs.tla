---------------------------- MODULE ReplicaProofs ----------------------------
(***************************************************************************)
(* Proofs about Replica, for any set of migration files and any number of  *)
(* replicas, clients and mishaps: what requests and the process do, and that *)
(* the database moves from one version to the next as SchemaVersions says, *)
(* whatever replicas run side by side, crash and are started again.        *)
(***************************************************************************)
EXTENDS Replica, TLAPS

----------------------------------------------------------------------------
(* Requests.  *)

\* What has happened to a request, by how far it is.
Sound(r) ==
    /\ r.pc # "done" => r.http = <<>> /\ r.authz = <<>> /\ ~ r.audited
    /\ r.pc = "running" => ~ r.committed
    /\ r.pc = "audit" => r.kind \in Mutations /\ r.committed
    /\ r.pc = "done" =>
         /\ r.http = IF r.kind \in ApiKinds THEN <<r.status>> ELSE <<>>
         /\ r.authz = IF r.kind = "check" /\ r.status # 401
                      THEN <<IF r.status = 200 THEN "ok" ELSE "err">> ELSE <<>>
         /\ r.kind \in Mutations =>
              /\ r.status = 204 => r.audited
              /\ r.audited => r.committed
              /\ r.status \in 400..499 /\ r.committed => r.kind \in Patches /\ r.status = 404

SoundRequest == { r \in Request(Replicas) : Sound(r) }

RequestsInv == req \in [Clients -> {Idle} \cup SoundRequest]

\* What the metrics middleware leaves of a request it has seen end.
LEMMA AnswerFields ==
    ASSUME NEW r \in Request(Replicas), NEW status \in Statuses, r.http = <<>>
    PROVE  LET s == Answer(r, status) IN
           /\ s \in Request(Replicas) /\ s.pc = "done" /\ s.status = status
           /\ s.kind = r.kind /\ s.at = r.at
           /\ s.committed = r.committed /\ s.audited = r.audited /\ s.authz = r.authz
           /\ s.http = IF r.kind \in ApiKinds THEN <<status>> ELSE <<>>
<1> DEFINE a == [r EXCEPT !.status = status, !.pc = "done"]
           s == Answer(r, status)
<1>1. /\ a \in Request(Replicas) /\ a.pc = "done" /\ a.status = status
      /\ a.kind = r.kind /\ a.at = r.at /\ a.http = <<>>
      /\ a.committed = r.committed /\ a.audited = r.audited /\ a.authz = r.authz
  BY DEF Request
<1>2. Append(<<>>, status) = <<status>> /\ <<status>> \in Seq(Statuses)
  OBVIOUS
<1>3. s = [a EXCEPT !.http = IF r.kind \in ApiKinds THEN <<status>> ELSE <<>>]
  BY <1>1, <1>2 DEF Answer, Count
<1> HIDE DEF a, s
<1>4. (IF r.kind \in ApiKinds THEN <<status>> ELSE <<>>) \in Seq(Statuses)
  BY <1>2
<1> QED BY <1>1, <1>3, <1>4 DEF Request, s

\* What an API handler leaves when it returns.
LEMMA ReturnFields ==
    ASSUME NEW r \in Request(Replicas), NEW status \in Statuses, NEW res \in {"ok", "err"},
           r.http = <<>>, r.authz = <<>>, r.kind \in ApiKinds
    PROVE  LET s == Return(r, res, status) IN
           /\ s \in Request(Replicas) /\ s.pc = "done" /\ s.status = status
           /\ s.kind = r.kind /\ s.at = r.at
           /\ s.committed = r.committed /\ s.audited = r.audited
           /\ s.authz = IF r.kind = "check" THEN <<res>> ELSE <<>>
           /\ s.http = <<status>>
<1> DEFINE a == [r EXCEPT !.authz = IF r.kind = "check" THEN <<res>> ELSE <<>>]
<1>1. Append(<<>>, res) = <<res>> /\ <<res>> \in Seq({"ok", "err"})
  OBVIOUS
<1>2. /\ a \in Request(Replicas) /\ a.kind = r.kind /\ a.at = r.at /\ a.http = <<>>
      /\ a.committed = r.committed /\ a.audited = r.audited
      /\ a.authz = IF r.kind = "check" THEN <<res>> ELSE <<>>
  BY <1>1 DEF Request
<1>3. Return(r, res, status) = Answer(a, status)
  BY <1>1 DEF Return
<1> DEFINE b == Answer(a, status)
<1> HIDE DEF a
<1>4. /\ b \in Request(Replicas) /\ b.pc = "done" /\ b.status = status
      /\ b.kind = a.kind /\ b.at = a.at
      /\ b.committed = a.committed /\ b.audited = a.audited /\ b.authz = a.authz
      /\ b.http = IF a.kind \in ApiKinds THEN <<status>> ELSE <<>>
  BY <1>2, AnswerFields
<1> HIDE DEF b
<1> QED BY <1>2, <1>3, <1>4 DEF b

\* The statuses the table of writeStoreErr has.
LEMMA StoreErrStatus ==
    ASSUME NEW err \in Refusals \cup {"other"}
    PROVE  /\ writeStoreErr(err) \in {400, 404, 409, 500}
           /\ err = "other" => writeStoreErr(err) = 500
           /\ err = "ErrNotFound" => writeStoreErr(err) = 404
BY DEF Refusals, writeStoreErr

\* A handler step keeps the request it works on sound and where it is, and a
\* request that has been answered is not answered again.
LEMMA HandlerSound ==
    ASSUME RequestsInv, NEW q \in Clients, Active(q), NEW open \in BOOLEAN, HandlerStep(q, open)
    PROVE  \E s \in SoundRequest :
              /\ req' = [req EXCEPT ![q] = s]
              /\ s.at = req[q].at /\ req[q].pc # "done"
<1> DEFINE r == req[q]
<1>r. r \in Request(Replicas) /\ Sound(r)
  BY DEF RequestsInv, SoundRequest, Active
<1>f. r.kind \in Kinds /\ r.pc \in {"running", "audit", "done"} /\ r.at \in Replicas
  BY <1>r DEF Request
<1>b. /\ r.pc # "done" => ~ r.audited /\ r.http = <<>> /\ r.authz = <<>>
      /\ r.pc = "running" => ~ r.committed
  <2>1. r.audited \in BOOLEAN /\ r.committed \in BOOLEAN
    BY <1>r DEF Request
  <2> QED BY <2>1, <1>r DEF Sound
<1>s. Statuses = {0, 200, 204, 400, 401, 404, 409, 413, 500}
  BY DEF Statuses
<1>1. CASE Preflight(q)
  <2> DEFINE s == [r EXCEPT !.status = 204, !.pc = "done"]
  <2>0. r.kind = "preflight" /\ r.http = <<>> /\ r.authz = <<>>
    BY <1>1, <1>r DEF Preflight, At, Sound
  <2>1. /\ s \in Request(Replicas) /\ s.pc = "done" /\ s.status = 204 /\ s.kind = r.kind
        /\ s.at = r.at /\ s.http = r.http /\ s.authz = r.authz
    <3>1. 204 \in Statuses
      BY <1>s
    <3> HIDE DEF r
    <3> QED BY <1>r, <3>1 DEF Request
  <2>2. req' = [req EXCEPT ![q] = s] /\ r.pc # "done"
    BY <1>1, <1>r DEF Preflight, At, RequestsInv
  <2> HIDE DEF s
  <2>3. Sound(s)
    BY <2>0, <2>1 DEF Sound, ApiKinds, Mutations
  <2> QED BY <2>1, <2>2, <2>3 DEF SoundRequest
<1>2. CASE Health(q)
  <2> DEFINE s == Answer(r, 200)
  <2>1. r.pc = "running" /\ r.kind = "health" /\ req' = [req EXCEPT ![q] = s]
    BY <1>2 DEF Health, At
  <2>2. /\ s \in Request(Replicas) /\ s.pc = "done" /\ s.kind = "health" /\ s.at = r.at
        /\ s.http = <<>> /\ s.authz = <<>>
    BY <2>1, <1>r, <1>s, AnswerFields DEF Sound, ApiKinds
  <2> HIDE DEF s
  <2> QED BY <2>1, <2>2 DEF SoundRequest, Sound, ApiKinds, Mutations
<1>3. CASE Unauthorized(q)
  <2> DEFINE s == Answer(r, 401)
  <2>1. r.pc = "running" /\ r.kind \in ApiKinds /\ req' = [req EXCEPT ![q] = s]
    BY <1>3 DEF Unauthorized, At
  <2>2. /\ s \in Request(Replicas) /\ s.pc = "done" /\ s.kind = r.kind /\ s.at = r.at
        /\ s.status = 401 /\ s.http = <<401>> /\ s.authz = <<>>
        /\ s.audited = r.audited /\ s.committed = r.committed
    BY <2>1, <1>r, <1>s, AnswerFields DEF Sound
  <2>3. ~ r.audited /\ ~ r.committed
    BY <2>1, <1>r DEF Sound
  <2> HIDE DEF s
  <2>4. Sound(s)
    BY <2>1, <2>2, <2>3 DEF Sound
  <2> QED BY <2>1, <2>2, <2>4 DEF SoundRequest
<1>4. ASSUME NEW x \in Request(Replicas), x.kind = r.kind, x.at = r.at, ~ x.audited,
             x.http = <<>>, x.authz = <<>>,
             r.kind \in ApiKinds,
             NEW status \in {400, 404, 409, 413, 500},
             x.committed => status = 500 \/ (status = 404 /\ r.kind \in Patches)
      PROVE  Return(x, "err", status) \in SoundRequest /\ Return(x, "err", status).at = r.at
  <2> DEFINE s == Return(x, "err", status)
  <2>1. /\ s \in Request(Replicas) /\ s.pc = "done" /\ s.status = status
        /\ s.kind = r.kind /\ s.at = r.at
        /\ s.committed = x.committed /\ ~ s.audited
        /\ s.authz = IF r.kind = "check" THEN <<"err">> ELSE <<>>
        /\ s.http = <<status>>
    BY <1>4, <1>s, ReturnFields
  <2> HIDE DEF s
  <2>2. Sound(s)
    BY <2>1, <1>4 DEF Sound
  <2> QED BY <2>1, <2>2 DEF SoundRequest, s
<1>5. CASE BadInput(q)
  <2>1. /\ r.pc = "running" /\ r.kind \in ApiKinds
        /\ \/ req' = [req EXCEPT ![q] = Return(r, "err", 400)]
           \/ req' = [req EXCEPT ![q] = Return(r, "err", 413)]
    BY <1>5 DEF BadInput, At
  <2>2. /\ Return(r, "err", 400) \in SoundRequest /\ Return(r, "err", 400).at = r.at
        /\ Return(r, "err", 413) \in SoundRequest /\ Return(r, "err", 413).at = r.at
    BY <2>1, <1>4, <1>r, <1>b
  <2> QED BY <2>1, <2>2
<1>6. CASE StoreOK(q, open)
  <2>1. CASE r.kind \notin Mutations
    <3> DEFINE s == Return(r, "ok", 200)
    <3>1. r.pc = "running" /\ r.kind \in ApiKinds /\ req' = [req EXCEPT ![q] = s]
      BY <1>6, <2>1 DEF StoreOK, At
    <3>2. /\ s \in Request(Replicas) /\ s.pc = "done" /\ s.status = 200
          /\ s.kind = r.kind /\ s.at = r.at
          /\ s.authz = IF r.kind = "check" THEN <<"ok">> ELSE <<>>
          /\ s.http = <<200>>
      BY <3>1, <1>r, <1>s, ReturnFields DEF Sound
    <3> HIDE DEF s
    <3>3. Sound(s)
      BY <3>1, <3>2, <2>1 DEF Sound
    <3> QED BY <3>1, <3>2, <3>3 DEF SoundRequest
  <2>2. CASE r.kind \in Mutations
    <3> DEFINE s == [r EXCEPT !.committed = TRUE, !.pc = "audit"]
    <3>1. r.pc = "running" /\ req' = [req EXCEPT ![q] = s]
      BY <1>6, <2>2, <1>r DEF StoreOK, At, RequestsInv
    <3>2. /\ s \in Request(Replicas) /\ s.pc = "audit" /\ s.committed = TRUE
          /\ s.kind = r.kind /\ s.at = r.at
          /\ s.authz = r.authz /\ s.http = r.http /\ s.audited = r.audited
      BY <1>r DEF Request
    <3> HIDE DEF s
    <3>3. Sound(s)
      BY <3>1, <3>2, <2>2, <1>r DEF Sound
    <3> QED BY <3>1, <3>2, <3>3 DEF SoundRequest
  <2> QED BY <2>1, <2>2
<1>7. CASE StoreErr(q, open)
  <2>1. PICK err \in Refusals \cup {"other"} :
           req' = [req EXCEPT ![q] = ReturnErrOf(r, err)]
    BY <1>7 DEF StoreErr
  <2>2. r.pc = "running" /\ r.kind \in ApiKinds
    BY <1>7 DEF StoreErr, At
  <2>3. PICK status \in {400, 404, 409, 413, 500} :
           ReturnErrOf(r, err) = Return(r, "err", status)
    BY StoreErrStatus DEF ReturnErrOf
  <2>4. Return(r, "err", status) \in SoundRequest /\ Return(r, "err", status).at = r.at
    BY <2>2, <2>3, <1>4, <1>r, <1>b
  <2> QED BY <2>1, <2>2, <2>3, <2>4
<1>8. CASE StoreCommittedErr(q, open)
  <2> DEFINE x == [r EXCEPT !.committed = TRUE]
  <2>1. PICK err \in {"other", "ErrNotFound"} :
           /\ err = "ErrNotFound" => r.kind \in Patches
           /\ req' = [req EXCEPT ![q] = ReturnErrOf(x, err)]
    BY <1>8 DEF StoreCommittedErr
  <2>2. r.pc = "running" /\ r.kind \in Mutations
    BY <1>8 DEF StoreCommittedErr, At
  <2>3. /\ x \in Request(Replicas) /\ x.kind = r.kind /\ x.at = r.at /\ x.audited = r.audited
        /\ x.http = r.http /\ x.authz = r.authz
    BY <1>r DEF Request
  <2> HIDE DEF x
  <2>4. ~ x.audited /\ x.http = <<>> /\ x.authz = <<>> /\ r.kind \in ApiKinds
    BY <2>2, <2>3, <1>b DEF Mutations, ApiKinds
  <2> DEFINE status == writeStoreErr(err)
  <2>5. ReturnErrOf(x, err) = Return(x, "err", status)
    BY <2>2, <2>3 DEF ReturnErrOf, Mutations
  <2>6. /\ status \in {400, 404, 409, 413, 500}
        /\ status = 500 \/ (status = 404 /\ r.kind \in Patches)
    <3>1. err \in Refusals \cup {"other"}
      BY <2>1 DEF Refusals
    <3>2. /\ status \in {400, 404, 409, 500}
          /\ err = "other" => status = 500
          /\ err = "ErrNotFound" => status = 404
      BY <3>1, StoreErrStatus
    <3> HIDE DEF status
    <3>3. err \in {"other", "ErrNotFound"} /\ (err = "ErrNotFound" => r.kind \in Patches)
      BY <2>1
    <3> QED BY <3>2, <3>3
  <2> HIDE DEF status
  <2>7. Return(x, "err", status) \in SoundRequest /\ Return(x, "err", status).at = r.at
    BY <2>2, <2>3, <2>4, <2>6, <1>4
  <2> QED BY <2>1, <2>2, <2>5, <2>7
<1>9. CASE Audit(q)
  <2> DEFINE x == [r EXCEPT !.audited = TRUE]
  <2>1. PICK res \in {"ok", "err"}, status \in {204, 500} :
           /\ r.pc = "audit" /\ req' = [req EXCEPT ![q] = Return(x, res, status)]
           /\ status = 204 \/ r.kind = "patchV2"
    <3>1. /\ r.pc = "audit"
          /\ \/ req' = [req EXCEPT ![q] = Return(x, "ok", 204)]
             \/ x.kind = "patchV2" /\ req' = [req EXCEPT ![q] = Return(x, "err", 500)]
      BY <1>9 DEF Audit
    <3>2. x.kind = r.kind
      BY <1>r DEF Request
    <3> QED BY <3>1, <3>2
  <2> DEFINE s == Return(x, res, status)
  <2>2. r.kind \in Mutations /\ r.committed /\ r.http = <<>> /\ r.authz = <<>>
    BY <2>1, <1>r DEF Sound
  <2>3. /\ x \in Request(Replicas) /\ x.kind = r.kind /\ x.at = r.at /\ x.audited = TRUE
        /\ x.committed = r.committed /\ x.http = r.http /\ x.authz = r.authz
    BY <1>r DEF Request
  <2>4. r.kind \in ApiKinds /\ r.kind # "check"
    BY <2>2 DEF Mutations, ApiKinds
  <2> HIDE DEF x
  <2>5. /\ s \in Request(Replicas) /\ s.pc = "done" /\ s.status = status
        /\ s.kind = r.kind /\ s.at = r.at /\ s.committed = r.committed /\ s.audited = TRUE
        /\ s.authz = <<>> /\ s.http = <<status>>
    <3>1. status \in Statuses /\ x.http = <<>> /\ x.authz = <<>> /\ x.kind \in ApiKinds
      BY <2>2, <2>3, <2>4, <1>s
    <3> QED BY <2>3, <2>4, <3>1, ReturnFields
  <2> HIDE DEF s
  <2>6. Sound(s)
    <3>1. status = 204 \/ (status = 500 /\ s.kind = "patchV2")
      BY <2>1, <2>5
    <3>2. s.audited /\ s.committed /\ s.kind # "check" /\ s.kind \in ApiKinds
      BY <2>2, <2>4, <2>5
    <3> QED BY <2>5, <3>1, <3>2 DEF Sound
  <2> QED BY <2>1, <2>5, <2>6 DEF SoundRequest, s
<1> QED BY <1>1, <1>2, <1>3, <1>5, <1>6, <1>7, <1>8, <1>9 DEF HandlerStep

\* Requests begin with nothing counted, and a process takes its own with it.
LEMMA RequestsStep ==
    ASSUME RequestsInv, [Next]_vars
    PROVE  RequestsInv'
<1>1. ASSUME NEW p \in Replicas, NEW res, Exit(p, res) PROVE RequestsInv'
  BY <1>1 DEF Exit, RequestsInv
<1>2. ASSUME NEW q \in Clients, NewRequest(q) PROVE RequestsInv'
  <2>1. PICK p \in Replicas, kind \in Kinds : Arrive(q, p, kind)
    BY <1>2 DEF NewRequest
  <2> DEFINE s == [at |-> p, kind |-> kind, pc |-> "running", status |-> 0, committed |-> FALSE,
                   audited |-> FALSE, http |-> <<>>, authz |-> <<>>]
  <2>2. s \in Request(Replicas)
    BY DEF Request, Statuses
  <2>3. Sound(s)
    BY DEF Sound
  <2>4. req' = [req EXCEPT ![q] = s]
    BY <2>1 DEF Arrive
  <2> HIDE DEF s
  <2> QED BY <2>2, <2>3, <2>4 DEF RequestsInv, SoundRequest
<1>3. ASSUME NEW q \in Clients, Handle(q) PROVE RequestsInv'
  <2>1. PICK s \in SoundRequest : req' = [req EXCEPT ![q] = s]
    <3>1. Active(q) /\ DbOpen(req[q].at) \in BOOLEAN /\ HandlerStep(q, DbOpen(req[q].at))
      BY <1>3 DEF Handle, DbOpen
    <3> QED BY <3>1, HandlerSound
  <2> QED BY <2>1 DEF RequestsInv
<1>4. ASSUME NEW q \in Clients, EndRequest(q) PROVE RequestsInv'
  BY <1>4 DEF EndRequest, Forget, RequestsInv
<1>5. ASSUME UNCHANGED req PROVE RequestsInv'
  BY <1>5 DEF RequestsInv
<1>6. ASSUME NEW p \in Replicas, MainStep(p) PROVE RequestsInv'
  <2>1. CASE SetupFails(p) BY <2>1, <1>1 DEF SetupFails
  <2>2. CASE EndProcess(p) BY <2>2, <1>1 DEF EndProcess
  <2>3. CASE \/ Migrating(p) \/ MigrateDone(p) \/ Listen(p) \/ ReceiveErr(p)
             \/ ReceiveSignal(p) \/ Shutdown(p) \/ CloseDb(p)
    BY <2>3, <1>5 DEF Migrating, MigrateDone, Listen, ReceiveErr, ReceiveSignal, Shutdown, CloseDb
  <2> QED BY <1>6, <2>1, <2>2, <2>3 DEF MainStep
<1>7. ASSUME NEW p \in Replicas,
             \/ Launch(p) \/ ServeStep(p) \/ ServeFails(p) \/ Signal(p) \/ Reconnect(p)
      PROVE  RequestsInv'
  BY <1>7, <1>5 DEF Launch, ServeStep, ServeStarts, ServeCloses, ServeFails, Signal, Reconnect
<1>8. ASSUME NEW p \in Replicas, Crash(p) PROVE RequestsInv'
  BY <1>8, <1>1 DEF Crash
<1>9. CASE Others BY <1>9, <1>5 DEF Others
<1>10. CASE UNCHANGED vars BY <1>10, <1>5 DEF vars
<1> QED BY <1>2, <1>3, <1>4, <1>6, <1>7, <1>8, <1>9, <1>10 DEF Next

\* The counters agree with the answers on every path through every handler.
THEOREM RequestsCounted == Spec => []CountersMatchAnswers
<1>1. Init => RequestsInv
  BY DEF Init, RequestsInv
<1>2. RequestsInv => CountersMatchAnswers
  BY DEF RequestsInv, SoundRequest, Sound, CountersMatchAnswers, Active
<1> QED BY <1>1, <1>2, RequestsStep, PTL DEF Spec

\* An answer to a mutation tells what happened to the rows, whenever the store
\* fails, the process stops or another client deletes the row.
THEOREM AnswersTellEffects == Spec => []AnswerTellsEffect
<1>1. Init => RequestsInv
  BY DEF Init, RequestsInv
<1>2. RequestsInv => AnswerTellsEffect
  BY DEF RequestsInv, SoundRequest, Sound, AnswerTellsEffect, Active
<1> QED BY <1>1, <1>2, RequestsStep, PTL DEF Spec

----------------------------------------------------------------------------
(* The two goroutines of a process.  *)

ProcessType ==
    /\ main \in [Replicas -> MainStates]
    /\ serving \in [Replicas -> {"none", "starting", "accepting", "returned"}]
    /\ errCh \in [Replicas -> {"empty", "nil", "err"}]
    /\ sigCh \in [Replicas -> BOOLEAN]
    /\ late \in [Replicas -> BOOLEAN]
    /\ result \in [Replicas -> {"none", "nil", "setup", "serve", "shutdown", "killed"}]
    /\ served \in [Replicas -> BOOLEAN]

\* One value goes through errCh, and it is Serve's error if Serve failed.
Channel(p) ==
    /\ main[p] \in {"migrate", "reconcile"} =>
         serving[p] = "none" /\ errCh[p] = "empty" /\ ~ served[p] /\ ~ late[p]
    /\ main[p] # "down" /\ errCh[p] # "empty" => serving[p] = "returned"
    /\ main[p] = "select" => errCh[p] # "nil" /\ ~ late[p]
    /\ main[p] \in {"select", "shutdown", "wait"} => (errCh[p] = "err" <=> served[p])
    /\ main[p] \in {"return", "closed"} =>
         serving[p] = "returned" /\ errCh[p] = "empty" /\ (result[p] = "serve" <=> served[p])

\* Once Shutdown has returned without an error, no request is left.
Drained(p) ==
    (\/ main[p] = "wait" /\ ~ late[p]
     \/ main[p] \in {"return", "closed"} /\ result[p] = "nil")
    => \A q \in Clients : ~ InFlight(q, p)

ProcessInv == ProcessType /\ \A p \in Replicas : Channel(p) /\ Drained(p)

\* A step that leaves the process variables alone and puts no request in flight
\* where none was.
LEMMA ProcessIdle ==
    ASSUME ProcessInv, UNCHANGED process,
           \A p \in Replicas, q \in Clients : InFlight(q, p)' => InFlight(q, p) \/ main[p] = "select"
    PROVE  ProcessInv'
<1>1. UNCHANGED <<main, serving, errCh, sigCh, late, result, served>>
  BY DEF process
<1>2. ProcessType'
  BY <1>1 DEF ProcessInv, ProcessType
<1>3. ASSUME NEW p \in Replicas PROVE Channel(p)'
  BY <1>1 DEF ProcessInv, Channel
<1>4. ASSUME NEW p \in Replicas PROVE Drained(p)'
  BY <1>1, <1>4 DEF ProcessInv, Drained
<1> QED BY <1>2, <1>3, <1>4 DEF ProcessInv

\* A step of one process that touches no request.
LEMMA ProcessOne ==
    ASSUME ProcessInv, NEW p \in Replicas, UNCHANGED req, ProcessType',
           \A e \in Replicas \ {p} :
              /\ main'[e] = main[e] /\ serving'[e] = serving[e] /\ errCh'[e] = errCh[e]
              /\ late'[e] = late[e] /\ result'[e] = result[e] /\ served'[e] = served[e],
           Channel(p)', Drained(p)'
    PROVE  ProcessInv'
<1>1. ASSUME NEW e \in Replicas \ {p} PROVE Channel(e)' /\ Drained(e)'
  BY <1>1 DEF ProcessInv, Channel, Drained, InFlight, Active
<1> QED BY <1>1 DEF ProcessInv

\* The end of a process, whatever ends it.
LEMMA ProcessExit ==
    ASSUME ProcessInv, NEW p \in Replicas,
           NEW res \in {"none", "nil", "setup", "serve", "shutdown", "killed"},
           Exit(p, res), UNCHANGED <<serving, errCh, sigCh, late, served>>
    PROVE  ProcessInv'
<1>1. ProcessType'
  BY DEF Exit, ProcessInv, ProcessType, MainStates
<1>2. ASSUME NEW e \in Replicas PROVE Channel(e)'
  BY <1>2 DEF Exit, ProcessInv, ProcessType, Channel
<1>3. ASSUME NEW e \in Replicas, NEW q \in Clients, InFlight(q, e)' PROVE InFlight(q, e)
  BY <1>3 DEF Exit, InFlight, Active
<1>4. ASSUME NEW e \in Replicas PROVE Drained(e)'
  BY <1>3, <1>4 DEF Exit, ProcessInv, ProcessType, Drained
<1> QED BY <1>1, <1>2, <1>4 DEF ProcessInv

LEMMA ProcessStep ==
    ASSUME ProcessInv, RequestsInv, [Next]_vars
    PROVE  ProcessInv'
<1> USE DEF history
<1>1. ASSUME NEW p \in Replicas, Launch(p) PROVE ProcessInv'
  <2>1. ProcessType' BY <1>1 DEF Launch, ProcessInv, ProcessType, MainStates
  <2>2. Channel(p)' /\ Drained(p)'
    BY <1>1 DEF Launch, ProcessInv, ProcessType, Channel, Drained
  <2> QED BY <1>1, <2>1, <2>2, ProcessOne DEF Launch, ProcessInv, ProcessType
<1>2. ASSUME NEW p \in Replicas, Migrating(p) PROVE ProcessInv'
  BY <1>2, ProcessIdle DEF Migrating, InFlight, Active
<1>3. ASSUME NEW p \in Replicas, SetupFails(p) PROVE ProcessInv'
  BY <1>3, ProcessExit DEF SetupFails
<1>4. ASSUME NEW p \in Replicas, MigrateDone(p) \/ Listen(p) PROVE ProcessInv'
  <2>1. ProcessType' BY <1>4 DEF MigrateDone, Listen, ProcessInv, ProcessType, MainStates
  <2>2. Channel(p)' /\ Drained(p)'
    BY <1>4 DEF MigrateDone, Listen, ProcessInv, ProcessType, Channel, Drained
  <2> QED BY <1>4, <2>1, <2>2, ProcessOne DEF MigrateDone, Listen, ProcessInv, ProcessType
<1>5. ASSUME NEW p \in Replicas, ReceiveErr(p) PROVE ProcessInv'
  <2>1. ProcessType' BY <1>5 DEF ReceiveErr, Returned, ProcessInv, ProcessType, MainStates
  <2>2. Channel(p)'
    BY <1>5 DEF ReceiveErr, Returned, ProcessInv, ProcessType, Channel
  <2>3. Drained(p)'
    BY <1>5 DEF ReceiveErr, Returned, ProcessInv, ProcessType, Channel, Drained, InFlight, Active
  <2> QED BY <1>5, <2>1, <2>2, <2>3, ProcessOne DEF ReceiveErr, ProcessInv, ProcessType
<1>6. ASSUME NEW p \in Replicas, ReceiveSignal(p) PROVE ProcessInv'
  <2>1. ProcessType' BY <1>6 DEF ReceiveSignal, ProcessInv, ProcessType, MainStates
  <2>2. Channel(p)' /\ Drained(p)'
    BY <1>6 DEF ReceiveSignal, ProcessInv, ProcessType, Channel, Drained
  <2> QED BY <1>6, <2>1, <2>2, ProcessOne DEF ReceiveSignal, ProcessInv, ProcessType
<1>7. ASSUME NEW p \in Replicas, Shutdown(p) PROVE ProcessInv'
  <2>1. ProcessType' BY <1>7 DEF Shutdown, ProcessInv, ProcessType, MainStates
  <2>2. Channel(p)'
    BY <1>7 DEF Shutdown, ProcessInv, ProcessType, Channel
  <2>3. Drained(p)'
    BY <1>7 DEF Shutdown, ProcessInv, ProcessType, Drained, InFlight, Active
  <2> QED BY <1>7, <2>1, <2>2, <2>3, ProcessOne DEF Shutdown, ProcessInv, ProcessType
<1>8. ASSUME NEW p \in Replicas, CloseDb(p) PROVE ProcessInv'
  <2>1. ProcessType' BY <1>8 DEF CloseDb, ProcessInv, ProcessType, MainStates
  <2>2. Channel(p)' /\ Drained(p)'
    BY <1>8 DEF CloseDb, ProcessInv, ProcessType, Channel, Drained, InFlight, Active
  <2> QED BY <1>8, <2>1, <2>2, ProcessOne DEF CloseDb, ProcessInv, ProcessType
<1>9. ASSUME NEW p \in Replicas, EndProcess(p) PROVE ProcessInv'
  <2>1. result[p] \in {"none", "nil", "setup", "serve", "shutdown", "killed"}
    BY DEF ProcessInv, ProcessType
  <2> QED BY <1>9, <2>1, ProcessExit DEF EndProcess
<1>10. ASSUME NEW p \in Replicas, ServeStep(p) \/ ServeFails(p) PROVE ProcessInv'
  <2>1. ProcessType'
    BY <1>10 DEF ServeStep, ServeStarts, ServeCloses, ServeFails, ServeReturns, ProcessInv, ProcessType
  <2>2. Channel(p)'
    BY <1>10 DEF ServeStep, ServeStarts, ServeCloses, ServeFails, ServeReturns, ShuttingDown,
                 ProcessInv, ProcessType, Channel
  <2>3. Drained(p)'
    BY <1>10 DEF ServeStep, ServeStarts, ServeCloses, ServeFails, ProcessInv, Drained, InFlight, Active
  <2> QED BY <1>10, <2>1, <2>2, <2>3, ProcessOne
          DEF ServeStep, ServeStarts, ServeCloses, ServeFails, ServeReturns, ProcessInv, ProcessType
<1>11. ASSUME NEW p \in Replicas, Signal(p) PROVE ProcessInv'
  <2>1. ProcessType' BY <1>11 DEF Signal, ProcessInv, ProcessType
  <2>2. Channel(p)' /\ Drained(p)'
    BY <1>11 DEF Signal, ProcessInv, Channel, Drained, InFlight, Active
  <2> QED BY <1>11, <2>1, <2>2, ProcessOne DEF Signal
<1>12. ASSUME NEW p \in Replicas, Crash(p) PROVE ProcessInv'
  BY <1>12, ProcessExit DEF Crash
<1>13. ASSUME NEW p \in Replicas, Reconnect(p) PROVE ProcessInv'
  BY <1>13, ProcessIdle DEF Reconnect, InFlight, Active
<1>14. ASSUME NEW q \in Clients, NewRequest(q) PROVE ProcessInv'
  <2>1. PICK p \in Replicas, kind \in Kinds : Serving(p) /\ Arrive(q, p, kind) /\ UNCHANGED process
    BY <1>14 DEF NewRequest
  <2>2. ASSUME NEW x \in Replicas, NEW y \in Clients, InFlight(y, x)'
        PROVE  InFlight(y, x) \/ main[x] = "select"
    BY <2>1, <2>2 DEF Arrive, InFlight, Active, Serving, RequestsInv
  <2> QED BY <2>1, <2>2, ProcessIdle
<1>15. ASSUME NEW q \in Clients, Handle(q) PROVE ProcessInv'
  <2>1. PICK s \in SoundRequest :
           req' = [req EXCEPT ![q] = s] /\ s.at = req[q].at /\ req[q].pc # "done" /\ Active(q)
    <3>1. Active(q) /\ DbOpen(req[q].at) \in BOOLEAN /\ HandlerStep(q, DbOpen(req[q].at))
      BY <1>15 DEF Handle, DbOpen
    <3> QED BY <3>1, HandlerSound
  <2>2. ASSUME NEW x \in Replicas, NEW y \in Clients, InFlight(y, x)' PROVE InFlight(y, x)
    BY <2>1, <2>2 DEF InFlight, Active, RequestsInv
  <2>3. UNCHANGED process BY <1>15 DEF Handle
  <2> QED BY <2>2, <2>3, ProcessIdle
<1>16. ASSUME NEW q \in Clients, EndRequest(q) PROVE ProcessInv'
  <2>1. ASSUME NEW x \in Replicas, NEW y \in Clients, InFlight(y, x)' PROVE InFlight(y, x)
    BY <1>16, <2>1 DEF EndRequest, Forget, InFlight, Active, RequestsInv
  <2>2. UNCHANGED process BY <1>16 DEF EndRequest
  <2> QED BY <2>1, <2>2, ProcessIdle
<1>17. CASE Others \/ UNCHANGED vars
  <2>1. UNCHANGED <<process, req>> BY <1>17 DEF Others, vars
  <2> QED BY <2>1, ProcessIdle DEF InFlight, Active
<1> QED BY <1>1, <1>2, <1>3, <1>4, <1>5, <1>6, <1>7, <1>8, <1>9, <1>10, <1>11, <1>12, <1>13,
           <1>14, <1>15, <1>16, <1>17 DEF Next, MainStep

LEMMA ProcessInit ==
    ASSUME Init
    PROVE  RequestsInv /\ ProcessInv
BY DEF Init, RequestsInv, ProcessInv, ProcessType, MainStates, Channel, Drained

\* Whichever case the select of serve takes, run returns Serve's error if and
\* only if Serve failed.
THEOREM ServeErrors == Spec => []ServeErrorReported
<1>1. ProcessInv => ServeErrorReported
  BY DEF ProcessInv, Channel, ServeErrorReported
<1> QED BY <1>1, ProcessInit, ProcessStep, RequestsStep, PTL DEF Spec

\* A stop that reports success leaves no request behind on a closed database.
THEOREM CleanStops == Spec => []CleanStopDrains
<1>1. ProcessInv => CleanStopDrains
  BY DEF ProcessInv, Drained, CleanStopDrains
<1> QED BY <1>1, ProcessInit, ProcessStep, RequestsStep, PTL DEF Spec

----------------------------------------------------------------------------
(* The inductive invariant.  *)

\* A file that is recorded has all files before it recorded.
Prefix == \E v \in Files(driver) \cup {0} : versions = { w \in Files(driver) : w <= v }

\* Outside MySQL, what is committed is what the recorded version stands for.
CatalogueMatches == driver # "mysql" => catalogue = Produced(driver, Version)

\* The locks of the altered tables.
OneTransaction == \A p, q \in Replicas : InTransaction(p) /\ InTransaction(q) => p = q

MigrateStates == {"off", "read", "apply", "record", "commit", "done", "failed"}

Shape(m) ==
    /\ m = [pc |-> m.pc, file |-> m.file, stmt |-> m.stmt, work |-> m.work]
    /\ m.pc \in MigrateStates /\ m.file \in Files(driver) \cup {0} /\ m.stmt \in Nat \ {0}

\* A replica may work from a version it read long ago: the files before its
\* own are recorded nevertheless, a transaction holds the catalogue of its
\* file unless somebody else has recorded that file, and then it does not
\* commit.
Applying(m) ==
    /\ m.pc \in {"apply", "record", "commit"} =>
         m.file \in Files(driver) /\ \A w \in Files(driver) : w < m.file => w \in versions
    /\ m.pc \in {"record", "commit"} =>
         /\ driver # "mysql"
         /\ m.file \notin versions => m.work \subseteq {Produced(driver, m.file)}
    /\ m.pc = "commit" => m.file \notin versions
    /\ m.pc = "done" => Files(driver) \subseteq versions

MigrateInv ==
    /\ driver \in Drivers
    /\ Prefix /\ CatalogueMatches /\ OneTransaction
    /\ mig = [p \in Replicas |-> mig[p]]
    /\ \A p \in Replicas : Shape(mig[p]) /\ Applying(mig[p])

\* The keys are on, or some file turned them off and, of the files in F, it
\* and every later one failed to turn them on.
Unrestored(k, F) ==
    k.on \/ \E w \in Files(driver) :
               /\ KeysOff(driver, w) /\ w \in k.failed
               /\ \A v \in F : v > w => v \in k.failed

Before(v) == { w \in Files(driver) : w < v }

\* The keys of a replica in MigrateUp, by how far it is.
KeysAt(m, k) ==
    /\ m.pc = "read" \/ driver = "mysql" => k.on
    /\ m.pc = "apply" => Unrestored(k, Before(m.file))
    /\ m.pc \in {"record", "commit"} => KeysOff(driver, m.file) \/ Unrestored(k, Before(m.file))
    /\ m.pc = "done" => Unrestored(k, Files(driver))

\* Outside MigrateUp a replica applies nothing; it leaves MigrateUp only with
\* every file recorded.
Served(p) ==
    /\ main[p] # "migrate" => mig[p].pc = "off"
    /\ main[p] = "migrate" => KeysAt(mig[p], foreignKeys[p])
    /\ main[p] \notin {"down", "migrate"} =>
         /\ DsnEnforces => Unrestored(foreignKeys[p], Files(driver))
         /\ Files(driver) \subseteq versions

Keys == [on : BOOLEAN, failed : SUBSET Files(driver)]

ServedInv ==
    /\ foreignKeys \in [Replicas -> Keys]
    /\ \A p \in Replicas : Served(p)

----------------------------------------------------------------------------
(* Versions.  *)

LEMMA FilesAreNats ==
    ASSUME driver \in Drivers
    PROVE  Files(driver) \subseteq Nat \ {0} /\ OldRelease \in Files(driver)
BY FilesAssumption

\* MAX(version) of a prefix of the files is its last.
LEMMA MaxOfPrefix ==
    ASSUME NEW F, F \subseteq Nat \ {0}, NEW v \in F \cup {0}, NEW vs,
           vs = { w \in F : w <= v }
    PROVE  (CHOOSE x \in vs \cup {0} : \A w \in vs : w <= x) = v
<1>1. v \in vs \cup {0} /\ \A w \in vs : w <= v
  OBVIOUS
<1> DEFINE m == CHOOSE x \in vs \cup {0} : \A w \in vs : w <= x
<1>2. m \in vs \cup {0} /\ \A w \in vs : w <= m
  BY <1>1
<1> HIDE DEF m
<1>3. m <= v /\ v <= m
  BY <1>1, <1>2
<1> QED BY <1>2, <1>3 DEF m

LEMMA VersionIsLast ==
    ASSUME driver \in Drivers, Prefix
    PROVE  /\ Version \in Files(driver) \cup {0}
           /\ versions = { w \in Files(driver) : w <= Version }
<1>1. PICK v \in Files(driver) \cup {0} : versions = { w \in Files(driver) : w <= v }
  BY DEF Prefix
<1>2. Version = v
  BY <1>1, MaxOfPrefix, FilesAreNats DEF Version
<1> QED BY <1>1, <1>2

\* The file before file in the directory is the version the database has, if
\* every file before it is recorded and it is not.
LEMMA PreviousFile ==
    ASSUME driver \in Drivers, Prefix, NEW file \in Files(driver), file \notin versions,
           \A w \in Files(driver) : w < file => w \in versions
    PROVE  FileAt(driver, file - 1) = Version
<1> DEFINE F == Files(driver)
           P(w) == w <= file - 1 /\ \A x \in F : x <= file - 1 => x <= w
<1>1. F \subseteq Nat \ {0}
  BY FilesAreNats
<1>2. Version \in F \cup {0} /\ versions = { w \in F : w <= Version }
  BY VersionIsLast
<1>3. P(Version)
  BY <1>1, <1>2
<1>4. \A w \in F \cup {0} : P(w) => w = Version
  BY <1>1, <1>2, <1>3
<1>5. FileAt(driver, file - 1) = CHOOSE w \in F \cup {0} : P(w)
  BY DEF FileAt
<1> HIDE DEF P
<1> QED BY <1>2, <1>3, <1>4, <1>5

\* Recording the next file moves the version to it.
LEMMA RecordNext ==
    ASSUME driver \in Drivers, Prefix, NEW file \in Files(driver), file \notin versions,
           \A w \in Files(driver) : w < file => w \in versions,
           versions' = versions \cup {file}, UNCHANGED driver
    PROVE  /\ Prefix' /\ Version' = file
           /\ file > Version /\ \A w \in Files(driver) : w > Version => file <= w
<1> DEFINE F == Files(driver)
<1>1. F \subseteq Nat \ {0} /\ file \in F
  BY FilesAreNats
<1>2. Version \in F \cup {0} /\ versions = { w \in F : w <= Version }
  BY VersionIsLast
<1>3. file > Version
  BY <1>1, <1>2
<1>4. versions' = { w \in F : w <= file }
  BY <1>1, <1>2, <1>3
<1>5. Prefix'
  BY <1>1, <1>4 DEF Prefix
<1>6. Version' = file
  BY <1>1, <1>4, MaxOfPrefix DEF Version
<1>7. \A w \in F : w > Version => file <= w
  BY <1>1, <1>2
<1> QED BY <1>3, <1>5, <1>6, <1>7

----------------------------------------------------------------------------
(* The steps of MigrateUp.  *)

\* The fields of a record that EXCEPT changes.
LEMMA MigrationFields ==
    ASSUME NEW m, Shape(m), NEW x, NEW y
    PROVE  /\ [m EXCEPT !.pc = x] = [pc |-> x, file |-> m.file, stmt |-> m.stmt, work |-> m.work]
           /\ [m EXCEPT !.stmt = x] = [pc |-> m.pc, file |-> m.file, stmt |-> x, work |-> m.work]
           /\ [m EXCEPT !.pc = x, !.work = y]
                 = [pc |-> x, file |-> m.file, stmt |-> m.stmt, work |-> y]
<1>1. m = [pc |-> m.pc, file |-> m.file, stmt |-> m.stmt, work |-> m.work]
  BY DEF Shape
<1>2. [m EXCEPT !.pc = x] = [pc |-> x, file |-> m.file, stmt |-> m.stmt, work |-> m.work]
  BY <1>1
<1>3. [m EXCEPT !.stmt = x] = [pc |-> m.pc, file |-> m.file, stmt |-> x, work |-> m.work]
  BY <1>1
<1>4. [m EXCEPT !.pc = x, !.work = y] = [pc |-> x, file |-> m.file, stmt |-> m.stmt, work |-> y]
  <2> DEFINE n == [m EXCEPT !.pc = x]
  <2>1. [m EXCEPT !.pc = x, !.work = y] = [n EXCEPT !.work = y]
    OBVIOUS
  <2>2. n = [pc |-> x, file |-> m.file, stmt |-> m.stmt, work |-> m.work]
    BY <1>2
  <2> HIDE DEF n
  <2>3. [n EXCEPT !.work = y] = [pc |-> x, file |-> m.file, stmt |-> m.stmt, work |-> y]
    BY <2>2
  <2> QED BY <2>1, <2>3
<1> QED BY <1>2, <1>3, <1>4

\* What the versions loop does once every file up to v is recorded.
LEMMA ContinueSound ==
    ASSUME driver \in Drivers, UNCHANGED driver, mig = [q \in Replicas |-> mig[q]],
           NEW p \in Replicas, NEW v \in Nat,
           \A w \in Files(driver) : w <= v => w \in versions',
           Continue(p, v)
    PROVE  /\ mig' = [mig EXCEPT ![p] = mig'[p]]
           /\ Shape(mig[p])' /\ Applying(mig[p])'
           /\ mig'[p].pc \in {"apply", "done"}
<1>1. CASE After(v) = {} /\ mig' = [mig EXCEPT ![p] = [NoMigration EXCEPT !.pc = "done"]]
  <2>1. mig'[p] = [pc |-> "done", file |-> 0, stmt |-> 1, work |-> {}]
    BY <1>1 DEF NoMigration
  <2>2. Files(driver) \subseteq versions'
    BY <1>1, FilesAreNats DEF After
  <2> QED BY <1>1, <2>1, <2>2 DEF Shape, Applying, MigrateStates
<1>2. ASSUME NEW w \in After(v), IsNext(w, v),
             mig' = [mig EXCEPT ![p] = [NoMigration EXCEPT !.pc = "apply", !.file = w]]
      PROVE  /\ mig' = [mig EXCEPT ![p] = mig'[p]]
             /\ Shape(mig[p])' /\ Applying(mig[p])'
             /\ mig'[p].pc \in {"apply", "done"}
  <2>1. mig'[p] = [pc |-> "apply", file |-> w, stmt |-> 1, work |-> {}]
    BY <1>2 DEF NoMigration
  <2>2. w \in Files(driver) /\ \A x \in Files(driver) : x < w => x \in versions'
    BY <1>2, FilesAreNats DEF After, IsNext
  <2>3. mig' = [mig EXCEPT ![p] = mig'[p]]
    BY <1>2
  <2> QED BY <2>1, <2>2, <2>3 DEF Shape, Applying, MigrateStates
<1> QED BY <1>1, <1>2 DEF Continue

\* The other replicas do not notice, except that a file they are about to
\* record may be there already.
LEMMA OthersKeep ==
    ASSUME MigrateInv, NEW p \in Replicas, UNCHANGED driver, versions \subseteq versions',
           versions' = versions \/ InTransaction(p) \/ driver = "mysql",
           mig' = [mig EXCEPT ![p] = mig'[p]], Shape(mig[p])', Applying(mig[p])'
    PROVE  /\ mig' = [q \in Replicas |-> mig'[q]]
           /\ \A q \in Replicas : Shape(mig[q])' /\ Applying(mig[q])'
<1>1. mig' = [q \in Replicas |-> mig'[q]] /\ \A q \in Replicas \ {p} : mig'[q] = mig[q]
  BY DEF MigrateInv
<1>2. ASSUME NEW q \in Replicas \ {p} PROVE Shape(mig[q])' /\ Applying(mig[q])'
  <2>1. Shape(mig[q]) /\ Applying(mig[q]) /\ mig'[q] = mig[q]
    BY <1>1 DEF MigrateInv
  <2>2. Shape(mig[q])'
    BY <2>1 DEF Shape
  <2>3. mig[q].pc = "commit" => versions' = versions
    BY <2>1 DEF MigrateInv, OneTransaction, InTransaction, Applying
  <2>4. Applying(mig[q])'
    BY <2>1, <2>3 DEF Applying
  <2> QED BY <2>2, <2>4
<1> QED BY <1>1, <1>2

\* A step that commits nothing to the catalogue the abstract database has.
AbstractStutter ==
    UNCHANGED <<driver, versions>> /\ (driver # "mysql" => UNCHANGED catalogue)

LEMMA Stutter ==
    ASSUME AbstractStutter
    PROVE  /\ UNCHANGED Database!vars
           /\ Prefix => Prefix'
           /\ CatalogueMatches => CatalogueMatches'
<1>1. Version' = Version
  BY DEF AbstractStutter, Version
<1> QED BY <1>1 DEF AbstractStutter, Database!vars, Prefix, CatalogueMatches

\* No replica is in a transaction but p, or p has left it.
LEMMA TransactionsKeep ==
    ASSUME MigrateInv, NEW p \in Replicas, UNCHANGED driver, mig' = [mig EXCEPT ![p] = mig'[p]],
           \/ InTransaction(p)
           \/ mig'[p].pc \notin {"record", "commit"}
           \/ \A q \in Replicas : ~ InTransaction(q)
    PROVE  OneTransaction'
<1>1. \A q \in Replicas \ {p} : mig'[q] = mig[q]
  BY DEF MigrateInv
<1> QED BY <1>1 DEF MigrateInv, OneTransaction, InTransaction

\* Reading the version starts the loop after what is recorded.
LEMMA ReadVersionSound ==
    ASSUME MigrateInv, NEW p \in Replicas, ReadVersion(p)
    PROVE  MigrateInv' /\ [Database!Next]_(Database!vars)
<1>1. UNCHANGED <<driver, versions, catalogue>> /\ Continue(p, Version)
  BY DEF ReadVersion, database
<1>2. Version \in Nat /\ \A w \in Files(driver) : w <= Version => w \in versions'
  BY <1>1, VersionIsLast, FilesAreNats DEF MigrateInv
<1>3. /\ mig' = [mig EXCEPT ![p] = mig'[p]]
      /\ Shape(mig[p])' /\ Applying(mig[p])' /\ mig'[p].pc \in {"apply", "done"}
  BY <1>1, <1>2, ContinueSound DEF MigrateInv
<1>4. AbstractStutter
  BY <1>1 DEF AbstractStutter
<1> QED BY <1>1, <1>3, <1>4, Stutter, OthersKeep, TransactionsKeep DEF MigrateInv

\* An error return takes the replica out of everything.
LEMMA ErrorSound ==
    ASSUME MigrateInv, NEW p \in Replicas, NEW label \in {"failed", "off", "read"}, AbstractStutter,
           mig' = [mig EXCEPT ![p] = [NoMigration EXCEPT !.pc = label]]
    PROVE  MigrateInv' /\ [Database!Next]_(Database!vars)
<1>1. mig'[p] = [pc |-> label, file |-> 0, stmt |-> 1, work |-> {}]
  <2>1. [NoMigration EXCEPT !.pc = label] = [pc |-> label, file |-> 0, stmt |-> 1, work |-> {}]
    BY DEF NoMigration
  <2> QED BY <2>1 DEF MigrateInv
<1>2. mig' = [mig EXCEPT ![p] = mig'[p]] /\ Shape(mig[p])' /\ Applying(mig[p])'
  <2>1. mig' = [mig EXCEPT ![p] = mig'[p]]
    BY DEF MigrateInv
  <2> QED BY <1>1, <2>1 DEF Shape, Applying, MigrateStates
<1>3. UNCHANGED driver /\ versions \subseteq versions' /\ versions' = versions
  BY DEF AbstractStutter
<1>4. mig'[p].pc \notin {"record", "commit"}
  BY <1>1
<1> QED BY <1>2, <1>3, <1>4, Stutter, OthersKeep, TransactionsKeep DEF MigrateInv

\* The body runs on the catalogue of the recorded version; if its own file is
\* not recorded yet, that is the catalogue the file was written for.
LEMMA ExecBodySound ==
    ASSUME MigrateInv, NEW p \in Replicas, crossRows \in BOOLEAN, ExecBody(p)
    PROVE  MigrateInv' /\ [Database!Next]_(Database!vars)
<1> DEFINE m == mig[p]
           res == RunBody(Body(driver, m.file), catalogue, crossRows)
<1>1. UNCHANGED <<driver, versions, catalogue>> /\ m.pc = "apply" /\ driver # "mysql"
  BY DEF ExecBody, database
<1>2. AbstractStutter
  BY <1>1 DEF AbstractStutter
<1>3. CASE mig' = [mig EXCEPT ![p] = [NoMigration EXCEPT !.pc = "failed"]]
  BY <1>2, <1>3, ErrorSound
<1>4. CASE mig' = [mig EXCEPT ![p].pc = "record", ![p].work = res]
  <2>1. Shape(m) /\ Applying(m)
    BY DEF MigrateInv
  <2>2. m.file \in Files(driver) /\ \A w \in Files(driver) : w < m.file => w \in versions
    BY <1>1, <2>1 DEF Applying
  <2>3. m.file \notin versions => res \subseteq {Produced(driver, m.file)}
    <3>1. ASSUME m.file \notin versions
          PROVE  catalogue = Produced(driver, FileAt(driver, m.file - 1))
      BY <1>1, <2>2, <3>1, PreviousFile DEF MigrateInv, CatalogueMatches
    <3>2. RunBody(Body(driver, m.file), Produced(driver, FileAt(driver, m.file - 1)), crossRows)
            \subseteq {Produced(driver, m.file)}
      BY <2>2, FilesAssumption DEF MigrateInv
    <3> QED BY <3>1, <3>2
  <2> HIDE DEF res
  <2>4. mig'[p] = [pc |-> "record", file |-> m.file, stmt |-> m.stmt, work |-> res]
    <3>1. mig'[p] = [m EXCEPT !.pc = "record", !.work = res]
      BY <1>4 DEF MigrateInv
    <3> QED BY <3>1, <2>1, MigrationFields
  <2>5. mig' = [mig EXCEPT ![p] = mig'[p]]
    BY <1>4 DEF MigrateInv
  <2>6. Shape(mig[p])' /\ Applying(mig[p])'
    BY <1>1, <2>1, <2>2, <2>3, <2>4 DEF Shape, Applying, MigrateStates
  <2>7. \A q \in Replicas : ~ InTransaction(q)
    BY DEF ExecBody
  <2> QED BY <1>1, <1>2, <2>5, <2>6, <2>7, Stutter, OthersKeep, TransactionsKeep DEF MigrateInv
<1> QED BY <1>3, <1>4 DEF ExecBody, ReturnErr

\* The primary key of schema_migrations refuses a file that was recorded after
\* the replica had read the version.
LEMMA RecordVersionSound ==
    ASSUME MigrateInv, NEW p \in Replicas, RecordVersion(p)
    PROVE  MigrateInv' /\ [Database!Next]_(Database!vars)
<1> DEFINE m == mig[p]
<1>1. UNCHANGED <<driver, versions, catalogue>> /\ m.pc = "record" /\ InTransaction(p)
  BY DEF RecordVersion, database
<1>2. AbstractStutter
  BY <1>1 DEF AbstractStutter
<1>3. CASE mig' = [mig EXCEPT ![p] = [NoMigration EXCEPT !.pc = "failed"]]
  BY <1>2, <1>3, ErrorSound
<1>4. CASE m.file \notin versions /\ mig' = [mig EXCEPT ![p].pc = "commit"]
  <2>1. Shape(m) /\ Applying(m)
    BY DEF MigrateInv
  <2>2. mig'[p] = [pc |-> "commit", file |-> m.file, stmt |-> m.stmt, work |-> m.work]
    <3>1. mig'[p] = [m EXCEPT !.pc = "commit"]
      BY <1>4 DEF MigrateInv
    <3> QED BY <3>1, <2>1, MigrationFields
  <2>3. mig' = [mig EXCEPT ![p] = mig'[p]]
    BY <1>4 DEF MigrateInv
  <2>4. Shape(mig[p])' /\ Applying(mig[p])'
    BY <1>1, <1>4, <2>1, <2>2 DEF Shape, Applying, MigrateStates
  <2> QED BY <1>1, <1>2, <2>3, <2>4, Stutter, OthersKeep, TransactionsKeep DEF MigrateInv
<1> QED BY <1>3, <1>4 DEF RecordVersion, ReturnErr

\* A recorded file is an upgrade of the abstract database.
LEMMA UpgradeStep ==
    ASSUME MigrateInv, NEW file \in Files(driver), file \notin versions,
           \A w \in Files(driver) : w < file => w \in versions,
           versions' = versions \cup {file}, UNCHANGED driver,
           driver # "mysql" => catalogue' = Produced(driver, file)
    PROVE  Database!Next /\ Prefix' /\ CatalogueMatches'
<1>1. /\ Prefix' /\ Version' = file
      /\ file > Version /\ \A w \in Files(driver) : w > Version => file <= w
  BY RecordNext DEF MigrateInv
<1>2. Database!Upgrade(file)
  BY <1>1 DEF Database!Upgrade
<1> QED BY <1>1, <1>2 DEF Database!Next, CatalogueMatches

LEMMA CommitSound ==
    ASSUME MigrateInv, NEW p \in Replicas, Commit(p)
    PROVE  MigrateInv' /\ [Database!Next]_(Database!vars)
<1> DEFINE m == mig[p]
<1>1. /\ InTransaction(p) /\ m.pc = "commit" /\ driver # "mysql" /\ UNCHANGED driver
      /\ versions' = versions \cup {m.file} /\ catalogue' \in m.work
      /\ Continue(p, m.file)
  BY DEF Commit, InTransaction
<1>2. Shape(m) /\ Applying(m)
  BY DEF MigrateInv
<1>3. /\ m.file \in Files(driver) /\ m.file \notin versions
      /\ \A w \in Files(driver) : w < m.file => w \in versions
      /\ catalogue' = Produced(driver, m.file)
  BY <1>1, <1>2 DEF Applying
<1>4. m.file \in Nat /\ \A w \in Files(driver) : w <= m.file => w \in versions'
  BY <1>1, <1>3, FilesAreNats DEF MigrateInv
<1>5. /\ mig' = [mig EXCEPT ![p] = mig'[p]]
      /\ Shape(mig[p])' /\ Applying(mig[p])' /\ mig'[p].pc \in {"apply", "done"}
  BY <1>1, <1>4, ContinueSound DEF MigrateInv
<1>6. Database!Next /\ Prefix' /\ CatalogueMatches'
  BY <1>1, <1>3, UpgradeStep
<1> QED BY <1>1, <1>5, <1>6, OthersKeep, TransactionsKeep DEF MigrateInv

LEMMA ExecStatementSound ==
    ASSUME MigrateInv, NEW p \in Replicas, ExecStatement(p)
    PROVE  MigrateInv' /\ [Database!Next]_(Database!vars)
<1> DEFINE m == mig[p]
<1>1. UNCHANGED <<driver, versions>> /\ m.pc = "apply" /\ driver = "mysql"
  BY DEF ExecStatement
<1>2. AbstractStutter
  BY <1>1 DEF AbstractStutter
<1>3. CASE mig' = [mig EXCEPT ![p] = [NoMigration EXCEPT !.pc = "failed"]]
  BY <1>2, <1>3, ErrorSound
<1>4. CASE mig' = [mig EXCEPT ![p].stmt = m.stmt + 1]
  <2>1. Shape(m) /\ Applying(m)
    BY DEF MigrateInv
  <2>2. mig'[p] = [pc |-> m.pc, file |-> m.file, stmt |-> m.stmt + 1, work |-> m.work]
    <3>1. mig'[p] = [m EXCEPT !.stmt = m.stmt + 1]
      BY <1>4 DEF MigrateInv
    <3> QED BY <3>1, <2>1, MigrationFields
  <2>3. mig' = [mig EXCEPT ![p] = mig'[p]]
    BY <1>4 DEF MigrateInv
  <2>4. Shape(mig[p])' /\ Applying(mig[p])'
    BY <1>1, <2>1, <2>2 DEF Shape, Applying, MigrateStates
  <2>5. mig'[p].pc \notin {"record", "commit"}
    BY <1>1, <2>2
  <2> QED BY <1>1, <1>2, <2>3, <2>4, <2>5, Stutter, OthersKeep, TransactionsKeep DEF MigrateInv
<1> QED BY <1>3, <1>4 DEF ExecStatement, ReturnErr

LEMMA RecordAppliedSound ==
    ASSUME MigrateInv, NEW p \in Replicas, RecordApplied(p)
    PROVE  MigrateInv' /\ [Database!Next]_(Database!vars)
<1> DEFINE m == mig[p]
<1>1. m.pc = "apply" /\ driver = "mysql" /\ UNCHANGED <<driver, catalogue>>
  BY DEF RecordApplied
<1>2. CASE UNCHANGED versions /\ mig' = [mig EXCEPT ![p] = [NoMigration EXCEPT !.pc = "failed"]]
  <2>1. AbstractStutter
    BY <1>1, <1>2 DEF AbstractStutter
  <2> QED BY <1>2, <2>1, ErrorSound
<1>3. CASE m.file \notin versions /\ versions' = versions \cup {m.file} /\ Continue(p, m.file)
  <2>1. Shape(m) /\ Applying(m)
    BY DEF MigrateInv
  <2>2. m.file \in Files(driver) /\ \A w \in Files(driver) : w < m.file => w \in versions
    BY <1>1, <2>1 DEF Applying
  <2>3. m.file \in Nat /\ \A w \in Files(driver) : w <= m.file => w \in versions'
    BY <1>3, <2>2, FilesAreNats DEF MigrateInv
  <2>4. /\ mig' = [mig EXCEPT ![p] = mig'[p]]
        /\ Shape(mig[p])' /\ Applying(mig[p])' /\ mig'[p].pc \in {"apply", "done"}
    BY <1>1, <1>3, <2>3, ContinueSound DEF MigrateInv
  <2>5. Database!Next /\ Prefix' /\ CatalogueMatches'
    BY <1>1, <1>3, <2>2, UpgradeStep
  <2> QED BY <1>1, <1>3, <2>4, <2>5, OthersKeep, TransactionsKeep DEF MigrateInv
<1> QED BY <1>2, <1>3 DEF RecordApplied, ReturnErr

----------------------------------------------------------------------------
(* All steps of the system.  *)

LEMMA MigrationAlone ==
    ASSUME MigrateInv, UNCHANGED <<driver, versions, catalogue, mig>>
    PROVE  MigrateInv' /\ [Database!Next]_(Database!vars)
<1>1. AbstractStutter
  BY DEF AbstractStutter
<1>2. OneTransaction'
  BY DEF MigrateInv, OneTransaction, InTransaction
<1>3. ASSUME NEW q \in Replicas PROVE Shape(mig[q])' /\ Applying(mig[q])'
  BY DEF MigrateInv, Shape, Applying
<1> QED BY <1>1, <1>2, <1>3, Stutter DEF MigrateInv

LEMMA MigrateUpSound ==
    ASSUME MigrateInv, crossRows \in BOOLEAN, [Next]_vars
    PROVE  MigrateInv' /\ [Database!Next]_(Database!vars) /\ crossRows' \in BOOLEAN
<1> USE DEF database, migration
<1>1. ASSUME NEW p \in Replicas, Launch(p)
      PROVE  MigrateInv' /\ [Database!Next]_(Database!vars) /\ crossRows' \in BOOLEAN
  BY <1>1, ErrorSound DEF Launch, AbstractStutter
<1>2. ASSUME NEW p \in Replicas, Migrating(p)
      PROVE  MigrateInv' /\ [Database!Next]_(Database!vars) /\ crossRows' \in BOOLEAN
  <2>1. UNCHANGED crossRows
    BY <1>2 DEF Migrating, MigrateStep, ReadVersion, ExecBody, RecordVersion, Commit,
                ExecStatement, RecordApplied
  <2> QED BY <1>2, <2>1, ReadVersionSound, ExecBodySound, RecordVersionSound, CommitSound,
             ExecStatementSound, RecordAppliedSound DEF Migrating, MigrateStep
<1>3. ASSUME NEW p \in Replicas, NEW res, Exit(p, res), UNCHANGED database
      PROVE  MigrateInv' /\ [Database!Next]_(Database!vars) /\ crossRows' \in BOOLEAN
  <2>1. mig' = [mig EXCEPT ![p] = [NoMigration EXCEPT !.pc = "off"]]
    BY <1>3 DEF Exit, NoMigration
  <2> QED BY <1>3, <2>1, ErrorSound DEF AbstractStutter
<1>4. ASSUME NEW p \in Replicas, MigrateDone(p)
      PROVE  MigrateInv' /\ [Database!Next]_(Database!vars) /\ crossRows' \in BOOLEAN
  <2>1. mig' = [mig EXCEPT ![p] = [NoMigration EXCEPT !.pc = "off"]]
    BY <1>4 DEF MigrateDone, NoMigration
  <2> QED BY <1>4, <2>1, ErrorSound DEF AbstractStutter, MigrateDone
<1>5. ASSUME UNCHANGED <<driver, versions, catalogue, mig>>, crossRows' \in BOOLEAN
      PROVE  MigrateInv' /\ [Database!Next]_(Database!vars) /\ crossRows' \in BOOLEAN
  BY <1>5, MigrationAlone
<1>6. ASSUME NEW p \in Replicas, SetupFails(p) \/ EndProcess(p) \/ Crash(p)
      PROVE  MigrateInv' /\ [Database!Next]_(Database!vars) /\ crossRows' \in BOOLEAN
  BY <1>6, <1>3 DEF SetupFails, EndProcess, Crash
<1>7. ASSUME NEW p \in Replicas,
             \/ Listen(p) \/ ReceiveErr(p) \/ ReceiveSignal(p) \/ Shutdown(p) \/ CloseDb(p)
             \/ ServeStep(p) \/ ServeFails(p) \/ Signal(p) \/ Reconnect(p)
      PROVE  MigrateInv' /\ [Database!Next]_(Database!vars) /\ crossRows' \in BOOLEAN
  BY <1>7, <1>5 DEF Listen, ReceiveErr, ReceiveSignal, Shutdown, CloseDb, ServeStep, ServeStarts,
                    ServeCloses, ServeFails, Signal, Reconnect
<1>8. ASSUME NEW q \in Clients, NewRequest(q) \/ Handle(q) \/ EndRequest(q)
      PROVE  MigrateInv' /\ [Database!Next]_(Database!vars) /\ crossRows' \in BOOLEAN
  BY <1>8, <1>5 DEF NewRequest, Handle, EndRequest
<1>9. CASE Others
  BY <1>9, <1>5 DEF Others, CleanUp, OldReleaseWrites
<1>10. CASE UNCHANGED vars
  BY <1>10, <1>5 DEF vars
<1> QED BY <1>1, <1>2, <1>4, <1>6, <1>7, <1>8, <1>9, <1>10 DEF Next, MainStep

LEMMA MigrateStart ==
    ASSUME Init
    PROVE  MigrateInv /\ crossRows \in BOOLEAN /\ Database!Init
<1>1. PICK v \in {0, OldRelease} :
         /\ versions = { w \in Files(driver) : w <= v }
         /\ catalogue = Produced(driver, v)
         /\ crossRows \in {FALSE, v = OldRelease}
  BY DEF Init, MigrateInit
<1>2. driver \in Drivers /\ mig = [p \in Replicas |-> NoMigration]
  BY DEF Init, MigrateInit
<1>3. v \in Files(driver) \cup {0}
  BY <1>1, <1>2, FilesAreNats
<1>4. Version = v
  BY <1>1, <1>2, <1>3, MaxOfPrefix, FilesAreNats DEF Version
<1>5. Prefix /\ CatalogueMatches
  BY <1>1, <1>3, <1>4 DEF Prefix, CatalogueMatches
<1>6. \A p \in Replicas : Shape(mig[p]) /\ Applying(mig[p]) /\ ~ InTransaction(p)
  <2> SUFFICES ASSUME NEW p \in Replicas
               PROVE  Shape(mig[p]) /\ Applying(mig[p]) /\ ~ InTransaction(p)
    OBVIOUS
  <2>1. mig[p] = [pc |-> "off", file |-> 0, stmt |-> 1, work |-> {}]
    BY <1>2 DEF NoMigration
  <2>2. Shape(mig[p])
    BY <2>1 DEF Shape, MigrateStates
  <2>3. Applying(mig[p]) /\ ~ InTransaction(p)
    BY <2>1 DEF Applying, InTransaction
  <2> QED BY <2>2, <2>3
<1>7. Database!Init
  BY <1>1, <1>3, <1>4 DEF Database!Init
<1>8. crossRows \in BOOLEAN
  BY <1>1
<1> QED BY <1>2, <1>5, <1>6, <1>7, <1>8 DEF MigrateInv, OneTransaction

\* The replicas, however many of them migrate at once and whenever they crash,
\* implement one database that goes from version to version, each file whole.
THEOREM MigrationsAreAtomic == Spec => UpgradesAtomically
<1>1. Init => MigrateInv /\ crossRows \in BOOLEAN /\ Database!Init
  BY MigrateStart
<1>2. MigrateInv /\ crossRows \in BOOLEAN /\ [Next]_vars
        => (MigrateInv /\ crossRows \in BOOLEAN)' /\ [Database!Next]_(Database!vars)
  BY MigrateUpSound
<1> QED BY <1>1, <1>2, PTL DEF Spec, UpgradesAtomically, Database!Spec

----------------------------------------------------------------------------
(* What a serving replica has under it.  *)

\* The versions loop starts the next file at its first statement, or ends.
LEMMA ContinueFields ==
    ASSUME mig = [q \in Replicas |-> mig[q]], NEW p \in Replicas, NEW v, Continue(p, v)
    PROVE  /\ \A q \in Replicas \ {p} : mig'[q] = mig[q]
           /\ mig'[p].pc \in {"apply", "done"}
           /\ mig'[p].pc = "apply" => IsNext(mig'[p].file, v) /\ mig'[p].stmt = 1
           /\ mig'[p].pc = "done" => After(v) = {}
<1>1. CASE After(v) = {} /\ mig' = [mig EXCEPT ![p] = [NoMigration EXCEPT !.pc = "done"]]
  <2>1. mig'[p] = [pc |-> "done", file |-> 0, stmt |-> 1, work |-> {}]
    BY <1>1 DEF NoMigration
  <2> QED BY <1>1, <2>1
<1>2. ASSUME NEW w \in After(v), IsNext(w, v),
             mig' = [mig EXCEPT ![p] = [NoMigration EXCEPT !.pc = "apply", !.file = w]]
      PROVE  /\ \A q \in Replicas \ {p} : mig'[q] = mig[q]
             /\ mig'[p].pc = "apply" /\ IsNext(mig'[p].file, v) /\ mig'[p].stmt = 1
  <2>1. mig'[p] = [pc |-> "apply", file |-> w, stmt |-> 1, work |-> {}]
    BY <1>2 DEF NoMigration
  <2> QED BY <1>2, <2>1
<1> QED BY <1>1, <1>2 DEF Continue

\* The deferred PRAGMA succeeds, or it fails and that is not reported.
LEMMA KeysRestored ==
    ASSUME foreignKeys \in [Replicas -> Keys], NEW p \in Replicas, NEW off,
           mig[p].file \in Files(driver), RestoreKeys(p, off)
    PROVE  /\ foreignKeys' \in [Replicas -> Keys]
           /\ \A q \in Replicas \ {p} : foreignKeys'[q] = foreignKeys[q]
           /\ \/ foreignKeys'[p].on
              \/ /\ foreignKeys'[p].failed = foreignKeys[p].failed \cup {mig[p].file}
                 /\ foreignKeys[p].on /\ ~ off => foreignKeys'[p].on
<1> DEFINE k == foreignKeys[p]
<1>1. k \in Keys /\ k.on \in BOOLEAN /\ k.failed \in SUBSET Files(driver)
  BY DEF Keys
<1>2. CASE foreignKeys' = [foreignKeys EXCEPT ![p].on = TRUE]
  <2>1. foreignKeys'[p] = [on |-> TRUE, failed |-> k.failed]
    BY <1>1, <1>2 DEF Keys
  <2> QED BY <1>1, <1>2, <2>1 DEF Keys
<1>3. CASE foreignKeys' = [foreignKeys EXCEPT ![p].on = @ /\ ~ off,
                                              ![p].failed = @ \cup {mig[p].file}]
  <2>1. PICK x \in BOOLEAN : x = (k.on /\ ~ off)
    OBVIOUS
  <2>2. foreignKeys'[p] = [on |-> x, failed |-> k.failed \cup {mig[p].file}]
    BY <1>1, <1>3, <2>1 DEF Keys
  <2> QED BY <1>1, <1>3, <2>1, <2>2 DEF Keys
<1> QED BY <1>2, <1>3 DEF RestoreKeys

\* The keys of the replica that takes a step of MigrateUp.
LEMMA KeysStep ==
    ASSUME MigrateInv, ServedInv, NEW p \in Replicas, main[p] = "migrate", MigrateStep(p)
    PROVE  /\ (foreignKeys \in [Replicas -> Keys])'
           /\ \A q \in Replicas \ {p} : mig'[q] = mig[q] /\ foreignKeys'[q] = foreignKeys[q]
           /\ KeysAt(mig[p], foreignKeys[p])'
<1> DEFINE m == mig[p]
           k == foreignKeys[p]
<1>1. /\ mig = [q \in Replicas |-> mig[q]] /\ Shape(m) /\ Applying(m) /\ driver \in Drivers
      /\ foreignKeys \in [Replicas -> Keys] /\ k \in Keys /\ KeysAt(m, k)
  BY DEF MigrateInv, ServedInv, Served
<1>2. UNCHANGED driver /\ Files(driver) \subseteq Nat \ {0}
  BY <1>1, FilesAreNats DEF MigrateStep, ReadVersion, ExecBody, RecordVersion, Commit,
                            ExecStatement, RecordApplied, database
<1>3. /\ Keys' = Keys /\ Files(driver)' = Files(driver)
      /\ \A v : KeysOff(driver, v)' = KeysOff(driver, v) /\ Before(v)' = Before(v)
  BY <1>2 DEF Keys, Before
<1>4. ASSUME ReturnErr(p)
      PROVE  mig'[p].pc = "failed" /\ \A q \in Replicas \ {p} : mig'[q] = mig[q]
  BY <1>1, <1>4 DEF ReturnErr, NoMigration
<1>5. CASE ReadVersion(p)
  <2>1. UNCHANGED foreignKeys /\ Continue(p, Version) /\ k.on
    BY <1>1, <1>5 DEF ReadVersion, KeysAt
  <2> QED BY <1>1, <1>3, <2>1, ContinueFields DEF KeysAt, Unrestored
<1>6. CASE ExecStatement(p) \/ RecordApplied(p)
  <2>1. UNCHANGED foreignKeys /\ driver = "mysql" /\ k.on
    BY <1>1, <1>6 DEF ExecStatement, RecordApplied, KeysAt
  <2>2. \A q \in Replicas \ {p} : mig'[q] = mig[q]
    BY <1>1, <1>4, <1>6, ContinueFields DEF ExecStatement, RecordApplied
  <2> QED BY <1>1, <1>3, <2>1, <2>2 DEF KeysAt, Unrestored
<1>7. CASE ExecBody(p)
  <2>1. m.pc = "apply" /\ driver # "mysql" /\ m.file \in Files(driver)
    BY <1>1, <1>7 DEF ExecBody, Applying
  <2>2. CASE ReturnErr(p) /\ RestoreKeys(p, KeysOff(driver, m.file))
    BY <1>1, <1>2, <1>3, <1>4, <2>1, <2>2, KeysRestored DEF KeysAt
  <2>3. CASE /\ mig' = [mig EXCEPT ![p].pc = "record",
                                   ![p].work = RunBody(Body(driver, m.file), catalogue, crossRows)]
             /\ foreignKeys' = [foreignKeys EXCEPT ![p].on = @ /\ ~ KeysOff(driver, m.file)]
    <3> DEFINE res == RunBody(Body(driver, m.file), catalogue, crossRows)
    <3>1. mig'[p] = [m EXCEPT !.pc = "record", !.work = res]
      BY <1>1, <2>3
    <3> HIDE DEF res
    <3>2. mig'[p] = [pc |-> "record", file |-> m.file, stmt |-> m.stmt, work |-> res]
      BY <1>1, <3>1, MigrationFields
    <3>3. mig'[p].pc = "record" /\ mig'[p].file = m.file
      BY <3>2
    <3>4. PICK x \in BOOLEAN : x = (k.on /\ ~ KeysOff(driver, m.file))
      OBVIOUS
    <3>5. foreignKeys'[p] = [on |-> x, failed |-> k.failed] /\ k.failed \in SUBSET Files(driver)
      BY <1>1, <2>3, <3>4 DEF Keys
    <3>6. foreignKeys' \in [Replicas -> Keys]
      BY <1>1, <2>3, <3>5 DEF Keys
    <3>7. Unrestored(k, Before(m.file))
      BY <1>1, <2>1 DEF KeysAt
    <3>8. KeysOff(driver, m.file) \/ Unrestored(foreignKeys'[p], Before(m.file))
      <4> SUFFICES ASSUME ~ KeysOff(driver, m.file)
                   PROVE  Unrestored(foreignKeys'[p], Before(m.file))
        OBVIOUS
      <4>1. foreignKeys'[p].on = x /\ foreignKeys'[p].failed = k.failed
        BY <3>5
      <4>2. k.on => foreignKeys'[p].on
        BY <3>4, <4>1
      <4> QED BY <3>7, <4>1, <4>2 DEF Unrestored
    <3>9. KeysOff(driver, m.file)' \/ Unrestored(foreignKeys[p], Before(mig[p].file))'
      BY <1>2, <1>3, <3>3, <3>8 DEF Unrestored
    <3> QED BY <1>1, <1>2, <1>3, <2>1, <2>3, <3>3, <3>6, <3>9 DEF KeysAt
  <2> QED BY <1>7, <2>2, <2>3 DEF ExecBody
<1>8. CASE RecordVersion(p)
  <2>1. m.pc = "record" /\ driver # "mysql" /\ m.file \in Files(driver)
    BY <1>1, <1>8 DEF RecordVersion, InTransaction, Applying
  <2>2. CASE ReturnErr(p) /\ RestoreKeys(p, FALSE)
    BY <1>1, <1>2, <1>3, <1>4, <2>1, <2>2, KeysRestored DEF KeysAt
  <2>3. CASE mig' = [mig EXCEPT ![p].pc = "commit"] /\ UNCHANGED foreignKeys
    <3>1. mig'[p] = [m EXCEPT !.pc = "commit"]
      BY <1>1, <2>3
    <3>2. mig'[p] = [pc |-> "commit", file |-> m.file, stmt |-> m.stmt, work |-> m.work]
      BY <1>1, <3>1, MigrationFields
    <3>3. mig'[p].pc = "commit" /\ mig'[p].file = m.file
      BY <3>2
    <3> QED BY <1>1, <1>2, <1>3, <2>1, <2>3, <3>3 DEF KeysAt, Unrestored
  <2> QED BY <1>8, <2>2, <2>3 DEF RecordVersion
<1>9. CASE Commit(p)
  <2>1. /\ m.pc = "commit" /\ driver # "mysql" /\ m.file \in Files(driver)
        /\ RestoreKeys(p, FALSE) /\ Continue(p, m.file)
    BY <1>1, <1>9 DEF Commit, InTransaction, Applying
  <2>2. /\ foreignKeys' \in [Replicas -> Keys]
        /\ \A q \in Replicas \ {p} : foreignKeys'[q] = foreignKeys[q]
        /\ \/ foreignKeys'[p].on
           \/ /\ foreignKeys'[p].failed = k.failed \cup {m.file}
              /\ k.on => foreignKeys'[p].on
    BY <1>1, <2>1, KeysRestored
  <2>3. KeysOff(driver, m.file) \/ Unrestored(k, Before(m.file))
    BY <1>1, <2>1 DEF KeysAt
  \* m.file has failed too: what was off before it, or by it, still is.
  <2>4. ASSUME NEW F, F \subseteq Before(m.file) \cup {m.file}, F \subseteq Files(driver)
        PROVE  Unrestored(foreignKeys'[p], F)
    <3>1. CASE foreignKeys'[p].on
      BY <3>1 DEF Unrestored
    <3>2. CASE foreignKeys'[p].failed = k.failed \cup {m.file} /\ ~ k.on
      <4>1. CASE KeysOff(driver, m.file)
        BY <1>2, <2>1, <2>4, <3>2, <4>1 DEF Unrestored, Before
      <4>2. CASE Unrestored(k, Before(m.file))
        BY <1>2, <2>1, <2>4, <3>2, <4>2 DEF Unrestored, Before
      <4> QED BY <2>3, <4>1, <4>2
    <3> QED BY <2>2, <3>1, <3>2
  <2>5. /\ \A q \in Replicas \ {p} : mig'[q] = mig[q]
        /\ mig'[p].pc \in {"apply", "done"}
        /\ mig'[p].pc = "apply" => IsNext(mig'[p].file, m.file)
        /\ mig'[p].pc = "done" => After(m.file) = {}
    BY <1>1, <2>1, ContinueFields
  <2>6. ASSUME mig'[p].pc = "apply" PROVE Unrestored(foreignKeys'[p], Before(mig'[p].file))
    <3>1. Before(mig'[p].file) \subseteq Before(m.file) \cup {m.file}
      BY <1>2, <2>1, <2>5, <2>6 DEF Before, IsNext, After
    <3> QED BY <2>4, <3>1 DEF Before
  <2>7. ASSUME mig'[p].pc = "done" PROVE Unrestored(foreignKeys'[p], Files(driver))
    <3>1. Files(driver) \subseteq Before(m.file) \cup {m.file}
      BY <1>2, <2>1, <2>5, <2>7 DEF Before, After
    <3> QED BY <2>4, <3>1
  <2>8. KeysAt(mig[p], foreignKeys[p])'
    BY <1>2, <1>3, <2>1, <2>5, <2>6, <2>7 DEF KeysAt, Unrestored
  <2> QED BY <1>3, <2>2, <2>5, <2>8
<1> QED BY <1>5, <1>6, <1>7, <1>8, <1>9 DEF MigrateStep

\* A step of one replica outside MigrateUp.
LEMMA ServedOne ==
    ASSUME ServedInv, NEW p \in Replicas, UNCHANGED <<driver, versions>>,
           foreignKeys' \in [Replicas -> Keys],
           \A q \in Replicas \ {p} :
              main'[q] = main[q] /\ mig'[q] = mig[q] /\ foreignKeys'[q] = foreignKeys[q],
           Served(p)'
    PROVE  ServedInv'
<1>1. ASSUME NEW q \in Replicas \ {p} PROVE Served(q)'
  <2>1. Served(q) BY DEF ServedInv
  <2> QED BY <2>1 DEF Served, KeysAt, Unrestored, Before
<1> QED BY <1>1 DEF ServedInv, Keys

LEMMA ServedStep ==
    ASSUME MigrateInv, ServedInv, ProcessInv, [Next]_vars
    PROVE  ServedInv'
<1> USE DEF database, migration
<1>0. /\ main \in [Replicas -> MainStates] /\ foreignKeys \in [Replicas -> Keys]
      /\ mig = [q \in Replicas |-> mig[q]]
  BY DEF ProcessInv, ProcessType, ServedInv, MigrateInv
<1>1. ASSUME NEW p \in Replicas, Launch(p) PROVE ServedInv'
  <2>1. \A x \in BOOLEAN : Connection(x) \in Keys /\ Connection(x).on = x
    BY DEF Connection, Keys
  <2>2. /\ foreignKeys' \in [Replicas -> Keys] /\ foreignKeys'[p].on
        /\ main'[p] = "migrate" /\ mig'[p].pc = "read"
    BY <1>0, <1>1, <2>1 DEF Launch, NoMigration
  <2>3. Served(p)'
    BY <2>2 DEF Served, KeysAt
  <2> QED BY <1>0, <1>1, <2>2, <2>3, ServedOne DEF Launch
<1>2. ASSUME NEW p \in Replicas, Migrating(p) PROVE ServedInv'
  <2>1. main[p] = "migrate" /\ MigrateStep(p) /\ UNCHANGED main
    BY <1>2 DEF Migrating, process
  <2>2. /\ (foreignKeys \in [Replicas -> Keys])'
        /\ \A q \in Replicas \ {p} : mig'[q] = mig[q] /\ foreignKeys'[q] = foreignKeys[q]
        /\ KeysAt(mig[p], foreignKeys[p])'
    BY <2>1, KeysStep
  <2>3. UNCHANGED driver /\ versions \subseteq versions'
    BY <2>1 DEF MigrateStep, ReadVersion, ExecBody, RecordVersion, Commit, ExecStatement,
                RecordApplied
  <2>4. Served(p)'
    BY <2>1, <2>2 DEF Served
  <2>5. ASSUME NEW q \in Replicas \ {p} PROVE Served(q)'
    <3>1. Served(q) BY DEF ServedInv
    <3> QED BY <2>1, <2>2, <2>3, <3>1 DEF Served, KeysAt, Unrestored, Before
  <2> QED BY <2>2, <2>4, <2>5 DEF ServedInv
<1>3. ASSUME NEW p \in Replicas, SetupFails(p) \/ EndProcess(p) \/ Crash(p) PROVE ServedInv'
  <2>1. /\ main' = [main EXCEPT ![p] = "down"] /\ mig' = [mig EXCEPT ![p] = NoMigration]
        /\ UNCHANGED <<driver, versions, foreignKeys>>
    BY <1>3 DEF SetupFails, EndProcess, Crash, Exit
  <2>2. mig'[p].pc = "off" /\ main'[p] = "down"
    BY <1>0, <2>1 DEF NoMigration
  <2>3. Served(p)'
    BY <2>2 DEF Served
  <2> QED BY <1>0, <2>1, <2>3, ServedOne
<1>4. ASSUME NEW p \in Replicas, MigrateDone(p) PROVE ServedInv'
  <2>1. /\ main[p] = "migrate" /\ mig[p].pc = "done"
        /\ main' = [main EXCEPT ![p] = "reconcile"] /\ mig' = [mig EXCEPT ![p] = NoMigration]
        /\ UNCHANGED <<driver, versions, foreignKeys>>
    BY <1>4 DEF MigrateDone
  <2>2. mig'[p].pc = "off" /\ main'[p] = "reconcile"
    BY <1>0, <2>1 DEF NoMigration
  <2>3. Unrestored(foreignKeys[p], Files(driver)) /\ Files(driver) \subseteq versions
    BY <2>1 DEF ServedInv, Served, KeysAt, MigrateInv, Applying
  <2>4. Served(p)'
    BY <2>1, <2>2, <2>3 DEF Served, Unrestored
  <2> QED BY <1>0, <2>1, <2>4, ServedOne
<1>5. ASSUME NEW p \in Replicas, NEW label \in MainStates \ {"down", "migrate"},
             main[p] \notin {"down", "migrate"}, main' = [main EXCEPT ![p] = label],
             UNCHANGED <<driver, versions, mig, foreignKeys>>
      PROVE  ServedInv'
  <2>1. Served(p)'
    BY <1>0, <1>5 DEF ServedInv, Served, Unrestored
  <2> QED BY <1>0, <1>5, <2>1, ServedOne
<1>6. ASSUME NEW p \in Replicas,
             \/ Listen(p) \/ ReceiveErr(p) \/ ReceiveSignal(p) \/ Shutdown(p) \/ CloseDb(p)
      PROVE  ServedInv'
  BY <1>6, <1>5 DEF Listen, ReceiveErr, ReceiveSignal, Shutdown, CloseDb, MainStates
<1>7. ASSUME UNCHANGED <<driver, versions, main, mig, foreignKeys>> PROVE ServedInv'
  <2>1. ASSUME NEW q \in Replicas PROVE Served(q)'
    <3>1. Served(q) BY DEF ServedInv
    <3> QED BY <1>7, <3>1 DEF Served, KeysAt, Unrestored, Before
  <2> QED BY <1>7, <2>1 DEF ServedInv, Keys
<1>8. ASSUME NEW p \in Replicas, ServeStep(p) \/ ServeFails(p) \/ Signal(p) PROVE ServedInv'
  BY <1>8, <1>7 DEF ServeStep, ServeStarts, ServeCloses, ServeFails, Signal
<1>9. ASSUME NEW p \in Replicas, Reconnect(p) PROVE ServedInv'
  <2>1. /\ main[p] = "select" /\ foreignKeys' = [foreignKeys EXCEPT ![p] = Connection(DsnEnforces)]
        /\ UNCHANGED <<driver, versions, main, mig>>
    BY <1>9 DEF Reconnect, process
  <2>2. foreignKeys' \in [Replicas -> Keys] /\ foreignKeys'[p].on = DsnEnforces
    <3>1. \A x \in BOOLEAN : Connection(x) \in Keys /\ Connection(x).on = x
      BY DEF Connection, Keys
    <3> QED BY <1>0, <2>1, <3>1, ReplicaAssumption
  <2>3. Served(p)'
    BY <1>0, <2>1, <2>2 DEF ServedInv, Served, Unrestored
  <2> QED BY <1>0, <2>1, <2>2, <2>3, ServedOne
<1>10. ASSUME NEW q \in Clients, NewRequest(q) \/ Handle(q) \/ EndRequest(q) PROVE ServedInv'
  BY <1>10, <1>7 DEF NewRequest, Handle, EndRequest, process
<1>11. CASE Others
  BY <1>11, <1>7 DEF Others, CleanUp, OldReleaseWrites, process
<1>12. CASE UNCHANGED vars
  BY <1>12, <1>7 DEF vars, process
<1> QED BY <1>1, <1>2, <1>3, <1>4, <1>6, <1>8, <1>9, <1>10, <1>11, <1>12 DEF Next, MainStep

\* Everything the invariants say of a replica together.
ReplicaInv == RequestsInv /\ ProcessInv /\ MigrateInv /\ crossRows \in BOOLEAN /\ ServedInv

LEMMA ReplicaInvariant == Spec => []ReplicaInv
<1>1. Init => ReplicaInv
  <2> SUFFICES ASSUME Init PROVE ReplicaInv
    OBVIOUS
  <2>1. ServedInv
    <3>1. Connection(TRUE) \in Keys
      BY DEF Connection, Keys
    <3> QED BY <3>1 DEF Init, MigrateInit, NoMigration, ServedInv, Served
  <2> QED BY <2>1, ProcessInit, MigrateStart DEF ReplicaInv
<1>2. ReplicaInv /\ [Next]_vars => ReplicaInv'
  BY RequestsStep, ProcessStep, MigrateUpSound, ServedStep DEF ReplicaInv
<1> QED BY <1>1, <1>2, PTL DEF Spec

\* Requests run with foreign keys on, although migrations turn them off and the
\* pool may replace the connection, unless the unreported PRAGMA failed after
\* a file that had turned them off and after every later file.
THEOREM KeysReturn == Spec => []KeysOffNeverRestored
<1>1. ReplicaInv => KeysOffNeverRestored
  BY DEF ReplicaInv, ServedInv, Served, Unrestored, KeysOffNeverRestored, After
<1> QED BY <1>1, ReplicaInvariant, PTL

\* On SQLite and Postgres a replica that answers requests has the schema of the
\* last file under it, whatever the other replicas are doing.
ServedSchemaTransactional ==
    \A p \in Replicas : Serving(p) /\ driver # "mysql" =>
        After(Version) = {} /\ catalogue = Produced(driver, Version)

THEOREM SchemaServed == Spec => []ServedSchemaTransactional
<1>1. ReplicaInv => ServedSchemaTransactional
  <2> SUFFICES ASSUME ReplicaInv, NEW p \in Replicas, Serving(p), driver # "mysql"
               PROVE  After(Version) = {} /\ catalogue = Produced(driver, Version)
    BY DEF ServedSchemaTransactional
  <2>1. Files(driver) \subseteq versions
    BY DEF ReplicaInv, ServedInv, Served, Serving
  <2>2. versions = { w \in Files(driver) : w <= Version } /\ Version \in Files(driver) \cup {0}
    BY VersionIsLast DEF ReplicaInv, MigrateInv
  <2>3. After(Version) = {}
    BY <2>1, <2>2, FilesAreNats DEF After, ReplicaInv, MigrateInv
  <2> QED BY <2>3 DEF ReplicaInv, MigrateInv, CatalogueMatches
<1> QED BY <1>1, ReplicaInvariant, PTL

LEMMA HistoryStep ==
    ASSUME deployed \subseteq Replicas, overlap \in BOOLEAN, faults \in 0..MaxFaults, [Next]_vars
    PROVE  deployed' \subseteq Replicas /\ overlap' \in BOOLEAN /\ faults' \in 0..MaxFaults
<1> USE ReplicaAssumption DEF history, Fault
<1>1. ASSUME NEW p \in Replicas, MainStep(p)
      PROVE  UNCHANGED <<deployed, overlap>> /\ faults' \in 0..MaxFaults
  BY <1>1 DEF MainStep, Migrating, SetupFails, MigrateDone, Listen, ReceiveErr, ReceiveSignal,
              Shutdown, CloseDb, EndProcess, process
<1>2. ASSUME NEW p \in Replicas, ServeStep(p) PROVE UNCHANGED <<deployed, overlap, faults>>
  BY <1>2 DEF ServeStep, ServeStarts, ServeCloses
<1>3. ASSUME NEW p \in Replicas, ServeFails(p) \/ Signal(p) \/ Crash(p) \/ Reconnect(p)
      PROVE  UNCHANGED <<deployed, overlap>> /\ faults' \in 0..MaxFaults
  BY <1>3 DEF ServeFails, Signal, Crash, Reconnect, process
<1>4. ASSUME NEW p \in Replicas, Launch(p)
      PROVE  UNCHANGED <<deployed, faults>> /\ overlap' \in BOOLEAN
  BY <1>4 DEF Launch
<1>5. ASSUME NEW q \in Clients, NewRequest(q) \/ Handle(q) \/ EndRequest(q)
      PROVE  UNCHANGED <<deployed, overlap, faults>>
  BY <1>5 DEF NewRequest, Handle, EndRequest, process
<1>6. ASSUME Others PROVE UNCHANGED <<deployed, overlap>> /\ faults' \in 0..MaxFaults
  BY <1>6 DEF Others, process
<1>7. ASSUME UNCHANGED vars PROVE UNCHANGED <<deployed, overlap, faults>>
  BY <1>7 DEF vars, process
<1> QED BY <1>1, <1>2, <1>3, <1>4, <1>5, <1>6, <1>7 DEF Next

\* All variables of the replicas have their types: in particular a recorded
\* version is always that of a file, and channels carry what main expects.
THEOREM ReplicaTypes == Spec => []TypeOK
<1> DEFINE HistoryOK == deployed \subseteq Replicas /\ overlap \in BOOLEAN /\ faults \in 0..MaxFaults
<1>1. Spec => []HistoryOK
  <2>1. ASSUME Init PROVE HistoryOK
    <3>1. deployed \subseteq Replicas
      BY <2>1, Zenon DEF Init
    <3>2. overlap \in BOOLEAN
      BY <2>1 DEF Init
    <3>3. MaxFaults \in Nat
      BY ReplicaAssumption
    <3>4. faults = 0
      BY <2>1 DEF Init
    <3>5. faults \in 0..MaxFaults
      BY <3>3, <3>4
    <3> QED BY <3>1, <3>2, <3>5
  <2>2. ASSUME HistoryOK, [Next]_vars PROVE HistoryOK'
    BY <2>2, HistoryStep
  <2> QED BY <2>1, <2>2, PTL DEF Spec
<1>2. ReplicaInv /\ HistoryOK => TypeOK
  <2> SUFFICES ASSUME ReplicaInv, HistoryOK PROVE TypeOK
    OBVIOUS
  <2>1. driver \in Drivers /\ versions \subseteq Files(driver) /\ crossRows \in BOOLEAN
    BY DEF ReplicaInv, MigrateInv, Prefix
  <2>2. \A p \in Replicas :
           /\ mig[p].pc \in {"off", "read", "apply", "record", "commit", "done", "failed"}
           /\ mig[p].file \in Files(driver) \cup {0} /\ mig[p].stmt \in Nat \ {0}
    BY DEF ReplicaInv, MigrateInv, Shape, MigrateStates
  <2>3. req \in [Clients -> {Idle} \cup Request(Replicas)]
    BY DEF ReplicaInv, RequestsInv, SoundRequest
  <2>4. ProcessType /\ foreignKeys \in [Replicas -> [on : BOOLEAN, failed : SUBSET Files(driver)]]
    BY DEF ReplicaInv, ProcessInv, ServedInv, Keys
  <2> QED BY <2>1, <2>2, <2>3, <2>4 DEF TypeOK, ProcessType
<1> QED BY <1>1, <1>2, ReplicaInvariant, PTL

----------------------------------------------------------------------------
(* MySQL, whose statements commit one by one.  *)

OneMigrator == \A p, q \in Replicas : main[p] = "migrate" /\ main[q] = "migrate" => p = q

\* As long as no two replicas have migrated side by side, the catalogue is that
\* of the recorded version, or of attempts at the next file; the replica that
\* runs that file is where the catalogue is.
MySqlInv ==
    driver = "mysql" /\ ~ overlap =>
        /\ OneMigrator
        /\ After(Version) = {} => catalogue = Produced(driver, Version)
        /\ \A w \in Files(driver) : IsNext(w, Version) => \E k : <<k, catalogue>> \in Attempts(w)
        /\ \A p \in Replicas : mig[p].pc = "apply" =>
              /\ IsNext(mig[p].file, Version)
              /\ <<mig[p].stmt, catalogue>> \in Attempts(mig[p].file)

LEMMA AttemptsClosed ==
    ASSUME "mysql" \in Drivers, NEW v \in Files("mysql"), NEW k, NEW cat, <<k, cat>> \in Attempts(v)
    PROVE  /\ <<1, cat>> \in Attempts(v)
           /\ k <= Len(Body("mysql", v)) /\ Accepts(Body("mysql", v)[k], cat, FALSE) =>
                 <<k + 1, Effect(Body("mysql", v)[k], cat)>> \in Attempts(v)
           /\ k > Len(Body("mysql", v)) => cat = Produced("mysql", v)
<1>1. PICK a \in Attempts(v) : a = <<k, cat>>
  OBVIOUS
<1>2. a[1] = k /\ a[2] = cat
  BY <1>1
<1>3. LET s == Body("mysql", v)[a[1]] IN
      /\ <<1, a[2]>> \in Attempts(v)
      /\ a[1] <= Len(Body("mysql", v)) /\ Accepts(s, a[2], FALSE) =>
            <<a[1] + 1, Effect(s, a[2])>> \in Attempts(v)
      /\ a[1] > Len(Body("mysql", v)) => a[2] = Produced("mysql", v)
  BY <1>1, AttemptsAssumption, Zenon
<1> QED BY <1>2, <1>3, Zenon

\* The file before the next one.
LEMMA FileBefore ==
    ASSUME NEW d \in Drivers, NEW v \in Files(d) \cup {0}, NEW w \in Files(d), w > v,
           \A x \in Files(d) : x > v => w <= x
    PROVE  FileAt(d, w - 1) = v
<1> DEFINE F == Files(d)
           P(y) == y <= w - 1 /\ \A x \in F : x <= w - 1 => x <= y
<1>1. F \subseteq Nat \ {0}
  BY FilesAssumption
<1>2. P(v)
  BY <1>1
<1>3. \A y \in F \cup {0} : P(y) => y = v
  BY <1>1, <1>2
<1>4. FileAt(d, w - 1) = CHOOSE y \in F \cup {0} : P(y)
  BY DEF FileAt
<1> HIDE DEF P
<1> QED BY <1>2, <1>3, <1>4

\* A step that changes neither the catalogue nor the recorded versions, and
\* starts no file.
LEMMA MySqlAside ==
    ASSUME MySqlInv, UNCHANGED <<driver, versions, catalogue>>, ~ overlap' => ~ overlap,
           driver = "mysql" /\ ~ overlap' => OneMigrator',
           \A q \in Replicas : mig'[q] = mig[q] \/ mig'[q].pc # "apply"
    PROVE  MySqlInv'
<1>1. Version' = Version
  BY DEF Version
<1>2. After(Version)' = After(Version) /\ \A w : IsNext(w, Version)' <=> IsNext(w, Version)
  BY <1>1 DEF After, IsNext
<1> QED BY <1>1, <1>2 DEF MySqlInv

\* Two files cannot both be the next one.
LEMMA OneNext ==
    ASSUME driver \in Drivers, NEW v \in Nat, NEW w, NEW x, IsNext(w, v), IsNext(x, v)
    PROVE  w = x
BY FilesAreNats DEF IsNext, After

LEMMA MySqlRead ==
    ASSUME ReplicaInv, MySqlInv, NEW p \in Replicas, ReadVersion(p),
           UNCHANGED <<main, overlap>>, driver = "mysql", ~ overlap
    PROVE  MySqlInv'
<1>1. UNCHANGED <<driver, versions, catalogue>> /\ Continue(p, Version)
  BY DEF ReadVersion, database
<1>2. /\ \A q \in Replicas \ {p} : mig'[q] = mig[q]
      /\ mig'[p].pc = "apply" => IsNext(mig'[p].file, Version) /\ mig'[p].stmt = 1
  BY <1>1, ContinueFields DEF ReplicaInv, MigrateInv
<1>3. Version' = Version
  BY <1>1 DEF Version
<1>4. After(Version)' = After(Version) /\ \A w : IsNext(w, Version)' <=> IsNext(w, Version)
  BY <1>1, <1>3 DEF After, IsNext
<1>5. ASSUME mig'[p].pc = "apply" PROVE <<1, catalogue>> \in Attempts(mig'[p].file)
  <2>1. mig'[p].file \in Files(driver) /\ IsNext(mig'[p].file, Version)
    BY <1>2, <1>5 DEF IsNext, After
  <2>2. PICK k : <<k, catalogue>> \in Attempts(mig'[p].file)
    BY <2>1 DEF MySqlInv
  <2> QED BY <2>1, <2>2, AttemptsClosed DEF ReplicaInv, MigrateInv
<1>6. OneMigrator'
  BY DEF MySqlInv, OneMigrator
<1> QED BY <1>1, <1>2, <1>3, <1>4, <1>5, <1>6 DEF MySqlInv

LEMMA MySqlExec ==
    ASSUME ReplicaInv, MySqlInv, NEW p \in Replicas, main[p] = "migrate", ExecStatement(p),
           UNCHANGED <<main, overlap>>, ~ overlap
    PROVE  MySqlInv'
<1> DEFINE m == mig[p]
           s == Body(driver, m.file)[m.stmt]
<1>1. /\ m.pc = "apply" /\ driver = "mysql" /\ m.stmt <= Len(Body(driver, m.file))
      /\ UNCHANGED <<driver, versions>> /\ driver \in Drivers
  BY DEF ExecStatement, ReplicaInv, MigrateInv
<1>2. OneMigrator /\ OneMigrator'
  BY <1>1 DEF MySqlInv, OneMigrator
<1>3. CASE mig' = [mig EXCEPT ![p] = [NoMigration EXCEPT !.pc = "failed"]] /\ UNCHANGED catalogue
  <2>1. mig'[p].pc = "failed" /\ \A q \in Replicas \ {p} : mig'[q] = mig[q]
    BY <1>3 DEF ReplicaInv, MigrateInv, NoMigration
  <2> QED BY <1>1, <1>2, <1>3, <2>1, MySqlAside
<1>4. CASE /\ Accepts(s, catalogue, crossRows) /\ catalogue' = Effect(s, catalogue)
           /\ mig' = [mig EXCEPT ![p].stmt = m.stmt + 1]
  <2>1. Shape(m) /\ IsNext(m.file, Version) /\ <<m.stmt, catalogue>> \in Attempts(m.file)
    BY <1>1 DEF ReplicaInv, MigrateInv, MySqlInv
  <2>2. mig'[p] = [pc |-> m.pc, file |-> m.file, stmt |-> m.stmt + 1, work |-> m.work]
    <3>1. mig'[p] = [m EXCEPT !.stmt = m.stmt + 1]
      BY <1>4 DEF ReplicaInv, MigrateInv
    <3> QED BY <3>1, <2>1, MigrationFields
  <2>3. mig'[p].file = m.file /\ mig'[p].stmt = m.stmt + 1
    BY <2>2
  <2>4. m.file \in Files(driver) /\ Accepts(s, catalogue, FALSE)
    BY <1>4, <2>1 DEF IsNext, After, Accepts
  <2>5. <<m.stmt + 1, catalogue'>> \in Attempts(m.file)
    BY <1>1, <1>4, <2>1, <2>4, AttemptsClosed
  <2>6. ASSUME NEW q \in Replicas, mig'[q].pc = "apply" PROVE q = p
    <3>1. q # p => mig'[q] = mig[q]
      BY <1>4 DEF ReplicaInv, MigrateInv
    <3>2. q # p => main[q] = "migrate"
      BY <2>6, <3>1 DEF ReplicaInv, ServedInv, Served
    <3> QED BY <1>2, <3>2 DEF OneMigrator
  <2>7. Version' = Version /\ Version \in Nat
    BY <1>1, VersionIsLast, FilesAreNats DEF Version, ReplicaInv, MigrateInv
  <2>8. After(Version)' = After(Version) /\ \A w : IsNext(w, Version)' <=> IsNext(w, Version)
    BY <1>1, <2>7 DEF After, IsNext
  <2>9. After(Version) # {}
    BY <2>1 DEF IsNext
  <2>10. \A w \in Files(driver) : IsNext(w, Version) => w = m.file
    BY <1>1, <2>1, <2>7, OneNext
  <2> HIDE DEF m, s
  <2>11. \A w \in Files(driver') : IsNext(w, Version)' => \E k : <<k, catalogue'>> \in Attempts(w)
    BY <1>1, <2>5, <2>8, <2>10
  <2>12. (IsNext(mig[p].file, Version))' /\ <<mig'[p].stmt, catalogue'>> \in Attempts(mig'[p].file)
    BY <1>1, <2>1, <2>3, <2>5, <2>7 DEF IsNext, After
  <2> QED BY <1>2, <2>6, <2>8, <2>9, <2>11, <2>12 DEF MySqlInv
<1> QED BY <1>3, <1>4 DEF ExecStatement, ReturnErr

LEMMA MySqlRecord ==
    ASSUME ReplicaInv, MySqlInv, NEW p \in Replicas, main[p] = "migrate", RecordApplied(p),
           UNCHANGED <<main, overlap>>, ~ overlap
    PROVE  MySqlInv'
<1> DEFINE m == mig[p]
<1>1. /\ m.pc = "apply" /\ driver = "mysql" /\ m.stmt > Len(Body(driver, m.file))
      /\ UNCHANGED <<driver, catalogue>> /\ driver \in Drivers /\ Prefix
  BY DEF RecordApplied, ReplicaInv, MigrateInv
<1>2. OneMigrator /\ OneMigrator'
  BY <1>1 DEF MySqlInv, OneMigrator
<1>3. CASE mig' = [mig EXCEPT ![p] = [NoMigration EXCEPT !.pc = "failed"]] /\ UNCHANGED versions
  <2>1. mig'[p].pc = "failed" /\ \A q \in Replicas \ {p} : mig'[q] = mig[q]
    BY <1>3 DEF ReplicaInv, MigrateInv, NoMigration
  <2> QED BY <1>1, <1>2, <1>3, <2>1, MySqlAside
<1>4. CASE m.file \notin versions /\ versions' = versions \cup {m.file} /\ Continue(p, m.file)
  <2>1. PICK f : f = m.file
    OBVIOUS
  <2>2. /\ f \in Files(driver) /\ \A w \in Files(driver) : w < f => w \in versions
        /\ <<m.stmt, catalogue>> \in Attempts(f)
    BY <1>1, <2>1 DEF ReplicaInv, MigrateInv, Applying, MySqlInv
  <2>3. Version' = f
    BY <1>1, <1>4, <2>1, <2>2, RecordNext
  <2>4. catalogue = Produced(driver, f)
    BY <1>1, <2>1, <2>2, AttemptsClosed
  <2>5. /\ \A q \in Replicas \ {p} : mig'[q] = mig[q]
        /\ mig'[p].pc = "apply" => IsNext(mig'[p].file, f) /\ mig'[p].stmt = 1
    BY <1>4, <2>1, ContinueFields DEF ReplicaInv, MigrateInv
  <2>6. ASSUME NEW q \in Replicas, mig'[q].pc = "apply" PROVE q = p
    <3>1. q # p => mig'[q] = mig[q]
      BY <2>5
    <3>2. q # p => main[q] = "migrate"
      BY <2>6, <3>1 DEF ReplicaInv, ServedInv, Served
    <3> QED BY <1>2, <3>2 DEF OneMigrator
  <2>7. ASSUME NEW w \in Files(driver), IsNext(w, f) PROVE <<1, catalogue>> \in Attempts(w)
    <3>1. w > f /\ \A x \in Files(driver) : x > f => w <= x
      BY <2>7 DEF IsNext, After
    <3>2. FileAt(driver, w - 1) = f
      BY <1>1, <2>2, <3>1, FileBefore
    <3> QED BY <1>1, <2>4, <3>2, AttemptsAssumption
  <2>8. \A w : IsNext(w, Version)' <=> IsNext(w, f)
    BY <1>1, <2>3 DEF IsNext, After
  <2>9. \A w : IsNext(w, f) => w \in Files(driver)
    BY DEF IsNext, After
  <2> HIDE DEF m
  <2>10. \A w \in Files(driver') : IsNext(w, Version)' => \E k : <<k, catalogue'>> \in Attempts(w)
    BY <1>1, <2>7, <2>8
  <2>11. ASSUME mig'[p].pc = "apply"
         PROVE  (IsNext(mig[p].file, Version))' /\ <<mig'[p].stmt, catalogue'>> \in Attempts(mig'[p].file)
    <3>1. IsNext(mig'[p].file, f) /\ mig'[p].stmt = 1
      BY <2>5, <2>11
    <3>2. <<1, catalogue>> \in Attempts(mig'[p].file)
      BY <2>7, <2>9, <3>1
    <3>3. (IsNext(mig[p].file, Version))'
      BY <1>1, <2>3, <3>1 DEF IsNext, After
    <3> QED BY <1>1, <3>1, <3>2, <3>3
  <2> QED BY <1>1, <1>2, <2>3, <2>4, <2>6, <2>10, <2>11 DEF MySqlInv
<1> QED BY <1>3, <1>4 DEF RecordApplied, ReturnErr

LEMMA MySqlStep ==
    ASSUME ReplicaInv, MySqlInv, overlap \in BOOLEAN, [Next]_vars
    PROVE  MySqlInv'
<1> USE DEF database, migration, history
<1>0. /\ main \in [Replicas -> MainStates] /\ mig = [q \in Replicas |-> mig[q]]
      /\ driver = "mysql" /\ ~ overlap => OneMigrator
  BY DEF ReplicaInv, ProcessInv, ProcessType, MigrateInv, MySqlInv
<1>1. ASSUME NEW p \in Replicas, Launch(p) PROVE MySqlInv'
  <2>1. /\ UNCHANGED <<driver, versions, catalogue>>
        /\ main' = [main EXCEPT ![p] = "migrate"]
        /\ mig' = [mig EXCEPT ![p] = [NoMigration EXCEPT !.pc = "read"]]
        /\ ~ overlap' => ~ overlap /\ (driver = "mysql" => \A q \in Replicas : main[q] # "migrate")
    BY <1>1 DEF Launch
  <2>2. mig'[p].pc = "read" /\ \A q \in Replicas \ {p} : mig'[q] = mig[q]
    BY <1>0, <2>1 DEF NoMigration
  <2>3. driver = "mysql" /\ ~ overlap' => OneMigrator'
    BY <1>0, <2>1 DEF OneMigrator
  <2> QED BY <2>1, <2>2, <2>3, MySqlAside
<1>2. ASSUME NEW p \in Replicas, Migrating(p) PROVE MySqlInv'
  <2>1. main[p] = "migrate" /\ MigrateStep(p) /\ UNCHANGED <<main, overlap>> /\ driver' = driver
    BY <1>2 DEF Migrating, process, MigrateStep, ReadVersion, ExecBody, RecordVersion, Commit,
                ExecStatement, RecordApplied
  <2>2. CASE driver = "mysql" /\ ~ overlap
    <3>1. ReadVersion(p) \/ ExecStatement(p) \/ RecordApplied(p)
      BY <2>1, <2>2 DEF MigrateStep, ExecBody, RecordVersion, Commit, InTransaction
    <3> QED BY <2>1, <2>2, <3>1, MySqlRead, MySqlExec, MySqlRecord
  <2>3. CASE driver # "mysql" \/ overlap
    BY <2>1, <2>3 DEF MySqlInv
  <2> QED BY <2>2, <2>3
<1>3. ASSUME UNCHANGED <<driver, versions, catalogue, overlap>>, NEW p \in Replicas,
             NEW label \in MainStates \ {"migrate"}, main' = [main EXCEPT ![p] = label],
             mig' = mig \/ mig' = [mig EXCEPT ![p] = NoMigration]
      PROVE  MySqlInv'
  <2>1. \A q \in Replicas : mig'[q] = mig[q] \/ mig'[q].pc # "apply"
    BY <1>0, <1>3 DEF NoMigration
  <2>2. driver = "mysql" /\ ~ overlap' => OneMigrator'
    BY <1>0, <1>3 DEF OneMigrator
  <2> QED BY <1>3, <2>1, <2>2, MySqlAside
<1>4. ASSUME NEW p \in Replicas, SetupFails(p) \/ EndProcess(p) \/ Crash(p) PROVE MySqlInv'
  BY <1>3, <1>4 DEF SetupFails, EndProcess, Crash, Exit, MainStates
<1>5. ASSUME NEW p \in Replicas,
             \/ MigrateDone(p) \/ Listen(p) \/ ReceiveErr(p) \/ ReceiveSignal(p) \/ Shutdown(p)
             \/ CloseDb(p)
      PROVE  MySqlInv'
  BY <1>3, <1>5 DEF MigrateDone, Listen, ReceiveErr, ReceiveSignal, Shutdown, CloseDb, MainStates
<1>6. ASSUME UNCHANGED <<driver, versions, catalogue, mig, main, overlap>> PROVE MySqlInv'
  <2>1. driver = "mysql" /\ ~ overlap' => OneMigrator'
    BY <1>0, <1>6 DEF OneMigrator
  <2> QED BY <1>6, <2>1, MySqlAside
<1>7. ASSUME NEW p \in Replicas, ServeStep(p) \/ ServeFails(p) \/ Signal(p) \/ Reconnect(p)
      PROVE  MySqlInv'
  BY <1>6, <1>7 DEF ServeStep, ServeStarts, ServeCloses, ServeFails, Signal, Reconnect, process
<1>8. ASSUME NEW q \in Clients, NewRequest(q) \/ Handle(q) \/ EndRequest(q) PROVE MySqlInv'
  BY <1>6, <1>8 DEF NewRequest, Handle, EndRequest, process
<1>9. CASE Others
  BY <1>6, <1>9 DEF Others, CleanUp, OldReleaseWrites, process
<1>10. CASE UNCHANGED vars
  BY <1>6, <1>10 DEF vars, process
<1> QED BY <1>1, <1>2, <1>4, <1>5, <1>7, <1>8, <1>9, <1>10 DEF Next, MainStep

LEMMA MySqlStart ==
    ASSUME Init
    PROVE  MySqlInv
<1>1. PICK v \in {0, OldRelease} :
         versions = { w \in Files(driver) : w <= v } /\ catalogue = Produced(driver, v)
  BY DEF Init, MigrateInit
<1>2. driver \in Drivers /\ mig = [p \in Replicas |-> NoMigration] /\ main = [p \in Replicas |-> "down"]
  BY DEF Init, MigrateInit
<1>3. v \in Files(driver) \cup {0}
  BY <1>1, <1>2, FilesAreNats
<1>4. Version = v
  BY <1>1, <1>2, <1>3, MaxOfPrefix, FilesAreNats DEF Version
<1>5. ASSUME driver = "mysql", NEW w \in Files(driver), IsNext(w, Version)
      PROVE  <<1, catalogue>> \in Attempts(w)
  <2>1. w > v /\ \A x \in Files(driver) : x > v => w <= x
    BY <1>4, <1>5 DEF IsNext, After
  <2>2. FileAt(driver, w - 1) = v
    BY <1>2, <1>3, <2>1, FileBefore
  <2> QED BY <1>1, <1>2, <1>5, <2>2, AttemptsAssumption
<1>6. OneMigrator /\ \A p \in Replicas : mig[p].pc # "apply"
  BY <1>2 DEF OneMigrator, NoMigration
<1> QED BY <1>1, <1>4, <1>5, <1>6 DEF MySqlInv

\* A replica that answers requests has the whole schema under it, whatever
\* crashed, failed or ran side by side before: on SQLite and Postgres because a
\* file is one transaction, on MySQL, unless two replicas migrated at once,
\* because a file that broke off ends in its own catalogue or is refused.
THEOREM ServedSchemas == Spec => []ServedSchemaComplete
<1>1. ReplicaInv /\ MySqlInv => ServedSchemaComplete
  <2> SUFFICES ASSUME ReplicaInv, MySqlInv, NEW p \in Replicas, Serving(p), ~ overlap
               PROVE  After(Version) = {} /\ catalogue = Produced(driver, Version)
    BY DEF ServedSchemaComplete
  <2>1. Files(driver) \subseteq versions
    BY DEF ReplicaInv, ServedInv, Served, Serving
  <2>2. versions = { w \in Files(driver) : w <= Version } /\ Version \in Files(driver) \cup {0}
    BY VersionIsLast DEF ReplicaInv, MigrateInv
  <2>3. After(Version) = {}
    BY <2>1, <2>2, FilesAreNats DEF After, ReplicaInv, MigrateInv
  <2> QED BY <2>3 DEF ReplicaInv, MigrateInv, CatalogueMatches, MySqlInv
<1>2. TypeOK => overlap \in BOOLEAN
  BY DEF TypeOK
<1> QED BY <1>1, <1>2, MySqlStart, MySqlStep, ReplicaInvariant, ReplicaTypes, PTL DEF Spec

=============================================================================
