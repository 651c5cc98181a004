------------------------------- MODULE Replica -------------------------------
(***************************************************************************)
(* The life of a server process (cmd/server/main.go): setup opens the      *)
(* database, migrates it and reconciles the mask cache; serve runs         *)
(* httpSrv.Serve in a goroutine and waits for its error or for a signal,   *)
(* and then shuts down within a timeout; the deferred db.Close comes last. *)
(* Several replicas share the database.  A process may die at any moment,  *)
(* and whatever supervises it starts it again.                             *)
(***************************************************************************)
EXTENDS Migrate, Requests

CONSTANTS
    DsnEnforces,    \* the SQLite DSN says _pragma=foreign_keys(1), as the default does
    MaxFaults       \* crashes, errors, stop signals and other mishaps in a behaviour

ASSUME ReplicaAssumption == DsnEnforces \in BOOLEAN /\ MaxFaults \in Nat

VARIABLES
    deployed,   \* the replicas of the deployment (the chart's replicaCount)
    main,       \* replica -> where its run() is
    serving,    \* replica -> the goroutine that calls httpSrv.Serve
    errCh,      \* replica -> what the goroutine has sent, or "empty"
    sigCh,      \* replica -> a signal is in the channel, which holds one
    late,       \* replica -> Shutdown returned an error: its timeout
    result,     \* replica -> what its last run() returned
    served,     \* replica -> Serve has failed since the process started
    overlap,    \* two replicas were in MigrateUp of MySQL at the same time
    faults      \* mishaps so far

migration == <<database, mig, foreignKeys>>
history == <<deployed, overlap>>
process == <<history, main, serving, errCh, sigCh, late, result, served>>
vars == <<migration, req, process, faults>>

MainStates == {"down", "migrate", "reconcile", "select", "shutdown", "wait", "return", "closed"}

\* run() is past setup and the listener is open.
Serving(p) == main[p] = "select" /\ serving[p] = "accepting"

\* srv.inShutdown: Serve and its Accept return ErrServerClosed from now on.
ShuttingDown(p) == main[p] \in {"shutdown", "wait"}

DbOpen(p) == main[p] \notin {"down", "closed"}

Fault == faults < MaxFaults /\ faults' = faults + 1

----------------------------------------------------------------------------
(* setup  *)

\* runMain: database.Open, which turns foreign keys on, then MigrateUp.
Launch(p) ==
    /\ p \in deployed /\ main[p] = "down"
    /\ main' = [main EXCEPT ![p] = "migrate"]
    /\ mig' = [mig EXCEPT ![p] = [NoMigration EXCEPT !.pc = "read"]]
    /\ foreignKeys' = [foreignKeys EXCEPT ![p] = Connection(TRUE)]
    /\ sigCh' = [sigCh EXCEPT ![p] = FALSE]
    /\ errCh' = [errCh EXCEPT ![p] = "empty"]
    /\ serving' = [serving EXCEPT ![p] = "none"]
    /\ late' = [late EXCEPT ![p] = FALSE]
    /\ served' = [served EXCEPT ![p] = FALSE]
    /\ overlap' = (overlap \/ (driver = "mysql" /\ \E q \in Replicas : main[q] = "migrate"))
    /\ UNCHANGED <<database, req, deployed, result, faults>>

Migrating(p) ==
    /\ main[p] = "migrate"
    /\ MigrateStep(p)
    /\ \/ foreignKeys'[p].failed = foreignKeys[p].failed /\ UNCHANGED faults
       \/ foreignKeys'[p].failed # foreignKeys[p].failed /\ Fault
    /\ UNCHANGED <<req, process>>

\* The process ends: its requests end with it.
Exit(p, res) ==
    /\ main' = [main EXCEPT ![p] = "down"]
    /\ mig' = [mig EXCEPT ![p] = NoMigration]
    /\ result' = [result EXCEPT ![p] = res]
    /\ req' = [q \in Clients |-> IF Active(q) /\ req[q].at = p THEN Idle ELSE req[q]]

\* setup returns MigrateUp's error.
SetupFails(p) ==
    /\ main[p] = "migrate" /\ mig[p].pc = "failed"
    /\ Exit(p, "setup")
    /\ UNCHANGED <<database, foreignKeys, serving, errCh, sigCh, late, served, history, faults>>

MigrateDone_IgnoresError(p) ==
    /\ main[p] = "migrate" /\ mig[p].pc \in {"done", "failed"}
    /\ main' = [main EXCEPT ![p] = "reconcile"]
    /\ mig' = [mig EXCEPT ![p] = NoMigration]
    /\ UNCHANGED <<database, foreignKeys, req, serving, errCh, sigCh, late, result, served, history, faults>>
MigrateDone(p) ==
    /\ main[p] = "migrate" /\ mig[p].pc = "done"
    /\ main' = [main EXCEPT ![p] = "reconcile"]
    /\ mig' = [mig EXCEPT ![p] = NoMigration]
    /\ UNCHANGED <<database, foreignKeys, req, serving, errCh, sigCh, late, result, served, history, faults>>

\* ReconcileUserResourceMasks and net.Listen succeed: serve starts its
\* goroutine and selects.
Listen(p) ==
    /\ main[p] = "reconcile"
    /\ main' = [main EXCEPT ![p] = "select"]
    /\ serving' = [serving EXCEPT ![p] = "starting"]
    /\ UNCHANGED <<migration, req, errCh, sigCh, late, result, served, history, faults>>

----------------------------------------------------------------------------
(* serve  *)

\* Serve returns and the goroutine sends: nil for ErrServerClosed.
ServeReturns_ErrorsOnly(p, err) ==
    /\ errCh[p] = "empty"
    /\ errCh' = [errCh EXCEPT ![p] = IF err = "nil" THEN "empty" ELSE err]
    /\ serving' = [serving EXCEPT ![p] = "returned"]
ServeReturns(p, err) ==
    /\ errCh[p] = "empty"
    /\ errCh' = [errCh EXCEPT ![p] = err]
    /\ serving' = [serving EXCEPT ![p] = "returned"]

\* The goroutine is scheduled: Serve listens, unless Shutdown was faster.
ServeStarts(p) ==
    /\ serving[p] = "starting" /\ main[p] # "down"
    /\ \/ ShuttingDown(p) /\ ServeReturns(p, "nil")
       \/ /\ ~ ShuttingDown(p)
          /\ serving' = [serving EXCEPT ![p] = "accepting"]
          /\ UNCHANGED errCh
    /\ UNCHANGED <<migration, req, main, sigCh, late, result, served, history, faults>>

\* Accept fails for good.
ServeFails(p) ==
    /\ serving[p] = "accepting" /\ main[p] = "select"
    /\ Fault
    /\ ServeReturns(p, "err")
    /\ served' = [served EXCEPT ![p] = TRUE]
    /\ UNCHANGED <<migration, req, main, sigCh, late, result, history>>

ServeCloses(p) ==
    /\ serving[p] = "accepting" /\ ShuttingDown(p)
    /\ ServeReturns(p, "nil")
    /\ UNCHANGED <<migration, req, main, sigCh, late, result, served, history, faults>>

\* SIGINT or SIGTERM: signal.Notify drops it when the channel is full.  It is
\* kept while setup runs.
Signal(p) ==
    /\ main[p] # "down" /\ ~ sigCh[p]
    /\ Fault
    /\ sigCh' = [sigCh EXCEPT ![p] = TRUE]
    /\ UNCHANGED <<migration, req, main, serving, errCh, late, result, served, history>>

\* What serve returns for the value it takes from errCh.
Returned_ShutdownFirst(p) ==
    IF late[p] THEN "shutdown" ELSE IF errCh[p] = "err" THEN "serve" ELSE "nil"
Returned(p) ==
    IF errCh[p] = "err" THEN "serve" ELSE IF late[p] THEN "shutdown" ELSE "nil"

\* case err := <-errCh, and the later <-errCh after Shutdown.
ReceiveErr(p) ==
    /\ main[p] \in {"select", "wait"} /\ errCh[p] # "empty"
    /\ main' = [main EXCEPT ![p] = "return"]
    /\ result' = [result EXCEPT ![p] = Returned(p)]
    /\ errCh' = [errCh EXCEPT ![p] = "empty"]
    /\ UNCHANGED <<migration, req, serving, sigCh, late, served, history, faults>>

\* case sig := <-stop; select takes either case when both are ready.
ReceiveSignal(p) ==
    /\ main[p] = "select" /\ sigCh[p]
    /\ main' = [main EXCEPT ![p] = "shutdown"]
    /\ sigCh' = [sigCh EXCEPT ![p] = FALSE]
    /\ UNCHANGED <<migration, req, serving, errCh, late, result, served, history, faults>>

\* httpSrv.Shutdown(ctx) returns: no request is left, or the timeout.
Shutdown_NoDrain(p) ==
    /\ main[p] = "shutdown"
    /\ main' = [main EXCEPT ![p] = "wait"]
    /\ late' = [late EXCEPT ![p] = FALSE]
    /\ UNCHANGED <<migration, req, serving, errCh, sigCh, result, served, history, faults>>
Shutdown(p) ==
    /\ main[p] = "shutdown"
    /\ main' = [main EXCEPT ![p] = "wait"]
    /\ late' = [late EXCEPT ![p] = \E q \in Clients : InFlight(q, p)]
    /\ UNCHANGED <<migration, req, serving, errCh, sigCh, result, served, history, faults>>

\* The deferred db.Close of run, and then the end of main.
CloseDb(p) ==
    /\ main[p] = "return"
    /\ main' = [main EXCEPT ![p] = "closed"]
    /\ UNCHANGED <<migration, req, serving, errCh, sigCh, late, result, served, history, faults>>

EndProcess(p) ==
    /\ main[p] = "closed"
    /\ Exit(p, result[p])
    /\ UNCHANGED <<database, foreignKeys, serving, errCh, sigCh, late, served, history, faults>>

----------------------------------------------------------------------------
(* Requests, and what may go wrong.  *)

NewRequest(q) ==
    \E p \in Replicas, kind \in Kinds :
        /\ Serving(p)
        /\ Arrive(q, p, kind)
        /\ UNCHANGED <<migration, process, faults>>

Handle(q) ==
    /\ Active(q)
    /\ HandlerStep(q, DbOpen(req[q].at))
    /\ UNCHANGED <<migration, process, faults>>

EndRequest(q) ==
    /\ Forget(q)
    /\ UNCHANGED <<migration, process, faults>>

\* The process is killed, or a statement of setup fails for another reason
\* (a lost connection, a busy database, a port in use).
Crash(p) ==
    /\ main[p] # "down"
    /\ Fault
    /\ Exit(p, "killed")
    /\ UNCHANGED <<database, foreignKeys, serving, errCh, sigCh, late, served, history>>

\* The pool replaces the connection of a serving SQLite process: only the DSN
\* turns foreign keys on again.
Reconnect(p) ==
    /\ main[p] = "select" /\ driver = "sqlite"
    /\ Fault
    /\ foreignKeys' = [foreignKeys EXCEPT ![p] = Connection(DsnEnforces)]
    /\ UNCHANGED <<database, mig, req, process>>

Others ==
    \/ CleanUp /\ UNCHANGED <<req, process, faults>>
    \/ OldReleaseWrites /\ Fault /\ UNCHANGED <<req, process>>

----------------------------------------------------------------------------

Init ==
    /\ MigrateInit
    /\ req = [q \in Clients |-> Idle]
    /\ deployed \in (SUBSET Replicas) \ {{}}
    /\ main = [p \in Replicas |-> "down"]
    /\ serving = [p \in Replicas |-> "none"]
    /\ errCh = [p \in Replicas |-> "empty"]
    /\ sigCh = [p \in Replicas |-> FALSE]
    /\ late = [p \in Replicas |-> FALSE]
    /\ result = [p \in Replicas |-> "none"]
    /\ served = [p \in Replicas |-> FALSE]
    /\ overlap = FALSE
    /\ faults = 0

\* What main's goroutine does next.
MainStep(p) ==
    \/ Migrating(p) \/ SetupFails(p) \/ MigrateDone(p) \/ Listen(p)
    \/ ReceiveErr(p) \/ ReceiveSignal(p) \/ Shutdown(p) \/ CloseDb(p) \/ EndProcess(p)

ServeStep(p) == ServeStarts(p) \/ ServeCloses(p)

Next ==
    \/ \E p \in Replicas :
          Launch(p) \/ MainStep(p) \/ ServeStep(p)
          \/ ServeFails(p) \/ Signal(p) \/ Crash(p) \/ Reconnect(p)
    \/ \E q \in Clients : NewRequest(q) \/ Handle(q) \/ EndRequest(q)
    \/ Others

\* The two goroutines run, the supervisor starts a stopped process, and the
\* operator removes the rows migration 3 complains of.  Nothing is assumed of
\* requests: a handler may hang.
Fairness ==
    /\ \A p \in Replicas : WF_vars(Launch(p)) /\ WF_vars(MainStep(p)) /\ WF_vars(ServeStep(p))
    /\ WF_vars(CleanUp /\ UNCHANGED <<req, process, faults>>)

Spec == Init /\ [][Next]_vars /\ Fairness

----------------------------------------------------------------------------
(* Properties.  *)

TypeOK ==
    /\ driver \in Drivers
    /\ versions \subseteq Files(driver)
    /\ crossRows \in BOOLEAN
    /\ \A p \in Replicas :
          /\ mig[p].pc \in {"off", "read", "apply", "record", "commit", "done", "failed"}
          /\ mig[p].file \in Files(driver) \cup {0} /\ mig[p].stmt \in Nat \ {0}
    /\ foreignKeys \in [Replicas -> [on : BOOLEAN, failed : SUBSET Files(driver)]]
    /\ req \in [Clients -> {Idle} \cup Request(Replicas)]
    /\ deployed \subseteq Replicas /\ main \in [Replicas -> MainStates]
    /\ serving \in [Replicas -> {"none", "starting", "accepting", "returned"}]
    /\ errCh \in [Replicas -> {"empty", "nil", "err"}]
    /\ sigCh \in [Replicas -> BOOLEAN] /\ late \in [Replicas -> BOOLEAN]
    /\ result \in [Replicas -> {"none", "nil", "setup", "serve", "shutdown", "killed"}]
    /\ served \in [Replicas -> BOOLEAN] /\ overlap \in BOOLEAN
    /\ faults \in 0..MaxFaults

\* A replica that answers requests has the whole schema under it, with every
\* key, whatever crashed, failed or ran at the same time before; on MySQL
\* only if no two replicas migrated at the same time.
ServedSchemaComplete ==
    \A p \in Replicas : Serving(p) /\ ~ overlap =>
        /\ After(Version) = {}
        /\ catalogue = Produced(driver, Version)

\* Every file takes the database from one version to the next, in order and
\* whole: a replica that works from an old version changes nothing, and a
\* crash leaves no half of a file behind.  On MySQL, whose catalogue is not
\* atomic, this is said of the recorded version.
Database ==
    INSTANCE SchemaVersions WITH
        version <- Version,
        catalogue <- IF driver = "mysql" THEN Produced(driver, Version) ELSE catalogue

UpgradesAtomically == Database!Spec

\* "Always restore FK enforcement after this migration, regardless of outcome":
\* a serving replica is without foreign keys only if turning them on failed
\* after a file that had turned them off and again after every file since.  One
\* failure is made good by the next file, a new connection or a restart.
KeysOffNeverRestored ==
    DsnEnforces => \A p \in Replicas :
        main[p] \notin {"down", "migrate"} /\ ~ foreignKeys[p].on =>
            \E w \in Files(driver) : KeysOff(driver, w) /\ {w} \cup After(w) \subseteq foreignKeys[p].failed

\* run() returns the error of Serve if there was one, although a signal may
\* have won the select: the exit code tells a crash from a stop.
ServeErrorReported ==
    \A p \in Replicas : main[p] \in {"return", "closed"} =>
        (result[p] = "serve" <=> served[p])

\* A process that reports a clean stop closed its database after the last
\* request had been answered.
CleanStopDrains ==
    \A p \in Replicas, q \in Clients :
        main[p] = "closed" /\ result[p] = "nil" => ~ InFlight(q, p)

\* A stop signal ends the process, in setup too, before Serve has started, and
\* although requests hang.
StopReturns == \A p \in Replicas : sigCh[p] ~> main[p] = "down"

\* On SQLite and Postgres, whatever happened to a migration, a replica that is
\* restarted serves in the end: cross-domain rows only have to be removed.
EveryReplicaServes ==
    \A p \in Replicas : <>[](driver # "mysql" /\ p \in deployed => Serving(p))

\* On MySQL too: "if the pre-check fires the migration is aborted and can be
\* retried once cross-domain rows are cleaned up".
CleanupUnblocks ==
    driver = "mysql" => (~ crossRows ~> \E p \in Replicas : Serving(p))

=============================================================================
