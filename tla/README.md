# A TLA+ model of access-manager

access-manager is a Go HTTP service that answers one question: *which bits does
this user hold on this resource in this domain?* Domains scope users, groups,
resources, permissions and access types; a permission is a resource and a
`uint64` mask; users hold permissions directly or through the groups they belong
to. The service runs on SQLite, Postgres or MySQL.

This directory models the stores, where that answer is made, the access types
that give bits their names, the lists a client pages through, and the life of the
server process around them: migrations, requests, shutdown. TLC checks the models
on small instances; TLAPS proves the central properties for every value of the
constants.

## 1. Inventory

| Part (under `src/go`) | State | Operations | Talks to |
|---|---|---|---|
| tables (`migrations/*`) | 8 entity and junction tables, `access_types`, `user_resource_masks` (SQLite) | the statements of the stores | - |
| SQLite store (`internal/store/sqlite`) | the tables and the cache of effective masks | CRUD, reparenting, membership, grants, reconcile, listings | one connection: a transaction runs alone |
| Postgres and MySQL stores (`internal/store/postgres`, `mysql`) | the tables; no cache | the same calls; most are one statement, reparenting and patches are transactions, listings are several queries without one | a pool of 25 connections at the default isolation level |
| masks and titles (`internal/access`) | none | `MaskToTitles`, `TitlesToMask`, `AllocateNextBit`, `HasBit`, `CombineMasks` | called by the v2 handlers |
| handlers (`internal/api/server*.go`) | none | one store call per v1 request; v2 requests make several | store, access |
| auth, CORS, metrics (`internal/api`) | counters | middleware | wraps every handler |
| start and stop (`cmd/server/main.go`) | the process | open, migrate, reconcile, serve, shut down | all of the above |
| migration runners (`internal/store/*/migrate.go`) | `schema_migrations` | apply pending files in order | database |
| config, logger, charts, deploy, observability | read once, or no logic | - | - |

What is hard here:

- **The SQLite cache.** Every decision is read from `user_resource_masks`, which
  each mutation refreshes incrementally. One forgotten (user, resource) pair is
  access that outlives its revocation until the next restart.
- **Constraints as code.** Predicates leave out `domain_id` because composite
  foreign keys are supposed to keep junction rows within a domain. Two keys
  (`permissions.resource_id`, `groups.parent_group_id`) are not composite.
- **Interleaved transactions.** In Postgres and MySQL, read-then-write
  transactions take no locks on what they read.
- **Several queries for one answer.** Listings, and the v2 handlers, read at
  several moments.
- **Pages.** A list is a COUNT and a SELECT, and a walk through it many of them,
  while rows come and go.
- **Migrations.** Every replica migrates when it starts, with no lock of its own;
  MySQL commits every statement of a file by itself.
- **Stopping.** A signal, an error of Serve, a shutdown timeout and a crash meet
  setup, requests and the close of the database in any order.
- **Edges.** Bit 63 is the sign of the stored integer; 63 bits and a page of 63
  types; a walk of at most a million steps.

`PROJECT.json` lists each of these under `hazards`, at its line, with the
properties that cover it.

## 2. Modules

    Schema                     tables, constraints, statements, table properties
     |-- AccessStore           SQLite: statement + cache, start, stop, drift
     `-- PooledCalls           Postgres/MySQL calls of one statement
          |-- GroupTransactions       GroupSetParent, GroupPatch
          |-- PermissionTransactions  PermissionPatch
          `-- AuthzListings           the four authz listings
    AccessTypes                access types of one domain, v1 and v2
     |-- AccessTypePatches     the pooled AccessTypePatch, in two statements
     `-- TitlePermissions      v2 permissions and authz reads, by title
    PagedLists                 the entity lists, page by page
    SchemaVersions             what a migrated database promises (abstract)
    Migrate, Requests          MigrateUp; a request's way through the router
     `-- Replica               server processes: setup, serve, stop, crash

    SchemaProofs <- AccessStoreProofs, PermissionTransactionsProofs,
                    AuthzListingsProofs, GroupTransactionsProofs
    AccessTypesProofs          of AccessTypes, AccessTypePatches, TitlePermissions
    ReplicaProofs              of Migrate, Requests, Replica
    PagedListsProofs
    MC*                        finite instances

Refinements connect them: `AccessStore` and the three modules on top of
`PooledCalls` implement `Tables` (of `Schema`), `AccessTypePatches` implements
`AccessTypes`, and `Replica` implements `SchemaVersions` under the mapping
`Database`.

### Schema

One variable per table. Entity tables are functions from ids to rows, junction
tables are sets of rows. A statement (`InsertMember`, `DeleteGroup`, ...) is an
action enabled exactly when the database accepts it and it changes something:
primary keys, foreign keys and `ON DELETE RESTRICT` are its guards. A call that
is refused changes nothing and is a stuttering step. Masks are sets of bit
positions with a distinguished `SignBit`: `maskToSQL` refuses it (`FitsInt64`),
`maskFromSQL` reads it as zero. Titles are left out, since nothing depends on
them; so `access_types`, which no decision reads, has its own module.

`Granted` is the reference for a decision: which bits some permission of the
domain on the resource gives the user, with every table filtered by domain.
`CombinedMask` is the query the stores really run, without those filters.
`Tables` is the abstract specification "every step is a statement of Schema",
which the stores are shown to implement.

### AccessStore

Each call of the SQLite store is one action: `database.Open` limits the pool to
one connection, so `BeginTx ... Commit` is not interleaved. An action is its
statement and the recomputation the code does after it, over exactly the keys the
code computes (`groupResourceIDs`, `groupMemberIDs`, `permissionHolderUserIDs`).
`Setup` is `ReconcileUserResourceMasks` before the listener opens; `Stop` ends
the process at any moment between calls. While the process is down the file may
be edited (`EditCacheRow`, `EditPermissionMask`, at most `MaxEdits` times): that
is the drift the reconciliation is there for. The parent walk is a function of
the hierarchy (`WalkPasses`), with its step limit. The two listings read from the
cache look up the domain and the user or resource first, and answer `ErrNotFound`
(a 404) if there is none, or if it is of another domain.

A deleted id may be drawn again here. UUIDs do not repeat, so the model allows
more than the code does.

### PooledCalls, GroupTransactions, PermissionTransactions, AuthzListings

A single statement outside a transaction is atomic and is taken from Schema. The
other calls are split at every statement, with a record per connection that holds
what the call has read so far:

- `GroupTransactions`: the reparenting walk, one SELECT per step. `driver`, chosen
  at the start, decides the isolation: Postgres reads committed rows, MySQL the
  snapshot taken by the first SELECT. A title update locks its row; in
  MySQL the foreign-key check on the new parent waits for it, and two
  transactions that wait for each other lose one of them (`DeadlockVictim`).
  `overlapped` is history: two transactions that set a parent have run at the same
  time; a patch of the title alone does not count.
- `PermissionTransactions`: SELECT, resource check, UPDATE of all columns, the
  read of the row after the Commit, and the handler's audit event about what that
  read returned.
- `AuthzListings`: existence checks, page, masks (two queries in
  `ResourceAuthzUsersList`). The two group listings of the SQLite store make the
  same queries, and give up the connection between them. `held` and `seen` record
  what was true throughout the call and at some moment of it. `COUNT`, `LIMIT` and
  `OFFSET` are in `PagedLists`.

The UPDATE and the Commit after it are one step: nothing is read in between and
the row stays locked. `Cancel` is a cancelled request or a lost connection, at
any point. `drawn` keeps ids from being reused.

### AccessTypes

The rows of one domain and the v2 requests under way. The v2 create without a bit
is split at its store calls (load, insert, reload, insert, ...) with the retry
counter of the code; v1 creates, explicit v2 creates, patches and deletes are one
step. Titles are numbers, because the page of types is cut in title order.
`reason` and `rivals` are history: the constraint the last insert met, and how
often others changed the table meanwhile. `SentBits` is what clients send: v1 accepts any
value, so the properties that need single bits say so (`SingleBitsSent`).
`AccessTypePatch` is one step, as in SQLite. `AccessTypePatches` adds the patch of
the pooled stores: a SELECT without a lock, and an UPDATE of both columns, with
any other call in between; `raced` records that somebody changed the row meanwhile.

### TitlePermissions

A v2 call loads the access types in one store call and reads or writes masks in
another. One such call is followed (`call`), step by step, against every other
call on the types and permissions of its domain, including other v2 calls, whose
writes are those of `permissionCreate` and `permissionPatch`. Create and patch
convert, then write; get, list and the five authz reads take the masks, then the
types. A patch writes (`WritePatch`) and then reads the row again outside of its
transaction (`ReadBack`), and this is the row it answers with: another client may
have patched or deleted it by then. A patch that names no titles loads the types
after that, and so does one whose first load found none: an empty result is a nil
slice. Of a permission
only the mask is kept, and the authz reads OR the masks of any set of permissions.
`right` and `changed` are history: the answers that were right when the masks and
when the types were read, and what others changed in between, or, of the row of a
patch, between the Commit and the read-back. Calls of others are one step, as in
SQLite.

### PagedLists

The six list endpoints have one shape: the handler parses and clamps the limit,
the store clamps it again, counts, and selects a page ordered by a column and then
by id, with no transaction around the two. `rows` is the table, with the value of
the sort column per row; a search term or filter is the set of values it lets
through. `walk` is a client that goes on by the limit of each answer until its
total. A query that fails is asked again. `orderByClause` is the set of positions
the clause leaves the database free to choose, at every query anew. The history
(`steady`, `seen`, `twice`, `left`, `entered`, `slipped`) is what the properties
speak of. Other clients' creates, title patches and deletes are one step each.

### Migrate, Requests, Replica

`Migrate` is `MigrateUp` of the three drivers against one database. A file is a
sequence of statements, each with what it drops, what it creates, and whether rows
across domains make it fail; the catalogue maps names to definitions. `ExecBody`,
`RecordVersion` and `Commit` are the transaction of SQLite and Postgres,
`ExecStatement` and `RecordApplied` the unprotected sequence of MySQL. Several
replicas run it side by side from the version each has read. `foreignKeys` is the
setting of a replica's SQLite connection, which some files switch off, and the files
after which switching it on failed: `applyMigration` throws that error away and goes
on (`RestoreKeys`). `MCReplica`
holds the files of the repository in this form. `Attempts` is a parameter that the
proofs about MySQL need: for each file, the statements and catalogues that attempts
at it reach when they break off and begin again; `MCReplica` computes it. `CleanUp` is the operator who
removes rows across domains; `OldReleaseWrites` a replica of the release before,
which a rolling update has not stopped yet, and which writes one.

`Requests` is the chain CORS, metrics, token, handler, and the handler's store
call as its caller sees it: it succeeds, it fails and has changed nothing, or it
fails although the change is committed (a lost connection; the row a patch reads
again is gone). What the handlers share is modelled: input errors, `writeStoreErr`
and `writeInternalErr`, the audit event, the deferred `recordAuthz`. The exception
is `permissionPatchV2`, which loads the types after its audit event and may fail
there.

`Replica` is `run`: `Launch` (Open), the migration, reconcile, then `serve` with
its goroutine, the two channels, `select`, `Shutdown` with its timeout, the wait
for the goroutine, the deferred `db.Close`, and the end of the process. `Crash`
is a kill or any other failure of setup; the supervisor launches the process
again. Requests run on `Serving` replicas and see whether the database is open.
`overlap` and `served` are history.

## 3. Runs

| Run | Instance | Shows |
|---|---|---|
| `store` | 1 user, 2 resources, bits 0 and 63; 1 domain with 2 groups and permissions and 2 edits per outage, or 2 domains with 3 groups and 1 permission | `CacheCoherent`, `ListingsExact`, `AccessMonotone`, `ReconcileChangesNothing`, `JunctionsInOneDomain`, `NoDangling`, `Acyclic`, `TypeOK` |
| `groups` | 2 connections; Postgres with 3 groups that exist at first and `GroupSetParent`; MySQL with 2 groups and every call | `CycleNeedsOverlap`, `CallsEnd`, `TypeOK` |
| `patch` | 2 domains, 2 permissions and resources, 1 patching connection | `DecisionExact`, `ReferencesLive`, `AuditReportsPatch`, `PatchIsPartial` |
| `listings` | the four listings, 2 resources and permissions, 3 bits | `NoPhantomBits`, `SteadyBitsInOneQuery` |
| `types` | 2 bits, 3 titles and ids, 2 allocating clients or 1 pooled patch, single bits | `OneBitPerTitle`, `TitlesRoundTrip`, `LoadIsComplete`, `RetriesSuffice`, `RevertsOnlyWhenRaced`, `PooledPatchIsPatch`, `PatchTypeOK` |
| `title_permissions` | 2 bits, titles, types and permissions, single bits | `AnswerEchoesRequest`, `StaleTitlesOnly`, `ReadsOneMoment`, `TitleTypeOK` |
| `replicas` | 3 drivers with their files; 1 replica and a client, or 2 replicas; 2 faults, and 4 on SQLite with 1 replica and no requests | `ServedSchemaComplete`, `UpgradesAtomically`, `KeysOffNeverRestored`, `EveryReplicaServes`, `ServeErrorReported`, `CleanStopDrains`, `StopReturns`, `CountersMatchAnswers`, `AnswerTellsEffect`, `TypeOK` |
| `lists` | 4 rows, 2 titles, 2 searches, limits none, 0 and above the maximum; default 1, maximum 2 | `MissesOnlyAfterRemoval`, `RepeatsOnlyAfterInsertion` |
| `groups_race`, `patch_race`, `audit_gap`, `migrate_retry` | the smallest instances that show it | the disagreements below |

What the properties say:

- `CacheCoherent`, `DecisionExact`: a decision is what the tables grant at that
  moment, from the cache (SQLite) and from the query (Postgres, MySQL).
- `ListingsExact`: the two listings read from the cache, which do not look at the
  mask, are exactly those with access and what they have, or a 404. A 404 hides
  nobody's access, with one exception that the code has: a permission may be on a
  resource of another domain, and that resource's listing is then a 404 in the
  domain of the permission, although its users have access.
- `AccessMonotone`: in SQLite, revoking, removing and deleting give nobody a bit;
  granting, adding and creating take none away.
- `ReconcileChangesNothing`: the incrementally maintained cache is the rebuilt one.
- `JunctionsInOneDomain`, `NoDangling`, `ReferencesLive`, `Acyclic`: isolation of
  domains, live references, a hierarchy without cycles.
- `CycleNeedsOverlap`: creations, deletions, cancellations and other calls in the
  middle of a walk let no cycle through; only a second reparenting at the same time can.
- `CallsEnd`: every transaction ends, in a hierarchy with a cycle and with lock
  waits too.
- `PatchIsPartial`: a committed patch changes only the fields it names.
- `AuditReportsPatch`: the audit event of a patch names the row the patch left,
  although it is read after the Commit and on another connection. Concurrent patches
  of the same permission are outside of it: in the run one connection patches, and
  the theorem assumes `OnePatchEach`.
- `NoPhantomBits`, `SteadyBitsInOneQuery`: a listing reports nothing that was never
  true during the call, and what was true throughout it.
- `OneBitPerTitle`, `TitlesRoundTrip`, `LoadIsComplete`: bits of a domain are never
  shared, titles and masks convert without loss, the page of types is complete.
- `RetriesSuffice`: an allocating create gives up over a bit only when others
  changed the table more often than it retries, or took the bit and gave it back
  before the reload.
- `RevertsOnlyWhenRaced`, `PooledPatchIsPatch`: a patch of two statements undoes
  what another client wrote only if that client changed the same row between the
  two, and to everybody else it is a patch of one step.
- `AnswerEchoesRequest`: a v2 create or patch answers with the titles it was asked
  for, whatever happens to the types during the call. The exception is a patch whose
  row another client changed between its Commit and its read-back: it answers with
  what that client wrote.
- `StaleTitlesOnly`: the mask written for titles is wrong, if at all, only about
  types that changed between the load and the write.
- `ReadsOneMoment`: a v2 read reports what was true when it read the masks or when
  it read the types, unless both changed in between.
- `MissesOnlyAfterRemoval`, `RepeatsOnlyAfterInsertion`: a walk through a list
  shows every row that was there all the time unless a row left, moved, or came in
  after the last COUNT, and shows a row twice only if one came in or moved. Equal
  titles and clamped limits make no difference.
- `ServedSchemaComplete`: a replica that takes requests has the whole schema of the
  last file under it (on MySQL: unless two replicas migrated at the same time).
- `UpgradesAtomically`: the database moves from one file to the next, whole and in
  order; a replica that works from an old version changes nothing.
- `KeysOffNeverRestored`: if the DSN asks for foreign keys, a process serves without
  them only if switching them on failed, unreported, after a file that had switched
  them off and again after every file since. One failure is made good by the next
  file, a new connection or a restart.
- `ServeErrorReported`, `CleanStopDrains`, `StopReturns`: an error of Serve is
  reported although a signal may have won the select; a clean stop means that the
  last request was answered before the database was closed; a signal at any moment
  after `Notify` ends the process.
- `EveryReplicaServes`: on SQLite and Postgres, whatever crashed or failed, every
  replica serves in the end.
- `CountersMatchAnswers`, `AnswerTellsEffect`: the counters agree with the answers
  on every path; a 2xx means committed and audited, a 4xx that nothing changed
  except for the 404 of a patch whose row was deleted before it was read again, and
  an audit event that the change was committed. Whether every change has its audit
  event is the question of `audit_gap`.

Why the bounds are enough for the case each property is about: a stale cache row
needs a second way to the same resource (direct and through a group, through two
groups, or two permissions) and a resource to move to; two of each give that, and
users do not affect one another. Drift needs a missing, a wrong and a surplus row,
and the sign bit. Crossing domains needs two domains; a parent chain that leaves
the domain and comes back needs three groups. A cycle that a later walk runs
around without meeting its own group needs three groups, two of them in the cycle.
The step limit is the number of groups, the smallest value the store's assumption
allows, so that it is reached. In `types` a rival's insert is also an explicit
create, so two allocating clients lose every attempt there is; a pooled patch and
a create do not run at the same time in this instance, because to the create the
patch is a patch of one step, which it meets anyway (`PooledPatchIsPatch`).
`title_permissions` has two types, so that one can take the title or the bit of the
other between two store calls, and two permissions to OR. `lists` has four rows,
two titles and pages of one and two: pages before, at and after the border that a
row crosses, ties, and a limit that both the handler and the store change.
`replicas` has two faults, so that a crash may follow a failed migration, or a
signal an error of Serve; two replicas are enough for one to migrate from a version
the other has left behind. A lone SQLite replica without requests has four: the
keys can fail to come back after each of the files 3, 4 and 5, so that it serves
without them, and then a new connection or a restart restores them. With two replicas no requests are sent, since requests
and migrations of another process share nothing in the model.

### Fairness

`GroupTransactions`: strong fairness of the next statement of each open
transaction. A handler that has begun a transaction runs on without waiting for
anything but the database, and row-lock queues are FIFO, so a statement whose lock
is free again and again gets it. It is strong because another transaction may take
the lock in between. No fairness is assumed of clients, of cancellation, or that
calls are made at all. Liveness cannot be checked under symmetry; the Postgres half
of `groups` therefore starts with existing groups, which other calls may delete,
and reparents with `GroupSetParent` only: enough to build the cycle its walks run
around in. Groups created during a walk, and `GroupPatch`, are in the MySQL half.

`Replica`: weak fairness of the next step of a process's main goroutine and of its
Serve goroutine (the Go scheduler runs what is ready, and a database statement
ends), of starting a stopped process (the deployment restarts it), and of the
operator who removes the rows migration 3 names. Nothing is assumed of requests:
a handler may hang, which is why `Shutdown` has a timeout. Faults are bounded by
`MaxFaults`, so they end.

### Disagreements

Four runs end in a violation: the code does something else than a comment, a plan
or a document says.

- `groups_race`: in Postgres (and MySQL) two concurrent reparentings can close a
  cycle. `groups` shows that nothing short of an overlap of two reparenting
  transactions does, and that calls still end.
- `patch_race`: two concurrent patches of one permission, of different fields,
  lose one of the changes.
- `audit_gap`: a patch of a permission reads its row again after the Commit. When that
  read fails, or finds the row deleted, the client gets the error and there is no
  audit event for a change that was made. Four documents and comments promise one for
  every mutation. The other patches end the same way (`StoreCommittedErr` of
  `Requests`).
- `migrate_retry`: on MySQL, migration 3 creates a marker table and a trigger
  before its pre-check. When the pre-check aborts it they stay, and every later
  start fails on `CREATE TABLE`, also after the rows have been removed.

More things the models show and no run is devoted to. `ResourceAuthzUsersList` can
miss a bit that a user holds throughout the call, first through a group and then
directly, because the two are read apart: `SteadyBitsInOneQuery` leaves that
listing out. v1 creates accept bit 0 and several bits, so a domain may have more
types than the page of 63 that v2 loads: `LoadIsComplete` holds while clients send
single bits, and the comment at `server_access_types_v2.go:34` does not. Two
concurrent patches of one access type in Postgres or MySQL lose a change as two
patches of a permission do (`RevertsOnlyWhenRaced` names the race). The comment at
`sqlite/migrate.go:50` says that foreign keys are always restored after a migration;
the error of the PRAGMA that does it is thrown away, and when it fails after file 3
and after files 4 and 5 the process serves without them (`KeysOffNeverRestored` names
the case). A row inserted between the COUNT and the SELECT of the last
page can push another past the total, and a client that trusts the total misses it.
Two MySQL replicas that migrate at the same time run each other's statements, and
may leave a schema that neither meant. `PermissionCreate`
takes a resource of another domain, and `GroupCreate` a parent of another domain;
isolation, live references and acyclicity hold all the same (`store`), but
no listing of such a resource shows who has access to it: it is a 404 in the
permission's domain, and in its own it leaves them out. A reparenting whose group was deleted after
the walk updates no row and reports success. A
listing may hold a user whose mask became 0 between its queries. An allocating
create that lost a bit race may be refused as if its title were taken, when the
rival's type is deleted before the reload (the second case of `RetriesSuffice`).
The bit of a deleted type is allocated again, and every permission that still has
the bit then carries the new title; a v2 write whose titles were converted before
such a change grants what the bits mean now, while its answer names the titles it
was asked for. A v2 read under which masks and types both change may report a title
that was held at no moment.

## 4. Proofs

All proofs are for arbitrary sets of domains, users, groups, resources,
permissions, bits, titles, ids, clients, connections, replicas and migration files.
They assume only the named `ASSUME`s of the modules, which TLC evaluates in every
run: null values are not rows, the sign is one of the bits, the groups are finitely
many and no more than the step limit of the parent walk (a million in the code),
and the two assumptions about migration files below, which the files of the
repository satisfy. The two theorems that assume something of the behaviour name it
(`OnePatchEach`).

**SchemaProofs.** `SchemaIntegrity`: typing, `JunctionsInOneDomain` and
`ReferencesLive` together are preserved by every statement. They are proved
together because each needs the others: a delete is refused by references, and
references are only as good as the rows they name. Everything that implements
`Tables` inherits it. The module also holds what the stores share about decisions
(with `JunctionsInOneDomain` the unfiltered query equals `Granted`:
`HolderInDomain`, `CombinedIsGranted`) and about the hierarchy. `Acyclic` says that
every non-empty set of groups has a member whose parent is outside it, so that no
proof needs an induction along a chain: an insert or a delete keeps it
(`AcyclicInsert`, `AcyclicDelete`), and setting the parent of `g` to `p` does when
the chain from `p` leaves every set of groups before it comes to `g` (`Escapes`,
`AcyclicReparent`).

**AccessStoreProofs.** `ImplementsTables`: every step of the store is a statement
of `Schema` or leaves the tables alone. `DomainIsolation` then follows from
`SchemaIntegrity`; `TypeCorrect` adds cache, process and edit counter.

`CacheCoherence` is not inductive as it stands: it says nothing of a stopped
process and nothing of which zero masks have a row. The inductive invariant
`CacheInv` is

- `Serving => edits = 0`, and
- `edits = 0 => CacheExact`: every cache row is what `computeAndUpsertMask` would
  write for it now, and a key whose mask is zero has no row.

The argument per call is about `Contribution(q, k)`, what permission `q` adds to
key `k`: the mask of a key changes only if some contribution changes, and each
call recomputes every key for which one can. `ListingExactness`,
`ReferentialIntegrity` and `ReconcileIdentity` follow from the same invariant. The
first also needs that whoever holds a bit in a domain is a user of it, and that the
domain exists: membership and grants stay within a domain and name live rows.
`AccessIsMonotone` follows from `CacheCoherence` before and after the step, since
what the tables grant is monotone in them (`GrantedMonotone`).

`HierarchyIsAcyclic`: a walk that passes escapes the group (`WalkEscapes`), because
it came to a root (`RootFound`). The code also lets a walk pass that runs out of
steps; none does, since with as many steps as there are groups it would have met
one of them twice, which is a cycle (`StepsSuffice`, by the pigeonhole principle).

**PermissionTransactionsProofs.** `PatchImplementsTables` needs that the row a
patch has read is one the table could hold (`TxInv`): the UPDATE writes it back.
`PatchKeepsReferences` and `PooledDecisionsExact` follow by `SchemaIntegrity`. For
`AuditIsTrue` and `PatchesArePartial` the invariant `PatchInv` says that what the
transaction has read or written is still there, or the row is gone and, ids being
drawn once, stays gone (`Follows`). It holds while no two connections patch the
same permission (`[]OnePatchEach`), whatever else they do; a pool of one connection
gives that, and `patch_race` shows that without it `PatchIsPartial` fails.

**AuthzListingsProofs.** `Faithful` relates a call to its history: at every moment
what was `held` throughout is part of the mask in force, and that part of what was
`seen`; a mask the call has read was seen; an item that the page left out held
nothing. The queries filter on no domain; that they see no more than the mask in
force needs `JunctionsInOneDomain`. `ListingsReportNoPhantoms` and
`ListingsMissNothingSteady` are its last case.

**GroupTransactionsProofs.** `GroupsTypeCorrect` needs what each program counter
implies (`Shape`); `GroupsImplementTables` follows. `CyclesNeedOverlap` is the
largest proof. While nobody has overlapped, `CycleInv` says that at most one
transaction sets a parent, and of this one:

- what it reads is a sound table, the committed rows or, on MySQL, its snapshot:
  acyclic, live, and different from the table of now only in groups that have been
  deleted since (`SoundTable`; a new group has a new id, so nothing that the
  snapshot names can come to point at it);
- the group the walk is at lies in every set that holds the new parent and is closed
  under parents, the moving group's aside (`Reaches`), so that a walk that ends
  proves `Escapes`;
- the groups passed so far are `steps + 1` different ones (`Trail`), so that the
  limit is not reached, although groups are deleted and created meanwhile;
- before the UPDATE, the new parent still escapes the group.

Creations and deletions by others keep all four, and patches of titles alone, any
number at a time, touch no parent.

**AccessTypesProofs.** The invariant `TypesInv` adds to typing that ids have
different titles and bits (`RowsUnique`), that rows hold one bit if clients send
one (`RowsSingle`), and that a request about to allocate again has an attempt left
(`RequestsSound`, without which the attempt counter leaves its range).
`BitsDisjoint` and `TitlesAreFaithful` follow. `LoadsAreComplete`: rows with
different single bits are no more than the bits, and the page has room for that
many. `RetriesAreEnough` counts: `Contended` bounds the number of rivals from below
by the attempt, and says that at equality the bit asked for is the one the table of
now allocates next.

For the pooled patch, `PatchInv` adds that rows and reads hold bits some client
sent. `PooledPatchImplements`: the UPDATE, with a row read at any earlier moment, is
an `AccessTypePatch` that names both columns; everything else is a step of
`AccessTypes` or leaves it alone. `PooledTypesCorrect` carries the properties of
`AccessTypes` over. `RevertsNeedRace`: a transaction not marked as raced holds the
row as it is (`FreshReads`).

For the v2 permissions, `TitleInv` says of the call under way that the mask is the
one of its titles under the types it loaded, which are unambiguous (`Echoes`), that
the row it is about to read back still has this mask unless somebody changed it, and
that a read has noted what was right when it read, up to the changes recorded since
(`Reports`). `TitleTypeCorrect`, `AnswersEcho`, `ReadsAreOfOneMoment` and
`MasksAreStaleOnly` follow.

**ReplicaProofs.** `RequestsInv` says of every request, by how far it is, what has
been committed, counted and audited (`Sound`); each handler step keeps it, and so
do crashes, which take requests with them. `CountersMatchAnswers` and
`AnswerTellsEffect` are its last case. `ServeErrors` and `CleanStops` rest on an
invariant that relates where `run` is, what the goroutine has sent and what
`Shutdown` returned: in particular, no request arrives after `Shutdown` began.

The migration files are arbitrary; `FilesAssumption` says that each, run on what
the files before it produce, produces what its version stands for, or fails. The
invariant `MigrateInv`: the recorded versions are a prefix of the files (`Prefix`);
outside MySQL the catalogue is the one of the recorded version
(`CatalogueMatches`); one replica at a time holds the locks of a transaction; and a
replica that works from an old version (`Applying`) either fails to record its file
or finds it unrecorded, and then works on the catalogue the file expects. With it
every step maps to a step of `SchemaVersions` or a stutter (`MigrationsAreAtomic`,
on MySQL for the recorded version). `ServedInv` adds the keys and what a process
past setup knows: `KeysReturn`, `SchemaServed`, `ReplicaTypes`. For the keys it says
that a connection without them has failed to restore them after some file that
switches them off and after every later file that it has been through.

`ServedSchemas` is `SchemaServed` for MySQL too, where a file that broke off is run
again on what it left. `AttemptsAssumption` says that the attempts at a file reach
its end, if at all, with the file's own catalogue, after any number of interrupted
ones. `MySqlInv`, while no two replicas migrate at once: at most one replica is
migrating; the catalogue is one that attempts at the next file reach, or, after the
last file, the final one; and a replica inside a file is where its catalogue is.

**PagedListsProofs.** The rank of a row is the number of rows before it. Every
position function the clause allows is the rank (`PositionIsRank`, because the id
breaks every tie); this is where `ORDER BY title, id` matters. `WalkInv`: while
nothing has left, a steady row that has not been shown has a rank of at least the
offset; while nothing has come in, a row that has been shown has a rank below it;
and after the COUNT the listing has not outgrown the total unless a row slipped in.
Removing rows lowers ranks, inserting raises them, and a page is the ranks between
two offsets. The rows are any finite set, the limits any integers.

**Model-checked only.** `CallsEnd`, `StopReturns` and `EveryReplicaServes`: liveness
under fairness is out of the prover's reach. Every safety property of a passing run
is stated by a theorem, `AuditReportsPatch` and `PatchIsPartial` under
`OnePatchEach`.

## 5. Not modelled

JSON bodies and their formats, the wording of errors, logging, the latency
histogram and the negative-mask counter: no state a property is about.
`config` is read once and validated; charts, manifests and dashboards hold no
logic. Which origins and tokens match is a free choice. The pool is as large as
the number of connections in an instance: waiting for a free one is not modelled.
`PermissionPatch` is modelled at READ COMMITTED; on MySQL its two SELECTs see one
snapshot, which takes away behaviours. Rows of the tables and the catalogue are in
different modules, so a request never meets a half-migrated schema except as
`ServedSchemaComplete` says. Down migrations are not run by the code.

## 6. Plan

1. An abstract specification of the hierarchy (a reparenting is one step that is
   refused when it would close a cycle), implemented by `AccessStore`, and by
   `GroupTransactions` while no two reparentings overlap.
2. `TitlePermissions` on top of the pooled patch (`AccessTypePatches`).
3. Snapshot reads of MySQL in `PermissionTransactions`.
