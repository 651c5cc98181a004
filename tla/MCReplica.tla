------------------------------ MODULE MCReplica ------------------------------
(***************************************************************************)
(* Finite instances of Replica, with the migration files of the three      *)
(* drivers: one statement stands for the statements of its kind.           *)
(***************************************************************************)
EXTENDS Replica, FiniteSets, TLC

MCNames == {"entities", "junctions", "domain_fk", "member_fk", "composite_fk",
            "uq_id_domain", "marker", "check_trigger", "masks", "title_index"}

MCFiles(d) == IF d = "sqlite" THEN 1..5 ELSE {1, 2, 3, 5}

Statement(drop, make) == [drop |-> drop, make |-> make, check |-> FALSE]
Create(names, def) == Statement({}, [n \in names |-> def])
Drop(name) == Statement({name}, << >>)
Rebuild(names, def) == Statement(names, [n \in names |-> def])
Checked(stmt) == [stmt EXCEPT !.check = TRUE]

\* 000001_init: CREATE TABLE, with the keys named where a later file alters them.
InitFile(d) ==
    IF d = "sqlite" THEN <<Create({"entities"}, "cascade"), Create({"junctions"}, "cascade")>>
    ELSE <<Create({"entities", "domain_fk"}, "cascade"),
           Create({"junctions", "member_fk"}, "cascade")>>

\* 000002_restrict_foreign_keys: SQLite rebuilds the tables, Postgres replaces
\* a key in one statement, MySQL in two.
RestrictFile(d) ==
    CASE d = "sqlite" -> <<Rebuild({"entities", "junctions"}, "restrict")>>
      [] d = "postgres" -> <<Rebuild({"domain_fk"}, "restrict"), Rebuild({"member_fk"}, "restrict")>>
      [] d = "mysql" -> <<Drop("domain_fk"), Create({"domain_fk"}, "restrict"),
                          Drop("member_fk"), Create({"member_fk"}, "restrict")>>

\* 000003_composite_fk_cross_domain: the pre-check, which SQLite and MySQL write
\* as an INSERT that a trigger refuses, and the keys.  A key that is added is
\* checked against the rows; SQLite copies them with the keys off.
Precheck == <<Create({"marker"}, "table"), Create({"check_trigger"}, "trigger"),
              Checked(Statement({}, << >>)), Drop("check_trigger"), Drop("marker")>>
CompositeFile(d) ==
    LET keys == <<Create({"uq_id_domain"}, "unique"), Drop("member_fk"),
                  Checked(Create({"composite_fk"}, CompositeKeys))>>
    IN CASE d = "sqlite" -> Precheck \o <<Rebuild({"entities", "junctions"}, CompositeKeys)>>
         [] d = "postgres" -> <<Checked(Statement({}, << >>))>> \o keys
         [] d = "mysql" -> Precheck \o keys

MCBody(d, v) ==
    CASE v = 1 -> InitFile(d)
      [] v = 2 -> RestrictFile(d)
      [] v = 3 -> CompositeFile(d)
      [] v = 4 -> <<Create({"masks"}, "table")>>
      [] v = 5 -> <<Create({"title_index"}, "unique")>>

MCKeysOff(d, v) == d = "sqlite" /\ v \in {2, 3}

\* What the files up to a version produce, run one after the other.
Catalogues ==
    [d \in AllDrivers |->
        LET at[v \in 0..5] ==
                IF v = 0 THEN [n \in MCNames |-> Absent]
                ELSE IF v \notin MCFiles(d) THEN at[v - 1]
                ELSE CHOOSE cat \in RunBody(MCBody(d, v), at[v - 1], FALSE) : TRUE
        IN at]

MCProduced(d, v) == Catalogues[d][v]

\* What attempts at a MySQL file reach in twenty-four statements and restarts.
\* It is all they ever reach: AttemptsAssumption says the set is closed.
Reach(v) ==
    LET stmts == MCBody("mysql", v)
        Go(A) == { <<a[1] + 1, Effect(stmts[a[1]], a[2])>> :
                     a \in { b \in A : b[1] <= Len(stmts) /\ Accepts(stmts[b[1]], b[2], FALSE) } }
        at[k \in 0..24] ==
            IF k = 0 THEN {<<1, MCProduced("mysql", FileAt("mysql", v - 1))>>}
            ELSE LET A == at[k - 1] IN A \cup { <<1, a[2]>> : a \in A } \cup Go(A)
    IN at[24]

Reached == [v \in MCFiles("mysql") |-> Reach(v)]

MCAttempts(v) == Reached[v]

----------------------------------------------------------------------------

\* Replica a alone, which takes requests, or both, which migrate side by side.
CONSTANT First

Busy == deployed = {First}

MCInit == Init /\ First \in deployed

\* More faults than two, for a lone SQLite replica without requests: they may be
\* failures to turn the foreign keys on, one file after the other.
FewFaults == 2
ManyFaults == Busy /\ driver = "sqlite" /\ \A q \in Clients : ~ Active(q)

MCNext ==
    /\ Next
    /\ req' # req => Busy /\ faults' <= FewFaults
    /\ faults' > FewFaults => ManyFaults'

MCSpec == MCInit /\ [][MCNext]_vars /\ Fairness

=============================================================================
