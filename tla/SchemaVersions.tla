--------------------------- MODULE SchemaVersions ---------------------------
(***************************************************************************)
(* What a migrated database promises: at every moment its catalogue is the *)
(* one that the recorded version stands for, and the version moves from    *)
(* one migration file to the next.                                         *)
(***************************************************************************)
EXTENDS Naturals

CONSTANTS
    Files(_),       \* the versions of a driver's migration files
    Produced(_, _)  \* the catalogue of a driver's database at a version

VARIABLES driver, version, catalogue

vars == <<driver, version, catalogue>>

Init ==
    /\ version \in Files(driver) \cup {0}
    /\ catalogue = Produced(driver, version)

\* One migration file, whole.
Upgrade(v) ==
    /\ v \in Files(driver) /\ v > version
    /\ \A w \in Files(driver) : w > version => v <= w
    /\ version' = v
    /\ catalogue' = Produced(driver, v)
    /\ UNCHANGED driver

Next == \E v \in Files(driver) : Upgrade(v)

Spec == Init /\ [][Next]_vars

=============================================================================
