------------------------ MODULE MCGroupTransactions ------------------------
(***************************************************************************)
(* Finite instances of GroupTransactions: one domain and its groups, the   *)
(* other tables empty.  MCSpec bounds each store in its own way:           *)
(*  - Postgres starts with three root groups, which may be reparented and  *)
(*    deleted: enough for a cycle that does not pass through the group of  *)
(*    a walk;                                                              *)
(*  - MySQL starts with empty tables and runs every call on two groups:    *)
(*    enough for two patches that wait for each other's rows.              *)
(***************************************************************************)
EXTENDS GroupTransactions, TLC

CONSTANT Third      \* the group that only the Postgres instance has

\* Group ids are opaque UUIDs, and connections are interchangeable.
Symmetry == Permutations(Groups) \cup Permutations(Conns)

InitRoots ==
    /\ domains = Domains
    /\ \E d \in Domains : groups = [g \in Groups |-> [domain |-> d, parent |-> NoParent]]
    /\ users = [u \in Users |-> NoRow]
    /\ resources = [r \in Resources |-> NoRow]
    /\ permissions = [p \in Permissions |-> NoRow]
    /\ group_members = {} /\ user_permissions = {} /\ group_permissions = {}
    /\ driver \in Drivers
    /\ tx = [c \in Conns |-> Idle]
    /\ drawn = Groups
    /\ overlapped = FALSE

MCInit == \/ InitRoots /\ driver = "postgres"
          \/ Init /\ driver = "mysql"

\* The calls of each instance.
InInstance ==
    CASE driver = "postgres" ->
             \A c \in Conns : Running(c) => tx[c].pc \notin {"patch", "title"}
      [] driver = "mysql" ->
             /\ groups[Third] = NoRow
             /\ \A c \in Conns : Running(c) => Third \notin {tx[c].group, tx[c].parent}

MCNext == Next /\ InInstance'

MCSpec == MCInit /\ [][MCNext]_vars /\ Fairness

=============================================================================
