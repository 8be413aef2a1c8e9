---------------------------- MODULE ReplicaGroup ----------------------------
(***************************************************************************)
(* What replication promises, without links, exchanges or faults: a master *)
(* copy, and a group of replicas that follow it one change at a time.  A   *)
(* change is over only when every replica still in the group holds it; a   *)
(* replica may leave the group at any time, and enters it between two      *)
(* changes, when it lacks nothing.  Module Replication implements this:    *)
(* see GroupSpec there.                                                    *)
(***************************************************************************)
CONSTANTS
    Replicas,   \* the servers that may be in the group
    Turns,      \* who may change the master copy
    Nobody,     \* nobody is changing it
    Keys,       \* what is replicated ...
    Sticky,     \* ... and the part of it that a replica need not forget
    Contents,   \* what a key can hold
    Nothing     \* the key holds nothing

Copies == [Keys -> Contents \cup {Nothing}]

VARIABLES
    master,     \* the master copy
    replica,    \* the copy of each replica
    group,      \* replicas that count
    turn        \* who is changing the master copy

groupVars == <<master, replica, group, turn>>

\* Replica b holds what the master copy holds under k.
Holds(b, k) ==
    replica[b][k] = master[k] \/ (k \in Sticky /\ master[k] = Nothing)

GroupInit ==
    /\ master \in Copies /\ replica \in [Replicas -> Copies]
    /\ group = {} /\ turn = Nobody

\* A change starts when the one before it is over.
Change(w) ==
    /\ turn = Nobody /\ turn' = w
    /\ \E k \in Keys, v \in Contents \cup {Nothing} : master' = [master EXCEPT ![k] = v]
    /\ UNCHANGED <<replica, group>>

\* A replica in the group is only written during a change, and then only with
\* what the master copy holds; one that is written otherwise leaves the group.
Write(b) ==
    /\ replica' = [replica EXCEPT ![b] = replica'[b]] /\ replica'[b] \in Copies
    /\ \/ group' = group \ {b}
       \/ /\ group' = group
          /\ b \in group =>
                /\ turn # Nobody
                /\ \A k \in Keys : replica'[b][k] \in {replica[b][k], master[k]}
    /\ UNCHANGED <<master, turn>>

\* The change is over: every replica in the group has it.
Finish ==
    /\ turn # Nobody /\ turn' = Nobody
    /\ \A b \in group, k \in Keys : Holds(b, k)
    /\ UNCHANGED <<master, replica, group>>

Enter(b) ==
    /\ turn = Nobody
    /\ \A k \in Keys : Holds(b, k)
    /\ group' = group \cup {b}
    /\ UNCHANGED <<master, replica, turn>>

Leave ==
    /\ group' \subseteq group
    /\ UNCHANGED <<master, replica, turn>>

GroupNext ==
    \/ \E w \in Turns : Change(w)
    \/ \E b \in Replicas : Write(b) \/ Enter(b)
    \/ Finish \/ Leave

GroupSpec == GroupInit /\ [][GroupNext]_groupVars
=============================================================================
