---------------------------- MODULE MCReplication ----------------------------
(* Small instances of Replication for TLC.                                  *)
EXTENDS Replication, TLC

CONSTANTS a, ab, u, v1

\* "a" is a file name and "a/b" a path below it: they cannot both exist.
MCClash == {<<a, ab>>, <<ab, a>>}
NoClash == {}

\* Disks to start from: empty, or left from an earlier run.
EmptyDisk == [k \in Keys |-> Absent]
OldDisk   == [k \in Keys |-> IF k = ab THEN Absent ELSE v1]
MCDisks   == {EmptyDisk, OldDisk}

Symmetry ==
    Permutations(Conns) \cup Permutations(Writers) \cup Permutations(Backups)
=============================================================================
