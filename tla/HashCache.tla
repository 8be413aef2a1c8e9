----------------------------- MODULE HashCache -----------------------------
(***************************************************************************)
(* The hash cache of Storage (server/storage.cpp) for one file: listings   *)
(* run on the threads of several sessions, without the write mutex, while  *)
(* the holder of the write mutex commits or removes the file.  A listing   *)
(* trusts a cached hash if size and mtime are those it has just read, here *)
(* the stamp of a file; the mtime of a file is the client's (set_mtime).   *)
(***************************************************************************)
EXTENDS Naturals

CONSTANTS
    Readers,    \* threads that list
    Stamps,     \* sizes and mtimes: numbers, so that they can be given out in turn
    MaxWrites,  \* bound on the commits and removals
    NoFile,     \* no such file
    NoEntry     \* not in hash_cache_

ASSUME CacheAssumption ==
    /\ MaxWrites \in Nat /\ Stamps \subseteq Nat
    /\ NoFile \notin [body : 1..MaxWrites, stamp : Stamps]
    /\ NoEntry \notin [stamp : Stamps, hash : 1..MaxWrites]

VARIABLES
    fresh,      \* does every commit bring a size and mtime never seen before?
    disk,       \* the file: what it holds (a number made up for it) and its stamp
    entry,      \* hash_cache_ for it
    lister,     \* listings: where they are, the stamp and the hash they have read
    commit,     \* commit or remove, under the write mutex
    writes,     \* commits and removals so far
    overlapped  \* has a listing overlapped the last change, or one that left its
                \* entry behind?

cacheVars == <<fresh, disk, entry, lister, commit, writes, overlapped>>

Bodies == 1..MaxWrites
NotListing == [st |-> "idle", stamp |-> 0, hash |-> 0]

CacheTypeOK ==
    /\ fresh \in BOOLEAN
    /\ disk \in [body : Bodies, stamp : Stamps] \cup {NoFile}
    /\ entry \in [stamp : Stamps, hash : Bodies] \cup {NoEntry}
    /\ lister \in [Readers -> [st : {"idle", "look", "hash", "store"},
                               stamp : Stamps \cup {0}, hash : Bodies \cup {0}]]
    /\ commit \in {"none", "rename", "erase"}
    /\ writes \in 0..MaxWrites
    /\ overlapped \in BOOLEAN

CacheInit ==
    /\ fresh \in BOOLEAN /\ disk = NoFile /\ entry = NoEntry
    /\ lister = [r \in Readers |-> NotListing]
    /\ commit = "none" /\ writes = 0 /\ overlapped = FALSE

NoListing == \A r \in Readers : lister[r].st = "idle"

-----------------------------------------------------------------------------
(* list.                                                                    *)

\* list_tree finds the file and reads its size and mtime.
StatFile(r) ==
    /\ lister[r].st = "idle" /\ disk # NoFile
    /\ lister' = [lister EXCEPT ![r].st = "look", ![r].stamp = disk.stamp]
    /\ overlapped' = (overlapped \/ commit # "none")
    /\ UNCHANGED <<fresh, disk, entry, commit, writes>>

\* The cached hash is the answer if the stamp is the same.
LookUp(r) ==
    /\ lister[r].st = "look"
    /\ lister' = IF entry # NoEntry /\ entry.stamp = lister[r].stamp
                   THEN [lister EXCEPT ![r] = NotListing]
                   ELSE [lister EXCEPT ![r].st = "hash"]
    /\ UNCHANGED <<fresh, disk, entry, commit, writes, overlapped>>

\* Mutation of HashFile: a file that has vanished is cached without a hash.
HashVanished(r) ==
    /\ lister[r].st = "hash"
    /\ lister' = [lister EXCEPT ![r].st = "store",
                                ![r].hash = IF disk = NoFile THEN 0 ELSE disk.body]
    /\ UNCHANGED <<fresh, disk, entry, commit, writes, overlapped>>

\* hash_file opens the file again; one that has vanished is skipped.
HashFile(r) ==
    /\ lister[r].st = "hash"
    /\ lister' = IF disk = NoFile THEN [lister EXCEPT ![r] = NotListing]
                 ELSE [lister EXCEPT ![r].st = "store", ![r].hash = disk.body]
    /\ UNCHANGED <<fresh, disk, entry, commit, writes, overlapped>>

\* Mutation of StoreHash: with the size and mtime that hash_file could return.
StoreHashNow(r) ==
    /\ lister[r].st = "store"
    /\ entry' = IF disk = NoFile THEN entry
                ELSE [stamp |-> disk.stamp, hash |-> lister[r].hash]
    /\ lister' = [lister EXCEPT ![r] = NotListing]
    /\ UNCHANGED <<fresh, disk, commit, writes, overlapped>>

\* The entry has the stamp of the first look.
StoreHash(r) ==
    /\ lister[r].st = "store"
    /\ entry' = [stamp |-> lister[r].stamp, hash |-> lister[r].hash]
    /\ lister' = [lister EXCEPT ![r] = NotListing]
    /\ UNCHANGED <<fresh, disk, commit, writes, overlapped>>

-----------------------------------------------------------------------------
(* commit and remove.                                                       *)

\* Mutation of EraseEntry: the new size and mtime will tell.
EraseNothing ==
    /\ commit = "none" /\ writes < MaxWrites
    /\ overlapped' = ~NoListing
    /\ commit' = "rename"
    /\ UNCHANGED <<fresh, disk, entry, lister, writes>>

\* commit: don't trust the cache.
EraseEntry ==
    /\ commit = "none" /\ writes < MaxWrites
    /\ entry' = NoEntry
    /\ overlapped' = ~NoListing
    /\ commit' = "rename"
    /\ UNCHANGED <<fresh, disk, lister, writes>>

\* replace_file, unless a folder is in the way.
RenameOver ==
    /\ commit = "rename"
    /\ commit' = "none" /\ writes' = writes + 1
    /\ \/ \E s \in Stamps :
             /\ fresh => s = writes + 1
             /\ disk' = [body |-> writes + 1, stamp |-> s]
       \/ UNCHANGED disk
    /\ UNCHANGED <<fresh, entry, lister, overlapped>>

\* remove: unlink, then erase.
UnlinkFile ==
    /\ commit = "none" /\ disk # NoFile /\ writes < MaxWrites
    /\ disk' = NoFile
    /\ commit' = "erase" /\ writes' = writes + 1
    /\ overlapped' = ~NoListing
    /\ UNCHANGED <<fresh, entry, lister>>

EraseAfterUnlink ==
    /\ commit = "erase"
    /\ entry' = NoEntry
    /\ commit' = "none"
    /\ UNCHANGED <<fresh, disk, lister, writes, overlapped>>

CacheNext ==
    \/ \E r \in Readers : StatFile(r) \/ LookUp(r) \/ HashFile(r) \/ StoreHash(r)
    \/ EraseEntry \/ RenameOver \/ UnlinkFile \/ EraseAfterUnlink

CacheSpec == CacheInit /\ [][CacheNext]_cacheVars

-----------------------------------------------------------------------------
(* Properties.                                                              *)

\* A listing that started now would be told the hash of another content.
Fooled == /\ disk # NoFile /\ entry # NoEntry
          /\ entry.stamp = disk.stamp /\ entry.hash # disk.body

\* As long as every commit brings another size or mtime, no listing is ever
\* told a stale hash, however listings and commits interleave: the entry is filed
\* under the stamp read before the file was hashed (list).
FreshStampsSuffice == fresh => ~Fooled

\* "The new contents may keep the old size and mtime; don't trust the cache"
\* (commit): with any size and mtime, a listing is told a stale hash only if one
\* overlapped the last change of the file.
OnlyOverlapsFool == Fooled => overlapped

-----------------------------------------------------------------------------
(* The inductive invariants behind them.                                    *)

\* A commit under way is counted, a removal under way has removed the file, and a
\* listing has read what it needs.
CommitInv ==
    /\ commit = "rename" => writes < MaxWrites
    /\ commit = "erase" => disk = NoFile
    /\ \A r \in Readers : /\ lister[r].st # "idle" => lister[r].stamp \in Stamps
                          /\ lister[r].st = "store" => lister[r].hash \in Bodies

\* x, a stamp or a body, is none of the future, nor newer than the file.
Past(x) == x <= writes /\ (disk # NoFile => x <= disk.body)

\* With fresh stamps, stamps and bodies are both numbered by the commits: what is
\* filed under a stamp was hashed no earlier than the stamp was read.
StampInv ==
    fresh =>
        /\ disk # NoFile => disk.stamp = disk.body /\ disk.body <= writes
        /\ entry # NoEntry => entry.stamp <= entry.hash /\ Past(entry.hash)
        /\ \A r \in Readers : lister[r].st # "idle" => Past(lister[r].stamp)
        /\ \A r \in Readers : lister[r].st = "store" =>
              lister[r].stamp <= lister[r].hash /\ Past(lister[r].hash)

\* If no listing overlapped the last change, the entry and what is about to become
\* one are about the file as it is.
OverlapInv ==
    ~overlapped =>
        /\ commit # "none" => NoListing
        /\ commit = "rename" => entry = NoEntry
        /\ commit = "none" /\ entry # NoEntry => disk # NoFile /\ entry.hash = disk.body
        /\ \A r \in Readers : lister[r].st # "idle" => disk # NoFile
        /\ \A r \in Readers : lister[r].st = "store" => lister[r].hash = disk.body

CacheInv == CacheTypeOK /\ CommitInv /\ StampInv /\ OverlapInv
=============================================================================
