--------------------------- MODULE HashCacheProofs ---------------------------
(***************************************************************************)
(* Proofs about module HashCache, for any number of listings, commits and  *)
(* stamps.  The inductive invariant is CacheInv.                           *)
(***************************************************************************)
EXTENDS HashCache, TLAPS

LEMMA CacheInitInv == CacheInit => CacheInv
<1> SUFFICES ASSUME CacheInit PROVE CacheInv
  OBVIOUS
<1> USE CacheAssumption DEF CacheInit, NotListing, Bodies
<1>1. CacheTypeOK
<2>1. NotListing \in [st : {"idle", "look", "hash", "store"},
                     stamp : Stamps \cup {0}, hash : Bodies \cup {0}]
  OBVIOUS
<2>2. lister \in [Readers -> [st : {"idle", "look", "hash", "store"},
                             stamp : Stamps \cup {0}, hash : Bodies \cup {0}]]
  BY <2>1
<2>3. writes \in 0..MaxWrites
  OBVIOUS
<2>4. fresh \in BOOLEAN /\ overlapped \in BOOLEAN
  BY Zenon
<2>5. disk = NoFile /\ entry = NoEntry /\ commit = "none"
  OBVIOUS
<2> QED BY ONLY <2>2, <2>3, <2>4, <2>5, Zenon DEF CacheTypeOK
<1>2. CommitInv
  BY DEF CommitInv
<1>3. StampInv
  BY DEF StampInv
<1>4. OverlapInv
  BY DEF OverlapInv
<1> QED BY <1>1, <1>2, <1>3, <1>4 DEF CacheInv

\* What a listing knows, and the two ways it learns more.
ListerStates ==
  [st : {"idle", "look", "hash", "store"}, stamp : Stamps \cup {0}, hash : Bodies \cup {0}]

LEMMA ListerFields ==
  ASSUME NEW g \in ListerStates
  PROVE  /\ \A s \in Stamps : [g EXCEPT !.st = "look", !.stamp = s] \in ListerStates
         /\ \A b \in Bodies : [g EXCEPT !.st = "store", !.hash = b] \in ListerStates
<1>1. \A s \in Stamps : [g EXCEPT !.st = "look", !.stamp = s] \in ListerStates
  BY DEF ListerStates
<1>2. \A b \in Bodies : [g EXCEPT !.st = "store", !.hash = b] \in ListerStates
  BY DEF ListerStates
<1> QED BY <1>1, <1>2

\* The bounds on what is counted come from the guards, and a listing only stores
\* a hash that it has read.
LEMMA CacheTypeStep ==
  CacheTypeOK /\ CommitInv /\ [CacheNext]_cacheVars => CacheTypeOK' /\ CommitInv'
<1> SUFFICES ASSUME CacheTypeOK, CommitInv, [CacheNext]_cacheVars
             PROVE CacheTypeOK' /\ CommitInv'
  OBVIOUS
<1> USE CacheAssumption DEF CacheTypeOK, CommitInv, Bodies, NotListing
<1>1. ASSUME NEW r \in Readers, StatFile(r) PROVE CacheTypeOK' /\ CommitInv'
<2>1. disk.stamp \in Stamps
  BY <1>1 DEF StatFile
<2>2. CacheTypeOK'
<3>1. lister' \in [Readers -> [st : {"idle", "look", "hash", "store"},
                              stamp : Stamps \cup {0}, hash : Bodies \cup {0}]]
<4> DEFINE q == [lister[r] EXCEPT !.st = "look", !.stamp = disk.stamp]
<4>1. lister \in [Readers -> ListerStates]
  BY DEF ListerStates
<4>2. q \in ListerStates
  BY ONLY <4>1, <2>1, ListerFields
<4>3. lister' = [lister EXCEPT ![r] = q]
  BY <1>1 DEF StatFile
<4> HIDE DEF q
<4>4. lister' \in [Readers -> ListerStates]
  BY ONLY <4>1, <4>2, <4>3
<4> QED BY <4>4 DEF ListerStates
<3>2. UNCHANGED <<fresh, disk, entry, commit, writes>> /\ overlapped' \in BOOLEAN
  BY <1>1, Zenon DEF StatFile
<3> QED BY ONLY CacheTypeOK, <3>1, <3>2, Zenon DEF CacheTypeOK
<2>3. CommitInv'
  BY <1>1, <2>1 DEF StatFile
<2> QED BY <2>2, <2>3
<1>2. ASSUME NEW r \in Readers, LookUp(r) PROVE CacheTypeOK' /\ CommitInv'
  BY <1>2 DEF LookUp
<1>3. ASSUME NEW r \in Readers, HashFile(r) PROVE CacheTypeOK' /\ CommitInv'
<2>1. CASE disk = NoFile
  BY <1>3, <2>1 DEF HashFile
<2>2. CASE disk # NoFile
<3>1. disk.body \in Bodies
  BY <2>2
<3>2. CacheTypeOK'
<4>1. lister' \in [Readers -> [st : {"idle", "look", "hash", "store"},
                              stamp : Stamps \cup {0}, hash : Bodies \cup {0}]]
<5> DEFINE q == [lister[r] EXCEPT !.st = "store", !.hash = disk.body]
<5>1. lister \in [Readers -> ListerStates]
  BY DEF ListerStates
<5>2. q \in ListerStates
  BY ONLY <5>1, <3>1, ListerFields
<5>3. lister' = [lister EXCEPT ![r] = q]
  BY <1>3, <2>2 DEF HashFile
<5> HIDE DEF q
<5>4. lister' \in [Readers -> ListerStates]
  BY ONLY <5>1, <5>2, <5>3
<5> QED BY <5>4 DEF ListerStates
<4>2. UNCHANGED <<fresh, disk, entry, commit, writes, overlapped>>
  BY <1>3, Zenon DEF HashFile
<4> QED BY ONLY CacheTypeOK, <4>1, <4>2, Zenon DEF CacheTypeOK
<3>3. CommitInv'
  BY <1>3, <2>2, <3>1 DEF HashFile
<3> QED BY <3>2, <3>3
<2> QED BY <2>1, <2>2
<1>4. ASSUME NEW r \in Readers, StoreHash(r) PROVE CacheTypeOK' /\ CommitInv'
  BY <1>4 DEF StoreHash
<1>5. CASE EraseEntry
  BY <1>5 DEF EraseEntry, NoListing
<1>6. CASE RenameOver
  BY <1>6 DEF RenameOver
<1>7. CASE UnlinkFile
  BY <1>7 DEF UnlinkFile, NoListing
<1>8. CASE EraseAfterUnlink
  BY <1>8 DEF EraseAfterUnlink
<1>9. CASE UNCHANGED cacheVars
  BY <1>9 DEF cacheVars
<1> QED BY <1>1, <1>2, <1>3, <1>4, <1>5, <1>6, <1>7, <1>8, <1>9 DEF CacheNext

\* A commit makes a body with the number of the commit, so all that is known of
\* the file before is older; a listing reads what is there.
LEMMA StampStep ==
  CacheInv /\ [CacheNext]_cacheVars => StampInv'
<1> SUFFICES ASSUME CacheTypeOK, CommitInv, StampInv, [CacheNext]_cacheVars, fresh'
             PROVE StampInv'
  BY DEF CacheInv, StampInv
<1> USE CacheAssumption DEF CacheTypeOK, CommitInv, StampInv, Past, Bodies, NotListing
<1>0. fresh
  BY DEF CacheNext, cacheVars, StatFile, LookUp, HashFile, StoreHash, EraseEntry, RenameOver,
     UnlinkFile, EraseAfterUnlink
<1>a. /\ writes \in Nat /\ (disk # NoFile => disk.body \in Nat /\ disk.stamp \in Nat)
      /\ entry # NoEntry => entry.stamp \in Nat /\ entry.hash \in Nat
      /\ \A r \in Readers : lister[r].stamp \in Nat /\ lister[r].hash \in Nat
<2>1. writes \in Nat /\ Bodies \subseteq Nat /\ Stamps \subseteq Nat
  OBVIOUS
<2>2. disk # NoFile => disk.body \in Bodies /\ disk.stamp \in Stamps
  OBVIOUS
<2>3. entry # NoEntry => entry.stamp \in Stamps /\ entry.hash \in Bodies
  OBVIOUS
<2>4. \A r \in Readers : lister[r].stamp \in Stamps \cup {0} /\ lister[r].hash \in Bodies \cup {0}
  OBVIOUS
<2>5. Stamps \cup {0} \subseteq Nat /\ Bodies \cup {0} \subseteq Nat
  BY <2>1
<2> QED BY ONLY <2>1, <2>2, <2>3, <2>4, <2>5, Zenon
<1>1. ASSUME NEW r \in Readers, StatFile(r) PROVE StampInv'
  BY <1>0, <1>a, <1>1 DEF StatFile
<1>2. ASSUME NEW r \in Readers, LookUp(r) PROVE StampInv'
  BY <1>0, <1>a, <1>2 DEF LookUp
<1>3. ASSUME NEW r \in Readers, HashFile(r) PROVE StampInv'
  BY <1>0, <1>a, <1>3 DEF HashFile
<1>4. ASSUME NEW r \in Readers, StoreHash(r) PROVE StampInv'
  BY <1>0, <1>a, <1>4 DEF StoreHash
<1>5. CASE EraseEntry
  BY <1>0, <1>a, <1>5 DEF EraseEntry
<1>6. CASE RenameOver
<2>1. CASE UNCHANGED disk
  BY <1>0, <1>a, <1>6, <2>1 DEF RenameOver
<2>2. ASSUME NEW s \in Stamps, s = writes + 1, disk' = [body |-> writes + 1, stamp |-> s]
      PROVE StampInv'
<3>1. disk' # NoFile
  BY <1>6, <2>2 DEF RenameOver
<3> QED BY <1>0, <1>a, <1>6, <2>2, <3>1 DEF RenameOver
<2> QED BY <1>0, <1>6, <2>1, <2>2 DEF RenameOver
<1>7. CASE UnlinkFile
  BY <1>0, <1>a, <1>7 DEF UnlinkFile
<1>8. CASE EraseAfterUnlink
  BY <1>0, <1>a, <1>8 DEF EraseAfterUnlink
<1>9. CASE UNCHANGED cacheVars
  BY <1>0, <1>a, <1>9 DEF cacheVars
<1> QED BY <1>1, <1>2, <1>3, <1>4, <1>5, <1>6, <1>7, <1>8, <1>9 DEF CacheNext

\* A change starts with no listing under way, or it counts as overlapped; a listing
\* that starts during a change counts too.
LEMMA OverlapStep ==
  CacheInv /\ [CacheNext]_cacheVars => OverlapInv'
<1> SUFFICES ASSUME CacheTypeOK, CommitInv, OverlapInv, [CacheNext]_cacheVars, ~overlapped'
             PROVE OverlapInv'
  BY DEF CacheInv, OverlapInv
<1> USE CacheAssumption DEF CacheTypeOK, CommitInv, OverlapInv, NoListing, Bodies, NotListing
<1>1. ASSUME NEW r \in Readers, StatFile(r) PROVE OverlapInv'
  BY <1>1 DEF StatFile
<1>2. ASSUME NEW r \in Readers, LookUp(r) PROVE OverlapInv'
  BY <1>2 DEF LookUp
<1>3. ASSUME NEW r \in Readers, HashFile(r) PROVE OverlapInv'
  BY <1>3 DEF HashFile
<1>4. ASSUME NEW r \in Readers, StoreHash(r) PROVE OverlapInv'
  BY <1>4 DEF StoreHash
<1>5. CASE EraseEntry
  BY <1>5 DEF EraseEntry
<1>6. CASE RenameOver
  BY <1>6 DEF RenameOver
<1>7. CASE UnlinkFile
  BY <1>7 DEF UnlinkFile
<1>8. CASE EraseAfterUnlink
  BY <1>8 DEF EraseAfterUnlink
<1>9. CASE UNCHANGED cacheVars
  BY <1>9 DEF cacheVars
<1> QED BY <1>1, <1>2, <1>3, <1>4, <1>5, <1>6, <1>7, <1>8, <1>9 DEF CacheNext

\* CacheInv holds in every reachable state (list, commit, remove).
THEOREM CacheInvariance == CacheSpec => []CacheInv
<1>1. CacheInv /\ [CacheNext]_cacheVars => CacheInv'
  BY CacheTypeStep, StampStep, OverlapStep DEF CacheInv
<1> QED BY CacheInitInv, <1>1, PTL DEF CacheSpec

\* Every variable keeps its type: in particular, what is cached is a hash that was
\* read (list skips files that vanished).
THEOREM CacheTypeCorrect == CacheSpec => []CacheTypeOK
<1>1. CacheInv => CacheTypeOK
  BY DEF CacheInv
<1> QED BY CacheInvariance, <1>1, PTL

\* As long as every commit brings another size or mtime, no listing is told a stale
\* hash (list files the hash under the stamp it read first).
THEOREM HashesFresh == CacheSpec => []FreshStampsSuffice
<1>1. CacheInv => FreshStampsSuffice
  BY CacheAssumption DEF CacheInv, CacheTypeOK, StampInv, Past, FreshStampsSuffice, Fooled,
     Bodies
<1> QED BY CacheInvariance, <1>1, PTL

\* With any size and mtime, only a listing that overlaps a change can leave a stale
\* hash (commit and remove erase the entry).
THEOREM OnlyOverlaps == CacheSpec => []OnlyOverlapsFool
<1>1. CacheInv => OnlyOverlapsFool
  BY DEF CacheInv, CommitInv, OverlapInv, CacheTypeOK, OnlyOverlapsFool, Fooled
<1> QED BY CacheInvariance, <1>1, PTL
=============================================================================
