------------------------------ MODULE MCService ------------------------------
(***************************************************************************)
(* The parts of a client and of the server around the replication, side by *)
(* side: a behavior is one of Sync, of Service, of Transfer, of           *)
(* HashCache or of Watching, with the variables of the others as they were *)
(* at the start.                                                           *)
(* They do not interact but through the calls that each of them models, so *)
(* one run checks them all.                                                *)
(***************************************************************************)
EXTENDS MCSync, Service, Transfer, HashCache, Watching

CONSTANT FirstName  \* the name that a directory has at first

VARIABLE part  \* the part whose behavior it is

\* The start of each part; a caller's secret and a directory's name are fixed where
\* renaming all of them would give the same behaviors.
MCInit ==
    /\ SyncInit /\ ServiceInit /\ TransferInit /\ CacheInit /\ WatchInit
    /\ part \in {"sync", "service", "transfer", "cache", "watch"}
    /\ part # "sync" => story = CHOOSE s \in Stories : TRUE
    /\ secret[CHOOSE p \in Callers : TRUE] = CHOOSE s \in Secrets : TRUE
    /\ part # "service" => \A p, q \in Callers : secret[p] = secret[q]
    /\ part # "cache" => fresh
    /\ \A d \in Dirs : name[d] = FirstName

MCNext ==
    /\ UNCHANGED part
    /\ \/ /\ part = "sync" /\ SyncNext
          /\ UNCHANGED <<serviceVars, transferVars, cacheVars, watchVars>>
       \/ /\ part = "service" /\ ServiceNext
          /\ UNCHANGED <<syncVars, transferVars, cacheVars, watchVars>>
       \/ /\ part = "transfer" /\ TransferNext
          /\ UNCHANGED <<syncVars, serviceVars, cacheVars, watchVars>>
       \/ /\ part = "cache" /\ CacheNext
          /\ UNCHANGED <<syncVars, serviceVars, transferVars, watchVars>>
       \/ /\ part = "watch" /\ WatchNext
          /\ UNCHANGED <<syncVars, serviceVars, transferVars, cacheVars>>

mcVars == <<part, syncVars, serviceVars, transferVars, cacheVars, watchVars>>

MCSpec ==
    /\ MCInit /\ [][MCNext]_mcVars
    /\ SyncFairness /\ ServiceFairness
=============================================================================
