-------------------------- MODULE ReplicationProofs --------------------------
(***************************************************************************)
(* Proofs about module Replication, for every value of its constants.      *)
(* The inductive invariant is Inv; each of its parts has a lemma below     *)
(* that takes the actions one by one.  The parts lean on each other: what  *)
(* a connection carries (CarriesInv) and through which connection a backup *)
(* can be changed (OneChannelInv) are what makes SyncInv survive a change  *)
(* that arrives late.                                                      *)
(***************************************************************************)
EXTENDS Replication, TLAPS

\* The initial state.
LEMMA InitInv == Init => Inv
<1> SUFFICES ASSUME Init PROVE Inv
  OBVIOUS
<1> USE ConstantsAssumption DEF Init, AttachIdle, Linked, LinkConns, Trusted
<1>1. TypeOK
  BY DEF TypeOK, ConnStates
<1>2. LockInv
  BY DEF LockInv
<1>3. PeerInv
  BY DEF PeerInv
<1>4. CarriesInv
  BY DEF CarriesInv
<1>5. OneChannelInv
  BY DEF OneChannelInv
<1>6. SyncInv
  BY DEF SyncInv
<1>7. AttachInv
  BY DEF AttachInv
<1>8. OverdueIsSuspect
  BY DEF OverdueIsSuspect
<1> QED BY <1>1, <1>2, <1>3, <1>4, <1>5, <1>6, <1>7, <1>8 DEF Inv

\* Every action keeps every variable in its type; peer and req are needed to
\* know that what is recorded as failed or applied is a backup or a change.
LEMMA TypeStep ==
  TypeOK /\ LockInv /\ PeerInv /\ CarriesInv /\ [Next]_vars => TypeOK'
<1> SUFFICES ASSUME TypeOK, LockInv, PeerInv, CarriesInv, [Next]_vars PROVE TypeOK'
  OBVIOUS
<1> USE ConstantsAssumption DEF TypeOK, Stores, ConnStates, primaryVars, writerVars,
   backupVars, connVars
<1>1. ASSUME NEW w \in Writers, NEW ch \in Changes, Commit(w, ch) PROVE TypeOK'
  BY <1>1 DEF Commit, Apply, LinkConns, Changes, Linked
<1>2. ASSUME NEW w \in Writers, NEW c \in Conns, Send(w, c) PROVE TypeOK'
  BY <1>2 DEF Send
<1>3. ASSUME NEW w \in Writers, NEW c \in Conns, SendFails(w, c) PROVE TypeOK'
  BY <1>3 DEF SendFails, PeerInv
<1>4. ASSUME NEW w \in Writers, NEW c \in Conns, LateReply(w, c) PROVE TypeOK'
<2>1. CASE st' = [st EXCEPT ![c] = "sent"] /\ req' = [req EXCEPT ![c] = op[w]]
  BY <1>4, <2>1 DEF LateReply
<2>2. CASE UNCHANGED <<st, req>>
  BY <1>4, <2>2 DEF LateReply
<2> QED BY <1>4, <2>1, <2>2 DEF LateReply
<1>5. ASSUME NEW w \in Writers, NEW c \in Conns, SkipPut(w, c) PROVE TypeOK'
  BY <1>5 DEF SkipPut, PeerInv
<1>6. ASSUME NEW w \in Writers, ReplyOk(w) PROVE TypeOK'
  BY <1>6 DEF ReplyOk, PeerInv
<1>7. ASSUME NEW w \in Writers, ReplyFails(w) PROVE TypeOK'
  BY <1>7 DEF ReplyFails, PeerInv
<1>8. ASSUME NEW w \in Writers, ReplyTimeout(w) PROVE TypeOK'
  BY <1>8 DEF ReplyTimeout, PeerInv
<1>9. ASSUME NEW w \in Writers, NEW b \in Backups, NEW more \in SUBSET Backups,
   DropLink(w, b, more) PROVE TypeOK'
  BY <1>9 DEF DropLink, Unlink, BroadcastFails
<1>10. ASSUME NEW w \in Writers, Acknowledge(w) PROVE TypeOK'
  BY <1>10 DEF Acknowledge
<1>11. ASSUME NEW b \in Backups, ProbeFails(b) PROVE TypeOK'
  BY <1>11 DEF ProbeFails, Linked
<1>12. ASSUME NEW b \in Backups, ProbeTimeout(b) PROVE TypeOK'
  BY <1>12 DEF ProbeTimeout, Linked
<1>13. ASSUME NEW b \in Backups, NEW more \in SUBSET Backups, DropSuspect(b, more)
   PROVE TypeOK'
  BY <1>13 DEF DropSuspect, Unlink, BroadcastFails
<1>14. ASSUME NEW b \in Backups, NEW c \in Conns, Attach(b, c) PROVE TypeOK'
  BY <1>14 DEF Attach, AttachIdle, Unused
<1>15. ASSUME NEW c \in Conns, Manifest(c) PROVE TypeOK'
  BY <1>15 DEF Manifest, MissingOn, SurplusOn
<1>16. ASSUME NEW k \in Keys, AttachSend(k) PROVE TypeOK'
<2>1. [key |-> k, val |-> store[k]] \in Changes
  BY DEF Changes
<2>2. st' \in [Conns -> ConnStates] /\ req' \in [Conns -> Changes \cup {Absent}]
  BY <1>16, <2>1 DEF AttachSend
<2>3. att' = [att EXCEPT !.key = k]
  BY <1>16 DEF AttachSend
<2>4. UNCHANGED <<primaryVars, writerVars, backupVars, peer, open, late, stained>>
  BY <1>16 DEF AttachSend
<2> QED BY <2>2, <2>3, <2>4
<1>17. ASSUME NEW k \in Keys, AttachSkip(k) PROVE TypeOK'
  BY <1>17 DEF AttachSkip, NextToSync
<1>18. CASE AttachReplyOk
  BY <1>18 DEF AttachReplyOk
<1>19. CASE AttachFails
  BY <1>19 DEF AttachFails, GiveUpAttach, AttachIdle
<1>20. CASE AttachTimeout
  BY <1>20 DEF AttachTimeout, GiveUpAttach, AttachIdle
<1>21. CASE AttachDone
  BY <1>21 DEF AttachDone, AttachIdle, LockInv
<1>22. ASSUME NEW c \in Conns, BackupAttach(c) PROVE TypeOK'
  BY <1>22 DEF BackupAttach, PeerInv
<1>23. ASSUME NEW c \in Conns, BackupReceive(c) PROVE TypeOK'
  BY <1>23 DEF BackupReceive
<1>24. ASSUME NEW c \in Conns, BackupApply(c) PROVE TypeOK'
<2> DEFINE b == peer[c]
<2>1. b \in Backups /\ st[c] = "applying"
  BY <1>24 DEF BackupApply, PeerInv
<2>2. copy' \in [Backups -> Stores]
  BY <1>24, <2>1 DEF BackupApply, Apply, Changes, CarriesInv
<2>3. stained' \in SUBSET Backups
  BY <1>24, <2>1 DEF BackupApply
<2>4. att' = att \/ att' = [att EXCEPT !.dirty = TRUE]
  BY <1>24 DEF BackupApply
<2>5. st' = [st EXCEPT ![c] = "ok"] /\ UNCHANGED <<primaryVars, writerVars, up, primaryLink, req, peer, open, late>>
  BY <1>24 DEF BackupApply
<2>6. att' \in [phase : {"idle", "attach", "sync"}, b : Backups \cup {NoServer},
                c : Conns \cup {NoConn}, puts : SUBSET Keys, dels : SUBSET Files,
                key : Keys \cup {Absent}, dirty : BOOLEAN]
<3>1. CASE att' = att
  BY <3>1
<3>2. CASE att' = [att EXCEPT !.dirty = TRUE]
  BY <3>2
<3> QED BY <2>4, <3>1, <3>2
<2>7. st' \in [Conns -> ConnStates]
  BY <2>5
<2> QED BY <2>2, <2>3, <2>5, <2>6, <2>7
<1>25. ASSUME NEW c \in Conns, BackupRefuse(c) PROVE TypeOK'
  BY <1>25 DEF BackupRefuse
<1>26. ASSUME NEW c \in Conns, BackupStoreFails(c) PROVE TypeOK'
  BY <1>26 DEF BackupStoreFails
<1>27. ASSUME NEW c \in Conns, HandlerEnds(c) PROVE TypeOK'
  BY <1>27 DEF HandlerEnds, LeaveLoop
<1>28. ASSUME NEW c \in Conns, IdleTimeout(c) PROVE TypeOK'
  BY <1>28 DEF IdleTimeout, LeaveLoop
<1>29. ASSUME NEW c \in Conns, ConnectionBreaks(c) PROVE TypeOK'
  BY <1>29 DEF ConnectionBreaks
<1>30. ASSUME NEW b \in Backups, Crash(b) PROVE TypeOK'
  BY <1>30 DEF Crash
<1>31. ASSUME NEW b \in Backups, Restart(b) PROVE TypeOK'
  BY <1>31 DEF Restart
<1>32. CASE UNCHANGED vars
  BY <1>32 DEF vars, Linked, LinkConns, Trusted, InSync
<1>33. ASSUME NEW w \in Writers, NEW f \in Files, NEW v \in Values \cup {Absent},
             Upload(w, f, v) \/ Delete(w, f)
      PROVE  TypeOK'
  <2>1. [key |-> f, val |-> v] \in Changes /\ [key |-> f, val |-> Absent] \in Changes
    BY DEF Changes, Keys
  <2> QED BY <1>33, <2>1, <1>1 DEF Upload, Delete
<1>34. ASSUME NEW w \in Writers, NEW u \in Users, NEW v \in Values, CreateAccount(w, u, v)
      PROVE  TypeOK'
  <2>1. [key |-> u, val |-> v] \in Changes
    BY DEF Changes, Keys
  <2> QED BY <1>34, <2>1, <1>1 DEF CreateAccount
<1> QED BY <1>2, <1>3, <1>4, <1>5, <1>6, <1>7, <1>8, <1>9, <1>10, <1>11, <1>12, <1>13,
   <1>14, <1>15, <1>16, <1>17, <1>18, <1>19, <1>20, <1>21, <1>22, <1>23, <1>24, <1>25,
   <1>26, <1>27, <1>28, <1>29, <1>30, <1>31, <1>32, <1>33, <1>34 DEF Next, Calm, Fault,
   WriterStep, MonitorStep, AttachStep, BackupStep

\* Every action keeps write_mutex_ with one holder, and work in hand with it
\* (std::lock_guard in the handlers and in attach_replica).
LEMMA LockStep ==
  TypeOK /\ LockInv /\ PeerInv /\ [Next]_vars => LockInv'
<1> SUFFICES ASSUME TypeOK, LockInv, PeerInv, [Next]_vars PROVE LockInv'
  OBVIOUS
<1> USE ConstantsAssumption DEF TypeOK, LockInv, Stores, primaryVars, writerVars,
   backupVars, connVars
<1>1. ASSUME NEW w \in Writers, NEW ch \in Changes, Commit(w, ch) PROVE LockInv'
  BY <1>1 DEF Commit, Apply, LinkConns, Linked, Changes
<1>2. ASSUME NEW w \in Writers, NEW c \in Conns, Send(w, c) PROVE LockInv'
  BY <1>2 DEF Send
<1>3. ASSUME NEW w \in Writers, NEW c \in Conns, SendFails(w, c) PROVE LockInv'
  BY <1>3 DEF SendFails
<1>4. ASSUME NEW w \in Writers, NEW c \in Conns, LateReply(w, c) PROVE LockInv'
  BY <1>4 DEF LateReply
<1>5. ASSUME NEW w \in Writers, NEW c \in Conns, SkipPut(w, c) PROVE LockInv'
  BY <1>5 DEF SkipPut
<1>6. ASSUME NEW w \in Writers, ReplyOk(w) PROVE LockInv'
  BY <1>6 DEF ReplyOk
<1>7. ASSUME NEW w \in Writers, ReplyFails(w) PROVE LockInv'
  BY <1>7 DEF ReplyFails
<1>8. ASSUME NEW w \in Writers, ReplyTimeout(w) PROVE LockInv'
  BY <1>8 DEF ReplyTimeout
<1>9. ASSUME NEW w \in Writers, NEW b \in Backups, NEW more \in SUBSET Backups,
   DropLink(w, b, more) PROVE LockInv'
  BY <1>9 DEF DropLink, Unlink, BroadcastFails
<1>10. ASSUME NEW w \in Writers, Acknowledge(w) PROVE LockInv'
  BY <1>10 DEF Acknowledge
<1>11. ASSUME NEW b \in Backups, ProbeFails(b) PROVE LockInv'
  BY <1>11 DEF ProbeFails
<1>12. ASSUME NEW b \in Backups, ProbeTimeout(b) PROVE LockInv'
  BY <1>12 DEF ProbeTimeout
<1>13. ASSUME NEW b \in Backups, NEW more \in SUBSET Backups, DropSuspect(b, more)
   PROVE LockInv'
  BY <1>13 DEF DropSuspect, Unlink, BroadcastFails
<1>14. ASSUME NEW b \in Backups, NEW c \in Conns, Attach(b, c) PROVE LockInv'
  BY <1>14 DEF Attach, AttachIdle, Unused
<1>15. ASSUME NEW c \in Conns, Manifest(c) PROVE LockInv'
  BY <1>15 DEF Manifest, MissingOn, SurplusOn
<1>16. ASSUME NEW k \in Keys, AttachSend(k) PROVE LockInv'
  BY <1>16 DEF AttachSend, NextToSync
<1>17. ASSUME NEW k \in Keys, AttachSkip(k) PROVE LockInv'
  BY <1>17 DEF AttachSkip, NextToSync
<1>18. CASE AttachReplyOk
  BY <1>18 DEF AttachReplyOk
<1>19. CASE AttachFails
  BY <1>19 DEF AttachFails, GiveUpAttach, AttachIdle
<1>20. CASE AttachTimeout
  BY <1>20 DEF AttachTimeout, GiveUpAttach, AttachIdle
<1>21. CASE AttachDone
  BY <1>21 DEF AttachDone, AttachIdle
<1>22. ASSUME NEW c \in Conns, BackupAttach(c) PROVE LockInv'
  BY <1>22 DEF BackupAttach
<1>23. ASSUME NEW c \in Conns, BackupReceive(c) PROVE LockInv'
  BY <1>23 DEF BackupReceive
<1>24. ASSUME NEW c \in Conns, BackupApply(c) PROVE LockInv'
<2>1. peer[c] \in Backups
  BY <1>24 DEF BackupApply, PeerInv
<2>2. att' = att \/ (att.b = peer[c] /\ att' = [att EXCEPT !.dirty = TRUE])
  BY <1>24 DEF BackupApply
<2>3. UNCHANGED <<primaryVars, writerVars>>
  BY <1>24 DEF BackupApply
<2>4. att.phase = "idle" => att' = att
  BY <2>1, <2>2 DEF AttachIdle
<2>5. att'.phase = att.phase /\ att'.b = att.b /\ att'.c = att.c
  BY <2>2
<2> HIDE DEF TypeOK, Stores
<2>6. UNCHANGED <<store, writeMutex, pc, op, todo, cur, failed>>
  BY <2>3
<2>7. \A x \in Writers : (pc[x] = "replicate" <=> writeMutex = x)'
  BY <2>6 DEF LockInv
<2>8. \A x \in Writers :
         /\ (pc[x] = "idle" => todo[x] = {} /\ cur[x] = NoConn /\ failed[x] = {})'
         /\ (pc[x] = "replicate" => op[x] \in Changes /\ store[op[x].key] = op[x].val)'
  BY <2>6 DEF LockInv
<2>9. (att.phase # "idle" <=> writeMutex = Attacher)'
  BY <2>5, <2>6 DEF LockInv
<2>10. CASE att.phase = "idle"
  BY <2>4, <2>7, <2>8, <2>9, <2>10 DEF LockInv
<2>11. CASE att.phase # "idle"
  BY <2>5, <2>7, <2>8, <2>9, <2>11 DEF LockInv
<2> QED BY <2>10, <2>11
<1>25. ASSUME NEW c \in Conns, BackupRefuse(c) PROVE LockInv'
  BY <1>25 DEF BackupRefuse
<1>26. ASSUME NEW c \in Conns, BackupStoreFails(c) PROVE LockInv'
  BY <1>26 DEF BackupStoreFails
<1>27. ASSUME NEW c \in Conns, HandlerEnds(c) PROVE LockInv'
  BY <1>27 DEF HandlerEnds, LeaveLoop
<1>28. ASSUME NEW c \in Conns, IdleTimeout(c) PROVE LockInv'
  BY <1>28 DEF IdleTimeout, LeaveLoop
<1>29. ASSUME NEW c \in Conns, ConnectionBreaks(c) PROVE LockInv'
  BY <1>29 DEF ConnectionBreaks
<1>30. ASSUME NEW b \in Backups, Crash(b) PROVE LockInv'
  BY <1>30 DEF Crash
<1>31. ASSUME NEW b \in Backups, Restart(b) PROVE LockInv'
  BY <1>31 DEF Restart
<1>32. CASE UNCHANGED vars
  BY <1>32 DEF vars, Linked, LinkConns, Trusted, InSync
<1>33. ASSUME NEW w \in Writers, NEW f \in Files, NEW v \in Values \cup {Absent},
             Upload(w, f, v) \/ Delete(w, f)
      PROVE  LockInv'
  <2>1. [key |-> f, val |-> v] \in Changes /\ [key |-> f, val |-> Absent] \in Changes
    BY DEF Changes, Keys
  <2> QED BY <1>33, <2>1, <1>1 DEF Upload, Delete
<1>34. ASSUME NEW w \in Writers, NEW u \in Users, NEW v \in Values, CreateAccount(w, u, v)
      PROVE  LockInv'
  <2>1. [key |-> u, val |-> v] \in Changes
    BY DEF Changes, Keys
  <2> QED BY <1>34, <2>1, <1>1 DEF CreateAccount
<1> QED BY <1>2, <1>3, <1>4, <1>5, <1>6, <1>7, <1>8, <1>9, <1>10, <1>11, <1>12, <1>13,
   <1>14, <1>15, <1>16, <1>17, <1>18, <1>19, <1>20, <1>21, <1>22, <1>23, <1>24, <1>25,
   <1>26, <1>27, <1>28, <1>29, <1>30, <1>31, <1>32, <1>33, <1>34 DEF Next, Calm, Fault,
   WriterStep, MonitorStep, AttachStep, BackupStep

\* Every action keeps each connection with the backup it was opened to: links_,
\* primary_link_ and the snapshots held by handlers agree on it.
LEMMA PeerStep ==
  TypeOK /\ LockInv /\ PeerInv /\ CarriesInv /\ [Next]_vars => PeerInv'
<1> SUFFICES ASSUME TypeOK, LockInv, PeerInv, CarriesInv, [Next]_vars PROVE PeerInv'
  OBVIOUS
<1> USE ConstantsAssumption DEF TypeOK, LockInv, PeerInv, Linked, LinkConns,
   ConnStates, primaryVars, writerVars, backupVars, connVars
<1>1. ASSUME NEW w \in Writers, NEW ch \in Changes, Commit(w, ch) PROVE PeerInv'
  BY <1>1 DEF Commit, Apply, LinkConns
<1>2. ASSUME NEW w \in Writers, NEW c \in Conns, Send(w, c) PROVE PeerInv'
  BY <1>2 DEF Send
<1>3. ASSUME NEW w \in Writers, NEW c \in Conns, SendFails(w, c) PROVE PeerInv'
  BY <1>3 DEF SendFails
<1>4. ASSUME NEW w \in Writers, NEW c \in Conns, LateReply(w, c) PROVE PeerInv'
  BY <1>4 DEF LateReply
<1>5. ASSUME NEW w \in Writers, NEW c \in Conns, SkipPut(w, c) PROVE PeerInv'
  BY <1>5 DEF SkipPut
<1>6. ASSUME NEW w \in Writers, ReplyOk(w) PROVE PeerInv'
  BY <1>6 DEF ReplyOk
<1>7. ASSUME NEW w \in Writers, ReplyFails(w) PROVE PeerInv'
  BY <1>7 DEF ReplyFails
<1>8. ASSUME NEW w \in Writers, ReplyTimeout(w) PROVE PeerInv'
  BY <1>8 DEF ReplyTimeout
<1>9. ASSUME NEW w \in Writers, NEW b \in Backups, NEW more \in SUBSET Backups,
   DropLink(w, b, more) PROVE PeerInv'
  BY <1>9 DEF DropLink, Unlink, BroadcastFails
<1>10. ASSUME NEW w \in Writers, Acknowledge(w) PROVE PeerInv'
  BY <1>10 DEF Acknowledge
<1>11. ASSUME NEW b \in Backups, ProbeFails(b) PROVE PeerInv'
  BY <1>11 DEF ProbeFails
<1>12. ASSUME NEW b \in Backups, ProbeTimeout(b) PROVE PeerInv'
  BY <1>12 DEF ProbeTimeout
<1>13. ASSUME NEW b \in Backups, NEW more \in SUBSET Backups, DropSuspect(b, more)
   PROVE PeerInv'
  BY <1>13 DEF DropSuspect, Unlink, BroadcastFails
<1>14. ASSUME NEW b \in Backups, NEW c \in Conns, Attach(b, c) PROVE PeerInv'
  BY <1>14 DEF Attach, AttachIdle, Unused
<1>15. ASSUME NEW c \in Conns, Manifest(c) PROVE PeerInv'
  BY <1>15 DEF Manifest, MissingOn, SurplusOn
<1>16. ASSUME NEW k \in Keys, AttachSend(k) PROVE PeerInv'
  BY <1>16 DEF AttachSend, NextToSync
<1>17. ASSUME NEW k \in Keys, AttachSkip(k) PROVE PeerInv'
  BY <1>17 DEF AttachSkip, NextToSync
<1>18. CASE AttachReplyOk
  BY <1>18 DEF AttachReplyOk
<1>19. CASE AttachFails
  BY <1>19 DEF AttachFails, GiveUpAttach, AttachIdle
<1>20. CASE AttachTimeout
  BY <1>20 DEF AttachTimeout, GiveUpAttach, AttachIdle
<1>21. CASE AttachDone
<2>1. att.phase = "sync" /\ att.b \in Backups /\ att.c \in Conns /\ writeMutex = Attacher
  BY <1>21 DEF AttachDone
<2>2. links' = [links EXCEPT ![att.b] = att.c] /\ att' = AttachIdle
  BY <1>21 DEF AttachDone
<2>3. UNCHANGED <<writerVars, backupVars, st, req, peer, late>>
  BY <1>21 DEF AttachDone
<2>4. st[att.c] \notin {"attach", "building"}
  BY <2>1 DEF CarriesInv
<2>5. \A w \in Writers : todo[w] = {} /\ cur[w] = NoConn
  BY <2>1
<2> QED BY <2>1, <2>2, <2>3, <2>4, <2>5 DEF AttachIdle
<1>22. ASSUME NEW c \in Conns, BackupAttach(c) PROVE PeerInv'
  BY <1>22 DEF BackupAttach
<1>23. ASSUME NEW c \in Conns, BackupReceive(c) PROVE PeerInv'
  BY <1>23 DEF BackupReceive
<1>24. ASSUME NEW c \in Conns, BackupApply(c) PROVE PeerInv'
  BY <1>24 DEF BackupApply, Apply
<1>25. ASSUME NEW c \in Conns, BackupRefuse(c) PROVE PeerInv'
  BY <1>25 DEF BackupRefuse
<1>26. ASSUME NEW c \in Conns, BackupStoreFails(c) PROVE PeerInv'
  BY <1>26 DEF BackupStoreFails
<1>27. ASSUME NEW c \in Conns, HandlerEnds(c) PROVE PeerInv'
  BY <1>27 DEF HandlerEnds, LeaveLoop
<1>28. ASSUME NEW c \in Conns, IdleTimeout(c) PROVE PeerInv'
  BY <1>28 DEF IdleTimeout, LeaveLoop
<1>29. ASSUME NEW c \in Conns, ConnectionBreaks(c) PROVE PeerInv'
  BY <1>29 DEF ConnectionBreaks
<1>30. ASSUME NEW b \in Backups, Crash(b) PROVE PeerInv'
  BY <1>30 DEF Crash
<1>31. ASSUME NEW b \in Backups, Restart(b) PROVE PeerInv'
  BY <1>31 DEF Restart
<1>32. CASE UNCHANGED vars
  BY <1>32 DEF vars, Linked, LinkConns, Trusted, InSync
<1>33. ASSUME NEW w \in Writers, NEW f \in Files, NEW v \in Values \cup {Absent},
             Upload(w, f, v) \/ Delete(w, f)
      PROVE  PeerInv'
  <2>1. [key |-> f, val |-> v] \in Changes /\ [key |-> f, val |-> Absent] \in Changes
    BY DEF Changes, Keys
  <2> QED BY <1>33, <2>1, <1>1 DEF Upload, Delete
<1>34. ASSUME NEW w \in Writers, NEW u \in Users, NEW v \in Values, CreateAccount(w, u, v)
      PROVE  PeerInv'
  <2>1. [key |-> u, val |-> v] \in Changes
    BY DEF Changes, Keys
  <2> QED BY <1>34, <2>1, <1>1 DEF CreateAccount
<1> QED BY <1>2, <1>3, <1>4, <1>5, <1>6, <1>7, <1>8, <1>9, <1>10, <1>11, <1>12, <1>13,
   <1>14, <1>15, <1>16, <1>17, <1>18, <1>19, <1>20, <1>21, <1>22, <1>23, <1>24, <1>25,
   <1>26, <1>27, <1>28, <1>29, <1>30, <1>31, <1>32, <1>33, <1>34 DEF Next, Calm, Fault,
   WriterStep, MonitorStep, AttachStep, BackupStep

\* Every action keeps on the connections nothing but the change of the current
\* holder of write_mutex_, as far as the links count as up to date.
LEMMA CarriesStep ==
  TypeOK /\ LockInv /\ PeerInv /\ CarriesInv /\ [Next]_vars => CarriesInv'
<1> SUFFICES ASSUME TypeOK, LockInv, PeerInv, CarriesInv, [Next]_vars PROVE CarriesInv'
  OBVIOUS
<1> USE ConstantsAssumption DEF TypeOK, LockInv, PeerInv, CarriesInv, Linked,
   LinkConns, ConnStates, Changes, Stores, primaryVars, writerVars, backupVars,
   connVars
<1>1. ASSUME NEW w \in Writers, NEW ch \in Changes, Commit(w, ch) PROVE CarriesInv'
  BY <1>1 DEF Commit, Apply, LinkConns
<1>2. ASSUME NEW w \in Writers, NEW c \in Conns, Send(w, c) PROVE CarriesInv'
  BY <1>2 DEF Send
<1>3. ASSUME NEW w \in Writers, NEW c \in Conns, SendFails(w, c) PROVE CarriesInv'
  BY <1>3 DEF SendFails
<1>4. ASSUME NEW w \in Writers, NEW c \in Conns, LateReply(w, c) PROVE CarriesInv'
<2>1. /\ pc[w] = "replicate" /\ writeMutex = w /\ late[c] /\ op[w] \in Changes
      /\ att.phase = "idle"
      /\ UNCHANGED <<primaryVars, op, cur, failed, att, late>>
  BY <1>4 DEF LateReply
<2>2. CASE st' = [st EXCEPT ![c] = "sent"] /\ req' = [req EXCEPT ![c] = op[w]]
  <3>1. \A x \in Conns : st'[x] \in {"sent", "applying"} => req'[x] \in Changes
    BY <2>1, <2>2
  <3>2. \A b \in Linked : ~late[links[b]] =>
           st'[links[b]] = st[links[b]] /\ req'[links[b]] = req[links[b]]
    BY <2>1, <2>2
  <3> QED BY <2>1, <3>1, <3>2
<2>3. CASE UNCHANGED <<st, req>>
  BY <2>1, <2>3
<2> QED BY <1>4, <2>2, <2>3 DEF LateReply
<1>5. ASSUME NEW w \in Writers, NEW c \in Conns, SkipPut(w, c) PROVE CarriesInv'
  BY <1>5 DEF SkipPut
<1>6. ASSUME NEW w \in Writers, ReplyOk(w) PROVE CarriesInv'
  BY <1>6 DEF ReplyOk
<1>7. ASSUME NEW w \in Writers, ReplyFails(w) PROVE CarriesInv'
  BY <1>7 DEF ReplyFails
<1>8. ASSUME NEW w \in Writers, ReplyTimeout(w) PROVE CarriesInv'
  BY <1>8 DEF ReplyTimeout
<1>9. ASSUME NEW w \in Writers, NEW b \in Backups, NEW more \in SUBSET Backups,
   DropLink(w, b, more) PROVE CarriesInv'
  BY <1>9 DEF DropLink, Unlink, BroadcastFails
<1>10. ASSUME NEW w \in Writers, Acknowledge(w) PROVE CarriesInv'
  BY <1>10 DEF Acknowledge
<1>11. ASSUME NEW b \in Backups, ProbeFails(b) PROVE CarriesInv'
  BY <1>11 DEF ProbeFails
<1>12. ASSUME NEW b \in Backups, ProbeTimeout(b) PROVE CarriesInv'
  BY <1>12 DEF ProbeTimeout
<1>13. ASSUME NEW b \in Backups, NEW more \in SUBSET Backups, DropSuspect(b, more)
   PROVE CarriesInv'
  BY <1>13 DEF DropSuspect, Unlink, BroadcastFails
<1>14. ASSUME NEW b \in Backups, NEW c \in Conns, Attach(b, c) PROVE CarriesInv'
  BY <1>14 DEF Attach, AttachIdle, Unused
<1>15. ASSUME NEW c \in Conns, Manifest(c) PROVE CarriesInv'
  BY <1>15 DEF Manifest, MissingOn, SurplusOn
<1>16. ASSUME NEW k \in Keys, AttachSend(k) PROVE CarriesInv'
<2> DEFINE r == [key |-> k, val |-> store[k]]
<2>1. r \in Changes /\ r.key = k
  OBVIOUS
<2>2. att.phase = "sync" /\ att.c \in Conns /\ att.c \notin LinkConns /\ writeMutex = Attacher
  BY <1>16 DEF AttachSend
<2>3. st' = [st EXCEPT ![att.c] = "sent"] /\ req' = [req EXCEPT ![att.c] = r]
  BY <1>16 DEF AttachSend
<2>4. att' = [att EXCEPT !.key = k] /\ UNCHANGED <<primaryVars, writerVars, late>>
  BY <1>16 DEF AttachSend
<2>5. \A c \in Conns : st'[c] \in {"sent", "applying"} => req'[c] \in Changes
  BY <2>1, <2>2, <2>3
<2>6. \A b \in Linked : st'[links[b]] = st[links[b]] /\ req'[links[b]] = req[links[b]]
  BY <2>2, <2>3
<2>7. /\ att'.phase = "sync" /\ att'.key = k /\ att'.c = att.c
      /\ st'[att.c] = "sent" /\ req'[att.c] = r
  BY <2>2, <2>3, <2>4
<2> HIDE DEF r
<2>8. \A b \in Linked' :
         ~late'[links'[b]] /\ st'[links'[b]] \in {"sent", "applying"} =>
            \E w \in Writers : /\ writeMutex' = w
                               /\ req'[links'[b]] = op'[w]
                               /\ cur'[w] = links'[b] \/ b \in failed'[w]
  BY <2>4, <2>6
<2> QED BY <2>4, <2>5, <2>7, <2>8 DEF r
<1>17. ASSUME NEW k \in Keys, AttachSkip(k) PROVE CarriesInv'
  BY <1>17 DEF AttachSkip, NextToSync
<1>18. CASE AttachReplyOk
  BY <1>18 DEF AttachReplyOk
<1>19. CASE AttachFails
  BY <1>19 DEF AttachFails, GiveUpAttach, AttachIdle
<1>20. CASE AttachTimeout
  BY <1>20 DEF AttachTimeout, GiveUpAttach, AttachIdle
<1>21. CASE AttachDone
  BY <1>21 DEF AttachDone, AttachIdle
<1>22. ASSUME NEW c \in Conns, BackupAttach(c) PROVE CarriesInv'
  BY <1>22 DEF BackupAttach
<1>23. ASSUME NEW c \in Conns, BackupReceive(c) PROVE CarriesInv'
  BY <1>23 DEF BackupReceive
<1>24. ASSUME NEW c \in Conns, BackupApply(c) PROVE CarriesInv'
<2>1. /\ st' = [st EXCEPT ![c] = "ok"] /\ st[c] = "applying"
      /\ UNCHANGED <<primaryVars, writerVars, req, late>>
  BY <1>24 DEF BackupApply
<2>2. att' = att \/ att' = [att EXCEPT !.dirty = TRUE]
  BY <1>24 DEF BackupApply
<2>3. /\ att'.phase = att.phase /\ att'.c = att.c /\ att'.key = att.key
  BY <2>2
<2>4. att.phase = "sync" /\ att.key = Absent => c # att.c
  BY <2>1
<2>5. att.phase = "attach" => c # att.c
  BY <2>1
<2>6. \A b \in Linked : links[b] \in Conns
  OBVIOUS
<2> QED BY <2>1, <2>3, <2>4, <2>5, <2>6
<1>25. ASSUME NEW c \in Conns, BackupRefuse(c) PROVE CarriesInv'
  BY <1>25 DEF BackupRefuse
<1>26. ASSUME NEW c \in Conns, BackupStoreFails(c) PROVE CarriesInv'
  BY <1>26 DEF BackupStoreFails
<1>27. ASSUME NEW c \in Conns, HandlerEnds(c) PROVE CarriesInv'
  BY <1>27 DEF HandlerEnds, LeaveLoop
<1>28. ASSUME NEW c \in Conns, IdleTimeout(c) PROVE CarriesInv'
  BY <1>28 DEF IdleTimeout, LeaveLoop
<1>29. ASSUME NEW c \in Conns, ConnectionBreaks(c) PROVE CarriesInv'
  BY <1>29 DEF ConnectionBreaks
<1>30. ASSUME NEW b \in Backups, Crash(b) PROVE CarriesInv'
<2>1. /\ st' = [c \in Conns |-> IF peer[c] = b THEN "idle" ELSE st[c]]
      /\ req' = [c \in Conns |-> IF peer[c] = b THEN Absent ELSE req[c]]
      /\ UNCHANGED <<primaryVars, writerVars, att, late>>
  BY <1>30 DEF Crash
<2>2. \A c \in Conns : st'[c] = "idle" \/ (st'[c] = st[c] /\ req'[c] = req[c])
  BY <2>1
<2>3. \A c \in Conns : st'[c] \in {"sent", "applying"} => req'[c] \in Changes
  BY <2>2
<2>4. \A x \in Linked : links[x] \in Conns
  OBVIOUS
<2>5. ASSUME NEW x \in Linked, ~late[links[x]], st'[links[x]] \in {"sent", "applying"}
      PROVE  \E w \in Writers : /\ writeMutex = w
                                /\ req'[links[x]] = op[w]
                                /\ cur[w] = links[x] \/ x \in failed[w]
  <3>1. st'[links[x]] = st[links[x]] /\ req'[links[x]] = req[links[x]]
    BY <2>2, <2>4, <2>5
  <3> QED BY <2>5, <3>1
<2>6. att.phase # "idle" => att.c \in Conns
  OBVIOUS
<2>7. att.phase = "attach" =>
         att.key = Absent /\ st'[att.c] \in {"idle", "attach", "building"}
  BY <2>2, <2>6
<2>8. att.phase = "sync" =>
         /\ att.key \in Keys \cup {Absent}
         /\ att.key = Absent => st'[att.c] = "idle"
         /\ st'[att.c] \in {"idle", "sent", "applying", "ok", "error"}
         /\ st'[att.c] \in {"sent", "applying"} =>
               req'[att.c] = [key |-> att.key, val |-> store[att.key]]
  BY <2>2, <2>6
<2>9. Linked' = Linked
  BY <2>1
<2> HIDE DEF Changes, Stores, TypeOK, LockInv, PeerInv
<2> QED BY <2>1, <2>3, <2>5, <2>7, <2>8, <2>9
<1>31. ASSUME NEW b \in Backups, Restart(b) PROVE CarriesInv'
  BY <1>31 DEF Restart
<1>32. CASE UNCHANGED vars
  BY <1>32 DEF vars, Linked, LinkConns, Trusted, InSync
<1>33. ASSUME NEW w \in Writers, NEW f \in Files, NEW v \in Values \cup {Absent},
             Upload(w, f, v) \/ Delete(w, f)
      PROVE  CarriesInv'
  <2>1. [key |-> f, val |-> v] \in Changes /\ [key |-> f, val |-> Absent] \in Changes
    BY DEF Changes, Keys
  <2> QED BY <1>33, <2>1, <1>1 DEF Upload, Delete
<1>34. ASSUME NEW w \in Writers, NEW u \in Users, NEW v \in Values, CreateAccount(w, u, v)
      PROVE  CarriesInv'
  <2>1. [key |-> u, val |-> v] \in Changes
    BY DEF Changes, Keys
  <2> QED BY <1>34, <2>1, <1>1 DEF CreateAccount
<1> QED BY <1>2, <1>3, <1>4, <1>5, <1>6, <1>7, <1>8, <1>9, <1>10, <1>11, <1>12, <1>13,
   <1>14, <1>15, <1>16, <1>17, <1>18, <1>19, <1>20, <1>21, <1>22, <1>23, <1>24, <1>25,
   <1>26, <1>27, <1>28, <1>29, <1>30, <1>31, <1>32, <1>33, <1>34 DEF Next, Calm, Fault,
   WriterStep, MonitorStep, AttachStep, BackupStep

\* Every action keeps one way to change an up-to-date backup: its own link
\* (handle_replica_attach replaces primary_link_ before it builds the manifest).
LEMMA OneChannelStep ==
  TypeOK /\ LockInv /\ PeerInv /\ CarriesInv /\ AttachInv /\ OneChannelInv /\ [Next]_vars => OneChannelInv'
<1> SUFFICES ASSUME TypeOK, LockInv, PeerInv, CarriesInv, AttachInv, OneChannelInv, [Next]_vars PROVE OneChannelInv'
  OBVIOUS
<1> USE ConstantsAssumption DEF TypeOK, LockInv, PeerInv, OneChannelInv, Trusted,
   Linked, LinkConns, ConnStates, primaryVars, writerVars, backupVars, connVars
<1>1. ASSUME NEW w \in Writers, NEW ch \in Changes, Commit(w, ch) PROVE OneChannelInv'
  BY <1>1 DEF Commit, Apply, LinkConns
<1>2. ASSUME NEW w \in Writers, NEW c \in Conns, Send(w, c) PROVE OneChannelInv'
  BY <1>2 DEF Send
<1>3. ASSUME NEW w \in Writers, NEW c \in Conns, SendFails(w, c) PROVE OneChannelInv'
  BY <1>3 DEF SendFails
<1>4. ASSUME NEW w \in Writers, NEW c \in Conns, LateReply(w, c) PROVE OneChannelInv'
  BY <1>4 DEF LateReply
<1>5. ASSUME NEW w \in Writers, NEW c \in Conns, SkipPut(w, c) PROVE OneChannelInv'
  BY <1>5 DEF SkipPut
<1>6. ASSUME NEW w \in Writers, ReplyOk(w) PROVE OneChannelInv'
  BY <1>6 DEF ReplyOk
<1>7. ASSUME NEW w \in Writers, ReplyFails(w) PROVE OneChannelInv'
  BY <1>7 DEF ReplyFails
<1>8. ASSUME NEW w \in Writers, ReplyTimeout(w) PROVE OneChannelInv'
  BY <1>8 DEF ReplyTimeout
<1>9. ASSUME NEW w \in Writers, NEW b \in Backups, NEW more \in SUBSET Backups,
   DropLink(w, b, more) PROVE OneChannelInv'
  BY <1>9 DEF DropLink, Unlink, BroadcastFails
<1>10. ASSUME NEW w \in Writers, Acknowledge(w) PROVE OneChannelInv'
  BY <1>10 DEF Acknowledge
<1>11. ASSUME NEW b \in Backups, ProbeFails(b) PROVE OneChannelInv'
  BY <1>11 DEF ProbeFails
<1>12. ASSUME NEW b \in Backups, ProbeTimeout(b) PROVE OneChannelInv'
  BY <1>12 DEF ProbeTimeout
<1>13. ASSUME NEW b \in Backups, NEW more \in SUBSET Backups, DropSuspect(b, more)
   PROVE OneChannelInv'
  BY <1>13 DEF DropSuspect, Unlink, BroadcastFails
<1>14. ASSUME NEW b \in Backups, NEW c \in Conns, Attach(b, c) PROVE OneChannelInv'
  BY <1>14 DEF Attach, AttachIdle, Unused
<1>15. ASSUME NEW c \in Conns, Manifest(c) PROVE OneChannelInv'
  BY <1>15 DEF Manifest, MissingOn, SurplusOn
<1>16. ASSUME NEW k \in Keys, AttachSend(k) PROVE OneChannelInv'
  BY <1>16 DEF AttachSend, NextToSync, AttachInv
<1>17. ASSUME NEW k \in Keys, AttachSkip(k) PROVE OneChannelInv'
  BY <1>17 DEF AttachSkip, NextToSync
<1>18. CASE AttachReplyOk
  BY <1>18 DEF AttachReplyOk
<1>19. CASE AttachFails
  BY <1>19 DEF AttachFails, GiveUpAttach, AttachIdle
<1>20. CASE AttachTimeout
  BY <1>20 DEF AttachTimeout, GiveUpAttach, AttachIdle
<1>21. CASE AttachDone
<2>1. /\ att.phase = "sync" /\ att.b \in Backups /\ att.c \in Conns /\ writeMutex = Attacher
      /\ st[att.c] = "idle"
  BY <1>21 DEF AttachDone, CarriesInv
<2>2. /\ links' = [links EXCEPT ![att.b] = att.c] /\ att' = AttachIdle
      /\ stained' \in {stained \cup {att.b}, stained \ {att.b}}
      /\ UNCHANGED <<primaryLink, st, late>>
  BY <1>21 DEF AttachDone
<2>3. SUFFICES ASSUME NEW b \in Trusted', NEW c \in Conns,
                      primaryLink[b] = c, c # links'[b]
               PROVE  st[c] \notin {"sent", "applying"}
  BY <2>2 DEF AttachIdle
<2>4. CASE b = att.b
  BY <2>1, <2>2, <2>3, <2>4
<2>5. CASE b # att.b
  <3>1. links'[b] = links[b] /\ b \in Trusted
    BY <2>1, <2>2, <2>5
  <3> QED BY <2>3, <3>1
<2> QED BY <2>4, <2>5
<1>22. ASSUME NEW c \in Conns, BackupAttach(c) PROVE OneChannelInv'
  BY <1>22 DEF BackupAttach
<1>23. ASSUME NEW c \in Conns, BackupReceive(c) PROVE OneChannelInv'
  BY <1>23 DEF BackupReceive
<1>24. ASSUME NEW c \in Conns, BackupApply(c) PROVE OneChannelInv'
  BY <1>24 DEF BackupApply, Apply
<1>25. ASSUME NEW c \in Conns, BackupRefuse(c) PROVE OneChannelInv'
  BY <1>25 DEF BackupRefuse
<1>26. ASSUME NEW c \in Conns, BackupStoreFails(c) PROVE OneChannelInv'
  BY <1>26 DEF BackupStoreFails
<1>27. ASSUME NEW c \in Conns, HandlerEnds(c) PROVE OneChannelInv'
  BY <1>27 DEF HandlerEnds, LeaveLoop
<1>28. ASSUME NEW c \in Conns, IdleTimeout(c) PROVE OneChannelInv'
  BY <1>28 DEF IdleTimeout, LeaveLoop
<1>29. ASSUME NEW c \in Conns, ConnectionBreaks(c) PROVE OneChannelInv'
  BY <1>29 DEF ConnectionBreaks
<1>30. ASSUME NEW b \in Backups, Crash(b) PROVE OneChannelInv'
  BY <1>30 DEF Crash
<1>31. ASSUME NEW b \in Backups, Restart(b) PROVE OneChannelInv'
  BY <1>31 DEF Restart
<1>32. CASE UNCHANGED vars
  BY <1>32 DEF vars, Linked, LinkConns, Trusted, InSync
<1>33. ASSUME NEW w \in Writers, NEW f \in Files, NEW v \in Values \cup {Absent},
             Upload(w, f, v) \/ Delete(w, f)
      PROVE  OneChannelInv'
  <2>1. [key |-> f, val |-> v] \in Changes /\ [key |-> f, val |-> Absent] \in Changes
    BY DEF Changes, Keys
  <2> QED BY <1>33, <2>1, <1>1 DEF Upload, Delete
<1>34. ASSUME NEW w \in Writers, NEW u \in Users, NEW v \in Values, CreateAccount(w, u, v)
      PROVE  OneChannelInv'
  <2>1. [key |-> u, val |-> v] \in Changes
    BY DEF Changes, Keys
  <2> QED BY <1>34, <2>1, <1>1 DEF CreateAccount
<1> QED BY <1>2, <1>3, <1>4, <1>5, <1>6, <1>7, <1>8, <1>9, <1>10, <1>11, <1>12, <1>13,
   <1>14, <1>15, <1>16, <1>17, <1>18, <1>19, <1>20, <1>21, <1>22, <1>23, <1>24, <1>25,
   <1>26, <1>27, <1>28, <1>29, <1>30, <1>31, <1>32, <1>33, <1>34 DEF Next, Calm, Fault,
   WriterStep, MonitorStep, AttachStep, BackupStep

\* Every action keeps up-to-date backups equal to the primary but for the
\* change in hand, and that one is missing only where it is still to be
\* confirmed or the link is about to be dropped.
LEMMA SyncStep ==
  TypeOK /\ LockInv /\ PeerInv /\ CarriesInv /\ AttachInv /\ OneChannelInv /\ SyncInv /\ [Next]_vars => SyncInv'
<1> SUFFICES ASSUME TypeOK, LockInv, PeerInv, CarriesInv, AttachInv, OneChannelInv, SyncInv, [Next]_vars PROVE SyncInv'
  OBVIOUS
<1> USE ConstantsAssumption DEF TypeOK, LockInv, PeerInv, SyncInv, Trusted, Linked,
   LinkConns, InSync, Stores, primaryVars, writerVars, backupVars, connVars
<1>1. ASSUME NEW w \in Writers, NEW ch \in Changes, Commit(w, ch) PROVE SyncInv'
  BY <1>1 DEF Commit, Apply, LinkConns
<1>2. ASSUME NEW w \in Writers, NEW c \in Conns, Send(w, c) PROVE SyncInv'
  BY <1>2 DEF Send
<1>3. ASSUME NEW w \in Writers, NEW c \in Conns, SendFails(w, c) PROVE SyncInv'
  BY <1>3 DEF SendFails
<1>4. ASSUME NEW w \in Writers, NEW c \in Conns, LateReply(w, c) PROVE SyncInv'
  BY <1>4 DEF LateReply
<1>5. ASSUME NEW w \in Writers, NEW c \in Conns, SkipPut(w, c) PROVE SyncInv'
  BY <1>5 DEF SkipPut
<1>6. ASSUME NEW w \in Writers, ReplyOk(w) PROVE SyncInv'
  BY <1>6 DEF ReplyOk
<1>7. ASSUME NEW w \in Writers, ReplyFails(w) PROVE SyncInv'
  BY <1>7 DEF ReplyFails
<1>8. ASSUME NEW w \in Writers, ReplyTimeout(w) PROVE SyncInv'
  BY <1>8 DEF ReplyTimeout
<1>9. ASSUME NEW w \in Writers, NEW b \in Backups, NEW more \in SUBSET Backups,
   DropLink(w, b, more) PROVE SyncInv'
  BY <1>9 DEF DropLink, Unlink, BroadcastFails
<1>10. ASSUME NEW w \in Writers, Acknowledge(w) PROVE SyncInv'
<2>1. /\ writeMutex = w /\ writeMutex' = Free /\ op[w] \in Changes
      /\ cur[w] = NoConn /\ todo[w] = {} /\ failed[w] = {}
      /\ UNCHANGED <<store, copy, links, late, stained>>
  BY <1>10 DEF Acknowledge
<2>2. SUFFICES ASSUME NEW b \in Trusted, NEW k \in Keys PROVE InSync(b, k)
  BY <2>1
<2>3. CASE k = op[w].key
  BY <2>1, <2>3
<2>4. CASE k # op[w].key
  BY <2>1, <2>4
<2> QED BY <2>3, <2>4
<1>11. ASSUME NEW b \in Backups, ProbeFails(b) PROVE SyncInv'
  BY <1>11 DEF ProbeFails
<1>12. ASSUME NEW b \in Backups, ProbeTimeout(b) PROVE SyncInv'
  BY <1>12 DEF ProbeTimeout
<1>13. ASSUME NEW b \in Backups, NEW more \in SUBSET Backups, DropSuspect(b, more)
   PROVE SyncInv'
  BY <1>13 DEF DropSuspect, Unlink, BroadcastFails
<1>14. ASSUME NEW b \in Backups, NEW c \in Conns, Attach(b, c) PROVE SyncInv'
  BY <1>14 DEF Attach, AttachIdle, Unused
<1>15. ASSUME NEW c \in Conns, Manifest(c) PROVE SyncInv'
  BY <1>15 DEF Manifest, MissingOn, SurplusOn
<1>16. ASSUME NEW k \in Keys, AttachSend(k) PROVE SyncInv'
  BY <1>16 DEF AttachSend, NextToSync
<1>17. ASSUME NEW k \in Keys, AttachSkip(k) PROVE SyncInv'
  BY <1>17 DEF AttachSkip, NextToSync
<1>18. CASE AttachReplyOk
  BY <1>18 DEF AttachReplyOk
<1>19. CASE AttachFails
  BY <1>19 DEF AttachFails, GiveUpAttach, AttachIdle
<1>20. CASE AttachTimeout
  BY <1>20 DEF AttachTimeout, GiveUpAttach, AttachIdle
<1>21. CASE AttachDone
<2>1. /\ att.phase = "sync" /\ att.b \in Backups /\ att.c \in Conns /\ writeMutex = Attacher
      /\ att.key = Absent /\ att.puts = {} /\ att.dels = {}
  BY <1>21 DEF AttachDone
<2>2. /\ links' = [links EXCEPT ![att.b] = att.c] /\ writeMutex' = Free
      /\ stained' = IF att.dirty THEN stained \cup {att.b} ELSE stained \ {att.b}
      /\ UNCHANGED <<store, copy, late>>
  BY <1>21 DEF AttachDone
<2>3. SUFFICES ASSUME NEW b \in Trusted', NEW k \in Keys PROVE InSync(b, k)
  BY <2>2
<2>4. CASE b = att.b
  BY <2>1, <2>2, <2>3, <2>4 DEF AttachInv
<2>5. CASE b # att.b
  <3>1. links'[b] = links[b] /\ b \in Trusted
    BY <2>1, <2>2, <2>5
  <3> QED BY <2>1, <2>3, <3>1
<2> QED BY <2>4, <2>5
<1>22. ASSUME NEW c \in Conns, BackupAttach(c) PROVE SyncInv'
  BY <1>22 DEF BackupAttach
<1>23. ASSUME NEW c \in Conns, BackupReceive(c) PROVE SyncInv'
  BY <1>23 DEF BackupReceive
<1>24. ASSUME NEW c \in Conns, BackupApply(c) PROVE SyncInv'
<2> DEFINE b == peer[c]
           r == req[c]
<2>1. /\ b \in Backups /\ st[c] = "applying" /\ r \in Changes
      /\ copy' = [copy EXCEPT ![b] = Apply(copy[b], r)]
      /\ st' = [st EXCEPT ![c] = "ok"]
      /\ UNCHANGED <<store, writeMutex, links, writerVars, primaryLink, late>>
  BY <1>24 DEF BackupApply, CarriesInv
<2>2. IF primaryLink[b] = c THEN stained' = stained ELSE stained' = stained \cup {b}
  BY <1>24 DEF BackupApply
<2>3. Trusted' \subseteq Trusted /\ (primaryLink[b] # c => b \notin Trusted')
  BY <2>1, <2>2
<2>4. b \in Trusted' => /\ c = links[b]
                        /\ \E w \in Writers : writeMutex = w /\ r = op[w]
  BY <2>1, <2>3 DEF CarriesInv, OneChannelInv
<2>5. \A x \in Backups \ {b} : copy'[x] = copy[x]
  BY <2>1
<2>6. \A k \in Keys \ {r.key} : copy'[b][k] = copy[b][k]
  BY <2>1 DEF Apply, Changes
<2>7. copy'[b][r.key] = r.val
  BY <2>1 DEF Apply, Changes
<2>8. \A x \in Trusted' \ {b} : links[x] # c
  BY <2>1, <2>3
<2> SUFFICES ASSUME NEW x \in Trusted'
             PROVE  /\ writeMutex \notin Writers => \A k \in Keys : InSync(x, k)'
                    /\ \A w \in Writers : writeMutex = w =>
                          /\ \A k \in Keys \ {op[w].key} : InSync(x, k)'
                          /\ \/ links[x] \in todo[w]
                             \/ cur[w] = links[x] /\ st'[links[x]] # "ok"
                             \/ x \in failed[w]
                             \/ copy'[x][op[w].key] = store[op[w].key]
                             \/ op[w].key \in Users /\ store[op[w].key] = Absent
  BY <2>1
<2>9. CASE x # b
  <3>1. copy'[x] = copy[x] /\ x \in Trusted /\ st'[links[x]] = st[links[x]]
    BY <2>1, <2>3, <2>5, <2>8, <2>9
  <3> QED BY <2>1, <3>1
<2>10. CASE x = b
  <3>1. PICK w \in Writers : writeMutex = w /\ r = op[w]
    BY <2>4, <2>10
  <3>2. x \in Trusted
    BY <2>3
  <3>3. ASSUME NEW k \in Keys, k # r.key PROVE InSync(x, k)'
    <4>1. InSync(x, k)
      BY <3>1, <3>2, <3>3
    <4>2. copy'[x][k] = copy[x][k]
      BY <2>6, <2>10, <3>3
    <4> QED BY <2>1, <4>1, <4>2
  <3>4. copy'[x][r.key] = store[r.key]
    BY <2>1, <2>7, <2>10, <3>1
  <3> QED BY <3>1, <3>3, <3>4
<2> QED BY <2>9, <2>10
<1>25. ASSUME NEW c \in Conns, BackupRefuse(c) PROVE SyncInv'
  BY <1>25 DEF BackupRefuse
<1>26. ASSUME NEW c \in Conns, BackupStoreFails(c) PROVE SyncInv'
  BY <1>26 DEF BackupStoreFails
<1>27. ASSUME NEW c \in Conns, HandlerEnds(c) PROVE SyncInv'
  BY <1>27 DEF HandlerEnds, LeaveLoop
<1>28. ASSUME NEW c \in Conns, IdleTimeout(c) PROVE SyncInv'
  BY <1>28 DEF IdleTimeout, LeaveLoop
<1>29. ASSUME NEW c \in Conns, ConnectionBreaks(c) PROVE SyncInv'
  BY <1>29 DEF ConnectionBreaks
<1>30. ASSUME NEW b \in Backups, Crash(b) PROVE SyncInv'
  BY <1>30 DEF Crash
<1>31. ASSUME NEW b \in Backups, Restart(b) PROVE SyncInv'
  BY <1>31 DEF Restart
<1>32. CASE UNCHANGED vars
  BY <1>32 DEF vars, Linked, LinkConns, Trusted, InSync
<1>33. ASSUME NEW w \in Writers, NEW f \in Files, NEW v \in Values \cup {Absent},
             Upload(w, f, v) \/ Delete(w, f)
      PROVE  SyncInv'
  <2>1. [key |-> f, val |-> v] \in Changes /\ [key |-> f, val |-> Absent] \in Changes
    BY DEF Changes, Keys
  <2> QED BY <1>33, <2>1, <1>1 DEF Upload, Delete
<1>34. ASSUME NEW w \in Writers, NEW u \in Users, NEW v \in Values, CreateAccount(w, u, v)
      PROVE  SyncInv'
  <2>1. [key |-> u, val |-> v] \in Changes
    BY DEF Changes, Keys
  <2> QED BY <1>34, <2>1, <1>1 DEF CreateAccount
<1> QED BY <1>2, <1>3, <1>4, <1>5, <1>6, <1>7, <1>8, <1>9, <1>10, <1>11, <1>12, <1>13,
   <1>14, <1>15, <1>16, <1>17, <1>18, <1>19, <1>20, <1>21, <1>22, <1>23, <1>24, <1>25,
   <1>26, <1>27, <1>28, <1>29, <1>30, <1>31, <1>32, <1>33, <1>34 DEF Next, Calm, Fault,
   WriterStep, MonitorStep, AttachStep, BackupStep

\* Every action keeps what attach_replica has finished with in sync.
LEMMA AttachInvStep ==
  TypeOK /\ LockInv /\ PeerInv /\ CarriesInv /\ AttachInv /\ OneChannelInv /\ SyncInv /\ [Next]_vars => AttachInv'
<1> SUFFICES ASSUME TypeOK, LockInv, PeerInv, CarriesInv, AttachInv, OneChannelInv, SyncInv, [Next]_vars PROVE AttachInv'
  OBVIOUS
<1> USE ConstantsAssumption DEF TypeOK, LockInv, PeerInv, AttachInv, Trusted, Linked,
   LinkConns, InSync, Stores, ConnStates, primaryVars, writerVars, backupVars, connVars
<1>1. ASSUME NEW w \in Writers, NEW ch \in Changes, Commit(w, ch) PROVE AttachInv'
  BY <1>1 DEF Commit, Apply, LinkConns
<1>2. ASSUME NEW w \in Writers, NEW c \in Conns, Send(w, c) PROVE AttachInv'
  BY <1>2 DEF Send
<1>3. ASSUME NEW w \in Writers, NEW c \in Conns, SendFails(w, c) PROVE AttachInv'
  BY <1>3 DEF SendFails
<1>4. ASSUME NEW w \in Writers, NEW c \in Conns, LateReply(w, c) PROVE AttachInv'
  BY <1>4 DEF LateReply
<1>5. ASSUME NEW w \in Writers, NEW c \in Conns, SkipPut(w, c) PROVE AttachInv'
  BY <1>5 DEF SkipPut
<1>6. ASSUME NEW w \in Writers, ReplyOk(w) PROVE AttachInv'
  BY <1>6 DEF ReplyOk
<1>7. ASSUME NEW w \in Writers, ReplyFails(w) PROVE AttachInv'
  BY <1>7 DEF ReplyFails
<1>8. ASSUME NEW w \in Writers, ReplyTimeout(w) PROVE AttachInv'
  BY <1>8 DEF ReplyTimeout
<1>9. ASSUME NEW w \in Writers, NEW b \in Backups, NEW more \in SUBSET Backups,
   DropLink(w, b, more) PROVE AttachInv'
  BY <1>9 DEF DropLink, Unlink, BroadcastFails
<1>10. ASSUME NEW w \in Writers, Acknowledge(w) PROVE AttachInv'
  BY <1>10 DEF Acknowledge
<1>11. ASSUME NEW b \in Backups, ProbeFails(b) PROVE AttachInv'
  BY <1>11 DEF ProbeFails
<1>12. ASSUME NEW b \in Backups, ProbeTimeout(b) PROVE AttachInv'
  BY <1>12 DEF ProbeTimeout
<1>13. ASSUME NEW b \in Backups, NEW more \in SUBSET Backups, DropSuspect(b, more)
   PROVE AttachInv'
  BY <1>13 DEF DropSuspect, Unlink, BroadcastFails
<1>14. ASSUME NEW b \in Backups, NEW c \in Conns, Attach(b, c) PROVE AttachInv'
  BY <1>14 DEF Attach, AttachIdle, Unused
<1>15. ASSUME NEW c \in Conns, Manifest(c) PROVE AttachInv'
<2>1. /\ att.phase = "attach" /\ att.b \in Backups /\ writeMutex = Attacher
      /\ att' = [att EXCEPT !.phase = "sync", !.puts = MissingOn(att.b), !.dels = SurplusOn(att.b)]
      /\ st' = [st EXCEPT ![att.c] = "idle"]
      /\ UNCHANGED <<primaryVars, backupVars, late, stained>>
  BY <1>15 DEF Manifest
<2>2. att.key = Absent /\ st'[att.c] = "idle" /\ att.c \in Conns
  BY <2>1 DEF CarriesInv
<2>3. \A k \in Keys : k \notin MissingOn(att.b) \cup SurplusOn(att.b) => InSync(att.b, k)
  BY <2>1 DEF MissingOn, SurplusOn, Keys
<2>4. (\A k \in Keys : InSync(att.b, k)) => MissingOn(att.b) = {} /\ SurplusOn(att.b) = {}
  BY <2>1 DEF MissingOn, SurplusOn, Keys
<2>5. att.b \in Trusted => \A k \in Keys : InSync(att.b, k)
  BY <2>1 DEF SyncInv
<2>6. /\ att'.b = att.b /\ att'.key = Absent /\ att'.c = att.c
      /\ att'.puts = MissingOn(att.b) /\ att'.dels = SurplusOn(att.b)
  BY <2>1, <2>2
<2>7. \A k \in Keys : k \notin att'.puts \cup att'.dels => InSync(att.b, k)'
  BY <2>1, <2>3, <2>6
<2>8. att'.b \in Trusted' => att'.puts = {} /\ att'.dels = {}
  BY <2>1, <2>4, <2>5, <2>6
<2> QED BY <2>2, <2>6, <2>7, <2>8
<1>16. ASSUME NEW k \in Keys, AttachSend(k) PROVE AttachInv'
  BY <1>16 DEF AttachSend, NextToSync
<1>17. ASSUME NEW k \in Keys, AttachSkip(k) PROVE AttachInv'
  BY <1>17 DEF AttachSkip, NextToSync
<1>18. CASE AttachReplyOk
  BY <1>18 DEF AttachReplyOk
<1>19. CASE AttachFails
  BY <1>19 DEF AttachFails, GiveUpAttach, AttachIdle
<1>20. CASE AttachTimeout
  BY <1>20 DEF AttachTimeout, GiveUpAttach, AttachIdle
<1>21. CASE AttachDone
  BY <1>21 DEF AttachDone, AttachIdle
<1>22. ASSUME NEW c \in Conns, BackupAttach(c) PROVE AttachInv'
  BY <1>22 DEF BackupAttach
<1>23. ASSUME NEW c \in Conns, BackupReceive(c) PROVE AttachInv'
  BY <1>23 DEF BackupReceive
<1>24. ASSUME NEW c \in Conns, BackupApply(c) PROVE AttachInv'
<2> DEFINE b == peer[c]
           r == req[c]
<2>1. /\ b \in Backups /\ st[c] = "applying" /\ r \in Changes
      /\ copy' = [copy EXCEPT ![b] = Apply(copy[b], r)]
      /\ st' = [st EXCEPT ![c] = "ok"]
      /\ UNCHANGED <<store, links, primaryLink, late>>
  BY <1>24 DEF BackupApply, CarriesInv
<2>2. IF primaryLink[b] = c THEN stained' = stained /\ att' = att
      ELSE /\ stained' = stained \cup {b}
           /\ att' = IF att.b = b THEN [att EXCEPT !.dirty = TRUE] ELSE att
  BY <1>24 DEF BackupApply
<2>3. Trusted' \subseteq Trusted
  BY <2>1, <2>2
<2>4. /\ att'.phase = att.phase /\ att'.b = att.b /\ att'.c = att.c /\ att'.key = att.key
      /\ att'.puts = att.puts /\ att'.dels = att.dels
  BY <2>2
<2>5. att'.phase = "sync" /\ att'.b \in Trusted' =>
         att'.puts = {} /\ att'.dels = {} /\ att'.key = Absent
  BY <2>3, <2>4
<2>6. ASSUME att.phase = "sync", ~att'.dirty, NEW k \in Keys,
             k \notin att.puts \cup att.dels \/ (k = att.key /\ st'[att.c] = "ok")
      PROVE  InSync(att.b, k)'
  <3>1. ~att.dirty /\ (att.b = b => primaryLink[b] = c)
    BY <2>2, <2>6
  <3>2. CASE att.b # b
    <4>1. copy'[att.b] = copy[att.b] /\ st'[att.c] = st[att.c]
      BY <2>1, <2>6, <3>2
    <4>2. InSync(att.b, k)
      BY <2>6, <3>1, <4>1
    <4> QED BY <2>1, <2>4, <4>1, <4>2
  <3>3. CASE att.b = b
    <4>1. c = att.c
      BY <2>1, <2>6, <3>1, <3>3 DEF OneChannelInv
    <4>2. r = [key |-> att.key, val |-> store[att.key]]
      BY <2>1, <2>6, <4>1 DEF CarriesInv
    <4>3. /\ copy'[b][att.key] = store[att.key]
          /\ k # att.key => copy'[b][k] = copy[b][k]
      BY <2>1, <4>2 DEF Apply, Changes
    <4>4. k # att.key => InSync(b, k)
      BY <2>6, <3>1, <3>3
    <4> QED BY <2>1, <2>4, <3>3, <4>3, <4>4
  <3> QED BY <3>2, <3>3
<2>7. att.phase = "sync" /\ att.key # Absent => att.key \in Keys
  BY DEF CarriesInv
<2> QED BY <2>4, <2>5, <2>6, <2>7
<1>25. ASSUME NEW c \in Conns, BackupRefuse(c) PROVE AttachInv'
  BY <1>25 DEF BackupRefuse
<1>26. ASSUME NEW c \in Conns, BackupStoreFails(c) PROVE AttachInv'
  BY <1>26 DEF BackupStoreFails
<1>27. ASSUME NEW c \in Conns, HandlerEnds(c) PROVE AttachInv'
  BY <1>27 DEF HandlerEnds, LeaveLoop
<1>28. ASSUME NEW c \in Conns, IdleTimeout(c) PROVE AttachInv'
  BY <1>28 DEF IdleTimeout, LeaveLoop
<1>29. ASSUME NEW c \in Conns, ConnectionBreaks(c) PROVE AttachInv'
  BY <1>29 DEF ConnectionBreaks
<1>30. ASSUME NEW b \in Backups, Crash(b) PROVE AttachInv'
  BY <1>30 DEF Crash
<1>31. ASSUME NEW b \in Backups, Restart(b) PROVE AttachInv'
  BY <1>31 DEF Restart
<1>32. CASE UNCHANGED vars
  BY <1>32 DEF vars, Linked, LinkConns, Trusted, InSync
<1>33. ASSUME NEW w \in Writers, NEW f \in Files, NEW v \in Values \cup {Absent},
             Upload(w, f, v) \/ Delete(w, f)
      PROVE  AttachInv'
  <2>1. [key |-> f, val |-> v] \in Changes /\ [key |-> f, val |-> Absent] \in Changes
    BY DEF Changes, Keys
  <2> QED BY <1>33, <2>1, <1>1 DEF Upload, Delete
<1>34. ASSUME NEW w \in Writers, NEW u \in Users, NEW v \in Values, CreateAccount(w, u, v)
      PROVE  AttachInv'
  <2>1. [key |-> u, val |-> v] \in Changes
    BY DEF Changes, Keys
  <2> QED BY <1>34, <2>1, <1>1 DEF CreateAccount
<1> QED BY <1>2, <1>3, <1>4, <1>5, <1>6, <1>7, <1>8, <1>9, <1>10, <1>11, <1>12, <1>13,
   <1>14, <1>15, <1>16, <1>17, <1>18, <1>19, <1>20, <1>21, <1>22, <1>23, <1>24, <1>25,
   <1>26, <1>27, <1>28, <1>29, <1>30, <1>31, <1>32, <1>33, <1>34 DEF Next, Calm, Fault,
   WriterStep, MonitorStep, AttachStep, BackupStep

\* Every action keeps links with an overdue reply on a list of links to drop.
LEMMA OverdueStep ==
  TypeOK /\ PeerInv /\ OverdueIsSuspect /\ [Next]_vars => OverdueIsSuspect'
<1> SUFFICES ASSUME TypeOK, PeerInv, OverdueIsSuspect, [Next]_vars PROVE OverdueIsSuspect'
  OBVIOUS
<1> USE ConstantsAssumption DEF TypeOK, PeerInv, OverdueIsSuspect, Linked, LinkConns,
   primaryVars, writerVars, backupVars, connVars
<1>1. ASSUME NEW w \in Writers, NEW ch \in Changes, Commit(w, ch) PROVE
   OverdueIsSuspect'
  BY <1>1 DEF Commit, Apply, LinkConns
<1>2. ASSUME NEW w \in Writers, NEW c \in Conns, Send(w, c) PROVE OverdueIsSuspect'
  BY <1>2 DEF Send
<1>3. ASSUME NEW w \in Writers, NEW c \in Conns, SendFails(w, c) PROVE
   OverdueIsSuspect'
  BY <1>3 DEF SendFails
<1>4. ASSUME NEW w \in Writers, NEW c \in Conns, LateReply(w, c) PROVE
   OverdueIsSuspect'
  BY <1>4 DEF LateReply
<1>5. ASSUME NEW w \in Writers, NEW c \in Conns, SkipPut(w, c) PROVE OverdueIsSuspect'
  BY <1>5 DEF SkipPut
<1>6. ASSUME NEW w \in Writers, ReplyOk(w) PROVE OverdueIsSuspect'
  BY <1>6 DEF ReplyOk
<1>7. ASSUME NEW w \in Writers, ReplyFails(w) PROVE OverdueIsSuspect'
  BY <1>7 DEF ReplyFails
<1>8. ASSUME NEW w \in Writers, ReplyTimeout(w) PROVE OverdueIsSuspect'
  BY <1>8 DEF ReplyTimeout
<1>9. ASSUME NEW w \in Writers, NEW b \in Backups, NEW more \in SUBSET Backups,
   DropLink(w, b, more) PROVE OverdueIsSuspect'
  BY <1>9 DEF DropLink, Unlink, BroadcastFails
<1>10. ASSUME NEW w \in Writers, Acknowledge(w) PROVE OverdueIsSuspect'
  BY <1>10 DEF Acknowledge
<1>11. ASSUME NEW b \in Backups, ProbeFails(b) PROVE OverdueIsSuspect'
  BY <1>11 DEF ProbeFails
<1>12. ASSUME NEW b \in Backups, ProbeTimeout(b) PROVE OverdueIsSuspect'
  BY <1>12 DEF ProbeTimeout
<1>13. ASSUME NEW b \in Backups, NEW more \in SUBSET Backups, DropSuspect(b, more)
   PROVE OverdueIsSuspect'
  BY <1>13 DEF DropSuspect, Unlink, BroadcastFails
<1>14. ASSUME NEW b \in Backups, NEW c \in Conns, Attach(b, c) PROVE OverdueIsSuspect'
  BY <1>14 DEF Attach, AttachIdle, Unused
<1>15. ASSUME NEW c \in Conns, Manifest(c) PROVE OverdueIsSuspect'
  BY <1>15 DEF Manifest, MissingOn, SurplusOn
<1>16. ASSUME NEW k \in Keys, AttachSend(k) PROVE OverdueIsSuspect'
  BY <1>16 DEF AttachSend, NextToSync
<1>17. ASSUME NEW k \in Keys, AttachSkip(k) PROVE OverdueIsSuspect'
  BY <1>17 DEF AttachSkip, NextToSync
<1>18. CASE AttachReplyOk
  BY <1>18 DEF AttachReplyOk
<1>19. CASE AttachFails
  BY <1>19 DEF AttachFails, GiveUpAttach, AttachIdle
<1>20. CASE AttachTimeout
  BY <1>20 DEF AttachTimeout, GiveUpAttach, AttachIdle
<1>21. CASE AttachDone
  BY <1>21 DEF AttachDone, AttachIdle
<1>22. ASSUME NEW c \in Conns, BackupAttach(c) PROVE OverdueIsSuspect'
  BY <1>22 DEF BackupAttach
<1>23. ASSUME NEW c \in Conns, BackupReceive(c) PROVE OverdueIsSuspect'
  BY <1>23 DEF BackupReceive
<1>24. ASSUME NEW c \in Conns, BackupApply(c) PROVE OverdueIsSuspect'
  BY <1>24 DEF BackupApply, Apply
<1>25. ASSUME NEW c \in Conns, BackupRefuse(c) PROVE OverdueIsSuspect'
  BY <1>25 DEF BackupRefuse
<1>26. ASSUME NEW c \in Conns, BackupStoreFails(c) PROVE OverdueIsSuspect'
  BY <1>26 DEF BackupStoreFails
<1>27. ASSUME NEW c \in Conns, HandlerEnds(c) PROVE OverdueIsSuspect'
  BY <1>27 DEF HandlerEnds, LeaveLoop
<1>28. ASSUME NEW c \in Conns, IdleTimeout(c) PROVE OverdueIsSuspect'
  BY <1>28 DEF IdleTimeout, LeaveLoop
<1>29. ASSUME NEW c \in Conns, ConnectionBreaks(c) PROVE OverdueIsSuspect'
  BY <1>29 DEF ConnectionBreaks
<1>30. ASSUME NEW b \in Backups, Crash(b) PROVE OverdueIsSuspect'
  BY <1>30 DEF Crash
<1>31. ASSUME NEW b \in Backups, Restart(b) PROVE OverdueIsSuspect'
  BY <1>31 DEF Restart
<1>32. CASE UNCHANGED vars
  BY <1>32 DEF vars, Linked, LinkConns, Trusted, InSync
<1>33. ASSUME NEW w \in Writers, NEW f \in Files, NEW v \in Values \cup {Absent},
             Upload(w, f, v) \/ Delete(w, f)
      PROVE  OverdueIsSuspect'
  <2>1. [key |-> f, val |-> v] \in Changes /\ [key |-> f, val |-> Absent] \in Changes
    BY DEF Changes, Keys
  <2> QED BY <1>33, <2>1, <1>1 DEF Upload, Delete
<1>34. ASSUME NEW w \in Writers, NEW u \in Users, NEW v \in Values, CreateAccount(w, u, v)
      PROVE  OverdueIsSuspect'
  <2>1. [key |-> u, val |-> v] \in Changes
    BY DEF Changes, Keys
  <2> QED BY <1>34, <2>1, <1>1 DEF CreateAccount
<1> QED BY <1>2, <1>3, <1>4, <1>5, <1>6, <1>7, <1>8, <1>9, <1>10, <1>11, <1>12, <1>13,
   <1>14, <1>15, <1>16, <1>17, <1>18, <1>19, <1>20, <1>21, <1>22, <1>23, <1>24, <1>25,
   <1>26, <1>27, <1>28, <1>29, <1>30, <1>31, <1>32, <1>33, <1>34 DEF Next, Calm, Fault,
   WriterStep, MonitorStep, AttachStep, BackupStep

-----------------------------------------------------------------------------
\* The inductive invariant holds of every execution: of any number of backups,
\* handlers, connections, files, accounts and versions.
THEOREM Invariance == Spec => []Inv
<1>1. Inv /\ [Next]_vars => Inv'
  BY TypeStep, LockStep, PeerStep, CarriesStep, OneChannelStep, SyncStep, AttachInvStep,
     OverdueStep DEF Inv
<1> QED BY InitInv, <1>1, PTL DEF Spec

\* Every variable keeps the type of the object it models.
THEOREM TypeCorrect == Spec => []TypeOK
<1>1. Inv => TypeOK
  BY DEF Inv
<1> QED BY Invariance, <1>1, PTL

\* Between changes, a backup that has a replica link, and on which no change
\* was skipped or applied out of turn, holds what the primary holds
\* (replicate_put, replicate_delete, replicate_account, attach_replica).
THEOREM LinkedBackupsInSync == Spec => []LinkedInSync
<1>1. Inv => LinkedInSync
  BY ConstantsAssumption DEF Inv, SyncInv, LinkedInSync
<1> QED BY Invariance, <1>1, PTL

\* While a handler replicates a change, the linked backups lack nothing but
\* that change: backups see the changes in the primary's order.
THEOREM ChangesInOrder == Spec => []OneChangeAtATime
<1>1. Inv => OneChangeAtATime
  BY DEF Inv, SyncInv, OneChangeAtATime
<1> QED BY Invariance, <1>1, PTL

\* A link whose last probe timed out is on a list of links to drop.
THEOREM OverdueLinksAreDropped == Spec => []OverdueIsSuspect
<1>1. Inv => OverdueIsSuspect
  BY DEF Inv
<1> QED BY Invariance, <1>1, PTL

-----------------------------------------------------------------------------
(* The primary and its backups implement a replica group.                   *)

\* A step that leaves the disks and the turn alone, and by which backups can
\* only lose their place among the trusted ones.
Quiet ==
    /\ UNCHANGED <<store, copy>> /\ Turn' = Turn
    /\ Trusted' \subseteq Trusted

\* Such a step is one that leaves the group.
LEMMA QuietLeaves == Quiet => [Group!GroupNext]_(Group!groupVars)
BY DEF Quiet, Group!GroupNext, Group!Leave

\* A handler starts a change.
LEMMA CommitChanges ==
  ASSUME TypeOK, LockInv, NEW w \in Writers, NEW ch \in Changes, Commit(w, ch)
  PROVE  Group!GroupNext
<1> USE ConstantsAssumption
<1>1. /\ writeMutex = Free /\ writeMutex' = w
      /\ store' = [store EXCEPT ![ch.key] = ch.val]
      /\ UNCHANGED <<copy, links, late, stained>>
  BY DEF Commit, Apply, connVars, backupVars
<1>2. Turn = Free /\ Turn' = w
  BY <1>1 DEF Turn
<1>3. Trusted' = Trusted
  BY <1>1 DEF Trusted, Linked
<1>4. ch.key \in Keys /\ ch.val \in Values \cup {Absent}
  BY DEF Changes
<1>5. Group!Change(w)
  BY <1>1, <1>2, <1>3, <1>4 DEF Group!Change
<1> QED BY <1>5 DEF Group!GroupNext

\* A handler answers its client: every trusted backup has the change.
LEMMA AcknowledgeFinishes ==
  ASSUME TypeOK, LockInv, SyncInv, NEW w \in Writers, Acknowledge(w)
  PROVE  Group!GroupNext
<1> USE ConstantsAssumption
<1>1. /\ pc[w] = "replicate" /\ cur[w] = NoConn /\ todo[w] = {} /\ failed[w] = {}
      /\ writeMutex' = Free /\ UNCHANGED <<store, copy, links, late, stained>>
  BY DEF Acknowledge, connVars, backupVars
<1>2. writeMutex = w
  BY <1>1 DEF LockInv
<1>3. Turn = w /\ Turn' = Free
  BY <1>1, <1>2 DEF Turn
<1>4. Trusted' = Trusted
  BY <1>1 DEF Trusted, Linked
<1>5. ASSUME NEW b \in Trusted, NEW k \in Keys PROVE InSync(b, k)
  <2>1. links[b] # NoConn
    BY DEF Trusted, Linked
  <2>2. InSync(b, op[w].key)
    BY <1>1, <1>2, <2>1 DEF SyncInv
  <2>3. CASE k = op[w].key
    BY <2>2, <2>3
  <2>4. CASE k # op[w].key
    BY <1>2, <2>4 DEF SyncInv
  <2> QED BY <2>3, <2>4
<1>6. Group!Finish
  BY <1>1, <1>3, <1>4, <1>5 DEF Group!Finish, Group!Holds, InSync
<1> QED BY <1>6 DEF Group!GroupNext

\* attach_replica puts its link into use: the backup lacks nothing.
LEMMA AttachDoneEnters ==
  ASSUME TypeOK, LockInv, PeerInv, AttachInv, SyncInv, AttachDone
  PROVE  Group!GroupNext
<1> USE ConstantsAssumption
<1>1. /\ att.phase = "sync" /\ att.key = Absent /\ att.puts = {} /\ att.dels = {}
      /\ links' = [links EXCEPT ![att.b] = att.c]
      /\ stained' = IF att.dirty THEN stained \cup {att.b} ELSE stained \ {att.b}
      /\ writeMutex' = Free /\ UNCHANGED <<store, copy, late>>
  BY DEF AttachDone, backupVars
<1>2. writeMutex = Attacher /\ att.b \in Backups /\ att.c \in Conns
  BY <1>1 DEF LockInv
<1>3. Turn = Free /\ Turn' = Free
  BY <1>1, <1>2 DEF Turn
<1>4. \A x \in Backups : x # att.b => (x \in Trusted' <=> x \in Trusted)
  BY <1>1, <1>2 DEF Trusted, Linked, TypeOK
<1>5. Trusted \subseteq Backups /\ Trusted' \subseteq Backups
  BY DEF Trusted, Linked
<1>6. CASE att.b \in Trusted'
  <2>1. Trusted' = Trusted \cup {att.b}
    BY <1>4, <1>5, <1>6
  <2>2. ~att.dirty
    BY <1>1, <1>2, <1>6 DEF Trusted
  <2>3. \A k \in Keys : InSync(att.b, k)
    BY <1>1, <2>2 DEF AttachInv
  <2>4. Group!Enter(att.b)
    BY <1>1, <1>3, <2>1, <2>3 DEF Group!Enter, Group!Holds, InSync
  <2> QED BY <1>2, <2>4 DEF Group!GroupNext
<1>7. CASE att.b \notin Trusted'
  <2>1. Trusted' \subseteq Trusted
    BY <1>4, <1>5, <1>7
  <2>2. Group!Leave
    BY <1>1, <1>3, <2>1 DEF Group!Leave
  <2> QED BY <2>2 DEF Group!GroupNext
<1> QED BY <1>6, <1>7

\* A backup applies a change: a trusted one, the change in hand.
LEMMA BackupApplyWrites ==
  ASSUME TypeOK, LockInv, PeerInv, CarriesInv, OneChannelInv, NEW c \in Conns, BackupApply(c)
  PROVE  Group!GroupNext
<1> USE ConstantsAssumption
<1> DEFINE b == peer[c]
           r == req[c]
<1>1. /\ b \in Backups /\ st[c] = "applying" /\ r \in Changes
      /\ copy' = [copy EXCEPT ![b] = Apply(copy[b], r)]
      /\ UNCHANGED <<store, writeMutex, links, primaryLink, late>>
  BY DEF BackupApply, CarriesInv, PeerInv, primaryVars
<1>2. IF primaryLink[b] = c THEN stained' = stained ELSE stained' = stained \cup {b}
  BY DEF BackupApply
<1>3. Turn' = Turn
  BY <1>1 DEF Turn
<1>4. Apply(copy[b], r) \in Stores
  BY <1>1 DEF Apply, TypeOK, Stores, Changes
<1>5. copy'[b] = Apply(copy[b], r) /\ copy' = [copy EXCEPT ![b] = copy'[b]]
  BY <1>1 DEF TypeOK
<1>6. /\ copy'[b] \in Group!Copies
      /\ r.key \in Keys /\ copy'[b][r.key] = r.val
      /\ \A k \in Keys : k # r.key => copy'[b][k] = copy[b][k]
  BY <1>1, <1>4, <1>5 DEF Group!Copies, Stores, Apply, TypeOK, Changes
<1>7. CASE primaryLink[b] # c
  <2>1. Trusted' = Trusted \ {b}
    BY <1>1, <1>2, <1>7 DEF Trusted, Linked
  <2>2. Group!Write(b)
    BY <1>1, <1>3, <1>5, <1>6, <2>1 DEF Group!Write
  <2> QED BY <1>1, <2>2 DEF Group!GroupNext
<1>8. CASE primaryLink[b] = c
  <2>1. Trusted' = Trusted
    BY <1>1, <1>2, <1>8 DEF Trusted, Linked
  <2>2. ASSUME b \in Trusted
        PROVE  Turn # Free /\ \A k \in Keys : copy'[b][k] \in {copy[b][k], store[k]}
    <3>1. links[b] = c /\ b \in Linked /\ ~late[c]
      BY <1>1, <1>8, <2>2 DEF OneChannelInv, Trusted
    <3>2. PICK w \in Writers : writeMutex = w /\ r = op[w]
      BY <1>1, <3>1 DEF CarriesInv
    <3>3. Turn = w /\ store[r.key] = r.val
      BY <3>2 DEF Turn, LockInv
    <3> QED BY <1>6, <3>2, <3>3
  <2>3. Group!Write(b)
    BY <1>1, <1>3, <1>5, <1>6, <2>1, <2>2 DEF Group!Write
  <2> QED BY <1>1, <2>3 DEF Group!GroupNext
<1> QED BY <1>7, <1>8

\* Every step of the primary, of a backup or of a fault is one of the group,
\* or none at all.
LEMMA GroupStep == Inv /\ [Next]_vars => [Group!GroupNext]_(Group!groupVars)
<1> SUFFICES ASSUME Inv, [Next]_vars PROVE [Group!GroupNext]_(Group!groupVars)
  OBVIOUS
<1>0. TypeOK /\ LockInv /\ PeerInv /\ CarriesInv /\ OneChannelInv /\ SyncInv /\ AttachInv
  BY DEF Inv
<1> DEFINE Goal == [Group!GroupNext]_(Group!groupVars)
<1>1. ASSUME NEW w \in Writers, NEW ch \in Changes, Commit(w, ch) PROVE Goal
  BY <1>0, <1>1, CommitChanges
<1>2. ASSUME NEW w \in Writers, NEW c \in Conns, Send(w, c) PROVE Quiet
  BY <1>0, <1>2, ConstantsAssumption DEF Send, Quiet, Turn, Trusted, Linked,
     TypeOK, LockInv, PeerInv, primaryVars, writerVars, backupVars, connVars
<1>3. ASSUME NEW w \in Writers, NEW c \in Conns, SendFails(w, c) PROVE Quiet
  BY <1>0, <1>3, ConstantsAssumption DEF SendFails, Quiet, Turn, Trusted, Linked,
     TypeOK, LockInv, PeerInv, primaryVars, writerVars, backupVars, connVars
<1>4. ASSUME NEW w \in Writers, NEW c \in Conns, LateReply(w, c) PROVE Quiet
  BY <1>0, <1>4, ConstantsAssumption DEF LateReply, Quiet, Turn, Trusted, Linked,
     TypeOK, LockInv, PeerInv, primaryVars, writerVars, backupVars, connVars
<1>5. ASSUME NEW w \in Writers, NEW c \in Conns, SkipPut(w, c) PROVE Quiet
  BY <1>0, <1>5, ConstantsAssumption DEF SkipPut, Quiet, Turn, Trusted, Linked,
     TypeOK, LockInv, PeerInv, primaryVars, writerVars, backupVars, connVars
<1>6. ASSUME NEW w \in Writers, ReplyOk(w) PROVE Quiet
  BY <1>0, <1>6, ConstantsAssumption DEF ReplyOk, Quiet, Turn, Trusted, Linked,
     TypeOK, LockInv, PeerInv, primaryVars, writerVars, backupVars, connVars
<1>7. ASSUME NEW w \in Writers, ReplyFails(w) PROVE Quiet
  BY <1>0, <1>7, ConstantsAssumption DEF ReplyFails, Quiet, Turn, Trusted, Linked,
     TypeOK, LockInv, PeerInv, primaryVars, writerVars, backupVars, connVars
<1>8. ASSUME NEW w \in Writers, ReplyTimeout(w) PROVE Quiet
  BY <1>0, <1>8, ConstantsAssumption DEF ReplyTimeout, Quiet, Turn, Trusted, Linked,
     TypeOK, LockInv, PeerInv, primaryVars, writerVars, backupVars, connVars
<1>9. ASSUME NEW w \in Writers, NEW b \in Backups, NEW more \in SUBSET Backups,
   DropLink(w, b, more) PROVE Quiet
  BY <1>0, <1>9, ConstantsAssumption DEF DropLink, Unlink, Quiet, Turn, Trusted, Linked,
     TypeOK, LockInv, PeerInv, primaryVars, writerVars, backupVars, connVars
<1>10. ASSUME NEW w \in Writers, Acknowledge(w) PROVE Goal
  BY <1>0, <1>10, AcknowledgeFinishes
<1>11. ASSUME NEW b \in Backups, ProbeFails(b) PROVE Quiet
  BY <1>0, <1>11, ConstantsAssumption DEF ProbeFails, Quiet, Turn, Trusted, Linked,
     TypeOK, LockInv, PeerInv, primaryVars, writerVars, backupVars, connVars
<1>12. ASSUME NEW b \in Backups, ProbeTimeout(b) PROVE Quiet
  BY <1>0, <1>12, ConstantsAssumption DEF ProbeTimeout, Quiet, Turn, Trusted, Linked,
     TypeOK, LockInv, PeerInv, primaryVars, writerVars, backupVars, connVars
<1>13. ASSUME NEW b \in Backups, NEW more \in SUBSET Backups, DropSuspect(b, more) PROVE Quiet
  BY <1>0, <1>13, ConstantsAssumption DEF DropSuspect, Unlink, Quiet, Turn, Trusted, Linked,
     TypeOK, LockInv, PeerInv, primaryVars, writerVars, backupVars, connVars
<1>14. ASSUME NEW b \in Backups, NEW c \in Conns, Attach(b, c) PROVE Quiet
  BY <1>0, <1>14, ConstantsAssumption DEF Attach, Unused, Quiet, Turn, Trusted, Linked,
     TypeOK, LockInv, PeerInv, primaryVars, writerVars, backupVars, connVars
<1>15. ASSUME NEW c \in Conns, Manifest(c) PROVE Quiet
  BY <1>0, <1>15, ConstantsAssumption DEF Manifest, Quiet, Turn, Trusted, Linked,
     TypeOK, LockInv, PeerInv, primaryVars, writerVars, backupVars, connVars
<1>16. ASSUME NEW k \in Keys, AttachSend(k) PROVE Quiet
  BY <1>0, <1>16, ConstantsAssumption DEF AttachSend, Quiet, Turn, Trusted, Linked,
     TypeOK, LockInv, PeerInv, primaryVars, writerVars, backupVars, connVars
<1>17. ASSUME NEW k \in Keys, AttachSkip(k) PROVE Quiet
  BY <1>0, <1>17, ConstantsAssumption DEF AttachSkip, Quiet, Turn, Trusted, Linked,
     TypeOK, LockInv, PeerInv, primaryVars, writerVars, backupVars, connVars
<1>18. ASSUME AttachReplyOk PROVE Quiet
  BY <1>0, <1>18, ConstantsAssumption DEF AttachReplyOk, Quiet, Turn, Trusted, Linked,
     TypeOK, LockInv, PeerInv, primaryVars, writerVars, backupVars, connVars
<1>19. ASSUME AttachFails PROVE Quiet
  BY <1>0, <1>19, ConstantsAssumption DEF AttachFails, GiveUpAttach, Quiet, Turn, Trusted, Linked,
     TypeOK, LockInv, PeerInv, primaryVars, writerVars, backupVars, connVars
<1>20. ASSUME AttachTimeout PROVE Quiet
  BY <1>0, <1>20, ConstantsAssumption DEF AttachTimeout, GiveUpAttach, Quiet, Turn, Trusted, Linked,
     TypeOK, LockInv, PeerInv, primaryVars, writerVars, backupVars, connVars
<1>21. ASSUME AttachDone PROVE Goal
  BY <1>0, <1>21, AttachDoneEnters
<1>22. ASSUME NEW c \in Conns, BackupAttach(c) PROVE Quiet
  BY <1>0, <1>22, ConstantsAssumption DEF BackupAttach, Quiet, Turn, Trusted, Linked,
     TypeOK, LockInv, PeerInv, primaryVars, writerVars, backupVars, connVars
<1>23. ASSUME NEW c \in Conns, BackupReceive(c) PROVE Quiet
  BY <1>0, <1>23, ConstantsAssumption DEF BackupReceive, Quiet, Turn, Trusted, Linked,
     TypeOK, LockInv, PeerInv, primaryVars, writerVars, backupVars, connVars
<1>24. ASSUME NEW c \in Conns, BackupApply(c) PROVE Goal
  BY <1>0, <1>24, BackupApplyWrites
<1>25. ASSUME NEW c \in Conns, BackupRefuse(c) PROVE Quiet
  BY <1>0, <1>25, ConstantsAssumption DEF BackupRefuse, Quiet, Turn, Trusted, Linked,
     TypeOK, LockInv, PeerInv, primaryVars, writerVars, backupVars, connVars
<1>26. ASSUME NEW c \in Conns, BackupStoreFails(c) PROVE Quiet
  BY <1>0, <1>26, ConstantsAssumption DEF BackupStoreFails, Quiet, Turn, Trusted, Linked,
     TypeOK, LockInv, PeerInv, primaryVars, writerVars, backupVars, connVars
<1>27. ASSUME NEW c \in Conns, HandlerEnds(c) PROVE Quiet
  BY <1>0, <1>27, ConstantsAssumption DEF HandlerEnds, LeaveLoop, Quiet, Turn, Trusted, Linked,
     TypeOK, LockInv, PeerInv, primaryVars, writerVars, backupVars, connVars
<1>28. ASSUME NEW c \in Conns, IdleTimeout(c) PROVE Quiet
  BY <1>0, <1>28, ConstantsAssumption DEF IdleTimeout, LeaveLoop, Quiet, Turn, Trusted, Linked,
     TypeOK, LockInv, PeerInv, primaryVars, writerVars, backupVars, connVars
<1>29. ASSUME NEW c \in Conns, ConnectionBreaks(c) PROVE Quiet
  BY <1>0, <1>29, ConstantsAssumption DEF ConnectionBreaks, Quiet, Turn, Trusted, Linked,
     TypeOK, LockInv, PeerInv, primaryVars, writerVars, backupVars, connVars
<1>30. ASSUME NEW b \in Backups, Crash(b) PROVE Quiet
  BY <1>0, <1>30, ConstantsAssumption DEF Crash, Quiet, Turn, Trusted, Linked,
     TypeOK, LockInv, PeerInv, primaryVars, writerVars, backupVars, connVars
<1>31. ASSUME NEW b \in Backups, Restart(b) PROVE Quiet
  BY <1>0, <1>31, ConstantsAssumption DEF Restart, Quiet, Turn, Trusted, Linked,
     TypeOK, LockInv, PeerInv, primaryVars, writerVars, backupVars, connVars
<1>32. ASSUME UNCHANGED vars PROVE Quiet
  BY <1>0, <1>32, ConstantsAssumption DEF vars, Quiet, Turn, Trusted, Linked,
     TypeOK, LockInv, PeerInv, primaryVars, writerVars, backupVars, connVars
<1>33. ASSUME NEW w \in Writers, NEW f \in Files, NEW v \in Values \cup {Absent},
             Upload(w, f, v) \/ Delete(w, f)
      PROVE  Goal
  <2>1. [key |-> f, val |-> v] \in Changes /\ [key |-> f, val |-> Absent] \in Changes
    BY DEF Changes, Keys
  <2> HIDE DEF Goal
  <2> QED BY <1>33, <2>1, <1>1 DEF Upload, Delete
<1>34. ASSUME NEW w \in Writers, NEW u \in Users, NEW v \in Values, CreateAccount(w, u, v)
      PROVE  Goal
  <2>1. [key |-> u, val |-> v] \in Changes
    BY DEF Changes, Keys
  <2> HIDE DEF Goal
  <2> QED BY <1>34, <2>1, <1>1 DEF CreateAccount
<1>35. Quiet => Goal
  BY QuietLeaves
<1> HIDE DEF Goal
<1>36. ASSUME NEW w \in Writers, WriterStep(w) PROVE Goal
  BY <1>36, <1>2, <1>3, <1>4, <1>6, <1>7, <1>9, <1>10, <1>35 DEF WriterStep
<1>37. ASSUME MonitorStep PROVE Goal
  BY <1>37, <1>11, <1>13, <1>35 DEF MonitorStep
<1>38. ASSUME AttachStep PROVE Goal
  BY <1>38, <1>15, <1>16, <1>18, <1>19, <1>21, <1>35 DEF AttachStep
<1>39. ASSUME NEW c \in Conns, BackupStep(c) PROVE Goal
  BY <1>39, <1>22, <1>23, <1>24, <1>25, <1>27, <1>35 DEF BackupStep
<1>40. ASSUME Calm PROVE Goal
  BY <1>40, <1>14, <1>33, <1>34, <1>35, <1>36, <1>37, <1>38, <1>39 DEF Calm
<1>41. ASSUME Fault PROVE Goal
  BY <1>41, <1>5, <1>8, <1>12, <1>17, <1>20, <1>26, <1>28, <1>29, <1>30, <1>31, <1>35 DEF Fault
<1>42. Goal
  BY <1>32, <1>35, <1>40, <1>41 DEF Next
<1> QED BY <1>42 DEF Goal

\* Primary and backups implement a replica group, whatever the numbers of
\* backups, handlers, connections and files: a change is answered only when all
\* trusted backups hold it, they see the changes one at a time, and none is
\* trusted before it is up to date (replicate_*, attach_replica, apply_replicated).
THEOREM GroupRefinement == Spec => ImplementsGroup
<1>1. Init => Group!GroupInit
  BY ConstantsAssumption DEF Init, Group!GroupInit, Group!Copies, Stores, Turn, Trusted, Linked
<1>2. Inv /\ [Next]_vars => [Group!GroupNext]_(Group!groupVars)
  BY GroupStep
<1> QED BY <1>1, <1>2, Invariance, PTL DEF Spec, ImplementsGroup, Group!GroupSpec

=============================================================================
