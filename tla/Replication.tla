----------------------------- MODULE Replication -----------------------------
(***************************************************************************)
(* Primary-backup replication of files and accounts: the primary's half    *)
(* (the request handlers of server/server.cpp and the "primary side" of    *)
(* server/cluster.cpp) and the backups' half (handle_replica_attach and    *)
(* apply_replicated), for one primary that stays primary.  Who is primary  *)
(* is the subject of module Cluster.                                       *)
(*                                                                         *)
(* Threads.  Each request handler (Writers) holds write_mutex_ from its    *)
(* commit to the end of replicate_put/_delete/_account; attach_replica     *)
(* holds it while it brings one backup up to date; the monitor and the     *)
(* broadcasts use links without it and drop those that fail; every backup  *)
(* has one handler thread per connection the primary opened to it.         *)
(***************************************************************************)
EXTENDS Naturals, FiniteSets

CONSTANTS
    Backups,    \* the backup servers (their ids)
    Writers,    \* the primary's handler threads that change something
    Conns,      \* connection objects; one is reused once nobody refers to it
    Files,      \* <<user, path>> keys of Storage
    Users,      \* keys of Accounts
    Values,     \* file contents and account records, compared by hash
    Clash,      \* pairs <<f, g>>: f would have to be a folder for g to exist, or vice versa
    Disks,      \* what a server's disk may hold when the run begins
    NoConn,     \* null ConnectionPtr / no link
    NoServer,   \* no backup
    Absent,     \* no such file or account
    Free,       \* write_mutex_ is not held
    Attacher    \* write_mutex_ is held by attach_replica

Keys == Files \cup Users

\* A store maps every file and account to its contents, or to Absent.
Stores == [Keys -> Values \cup {Absent}]

\* A replicated change: a put when val is a value, a delete when it is Absent.
Changes == [key : Keys, val : Values \cup {Absent}]

ASSUME ConstantsAssumption ==
    /\ Files \cap Users = {}
    /\ Absent \notin Values /\ Absent \notin Keys
    /\ NoConn \notin Conns
    /\ NoServer \notin Backups
    /\ Free \notin Writers /\ Attacher \notin Writers /\ Free # Attacher
    /\ Clash \subseteq Files \X Files
    /\ Disks \subseteq Stores

VARIABLES
    store,        \* the primary's disk
    writeMutex,   \* write_mutex_ of the primary: its holder, or Free
    links,        \* links_: the live replica link of each backup
    pc,           \* handler threads: "idle" (between requests) or "replicate"
    op,           \* handler threads: the change being made
    todo,         \* handler threads: links of the snapshot not yet asked
    cur,          \* handler threads: the link whose reply is awaited
    failed,       \* handler threads: `failed` of replicate_* and broadcast
    suspects,     \* `failed` of the threads that do not hold write_mutex_
    att,          \* attach_replica's local state
    up,           \* is the backup process running?
    copy,         \* the backups' disks
    primaryLink,  \* primary_link_ of each backup
    st,           \* connections: where the exchange on it stands
    req,          \* connections: the change last sent on it
    peer,         \* connections: the backup at the other end
    open,         \* connections: not shut down and not broken
    late,         \* connections: a reply nobody waited for is still to come
    stained       \* backups with a change skipped, or applied out of turn

primaryVars == <<store, writeMutex, links, suspects>>
writerVars  == <<pc, op, todo, cur, failed>>
backupVars  == <<up, copy, primaryLink>>
connVars    == <<st, req, peer, open, late>>
vars == <<primaryVars, writerVars, att, backupVars, connVars, stained>>

\* Exchange states of a connection.  idle: nothing outstanding.  attach: a
\* ReplicaAttach is on its way.  building: the backup hashes its files.
\* sent: a change is on its way.  applying: the backup read it and found the
\* link current.  ok, error: the backup answered.
ConnStates == {"idle", "attach", "building", "sent", "applying", "ok", "error"}

AttachIdle ==
    [phase |-> "idle", b |-> NoServer, c |-> NoConn, puts |-> {}, dels |-> {},
     key |-> Absent, dirty |-> FALSE]

TypeOK ==
    /\ store \in Stores
    /\ writeMutex \in Writers \cup {Free, Attacher}
    /\ links \in [Backups -> Conns \cup {NoConn}]
    /\ pc \in [Writers -> {"idle", "replicate"}]
    /\ op \in [Writers -> Changes \cup {Absent}]
    /\ todo \in [Writers -> SUBSET Conns]
    /\ cur \in [Writers -> Conns \cup {NoConn}]
    /\ failed \in [Writers -> SUBSET Backups]
    /\ suspects \in SUBSET Backups
    /\ att \in [phase : {"idle", "attach", "sync"}, b : Backups \cup {NoServer},
                c : Conns \cup {NoConn}, puts : SUBSET Keys, dels : SUBSET Files,
                key : Keys \cup {Absent}, dirty : BOOLEAN]
    /\ up \in [Backups -> BOOLEAN]
    /\ copy \in [Backups -> Stores]
    /\ primaryLink \in [Backups -> Conns \cup {NoConn}]
    /\ st \in [Conns -> ConnStates]
    /\ req \in [Conns -> Changes \cup {Absent}]
    /\ peer \in [Conns -> Backups \cup {NoServer}]
    /\ open \in [Conns -> BOOLEAN]
    /\ late \in [Conns -> BOOLEAN]
    /\ stained \in SUBSET Backups

\* Storage::commit refuses a file where the disk has a folder and a folder
\* where it has a file; a delete and an account record are never refused.
Storable(disk, ch) ==
    ch.val = Absent \/ \A f \in Files : <<ch.key, f>> \in Clash => disk[f] = Absent

Apply(disk, ch) == [disk EXCEPT ![ch.key] = ch.val]

\* The link table as a set, and its snapshot (links_snapshot).
Linked == {b \in Backups : links[b] # NoConn}
LinkConns == {links[b] : b \in Linked}

Init ==
    /\ store \in Disks
    /\ copy \in [Backups -> Disks]
    /\ writeMutex = Free
    /\ links = [b \in Backups |-> NoConn]
    /\ pc = [w \in Writers |-> "idle"]
    /\ op = [w \in Writers |-> Absent]
    /\ todo = [w \in Writers |-> {}]
    /\ cur = [w \in Writers |-> NoConn]
    /\ failed = [w \in Writers |-> {}]
    /\ suspects = {}
    /\ att = AttachIdle
    /\ up = [b \in Backups |-> TRUE]
    /\ primaryLink = [b \in Backups |-> NoConn]
    /\ st = [c \in Conns |-> "idle"]
    /\ req = [c \in Conns |-> Absent]
    /\ peer = [c \in Conns |-> NoServer]
    /\ open = [c \in Conns |-> FALSE]
    /\ late = [c \in Conns |-> FALSE]
    /\ stained = {}

-----------------------------------------------------------------------------
(* The handlers: handle_upload, handle_delete and authenticate.             *)

\* Mutation of Commit: write_mutex_ is not taken.
CommitUnlocked(w, ch) ==
    /\ pc[w] = "idle"
    /\ writeMutex' = w
    /\ store' = Apply(store, ch)
    /\ pc' = [pc EXCEPT ![w] = "replicate"]
    /\ op' = [op EXCEPT ![w] = ch]
    /\ todo' = [todo EXCEPT ![w] = LinkConns]
    /\ UNCHANGED <<links, suspects, cur, failed, att, backupVars, connVars, stained>>

\* Lock write_mutex_, change the local disk, take the snapshot of the links.
Commit(w, ch) ==
    /\ pc[w] = "idle"
    /\ writeMutex = Free
    /\ writeMutex' = w
    /\ store' = Apply(store, ch)
    /\ pc' = [pc EXCEPT ![w] = "replicate"]
    /\ op' = [op EXCEPT ![w] = ch]
    /\ todo' = [todo EXCEPT ![w] = LinkConns]
    /\ UNCHANGED <<links, suspects, cur, failed, att, backupVars, connVars, stained>>

\* handle_upload stores a file that fits, handle_delete deletes one that exists,
\* authenticate creates an account that does not exist; otherwise the client
\* gets an error and nothing changes.
Upload(w, f, v) ==
    LET ch == [key |-> f, val |-> v] IN Storable(store, ch) /\ Commit(w, ch)

Delete(w, f) ==
    store[f] # Absent /\ Commit(w, [key |-> f, val |-> Absent])

CreateAccount(w, u, v) ==
    store[u] = Absent /\ Commit(w, [key |-> u, val |-> v])

\* put_on_link / delete_on_link / account_on_link send the change on one link.
Send(w, c) ==
    /\ pc[w] = "replicate" /\ cur[w] = NoConn /\ c \in todo[w]
    /\ open[c] /\ st[c] = "idle" /\ ~late[c]
    /\ st' = [st EXCEPT ![c] = "sent"]
    /\ req' = [req EXCEPT ![c] = op[w]]
    /\ cur' = [cur EXCEPT ![w] = c]
    /\ todo' = [todo EXCEPT ![w] = @ \ {c}]
    /\ UNCHANGED <<primaryVars, pc, op, failed, att, backupVars, peer, open, late, stained>>

\* Mutation of SendFails: the link is not put on the list of failed ones.
SendFailsIgnored(w, c) ==
    /\ pc[w] = "replicate" /\ cur[w] = NoConn /\ c \in todo[w]
    /\ ~open[c]
    /\ todo' = [todo EXCEPT ![w] = @ \ {c}]
    /\ UNCHANGED <<primaryVars, pc, op, cur, failed, att, backupVars, connVars, stained>>

\* The send fails at once on a connection that is shut down or broken.
SendFails(w, c) ==
    /\ pc[w] = "replicate" /\ cur[w] = NoConn /\ c \in todo[w]
    /\ ~open[c]
    /\ todo' = [todo EXCEPT ![w] = @ \ {c}]
    /\ failed' = [failed EXCEPT ![w] = @ \cup {peer[c]}]
    /\ UNCHANGED <<primaryVars, pc, op, cur, att, backupVars, connVars, stained>>

\* The reply that a timed-out heartbeat or broadcast left on the link is read
\* as the answer to this change, whether or not the backup gets to it.
LateReply(w, c) ==
    /\ pc[w] = "replicate" /\ cur[w] = NoConn /\ c \in todo[w]
    /\ open[c] /\ late[c]
    /\ todo' = [todo EXCEPT ![w] = @ \ {c}]
    /\ \/ /\ st[c] \notin {"sent", "applying"}
          /\ st' = [st EXCEPT ![c] = "sent"]
          /\ req' = [req EXCEPT ![c] = op[w]]
       \/ UNCHANGED <<st, req>>
    /\ UNCHANGED <<primaryVars, pc, op, cur, failed, att, backupVars, peer, open, late,
                   stained>>

\* put_on_link returns true although send_file could not read the primary's
\* own file (NotSent, FileError).
SkipPut(w, c) ==
    /\ pc[w] = "replicate" /\ cur[w] = NoConn /\ c \in todo[w]
    /\ op[w].key \in Files /\ op[w].val # Absent
    /\ todo' = [todo EXCEPT ![w] = @ \ {c}]
    /\ stained' = stained \cup {peer[c]}
    /\ UNCHANGED <<primaryVars, pc, op, cur, failed, att, backupVars, connVars>>

\* The backup confirmed.
ReplyOk(w) ==
    /\ cur[w] # NoConn /\ open[cur[w]] /\ st[cur[w]] = "ok"
    /\ st' = [st EXCEPT ![cur[w]] = "idle"]
    /\ req' = [req EXCEPT ![cur[w]] = Absent]
    /\ cur' = [cur EXCEPT ![w] = NoConn]
    /\ UNCHANGED <<primaryVars, pc, op, todo, failed, att, backupVars, peer, open, late,
                   stained>>

\* The backup refused, or the connection is gone.
ReplyFails(w) ==
    /\ cur[w] # NoConn
    /\ ~open[cur[w]] \/ st[cur[w]] = "error"
    /\ failed' = [failed EXCEPT ![w] = @ \cup {peer[cur[w]]}]
    /\ cur' = [cur EXCEPT ![w] = NoConn]
    /\ UNCHANGED <<primaryVars, pc, op, todo, att, backupVars, connVars, stained>>

\* No reply within REPLY_TIMEOUT_MS on a connection that still works.
ReplyTimeout(w) ==
    /\ cur[w] # NoConn
    /\ open[cur[w]] /\ st[cur[w]] \in {"sent", "applying"}
    /\ failed' = [failed EXCEPT ![w] = @ \cup {peer[cur[w]]}]
    /\ cur' = [cur EXCEPT ![w] = NoConn]
    /\ UNCHANGED <<primaryVars, pc, op, todo, att, backupVars, connVars, stained>>

\* Mutation of Unlink: the link is shut down but stays in links_.
UnlinkKeepsEntry(b) ==
    /\ UNCHANGED links
    /\ open' = IF links[b] = NoConn THEN open ELSE [open EXCEPT ![links[b]] = FALSE]

\* drop_link erases the link with this id, whichever connection it is by now,
\* and shuts it down.
Unlink(b) ==
    /\ links' = [links EXCEPT ![b] = NoConn]
    /\ open' = IF links[b] = NoConn THEN open ELSE [open EXCEPT ![links[b]] = FALSE]

\* Links on which a broadcast fails: broken ones, at least.
BroadcastFails(b, more) ==
    /\ more \subseteq Linked \ {b}
    /\ \A x \in more : ~open[links[x]]

\* drop_link by a handler, with its trailing broadcast_membership.
DropLink(w, b, more) ==
    /\ pc[w] = "replicate" /\ cur[w] = NoConn /\ todo[w] = {} /\ b \in failed[w]
    /\ BroadcastFails(b, more)
    /\ Unlink(b)
    /\ failed' = [failed EXCEPT ![w] = (@ \ {b}) \cup more]
    /\ UNCHANGED <<store, writeMutex, suspects, pc, op, todo, cur, att, backupVars,
                   st, req, peer, late, stained>>

\* Mutation of Acknowledge: the failed links are not dropped first.
AcknowledgeEarly(w) ==
    /\ pc[w] = "replicate" /\ cur[w] = NoConn /\ todo[w] = {}
    /\ writeMutex' = Free
    /\ pc' = [pc EXCEPT ![w] = "idle"]
    /\ op' = [op EXCEPT ![w] = Absent]
    /\ failed' = [failed EXCEPT ![w] = {}]
    /\ UNCHANGED <<store, links, suspects, todo, cur, att, backupVars, connVars, stained>>

\* Unlock write_mutex_ and answer the client.
Acknowledge(w) ==
    /\ pc[w] = "replicate" /\ cur[w] = NoConn /\ todo[w] = {} /\ failed[w] = {}
    /\ writeMutex' = Free
    /\ pc' = [pc EXCEPT ![w] = "idle"]
    /\ op' = [op EXCEPT ![w] = Absent]
    /\ UNCHANGED <<store, links, suspects, todo, cur, failed, att, backupVars, connVars,
                   stained>>

-----------------------------------------------------------------------------
(* Heartbeats and broadcasts by threads that do not hold write_mutex_.      *)

\* heartbeat_links / broadcast_membership find a link broken.
ProbeFails(b) ==
    /\ b \in Linked \ suspects /\ ~open[links[b]]
    /\ suspects' = suspects \cup {b}
    /\ UNCHANGED <<store, writeMutex, links, writerVars, att, backupVars, connVars, stained>>

\* Mutation of ProbeTimeout: a missed reply is forgiven.
ProbeTimeoutForgiven(b) ==
    /\ b \in Linked \ suspects /\ open[links[b]] /\ st[links[b]] = "idle"
    /\ late' = [late EXCEPT ![links[b]] = TRUE]
    /\ UNCHANGED <<primaryVars, writerVars, att, backupVars, st, req, peer, open, stained>>

\* ... or get no answer in time on a link that works and is not busy: the
\* answer is still to come.
ProbeTimeout(b) ==
    /\ b \in Linked \ suspects /\ open[links[b]] /\ st[links[b]] = "idle"
    /\ suspects' = suspects \cup {b}
    /\ late' = [late EXCEPT ![links[b]] = TRUE]
    /\ UNCHANGED <<store, writeMutex, links, writerVars, att, backupVars, st, req, peer,
                   open, stained>>

\* drop_link by such a thread, with its trailing broadcast.
DropSuspect(b, more) ==
    /\ b \in suspects
    /\ BroadcastFails(b, more)
    /\ Unlink(b)
    /\ suspects' = (suspects \ {b}) \cup more
    /\ UNCHANGED <<store, writeMutex, writerVars, att, backupVars, st, req, peer, late,
                   stained>>

-----------------------------------------------------------------------------
(* attach_replica: bring one backup up to date and add its link.            *)

\* Nobody refers to the connection object any more.
Unused(c) ==
    /\ \A b \in Backups : links[b] # c /\ primaryLink[b] # c
    /\ \A w \in Writers : cur[w] # c /\ c \notin todo[w]
    /\ att.c # c
    /\ st[c] \in {"idle", "ok", "error"}

\* Lock write_mutex_, connect, send ReplicaAttach.  Called by handle_join, by
\* handle_election for a backup without a link, and by become_primary.
Attach(b, c) ==
    /\ writeMutex = Free
    /\ up[b] /\ Unused(c)
    /\ writeMutex' = Attacher
    /\ att' = [AttachIdle EXCEPT !.phase = "attach", !.b = b, !.c = c]
    /\ st' = [st EXCEPT ![c] = "attach"]
    /\ req' = [req EXCEPT ![c] = Absent]
    /\ peer' = [peer EXCEPT ![c] = b]
    /\ open' = [open EXCEPT ![c] = TRUE]
    /\ late' = [late EXCEPT ![c] = FALSE]
    /\ UNCHANGED <<store, links, suspects, writerVars, backupVars, stained>>

\* Accounts and files to send, and files to delete, after comparing the two
\* lists.  Accounts that only the backup has are kept.
MissingOn(b) == {k \in Keys : store[k] # Absent /\ copy[b][k] # store[k]}

\* Mutation of SurplusOn: accounts the primary lacks are deleted too.
SurplusWithAccounts(b) == {k \in Keys : store[k] = Absent /\ copy[b][k] # Absent}
SurplusOn(b) == {f \in Files : store[f] = Absent /\ copy[b][f] # Absent}

\* build_manifest on the backup, and the comparison on the primary.
Manifest(c) ==
    /\ att.phase = "attach" /\ att.c = c
    /\ open[c] /\ st[c] = "building"
    /\ att' = [att EXCEPT !.phase = "sync", !.puts = MissingOn(att.b),
                          !.dels = SurplusOn(att.b)]
    /\ st' = [st EXCEPT ![c] = "idle"]
    /\ UNCHANGED <<primaryVars, writerVars, backupVars, req, peer, open, late, stained>>

\* The order of the three loops: accounts, files to send, files to delete.
NextToSync ==
    IF att.puts \cap Users # {} THEN att.puts \cap Users
    ELSE IF att.puts # {} THEN att.puts ELSE att.dels

AttachSend(k) ==
    /\ att.phase = "sync" /\ att.key = Absent /\ k \in NextToSync
    /\ open[att.c]
    /\ st' = [st EXCEPT ![att.c] = "sent"]
    /\ req' = [req EXCEPT ![att.c] = [key |-> k, val |-> store[k]]]
    /\ att' = [att EXCEPT !.key = k]
    /\ UNCHANGED <<primaryVars, writerVars, backupVars, peer, open, late, stained>>

\* The primary cannot read its own file: put_on_link returns true all the same.
AttachSkip(k) ==
    /\ att.phase = "sync" /\ att.key = Absent /\ k \in NextToSync
    /\ k \in att.puts \cap Files
    /\ att' = [att EXCEPT !.puts = @ \ {k}, !.dirty = TRUE]
    /\ UNCHANGED <<primaryVars, writerVars, backupVars, connVars, stained>>

AttachReplyOk ==
    /\ att.phase = "sync" /\ att.key # Absent
    /\ open[att.c] /\ st[att.c] = "ok"
    /\ att' = [att EXCEPT !.puts = @ \ {att.key}, !.dels = @ \ {att.key}, !.key = Absent]
    /\ st' = [st EXCEPT ![att.c] = "idle"]
    /\ req' = [req EXCEPT ![att.c] = Absent]
    /\ UNCHANGED <<primaryVars, writerVars, backupVars, peer, open, late, stained>>

\* Mutation of GiveUpAttach: write_mutex_ stays locked.
GiveUpLocked ==
    /\ att' = AttachIdle
    /\ open' = [open EXCEPT ![att.c] = FALSE]
    /\ UNCHANGED <<primaryVars, writerVars, backupVars, st, req, peer, late, stained>>

\* Any call that fails ends attach_replica, which closes the connection.
GiveUpAttach ==
    /\ writeMutex' = Free
    /\ att' = AttachIdle
    /\ open' = [open EXCEPT ![att.c] = FALSE]
    /\ UNCHANGED <<store, links, suspects, writerVars, backupVars, st, req, peer, late,
                   stained>>

AttachFails ==
    /\ att.phase # "idle"
    /\ ~open[att.c] \/ (att.key # Absent /\ st[att.c] = "error")
    /\ GiveUpAttach

AttachTimeout ==
    /\ att.phase # "idle"
    /\ open[att.c] /\ st[att.c] \in {"attach", "building", "sent", "applying"}
    /\ GiveUpAttach

\* The backup is up to date: the link goes live, the previous one is shut down.
AttachDone ==
    /\ att.phase = "sync" /\ att.key = Absent /\ att.puts = {} /\ att.dels = {}
    /\ links' = [links EXCEPT ![att.b] = att.c]
    /\ open' = IF links[att.b] = NoConn THEN open
               ELSE [open EXCEPT ![links[att.b]] = FALSE]
    /\ stained' = IF att.dirty THEN stained \cup {att.b} ELSE stained \ {att.b}
    /\ writeMutex' = Free
    /\ att' = AttachIdle
    /\ UNCHANGED <<store, suspects, writerVars, backupVars, st, req, peer, late>>

-----------------------------------------------------------------------------
(* The backups: handle_replica_attach and apply_replicated.                 *)

\* A ReplicaAttach arrives, possibly long after the primary gave up on it: the
\* new link replaces the old one, which is shut down.
BackupAttach(c) ==
    LET b == peer[c]
        old == primaryLink[b]
    IN  /\ st[c] = "attach" /\ up[b]
        /\ primaryLink' = [primaryLink EXCEPT ![b] = c]
        /\ open' = IF old = NoConn THEN open ELSE [open EXCEPT ![old] = FALSE]
        /\ st' = [st EXCEPT ![c] = "building"]
        /\ UNCHANGED <<primaryVars, writerVars, att, up, copy, req, peer, late, stained>>

\* recv returns a change, and the link is still the current one.
BackupReceive(c) ==
    /\ st[c] = "sent" /\ primaryLink[peer[c]] = c
    /\ st' = [st EXCEPT ![c] = "applying"]
    /\ UNCHANGED <<primaryVars, writerVars, att, backupVars, req, peer, open, late, stained>>

\* Under the backup's own write_mutex_: change the disk and answer.  primary_link_
\* is not looked at again, so this may happen after a newer link took over.
BackupApply(c) ==
    LET b == peer[c] IN
    /\ st[c] = "applying"
    /\ Storable(copy[b], req[c])
    /\ copy' = [copy EXCEPT ![b] = Apply(@, req[c])]
    /\ st' = [st EXCEPT ![c] = "ok"]
    /\ IF primaryLink[b] = c
         THEN UNCHANGED <<stained, att>>
         ELSE /\ stained' = stained \cup {b}
              /\ att' = IF att.b = b THEN [att EXCEPT !.dirty = TRUE] ELSE att
    /\ UNCHANGED <<primaryVars, writerVars, up, primaryLink, req, peer, open, late>>

\* A file is in the way of a folder, or a folder in the way of a file.
BackupRefuse(c) ==
    /\ st[c] = "applying"
    /\ ~Storable(copy[peer[c]], req[c])
    /\ st' = [st EXCEPT ![c] = "error"]
    /\ UNCHANGED <<primaryVars, writerVars, att, backupVars, req, peer, open, late, stained>>

\* The disk is full, or fails.
BackupStoreFails(c) ==
    /\ st[c] = "applying" /\ req[c].val # Absent
    /\ st' = [st EXCEPT ![c] = "error"]
    /\ UNCHANGED <<primaryVars, writerVars, att, backupVars, req, peer, open, late, stained>>

\* The handler's loop ends: shut the connection down and forget it.
LeaveLoop(c) ==
    /\ primaryLink' = IF peer[c] \in Backups /\ primaryLink[peer[c]] = c
                        THEN [primaryLink EXCEPT ![peer[c]] = NoConn] ELSE primaryLink
    /\ st' = [st EXCEPT ![c] = "idle"]
    /\ req' = [req EXCEPT ![c] = Absent]
    /\ open' = [open EXCEPT ![c] = FALSE]
    /\ UNCHANGED <<primaryVars, writerVars, att, up, copy, peer, late, stained>>

\* The connection is closed, or a newer link took over.
HandlerEnds(c) ==
    /\ peer[c] \in Backups /\ st[c] # "applying"
    /\ \/ ~open[c] /\ (primaryLink[peer[c]] = c \/ st[c] # "idle")
       \/ st[c] = "sent" /\ primaryLink[peer[c]] # c
    /\ LeaveLoop(c)

\* Nothing came for BACKUP_IDLE_TIMEOUT_MS although the connection works.
IdleTimeout(c) ==
    /\ peer[c] \in Backups /\ primaryLink[peer[c]] = c
    /\ open[c] /\ st[c] \in {"idle", "ok", "error"}
    /\ LeaveLoop(c)

-----------------------------------------------------------------------------
(* The environment.                                                         *)

ConnectionBreaks(c) ==
    /\ open[c]
    /\ open' = [open EXCEPT ![c] = FALSE]
    /\ UNCHANGED <<primaryVars, writerVars, att, backupVars, st, req, peer, late, stained>>

\* A backup process dies, with its connections; its disk survives, and a
\* change half received is in a temporary file that Storage::init discards.
Crash(b) ==
    /\ up[b]
    /\ up' = [up EXCEPT ![b] = FALSE]
    /\ primaryLink' = [primaryLink EXCEPT ![b] = NoConn]
    /\ open' = [c \in Conns |-> open[c] /\ peer[c] # b]
    /\ st' = [c \in Conns |-> IF peer[c] = b THEN "idle" ELSE st[c]]
    /\ req' = [c \in Conns |-> IF peer[c] = b THEN Absent ELSE req[c]]
    /\ UNCHANGED <<primaryVars, writerVars, att, copy, peer, late, stained>>

Restart(b) ==
    /\ ~up[b]
    /\ up' = [up EXCEPT ![b] = TRUE]
    /\ UNCHANGED <<primaryVars, writerVars, att, copy, primaryLink, connVars, stained>>

-----------------------------------------------------------------------------
WriterStep(w) ==
    \/ \E c \in Conns : Send(w, c) \/ SendFails(w, c) \/ LateReply(w, c)
    \/ ReplyOk(w) \/ ReplyFails(w)
    \/ \E b \in Backups, more \in SUBSET Backups : DropLink(w, b, more)
    \/ Acknowledge(w)

MonitorStep ==
    \E b \in Backups : ProbeFails(b) \/ \E more \in SUBSET Backups : DropSuspect(b, more)

AttachStep ==
    \/ \E c \in Conns : Manifest(c)
    \/ \E k \in Keys : AttachSend(k)
    \/ AttachReplyOk \/ AttachFails \/ AttachDone

BackupStep(c) ==
    BackupAttach(c) \/ BackupReceive(c) \/ BackupApply(c) \/ BackupRefuse(c) \/ HandlerEnds(c)

\* What happens when nothing goes wrong.
Calm ==
    \/ \E w \in Writers :
          \/ \E f \in Files : Delete(w, f) \/ \E v \in Values : Upload(w, f, v)
          \/ \E u \in Users, v \in Values : CreateAccount(w, u, v)
          \/ WriterStep(w)
    \/ MonitorStep
    \/ AttachStep
    \/ \E b \in Backups, c \in Conns : Attach(b, c)
    \/ \E c \in Conns : BackupStep(c)

\* Broken connections, slow answers, crashes, failing disks.
Fault ==
    \/ \E w \in Writers : ReplyTimeout(w) \/ \E c \in Conns : SkipPut(w, c)
    \/ \E b \in Backups : ProbeTimeout(b) \/ Crash(b) \/ Restart(b)
    \/ \E k \in Keys : AttachSkip(k)
    \/ AttachTimeout
    \/ \E c \in Conns : BackupStoreFails(c) \/ IdleTimeout(c) \/ ConnectionBreaks(c)

Next == Calm \/ Fault

Spec == Init /\ [][Next]_vars

\* Every wait of the primary is bounded by a timeout, the backups' threads run,
\* and a backup without a link asks for one until it gets it (its election, or
\* its join, reaches the primary).
Fairness ==
    /\ \A w \in Writers : WF_vars(WriterStep(w) \/ ReplyTimeout(w))
    /\ WF_vars(AttachStep \/ AttachTimeout)
    /\ WF_vars(MonitorStep)
    /\ \A c \in Conns : WF_vars(BackupStep(c))
    /\ \A b \in Backups : SF_vars(b \notin Linked /\ \E c \in Conns : Attach(b, c))

FairSpec == Spec /\ Fairness

-----------------------------------------------------------------------------
(* Properties.                                                              *)

\* The backup holds what the primary holds under this key.
InSync(b, k) ==
    \/ copy[b][k] = store[k]
    \/ k \in Users /\ store[k] = Absent

\* Backups whose link answers for what they hold: neither overtaken by a late
\* reply nor stained by a skipped or stale change.
Trusted == {b \in Linked : ~late[links[b]]} \ stained

\* What the clients are promised: between changes, every backup with a replica
\* link holds every file and account of the primary, in the same version
\* (replicate_put, replicate_delete, replicate_account and attach_replica under
\* write_mutex_).
LinkedInSync ==
    writeMutex = Free => \A b \in Trusted, k \in Keys : InSync(b, k)

\* During a change, the linked backups differ from the primary in nothing but
\* that change, so they see the changes in the primary's order.
OneChangeAtATime ==
    \A w \in Writers : writeMutex = w =>
        \A b \in Trusted, k \in Keys \ {op[w].key} : InSync(b, k)

\* A link on which a reply is overdue is about to be dropped: no change can be
\* acknowledged on the strength of that reply for good.
OverdueIsSuspect == \A b \in Linked : late[links[b]] => b \in suspects

\* write_mutex_ is never held for ever: every exchange made under it ends with
\* a reply, an error or a timeout.
MutexReleased == []<>(writeMutex = Free)

\* The primary's link to the backup is the one the backup listens on.
LiveLink(b) == b \in Linked /\ primaryLink[b] = links[b] /\ open[links[b]]

\* When faults stop, every running backup gets a working replica link again.
CatchesUp == (<>[][Calm]_vars) => \A b \in Backups : []<>(up[b] => LiveLink(b))

\* "Holding the write mutex means no change can slip in between comparing the
\* file lists and the link going live" (attach_replica): after the comparison
\* the backup's disk changes only as attach_replica asks.
NothingSlipsIn ==
    [][\A b \in Backups :
          att.phase = "sync" /\ att.b = b /\ copy'[b] # copy[b] => st[att.c] = "applying"]_vars

-----------------------------------------------------------------------------
(* The abstract specification.                                              *)

\* The handler whose change is being replicated.
Turn == IF writeMutex \in Writers THEN writeMutex ELSE Free

Group == INSTANCE ReplicaGroup WITH
    Replicas <- Backups, Turns <- Writers, Nobody <- Free, Sticky <- Users,
    Contents <- Values, Nothing <- Absent,
    master <- store, replica <- copy, group <- Trusted, turn <- Turn

\* Primary and backups implement a replica group: a handler answers its client
\* only when every trusted backup holds the change, the trusted backups see the
\* changes one at a time, and a backup is trusted only once it lacks nothing
\* (replicate_put, attach_replica, apply_replicated).
ImplementsGroup == Group!GroupSpec

-----------------------------------------------------------------------------
(* The inductive invariant behind LinkedInSync, in named parts.             *)

\* write_mutex_ has one holder, and only its holder has work in hand.
LockInv ==
    /\ \A w \in Writers : pc[w] = "replicate" <=> writeMutex = w
    /\ \A w \in Writers :
          /\ pc[w] = "idle" => todo[w] = {} /\ cur[w] = NoConn /\ failed[w] = {}
          /\ pc[w] = "replicate" => op[w] \in Changes /\ store[op[w].key] = op[w].val
    /\ att.phase # "idle" <=> writeMutex = Attacher
    /\ IF att.phase = "idle" THEN att = AttachIdle
       ELSE att.b \in Backups /\ att.c \in Conns

\* Every connection in use belongs to the backup it is used for.
PeerInv ==
    /\ \A b \in Linked : peer[links[b]] = b /\ st[links[b]] \notin {"attach", "building"}
    /\ \A b \in Backups : primaryLink[b] # NoConn => peer[primaryLink[b]] = b
    /\ att.phase # "idle" => peer[att.c] = att.b /\ ~late[att.c] /\ att.c \notin LinkConns
    /\ \A w \in Writers, c \in Conns : c \in todo[w] \/ c = cur[w] =>
          peer[c] \in Backups /\ links[peer[c]] \in {c, NoConn}
    /\ \A c \in Conns : st[c] # "idle" => peer[c] \in Backups

\* What a connection carries is what the holder of write_mutex_ put there.
CarriesInv ==
    /\ \A c \in Conns : st[c] \in {"sent", "applying"} => req[c] \in Changes
    /\ \A b \in Linked :
          ~late[links[b]] /\ st[links[b]] \in {"sent", "applying"} =>
             \E w \in Writers : /\ writeMutex = w
                                /\ req[links[b]] = op[w]
                                /\ cur[w] = links[b] \/ b \in failed[w]
    /\ att.phase = "attach" =>
          att.key = Absent /\ st[att.c] \in {"idle", "attach", "building"}
    /\ att.phase = "sync" =>
          /\ att.key \in Keys \cup {Absent}
          /\ att.key = Absent => st[att.c] = "idle"
          /\ st[att.c] \in {"idle", "sent", "applying", "ok", "error"}
          /\ st[att.c] \in {"sent", "applying"} =>
                req[att.c] = [key |-> att.key, val |-> store[att.key]]

\* A trusted backup can only be changed through its link, and a backup being
\* attached only through the new connection once it has seen it.
OneChannelInv ==
    /\ \A b \in Trusted, c \in Conns :
          primaryLink[b] = c /\ c # links[b] => st[c] \notin {"sent", "applying"}
    /\ att.phase = "sync" \/ (att.phase = "attach" /\ st[att.c] = "building") =>
          \A c \in Conns \ {att.c} :
             primaryLink[att.b] = c => st[c] \notin {"sent", "applying"}

\* The change in hand is missing only where it has not been confirmed.
SyncInv ==
    \A b \in Trusted :
       /\ writeMutex \notin Writers => \A k \in Keys : InSync(b, k)
       /\ \A w \in Writers : writeMutex = w =>
             /\ \A k \in Keys \ {op[w].key} : InSync(b, k)
             /\ \/ links[b] \in todo[w]
                \/ cur[w] = links[b] /\ st[links[b]] # "ok"
                \/ b \in failed[w]
                \/ InSync(b, op[w].key)

\* What attach_replica need not send any more is in sync, unless a stale change
\* slipped in; a backup that is already trusted needs nothing.
AttachInv ==
    /\ att.phase = "sync" /\ ~att.dirty =>
          /\ \A k \in Keys : k \notin att.puts \cup att.dels => InSync(att.b, k)
          /\ att.key # Absent /\ st[att.c] = "ok" => InSync(att.b, att.key)
    /\ att.phase = "sync" /\ att.b \in Trusted =>
          att.puts = {} /\ att.dels = {} /\ att.key = Absent

Inv ==
    /\ TypeOK
    /\ LockInv
    /\ PeerInv
    /\ CarriesInv
    /\ OneChannelInv
    /\ SyncInv
    /\ AttachInv
    /\ OverdueIsSuspect

=============================================================================
