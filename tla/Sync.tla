-------------------------------- MODULE Sync --------------------------------
(***************************************************************************)
(* One file of one user, the copies of it in the sync_dirs of the user's   *)
(* clients, and the copy on the server: the client's reconcile, worker,    *)
(* install and push handling (client/client.cpp, client/sync_state.cpp)    *)
(* against the handlers and pushes of server/server.cpp.                   *)
(*                                                                         *)
(* Threads.  Each client has a worker that looks at files the watcher      *)
(* reports, a supervisor that reconciles after every (re)connection and    *)
(* then receives pushes, and a main thread that reads commands; what they  *)
(* do to sync_dir and to the sync state is done under sync_mutex_, by the  *)
(* holder of job.  Each session has a handler thread on the server, which  *)
(* may go on for a while after the client has given up on the connection.  *)
(***************************************************************************)
EXTENDS Naturals, Sequences, FiniteSets

CONSTANTS
    Clients,      \* the user's client programs, each with a sync_dir of its own
    Tokens,       \* sessions the server allows at once (MAX_SESSIONS_PER_USER)
    Nobody,       \* the client of a session that is not open
    Absent,       \* no such file
    NoToken,      \* not connected
    MaxVersion,   \* bound on the versions the user makes, with the first one
    Stories       \* how the user works, and what may happen, see story

ASSUME SyncAssumption ==
    /\ MaxVersion \in Nat \ {0}
    /\ Absent \notin Nat /\ NoToken \notin Tokens /\ Nobody \notin Clients
    /\ Stories \subseteq [habit : {"turns", "laptop", "stay", "any"}, edits : Nat,
                          deletes : Nat, commands : Nat, faults : Nat, kills : Nat]

\* A version is made by one edit; contents are compared by hash and size.
Versions == 1..MaxVersion
Contents == Versions \cup {Absent}

VARIABLES
    story,        \* habit "turns": one client runs at a time, and edits are made
                  \*    while it is not running; "laptop": one client is connected at
                  \*    a time, and edits are made while it is not; "stay": clients
                  \*    are not stopped; "any";
                  \* and bounds on the edits, deletions and commands of the user, on
                  \* the connections that break and on the clients killed
    left,         \* what is left of these bounds
    remote,       \* the file on the server
    sess,         \* sessions: the client, and what becomes of its request
    chan,         \* sessions: pushes on their way on the sync connection
    run,          \* is the client program running?
    cur,          \* cmd_ and sync_ of each client, as the session they belong to
    sup,          \* supervisor: "due" to reconcile, or in receive_loop
    local,        \* the file in each sync_dir
    base,         \* state_ in memory: the file at the last sync
    saved,        \* state_ on disk
    event,        \* has the watcher queued the name?
    job,          \* what the holder of sync_mutex_ is doing
    copies,       \* versions kept as conflicted copies, files of their own
    version,      \* the last version made
    superseded,   \* versions the user replaced or deleted, knowing them
    maker,        \* the client each version was made at
    gone,         \* clients whose last reconcile had a file to download that was
                  \* gone by then
    asked         \* clients at which the user deleted the file

serverVars == <<remote, sess, chan>>
stateVars  == <<local, base, saved, event, copies>>
userVars   == <<version, superseded, maker, asked, left>>
syncVars == <<story, serverVars, run, cur, sup, stateVars, job, gone, userVars>>

SessStates ==
    [client : Clients \cup {Nobody},
     st : {"closed", "idle", "commit", "reply", "refuse", "push"},
     val : Contents, origin : {"command", "sync"}, to : SUBSET Tokens]

JobStates ==
    [who : {"none", "worker", "super", "main", "push"},
     st : {"idle", "scan", "send", "wait", "failed", "fetch", "install", "rename", "unlink",
           "save"},
     here : Contents, val : Contents]

\* A change with Origin::Sync is not pushed back to its session.
Closed == [client |-> Nobody, st |-> "closed", val |-> Absent, origin |-> "command", to |-> {}]

\* Nobody holds sync_mutex_.
NoJob == [who |-> "none", st |-> "idle", here |-> Absent, val |-> Absent]

SyncTypeOK ==
    /\ story \in Stories
    /\ remote \in Contents
    /\ sess \in [Tokens -> SessStates]
    /\ chan \in [Tokens -> Seq(Contents)]
    /\ run \in [Clients -> BOOLEAN]
    /\ cur \in [Clients -> Tokens \cup {NoToken}]
    /\ sup \in [Clients -> {"due", "receive"}]
    /\ local \in [Clients -> Contents] /\ base \in [Clients -> Contents]
    /\ saved \in [Clients -> Contents]
    /\ event \in [Clients -> BOOLEAN]
    /\ job \in [Clients -> JobStates]
    /\ copies \in SUBSET Versions
    /\ version \in Versions
    /\ superseded \in SUBSET Versions
    /\ maker \in [Versions -> Clients \cup {Nobody}]
    /\ gone \in SUBSET Clients /\ asked \in SUBSET Clients
    /\ \A c \in Clients : cur[c] # NoToken =>
          run[c] /\ sess[cur[c]].client = c
    /\ \A b \in {"edits", "deletes", "commands", "faults", "kills"} : left[b] \in 0..story[b]

\* Everything in sync, no client running.
SyncInit ==
    /\ story \in Stories /\ left = story
    /\ remote = 1
    /\ sess = [t \in Tokens |-> Closed]
    /\ chan = [t \in Tokens |-> <<>>]
    /\ run = [c \in Clients |-> FALSE]
    /\ cur = [c \in Clients |-> NoToken]
    /\ sup = [c \in Clients |-> "due"]
    /\ local = [c \in Clients |-> 1]
    /\ base = [c \in Clients |-> 1] /\ saved = base
    /\ event = [c \in Clients |-> FALSE]
    /\ job = [c \in Clients |-> NoJob]
    /\ copies = {} /\ gone = {}
    /\ version = 1 /\ superseded = {} /\ maker = [v \in Versions |-> Nobody]
    /\ asked = {}

Online(c) == cur[c] # NoToken
Idle(c) == job[c].who = "none"
\* The command connection is free: one exchange at a time (cmd_mutex_).
Ready(c) == Online(c) /\ sess[cur[c]].st = "idle"

\* The server has received a request to store val, or to delete the file.
Request(t, val, origin) ==
    [sess EXCEPT ![t].st = "commit", ![t].val = val, ![t].origin = origin]

\* The client of the session is still there; if not, its handler goes on alone.
Live(t) == \E c \in Clients : cur[c] = t

-----------------------------------------------------------------------------
(* The user and the watcher.                                                *)

Spend(kind) == [left EXCEPT ![kind] = @ - 1]

MayEdit(c) ==
    \/ story.habit \in {"any", "stay"}
    \/ story.habit = "laptop" /\ ~Online(c) /\ Idle(c)
    \/ story.habit = "turns" /\ ~run[c]

\* Writing the file; the watcher, while it runs, reports it (enqueue).
Edit(c) ==
    /\ MayEdit(c) /\ left.edits > 0 /\ version < MaxVersion
    /\ left' = Spend("edits")
    /\ version' = version + 1
    /\ local' = [local EXCEPT ![c] = version + 1]
    /\ superseded' = superseded \cup ({local[c]} \cap Versions)
    /\ maker' = [maker EXCEPT ![version + 1] = c]
    /\ event' = [event EXCEPT ![c] = run[c]]
    /\ UNCHANGED <<story, gone, serverVars, run, cur, sup, base, saved, copies, job, asked>>

Erase(c) ==
    /\ MayEdit(c) /\ local[c] # Absent /\ left.deletes > 0
    /\ local' = [local EXCEPT ![c] = Absent]
    /\ superseded' = superseded \cup {local[c]}
    /\ asked' = asked \cup {c}
    /\ left' = Spend("deletes")
    /\ event' = [event EXCEPT ![c] = run[c]]
    /\ UNCHANGED <<story, gone, serverVars, run, cur, sup, base, saved, copies, job, version,
                   maker>>

\* upload <path> and delete <path>: straight to the server, past sync_mutex_
\* and the sync state.
Commanded(c) ==
    /\ Ready(c) /\ job[c].who # "main" /\ left.commands > 0
    /\ left' = Spend("commands")
    /\ UNCHANGED <<story, gone, remote, chan, run, cur, sup, stateVars, job, superseded>>

CmdUpload(c) ==
    /\ Commanded(c) /\ version < MaxVersion
    /\ version' = version + 1
    /\ maker' = [maker EXCEPT ![version + 1] = c]
    /\ sess' = Request(cur[c], version + 1, "command")
    /\ UNCHANGED asked

CmdDelete(c) ==
    /\ Commanded(c)
    /\ asked' = asked \cup {c}
    /\ sess' = Request(cur[c], Absent, "command")
    /\ UNCHANGED <<version, maker>>

-----------------------------------------------------------------------------
(* The connection: run, connect_once, mark_disconnected, shutdown.          *)

MayConnect(c) ==
    \/ story.habit \in {"any", "stay"}
    \/ story.habit = "laptop" /\ \A t \in Tokens : sess[t].st = "closed"
    \/ /\ story.habit = "turns"
       /\ \/ run[c]
          \/ /\ \A d \in Clients : ~run[d]
             /\ \A t \in Tokens : sess[t].st = "closed"

\* Log in, attach the sync connection; the supervisor owes a reconcile.  A
\* session whose client is gone still takes one of the places.
Connect(c) ==
    /\ ~Online(c) /\ job[c].who \notin {"super", "push"} /\ MayConnect(c)
    /\ \E t \in Tokens : sess[t].st = "closed"
    /\ LET t == CHOOSE u \in Tokens : sess[u].st = "closed" IN
          /\ sess' = [sess EXCEPT ![t] = [Closed EXCEPT !.client = c, !.st = "idle"]]
          /\ cur' = [cur EXCEPT ![c] = t]
    /\ run' = [run EXCEPT ![c] = TRUE]
    /\ sup' = [sup EXCEPT ![c] = "due"]
    /\ UNCHANGED <<story, gone, remote, chan, stateVars, job, userVars>>

\* The handler of a session the client has left goes on with a request it has
\* received completely; one still on its way is lost.
Left(t, arrived) ==
    IF sess[t].st = "commit" /\ ~arrived THEN [sess EXCEPT ![t].st = "idle"] ELSE sess

\* The connection breaks, or an exchange or a ping on it times out: both
\* connections are shut down, and what was on its way to the client is lost.
Disconnect(c) ==
    /\ Online(c) /\ left.faults > 0
    /\ left' = Spend("faults")
    /\ \E arrived \in BOOLEAN : sess' = Left(cur[c], arrived)
    /\ chan' = [chan EXCEPT ![cur[c]] = <<>>]
    /\ cur' = [cur EXCEPT ![c] = NoToken]
    /\ sup' = [sup EXCEPT ![c] = "due"]
    /\ job' = [job EXCEPT ![c].st = IF @ = "wait" THEN "failed" ELSE @]
    /\ UNCHANGED <<story, gone, remote, run, stateVars, version, superseded, maker, asked>>

\* shutdown: log out, with nothing in hand.
Exit(c) ==
    /\ run[c] /\ Idle(c) /\ (Online(c) => Ready(c)) /\ story.habit # "stay"
    /\ sess' = IF Online(c) THEN [sess EXCEPT ![cur[c]] = Closed] ELSE sess
    /\ chan' = IF Online(c) THEN [chan EXCEPT ![cur[c]] = <<>>] ELSE chan
    /\ cur' = [cur EXCEPT ![c] = NoToken]
    /\ run' = [run EXCEPT ![c] = FALSE]
    /\ sup' = [sup EXCEPT ![c] = "due"]
    /\ event' = [event EXCEPT ![c] = FALSE]
    /\ UNCHANGED <<story, gone, remote, local, base, saved, copies, job, userVars>>

\* The program is killed: the next one starts from the saved state
\* (SyncState::load).
Kill(c) ==
    /\ run[c] /\ left.kills > 0
    /\ left' = Spend("kills")
    /\ IF Online(c) THEN /\ \E arrived \in BOOLEAN : sess' = Left(cur[c], arrived)
                         /\ chan' = [chan EXCEPT ![cur[c]] = <<>>]
                    ELSE UNCHANGED <<sess, chan>>
    /\ run' = [run EXCEPT ![c] = FALSE]
    /\ cur' = [cur EXCEPT ![c] = NoToken]
    /\ sup' = [sup EXCEPT ![c] = "due"]
    /\ base' = [base EXCEPT ![c] = saved[c]]
    /\ event' = [event EXCEPT ![c] = FALSE]
    /\ job' = [job EXCEPT ![c] = NoJob]
    /\ UNCHANGED <<story, gone, remote, local, saved, copies, version, superseded, maker, asked>>

-----------------------------------------------------------------------------
(* reconcile: by the supervisor after connecting, or by the command sync.   *)

List(c) ==
    /\ Idle(c) /\ Ready(c)
    /\ IF sup[c] = "due" THEN UNCHANGED left ELSE left.commands > 0 /\ left' = Spend("commands")
    /\ job' = [job EXCEPT ![c] = [NoJob EXCEPT !.who = IF sup[c] = "due" THEN "super" ELSE "main",
                                               !.st = "scan", !.val = remote]]
    /\ gone' = gone \ {c}
    /\ UNCHANGED <<story, serverVars, run, cur, sup, stateVars, version, superseded, maker, asked>>

\* Mutation of Plan: an edit here wins over a deletion there only if the file
\* was synced before.
PlanDeletes(here, there, old) ==
    IF here = there THEN "same"
    ELSE IF there = old /\ here # Absent THEN "upload"
    ELSE IF there = old THEN "remove"
    ELSE IF there # Absent THEN "fetch"
    ELSE "unlink"

\* Mutation of Plan: a file that is here as it was at the last sync is skipped.
PlanTrustsRecord(here, there, old) ==
    IF here = there \/ (here = old /\ here # Absent) THEN "same"
    ELSE IF there = old \/ there = Absent
           THEN IF here # Absent THEN "upload" ELSE "remove"
    ELSE "fetch"

\* The three-way comparison of the file here, there, and at the last sync.
Plan(here, there, old) ==
    LET changedHere  == here # old
        changedThere == there # old
        push == IF changedHere # changedThere THEN changedHere
                ELSE here # Absent /\ there = Absent
    IN  IF here = there THEN "same"
        ELSE IF push THEN IF here # Absent THEN "upload" ELSE "remove"
        ELSE IF there # Absent THEN "fetch" ELSE "unlink"

\* list_tree and fill_hash, then the decision: a file that is the same on both
\* sides, or on neither, only has its record brought up to date.
Scan(c) ==
    LET plan == Plan(local[c], job[c].val, base[c]) IN
    /\ job[c].st = "scan"
    /\ job' = [job EXCEPT ![c].here = local[c],
                          ![c].st = CASE plan = "same" -> "save"
                                      [] plan \in {"upload", "remove"} -> "send"
                                      [] plan = "fetch" -> "fetch"
                                      [] plan = "unlink" -> "unlink"]
    /\ base' = IF plan = "same" THEN [base EXCEPT ![c] = local[c]] ELSE base
    /\ UNCHANGED <<story, gone, serverVars, run, cur, sup, local, saved, event, copies, userVars>>

\* upload (with what the file holds by now) or remove_remote.  A file that is
\* gone by now is not sent.
Send(c) ==
    /\ job[c].st = "send" /\ Ready(c)
    /\ IF job[c].here # Absent /\ local[c] = Absent
         THEN job' = [job EXCEPT ![c].st = "save"] /\ UNCHANGED sess
         ELSE /\ job' = [job EXCEPT ![c].st = "wait"]
              /\ sess' = Request(cur[c], IF job[c].here = Absent THEN Absent ELSE local[c], "sync")
    /\ UNCHANGED <<story, gone, remote, chan, run, cur, sup, stateVars, userVars>>

\* download: the server sends what it holds by now, or an error.
Fetch(c) ==
    /\ job[c].st = "fetch" /\ Ready(c)
    /\ job' = IF remote = Absent THEN [job EXCEPT ![c].st = "save"]
              ELSE [job EXCEPT ![c].st = "install", ![c].val = remote]
    /\ gone' = IF remote = Absent THEN gone \cup {c} ELSE gone
    /\ UNCHANGED <<story, serverVars, run, cur, sup, stateVars, userVars>>

\* remove_file and state_.erase, for a file that was deleted on the server; a
\* push has erased and saved the record before.
Unlink(c) ==
    /\ job[c].st = "unlink"
    /\ local' = [local EXCEPT ![c] = Absent]
    /\ base' = [base EXCEPT ![c] = Absent]
    /\ event' = [event EXCEPT ![c] = @ \/ local[c] # Absent]
    /\ job' = [job EXCEPT ![c].st = "save"]
    /\ UNCHANGED <<story, gone, serverVars, run, cur, sup, saved, copies, userVars>>

\* state_.save at the end of reconcile; the supervisor goes on to receive_loop.
Save(c) ==
    /\ job[c].st = "save"
    /\ saved' = [saved EXCEPT ![c] = base[c]]
    /\ job' = [job EXCEPT ![c] = NoJob]
    /\ sup' = IF job[c].who = "super" /\ Online(c) THEN [sup EXCEPT ![c] = "receive"] ELSE sup
    /\ UNCHANGED <<story, gone, serverVars, run, cur, local, base, event, copies, userVars>>

\* The exchange failed, or there is no connection to start one on.
JobFails(c) ==
    /\ job[c].st = "failed" \/ (job[c].st \in {"send", "fetch"} /\ ~Online(c))
    /\ job' = [job EXCEPT ![c].st = "save"]
    /\ UNCHANGED <<story, gone, serverVars, run, cur, sup, stateVars, userVars>>

-----------------------------------------------------------------------------
(* install: a file received by reconcile or by a push.                      *)

\* A local version that was never synced and is not the incoming one is moved
\* to a conflicted copy first.
Keep(c) ==
    IF local[c] \notin {Absent, job[c].val, base[c]}
      THEN /\ copies' = copies \cup {local[c]}
           /\ local' = [local EXCEPT ![c] = Absent]
           /\ event' = [event EXCEPT ![c] = TRUE]
      ELSE UNCHANGED <<local, copies, event>>

\* Mutation of Install: the record is left for the reconcile to set.
InstallOnly(c) ==
    /\ job[c].st = "install"
    /\ Keep(c)
    /\ job' = [job EXCEPT ![c].st = "rename"]
    /\ UNCHANGED <<story, gone, serverVars, run, cur, sup, base, saved, userVars>>

\* ... and the record is set before the rename.
Install(c) ==
    /\ job[c].st = "install"
    /\ Keep(c)
    /\ base' = [base EXCEPT ![c] = job[c].val]
    /\ job' = [job EXCEPT ![c].st = "rename"]
    /\ UNCHANGED <<story, gone, serverVars, run, cur, sup, saved, userVars>>

\* replace_file: the rename makes an event of its own.
Rename(c) ==
    /\ job[c].st = "rename"
    /\ local' = [local EXCEPT ![c] = job[c].val]
    /\ event' = [event EXCEPT ![c] = TRUE]
    /\ job' = [job EXCEPT ![c].st = "save"]
    /\ UNCHANGED <<story, gone, serverVars, run, cur, sup, base, saved, copies, userVars>>

\* Mutation of RenameFails: the record of the file stays.
RenameFailsKeepsRecord(c) ==
    /\ job[c].st = "rename" /\ local[c] = Absent /\ left.faults > 0
    /\ left' = Spend("faults")
    /\ job' = [job EXCEPT ![c].st = "save"]
    /\ UNCHANGED <<story, gone, serverVars, run, cur, sup, local, base, saved, event, copies, version, superseded,
                   maker, asked>>

\* A folder is in the way, or the disk fails: the record is erased again.
RenameFails(c) ==
    /\ job[c].st = "rename" /\ local[c] = Absent /\ left.faults > 0
    /\ left' = Spend("faults")
    /\ base' = [base EXCEPT ![c] = Absent]
    /\ job' = [job EXCEPT ![c].st = "save"]
    /\ UNCHANGED <<story, gone, serverVars, run, cur, sup, local, saved, event, copies, version, superseded,
                   maker, asked>>

-----------------------------------------------------------------------------
(* The worker and receive_loop.                                             *)

\* Mutation of Look: the difference is not looked for when the name is taken
\* from the queue while a push is on its way.
LookLazily(c) ==
    /\ event[c] /\ Online(c) /\ Idle(c)
    /\ event' = [event EXCEPT ![c] = FALSE]
    /\ job' = IF local[c] = base[c] \/ chan[cur[c]] # <<>> THEN job
              ELSE [job EXCEPT ![c] = [NoJob EXCEPT !.who = "worker", !.st = "send",
                                                    !.here = local[c]]]
    /\ UNCHANGED <<story, gone, serverVars, run, cur, sup, local, base, saved, copies, userVars>>

\* sync_local_change, once worker_loop has a connection and sync_mutex_: nothing
\* to do if the file is as it was at the last sync.
Look(c) ==
    /\ event[c] /\ Online(c) /\ Idle(c)
    /\ event' = [event EXCEPT ![c] = FALSE]
    /\ job' = IF local[c] = base[c] THEN job
              ELSE [job EXCEPT ![c] = [NoJob EXCEPT !.who = "worker", !.st = "send",
                                                    !.here = local[c]]]
    /\ UNCHANGED <<story, gone, serverVars, run, cur, sup, local, base, saved, copies, userVars>>

\* handle_push: a file is installed, a deletion erases the record and then the
\* file.
Receive(c) ==
    /\ sup[c] = "receive" /\ Idle(c) /\ Online(c) /\ chan[cur[c]] # <<>>
    /\ LET push == Head(chan[cur[c]]) IN
       /\ job' = [job EXCEPT ![c] = [NoJob EXCEPT !.who = "push", !.val = push,
                                        !.st = IF push = Absent THEN "unlink" ELSE "install"]]
       /\ base' = IF push = Absent THEN [base EXCEPT ![c] = Absent] ELSE base
       /\ saved' = IF push = Absent THEN [saved EXCEPT ![c] = Absent] ELSE saved
    /\ chan' = [chan EXCEPT ![cur[c]] = Tail(@)]
    /\ UNCHANGED <<story, gone, remote, sess, run, cur, sup, local, event, copies, userVars>>

-----------------------------------------------------------------------------
(* The server: handle_upload, handle_delete and the pushes.                 *)

\* The change is made under write_mutex_; a file that is not there cannot be
\* deleted.  What an explicit command replaces, the user meant to replace.
Commit(t) ==
    /\ sess[t].st = "commit"
    /\ remote' = sess[t].val
    /\ sess' = [sess EXCEPT ![t].st = IF remote = Absent /\ sess[t].val = Absent
                                        THEN "refuse" ELSE "reply"]
    /\ superseded' = IF sess[t].origin = "sync" THEN superseded
                     ELSE superseded \cup ({remote} \cap Versions)
    /\ UNCHANGED <<story, gone, chan, run, cur, sup, stateVars, job, version, maker, asked, left>>

\* sync_connections: the sessions a change is pushed to.
Others(t) == {u \in Tokens : Live(u) /\ (u = t => sess[t].origin = "command")}

\* Ok (or the error for a file that is not there) goes to the client, which
\* records what it hashed; with the connection gone, the send may fail, and
\* then nothing is pushed.
Reply(t) ==
    LET c == sess[t].client
        told == Live(t) /\ sess[t].origin = "sync"
    IN
    /\ sess[t].st \in {"reply", "refuse"}
    /\ base' = IF told THEN [base EXCEPT ![c] = job[c].here] ELSE base
    /\ job' = IF told THEN [job EXCEPT ![c].st = "save"] ELSE job
    /\ \E sent \in {TRUE, Live(t)} :
          sess' = IF sent /\ sess[t].st = "reply"
                    THEN [sess EXCEPT ![t].st = "push", ![t].to = Others(t)]
                    ELSE [sess EXCEPT ![t].st = "idle"]
    /\ UNCHANGED <<story, gone, remote, chan, run, cur, sup, local, saved, event, copies, userVars>>

\* push_file sends what the file holds by now, if it is still there;
\* push_delete the deletion.
Push(t) ==
    /\ sess[t].st = "push"
    /\ IF sess[t].to = {} THEN /\ sess' = [sess EXCEPT ![t].st = "idle"]
                               /\ UNCHANGED chan
       ELSE \E u \in sess[t].to :
             /\ sess' = [sess EXCEPT ![t].to = @ \ {u}]
             /\ chan' = IF Live(u) /\ (sess[t].val # Absent => remote # Absent)
                          THEN [chan EXCEPT ![u] = Append(@, IF sess[t].val = Absent
                                                               THEN Absent ELSE remote)]
                          ELSE chan
    /\ UNCHANGED <<story, gone, remote, run, cur, sup, stateVars, job, userVars>>

\* Mutation of SessionEnds: also between two requests of a client that is there.
SessionEndsEarly(t) ==
    /\ sess[t].st = "idle"
    /\ sess' = [sess EXCEPT ![t] = Closed]
    /\ UNCHANGED <<story, gone, remote, chan, run, cur, sup, stateVars, job, userVars>>

\* The handler finds the connection closed, or hears nothing for 30 s: the
\* session ends.
SessionEnds(t) ==
    /\ sess[t].st = "idle" /\ ~Live(t)
    /\ sess' = [sess EXCEPT ![t] = Closed]
    /\ UNCHANGED <<story, gone, remote, chan, run, cur, sup, stateVars, job, userVars>>

-----------------------------------------------------------------------------
ClientStep(c) ==
    \/ Scan(c) \/ Send(c) \/ Fetch(c) \/ Unlink(c) \/ Save(c) \/ JobFails(c)
    \/ Install(c) \/ Rename(c) \/ Look(c) \/ Receive(c)

ServerStep(t) == Commit(t) \/ Reply(t) \/ Push(t) \/ SessionEnds(t)

SyncNext ==
    \/ \E c \in Clients :
          \/ Edit(c) \/ Erase(c) \/ CmdUpload(c) \/ CmdDelete(c)
          \/ Connect(c) \/ Disconnect(c) \/ Exit(c) \/ Kill(c)
          \/ List(c) \/ ClientStep(c) \/ RenameFails(c)
    \/ \E t \in Tokens : ServerStep(t)

SyncSpec == SyncInit /\ [][SyncNext]_syncVars

\* The threads of both programs run.
SyncFairness ==
    /\ \A c \in Clients : WF_syncVars(ClientStep(c))
    /\ \A t \in Tokens : WF_syncVars(ServerStep(t))

-----------------------------------------------------------------------------
(* Properties.                                                              *)

\* The version is still somewhere: on a disk, or about to reach one.
Kept(v) ==
    \/ v = remote \/ v \in copies
    \/ \E c \in Clients : \/ local[c] = v
                          \/ job[c].st \in {"install", "rename"} /\ job[c].val = v
    \/ \E t \in Tokens : sess[t].st = "commit" /\ sess[t].val = v
    \/ \E t \in Tokens, i \in 1..MaxVersion : i <= Len(chan[t]) /\ chan[t][i] = v

NoEditLost == \A v \in 1..version : v \in superseded \/ Kept(v)

\* "Changes made while the client wasn't running are applied in the right
\* direction", and "neither edit is lost": when the clients run in turns, no
\* edit is lost, wherever reconcile, an upload or an install is cut short.
\* (What an upload command took to a connection that breaks is not kept: the user
\* is told, and the file is where it was taken from.)
TurnsKeepEdits == story.habit = "turns" /\ story.commands = 0 => NoEditLost

\* The same for clients that run on while their machine is offline.
OfflineEditsKept == story.habit = "laptop" => NoEditLost

\* No local change goes unnoticed: a connected client that has reconciled and
\* is not busy has synced the file or holds an event for it.
DirtyIsNoticed ==
    \A c \in Clients :
        sup[c] = "receive" /\ Idle(c) /\ local[c] # base[c] =>
            event[c] \/ c \in gone

NoneKilled == left.kills = story.kills

\* A client only uploads what was written in its own sync_dir: what it received
\* never bounces back, unless it was killed before it saved that it received it.
NoEcho ==
    NoneKilled =>
    \A t \in Tokens :
        sess[t].st = "commit" /\ sess[t].origin = "sync" /\ sess[t].val # Absent =>
            maker[sess[t].val] = sess[t].client

\* A client only deletes the file on the server if the user deleted it there:
\* what was deleted for it, or moved away, is not taken for a deletion.
RemovalsAreAsked ==
    NoneKilled =>
    \A t \in Tokens : sess[t].st = "commit" /\ sess[t].val = Absent => sess[t].client \in asked

\* Whatever happened, clients that finish a reconcile (or a push or an upload, of
\* which there are only so many) again and again end up with what the server has.
Converges ==
    (\A c \in Clients : []<>(job[c].st = "save")) =>
        <>[](\A c \in Clients : local[c] = remote)
=============================================================================
