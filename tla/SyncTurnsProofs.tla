-------------------------- MODULE SyncTurnsProofs --------------------------
(***************************************************************************)
(* When the clients run in turns, no edit is lost: TurnsKeepEdits of       *)
(* module Sync, for any number of clients, sessions, edits, broken         *)
(* connections and killed clients.                                         *)
(*                                                                         *)
(* That a version is somewhere is not inductive: a step that drops one     *)
(* copy needs to know where another is.  TurnsInv says what there is to    *)
(* know.  Every file and every record that is not what the server has is   *)
(* an old version, one the user replaced (RecordOK); every request that    *)
(* handlers of broken connections still hold is for what the running       *)
(* client has (RequestsOK, ServedOK); and while such a request is about,   *)
(* reconcile does not take the server's file for news (WorkerOK): it plans *)
(* to send its own, or has what the server is going to have.               *)
(***************************************************************************)
EXTENDS SyncProofs

\* The clients run in turns, and the user gives no commands.
Turns == story.habit = "turns" /\ story.commands = 0

\* What is no edit to lose: no file, or a version the user replaced.
Old(v) == v = Absent \/ v \in superseded

\* A request has come to the server and is not served yet.
Pending == \E t \in Tokens : sess[t].st = "commit"

\* One client runs at a time.
Alone == \A c, d \in Clients : run[c] /\ run[d] => c = d

\* Nothing is on its way on a connection that is gone.
LinksOK == \A t \in Tokens : ~Live(t) => chan[t] = <<>>

\* What the records of a client say of its file and of the server's, in memory
\* and on disk.  While install has set the record and not yet renamed, the file
\* is still the one before.
RecordOK(c) ==
    /\ job[c].st # "rename" => base[c] = local[c] \/ Old(base[c])
    /\ base[c] = remote \/ Old(base[c])
    /\ saved[c] = local[c] \/ Old(saved[c])
    /\ saved[c] = remote \/ Old(saved[c])

\* The requests are all for the same, which replaces nothing new.
RequestsOK ==
    /\ \A t \in Tokens : sess[t].st = "commit" =>
          sess[t].origin = "sync" /\ (remote = sess[t].val \/ Old(remote))
    /\ \A t, u \in Tokens : sess[t].st = "commit" /\ sess[u].st = "commit" => sess[t].val = sess[u].val

\* The sessions of the client that runs: what they are to do, have done and are
\* telling is what the client has.
ServedOK(c) ==
    \A t \in Tokens :
        /\ sess[t].st # "closed" => sess[t].client = c
        /\ sess[t].st = "commit" => sess[t].val = local[c]
        /\ sess[t].st \in {"reply", "refuse", "push"} => sess[t].val = remote /\ remote = local[c]
        /\ \A i \in DOMAIN chan[t] : chan[t][i] = remote /\ remote = local[c]

\* With this on the server, reconcile would send what the client has, if anything.
Pushes(there, c) == Plan(local[c], there, base[c]) \in {"same", "upload", "remove"}

\* What the client that runs is doing goes the right way, also for what the
\* server is about to have.  Only a rename leaves an event with something to do.
WorkerOK(c) ==
    /\ Pending \/ job[c].st = "send" => Pushes(remote, c)
    /\ job[c].st = "scan" =>
          job[c].val = remote \/ (remote = local[c] /\ Pushes(job[c].val, c))
    /\ job[c].st \in {"send", "wait"} =>
          job[c].here = local[c] /\ (remote = local[c] \/ Old(remote))
    /\ job[c].st \in {"fetch", "install", "rename", "unlink"} /\ Pending => remote = local[c]
    /\ job[c].st \in {"install", "rename"} => job[c].val = remote
    /\ job[c].st = "unlink" => remote = Absent /\ Old(local[c])
    /\ job[c].st = "rename" => local[c] = remote \/ Old(local[c])
    /\ event[c] /\ job[c].st # "rename" => local[c] = base[c]

\* The version is still somewhere, or was replaced: like Kept, but in a place
\* that no single step clears.
Safe(v) == \/ v \in superseded \cup copies \cup {remote}
           \/ \E c \in Clients : local[c] = v
           \/ \E t \in Tokens : sess[t].st = "commit" /\ sess[t].val = v

AllSafe == \A v \in 1..version : Safe(v)

\* All that is known of one client.
TurnOK(c) == RecordOK(c) /\ (run[c] => ServedOK(c) /\ WorkerOK(c))

\* The inductive invariant.
TurnsInv == Turns => Alone /\ RequestsOK /\ AllSafe /\ \A c \in Clients : TurnOK(c)

\* Nothing is on its way in the beginning.
LEMMA LinksInit == SyncInit => LinksOK
BY DEF SyncInit, LinksOK

\* Disconnect, Exit and Kill drop what is on its way, and Push sends to the sessions that
\* are in sync_connections only.
LEMMA LinksNext == SyncTypeInv /\ LinksOK /\ [SyncNext]_syncVars => LinksOK'
<1> SUFFICES ASSUME SyncTypeInv, LinksOK, [SyncNext]_syncVars, NEW t \in Tokens, ~Live(t)'
             PROVE  chan'[t] = <<>>
  BY DEF LinksOK
<1>1. CASE UNCHANGED <<chan, cur>>
  BY <1>1 DEF LinksOK, Live
<1>2. ASSUME NEW c \in Clients, Connect(c) PROVE chan'[t] = <<>>
  <2>1. UNCHANGED chan /\ ~Online(c) /\ \E u : cur' = [cur EXCEPT ![c] = u]
    BY <1>2 DEF Connect
  <2>2. ~Live(t)
    BY <2>1, Tables, SyncAssumption DEF Live, Online
  <2> QED BY <2>1, <2>2 DEF LinksOK
<1>3. ASSUME NEW c \in Clients, Disconnect(c) \/ Exit(c) \/ Kill(c) PROVE chan'[t] = <<>>
  <2>1. /\ cur' = [cur EXCEPT ![c] = NoToken]
        /\ chan' = IF Online(c) THEN [chan EXCEPT ![cur[c]] = <<>>] ELSE chan
    BY <1>3 DEF Disconnect, Exit, Kill
  <2>2. CASE cur[c] = t
    BY <2>1, <2>2, Tables, SyncAssumption DEF Online
  <2>3. CASE cur[c] # t
    <3>1. ~Live(t)
      BY <2>1, <2>3, Tables DEF Live
    <3> QED BY <2>1, <2>3, <3>1, Tables DEF LinksOK
  <2> QED BY <2>2, <2>3
<1>4. ASSUME NEW c \in Clients, Receive(c) PROVE chan'[t] = <<>>
  <2>1. UNCHANGED cur /\ Online(c) /\ chan' = [chan EXCEPT ![cur[c]] = Tail(@)]
    BY <1>4, Zenon DEF Receive
  <2>2. ~Live(t) /\ cur[c] # t
    BY <2>1 DEF Live
  <2> QED BY <2>1, <2>2, Tables DEF LinksOK
<1>5. ASSUME NEW u \in Tokens, Push(u) PROVE chan'[t] = <<>>
  <2>1. UNCHANGED cur /\ (chan' = chan \/ \E w, v : Live(w) /\ chan' = [chan EXCEPT ![w] = Append(@, v)])
    BY <1>5 DEF Push
  <2>2. ~Live(t)
    BY <2>1 DEF Live
  <2> QED BY <2>1, <2>2, Tables DEF LinksOK
<1>6. ASSUME NEW c \in Clients,
             \/ Edit(c) \/ Erase(c) \/ CmdUpload(c) \/ CmdDelete(c) \/ List(c) \/ RenameFails(c)
             \/ Scan(c) \/ Send(c) \/ Fetch(c) \/ Unlink(c) \/ Save(c) \/ JobFails(c)
             \/ Install(c) \/ Rename(c) \/ Look(c)
      PROVE  chan'[t] = <<>>
  <2>1. UNCHANGED <<chan, cur>>
    BY <1>6, Zenon DEF Edit, Erase, CmdUpload, CmdDelete, Commanded, List, RenameFails, Scan, Send,
           Fetch,
                       Unlink, Save, JobFails, Install, Rename, Look, serverVars
  <2> QED BY <1>1, <2>1
<1>7. ASSUME NEW u \in Tokens, Commit(u) \/ Reply(u) \/ SessionEnds(u) PROVE chan'[t] = <<>>
  <2>1. UNCHANGED <<chan, cur>>
    BY <1>7, Zenon DEF Commit, Reply, SessionEnds
  <2> QED BY <1>1, <2>1
<1>8. CASE UNCHANGED syncVars
  BY <1>1, <1>8 DEF syncVars, serverVars
<1> QED BY <1>2, <1>3, <1>4, <1>5, <1>6, <1>7, <1>8, Zenon DEF SyncNext, ClientStep, ServerStep

\* Everything is in sync in the beginning, and no client runs.
LEMMA TurnsInit == SyncInit => TurnsInv
<1> SUFFICES ASSUME SyncInit PROVE Alone /\ RequestsOK /\ AllSafe /\ \A c \in Clients : TurnOK(c)
  BY DEF TurnsInv
<1>1. Alone /\ RequestsOK
  BY DEF SyncInit, Alone, RequestsOK, Closed
<1>2. AllSafe
  BY DEF SyncInit, AllSafe, Safe
<1>3. \A c \in Clients : TurnOK(c)
  BY DEF SyncInit, TurnOK, RecordOK
<1> QED BY <1>1, <1>2, <1>3

\* The hypotheses of a step of a turn.
Turn == SyncTypeInv /\ JobInv /\ LinksOK /\ Turns /\ TurnsInv

\* What a step of a turn may start from, spelled out for one client.
LEMMA TurnFacts ==
  ASSUME Turn
  PROVE  /\ Alone /\ RequestsOK /\ AllSafe
         /\ \A c \in Clients : /\ JobOK(c) /\ WaitOK(c) /\ RecordOK(c)
                               /\ run[c] => ServedOK(c) /\ WorkerOK(c)
                               /\ ~run[c] => Idle(c) /\ ~event[c] /\ job[c].st = "idle"
         /\ left.commands = 0
<1>1. \A c \in Clients : JobOK(c) /\ WaitOK(c) /\ (~run[c] => Idle(c) /\ ~event[c] /\ job[c].st = "idle")
  BY DEF Turn, JobInv, JobOK
<1>2. left.commands = 0
  <2>1. story.commands = 0 /\ left["commands"] \in 0..story["commands"]
    BY DEF Turn, Turns, SyncTypeInv, SyncTypeOK
  <2> QED BY <2>1
<1> QED BY <1>1, <1>2, Zenon DEF Turn, TurnsInv, TurnOK

\* Another client is not concerned: it does not run.
LEMMA TurnFrame ==
  ASSUME Turn, NEW c \in Clients, run[c], superseded \subseteq superseded', remote' = remote,
         \A d \in Clients : run'[d] => run[d],
         \A d \in Clients \ {c} : /\ local'[d] = local[d] /\ base'[d] = base[d] /\ saved'[d] = saved[d]
                                  /\ job'[d] = job[d],
         RequestsOK', AllSafe', TurnOK(c)'
  PROVE  TurnsInv'
<1>1. Alone'
  BY TurnFacts DEF Alone
<1>2. ASSUME NEW d \in Clients \ {c} PROVE TurnOK(d)'
  <2>1. ~run'[d]
    BY TurnFacts DEF Alone
  <2>2. RecordOK(d)'
    BY TurnFacts DEF RecordOK, Old
  <2> QED BY <2>1, <2>2 DEF TurnOK
<1> QED BY <1>1, <1>2 DEF TurnsInv

\* A step that makes no request leaves the others good.
LEMMA RequestsKept ==
  ASSUME Turn, superseded \subseteq superseded', remote' = remote,
         \A t \in Tokens : sess'[t].st = "commit" => sess'[t] = sess[t]
  PROVE  RequestsOK'
<1>1. RequestsOK
  BY TurnFacts
<1> QED BY <1>1 DEF RequestsOK, Old

\* No version is lost by a step that leaves the server's file alone, if what the one client
\* had is still there, or was replaced, and no request is dropped but one for what it has.
LEMMA SafeKept ==
  ASSUME Turn, superseded \subseteq superseded', copies \subseteq copies', remote' = remote, version' = version,
         NEW c \in Clients, \A d \in Clients \ {c} : local'[d] = local[d],
         local[c] \in superseded' \cup copies' \cup {Absent, remote, local'[c]},
         \A t \in Tokens : sess[t].st = "commit" => sess'[t] = sess[t] \/ sess[t].val = local'[c]
  PROVE  AllSafe'
<1> SUFFICES ASSUME NEW v \in 1..version PROVE Safe(v)'
  BY DEF AllSafe
<1>1. Safe(v) /\ v # Absent
  BY TurnFacts, SyncAssumption DEF AllSafe
<1>2. CASE v \in superseded \cup copies \cup {remote}
  BY <1>2 DEF Safe
<1>3. ASSUME NEW d \in Clients, local[d] = v PROVE Safe(v)'
  BY <1>1, <1>3 DEF Safe
<1>4. ASSUME NEW t \in Tokens, sess[t].st = "commit", sess[t].val = v PROVE Safe(v)'
  BY <1>4 DEF Safe
<1> QED BY <1>1, <1>2, <1>3, <1>4 DEF Safe

\* The user edits or deletes the file of a client that does not run.
LEMMA TurnUser == \A c \in Clients : Turn /\ (Edit(c) \/ Erase(c)) => TurnsInv'
<1> SUFFICES ASSUME NEW c \in Clients, Turn, Edit(c) \/ Erase(c) PROVE TurnsInv'
  OBVIOUS
<1>1. ~run[c]
  BY DEF Edit, Erase, MayEdit, Turn, Turns
<1>2. /\ UNCHANGED <<remote, sess, chan, run, cur, base, saved, job, copies>>
      /\ superseded \subseteq superseded'
      /\ \A d \in Clients \ {c} : local'[d] = local[d] /\ event'[d] = event[d]
  BY Tables DEF Edit, Erase, serverVars, Turn
<1>3. local[c] \in superseded' \cup {Absent} /\ ~event'[c]
  BY <1>1, Tables, ContentTypes DEF Edit, Erase, Turn
<1>4. Alone' /\ RequestsOK'
  BY <1>2, TurnFacts, RequestsKept DEF Alone
<1>5. AllSafe'
  <2>1. CASE Edit(c)
    <3>1. version' = version + 1 /\ local'[c] = version'
      BY <2>1, Tables DEF Edit, Turn
    <3>2. ASSUME NEW v \in 1..version PROVE Safe(v)'
      <4>1. Safe(v) /\ v # Absent
        BY TurnFacts, SyncAssumption DEF AllSafe
      <4>2. CASE local[c] = v
        BY <1>3, <4>1, <4>2 DEF Safe
      <4>3. CASE local[c] # v
        BY <1>2, <4>1, <4>3 DEF Safe
      <4> QED BY <4>2, <4>3
    <3>3. ASSUME NEW v, v = version' PROVE Safe(v)'
      BY <3>1, <3>3 DEF Safe
    <3>4. version \in Nat
      BY DEF Turn, SyncTypeInv, SyncTypeOK, Versions
    <3>5. ASSUME NEW v \in 1..version' PROVE Safe(v)'
      BY <3>1, <3>2, <3>3, <3>4
    <3> QED BY <3>5 DEF AllSafe
  <2>2. CASE Erase(c)
    <3>1. version' = version
      BY <2>2 DEF Erase
    <3> QED BY <1>2, <1>3, <3>1, SafeKept
  <2> QED BY <2>1, <2>2
<1>6. ASSUME NEW d \in Clients PROVE TurnOK(d)'
  <2>1. RecordOK(d) /\ (d = c => job[d].st = "idle")
    BY <1>1, TurnFacts
  <2>2. RecordOK(d)'
    BY <1>2, <1>3, <2>1 DEF RecordOK, Old
  <2>3. ASSUME run[d] PROVE ServedOK(d)' /\ WorkerOK(d)'
    <3>1. d # c /\ ServedOK(d) /\ WorkerOK(d)
      BY <1>1, <2>3, TurnFacts
    <3>2. local'[d] = local[d] /\ event'[d] = event[d] /\ UNCHANGED <<remote, base, sess, job, chan>>
      BY <1>2, <3>1
    <3>3. ServedOK(d)'
      BY <3>1, <3>2 DEF ServedOK
    <3>4. WorkerOK(d)'
      BY <1>2, <3>1, <3>2 DEF WorkerOK, Pushes, Pending, Old
    <3> QED BY <3>3, <3>4
  <2> QED BY <1>2, <2>2, <2>3 DEF TurnOK
<1> QED BY <1>4, <1>5, <1>6 DEF TurnsInv

\* In a turn there are no commands.
LEMMA TurnCommand == \A c \in Clients : Turn => ~CmdUpload(c) /\ ~CmdDelete(c)
BY TurnFacts DEF CmdUpload, CmdDelete, Commanded

\* A client that starts finds no session of another one, and none of its own
\* with something in hand.
LEMMA TurnConnect == \A c \in Clients : Turn /\ Connect(c) => TurnsInv'
<1> SUFFICES ASSUME NEW c \in Clients, Turn, Connect(c) PROVE TurnsInv'
  OBVIOUS
<1>1. PICK t \in Tokens : /\ sess[t].st = "closed"
                          /\ sess' = [sess EXCEPT ![t] = [Closed EXCEPT !.client = c, !.st = "idle"]]
  BY DEF Connect
<1>2. /\ UNCHANGED <<remote, chan, local, base, saved, event, copies, job, superseded, version>>
      /\ run' = [run EXCEPT ![c] = TRUE] /\ ~Online(c)
  BY DEF Connect, stateVars, userVars
<1>3. \/ run[c]
      \/ (\A d \in Clients : ~run[d]) /\ \A u \in Tokens : sess[u].st = "closed"
  BY DEF Connect, MayConnect, Turn, Turns
<1>4. sess'[t].st = "idle" /\ sess'[t].client = c /\ \A u \in Tokens \ {t} : sess'[u] = sess[u]
  BY <1>1, Tables DEF Closed, Turn
<1>5. Alone'
  BY <1>2, <1>3, TurnFacts, Tables DEF Alone, Turn
<1>6. RequestsOK' /\ AllSafe'
  BY <1>1, <1>2, <1>4, RequestsKept, SafeKept
<1>7. ASSUME NEW d \in Clients PROVE TurnOK(d)'
  <2>1. RecordOK(d)'
    BY <1>2, TurnFacts DEF RecordOK, Old
  <2>2. ASSUME run'[d] PROVE ServedOK(d)' /\ WorkerOK(d)'
    <3>1. d = c
      BY <1>2, <1>3, <2>2, TurnFacts, Tables DEF Alone, Turn
    <3>2. Pending' <=> Pending
      BY <1>1, <1>4 DEF Pending
    <3>3. CASE run[c]
      <4>1. ServedOK(c) /\ WorkerOK(c)
        BY <3>3, TurnFacts
      <4>2. WorkerOK(c)'
        BY <1>2, <3>2, <4>1 DEF WorkerOK, Pushes, Old
      <4>3. ServedOK(c)'
        BY <1>2, <1>4, <4>1 DEF ServedOK
      <4> QED BY <3>1, <4>2, <4>3
    <3>4. CASE ~run[c]
      <4>1. job[c].st = "idle" /\ ~event[c] /\ ~Pending
        BY <1>3, <3>4, TurnFacts DEF Pending
      <4>2. WorkerOK(c)'
        BY <1>2, <3>2, <4>1 DEF WorkerOK
      <4>3. \A u \in Tokens : chan[u] = <<>>
        <5>1. \A u \in Tokens : ~Live(u)
          BY <1>3, <3>4, Tables, SyncAssumption DEF Live, Turn
        <5> QED BY <5>1 DEF LinksOK, Turn
      <4>4. \A u \in Tokens : sess[u].st = "closed"
        BY <1>3, <3>4
      <4>5. ServedOK(c)'
        BY <1>2, <1>4, <4>3, <4>4 DEF ServedOK
      <4> QED BY <3>1, <4>2, <4>5
    <3> QED BY <3>3, <3>4
  <2> QED BY <2>1, <2>2 DEF TurnOK
<1> QED BY <1>5, <1>6, <1>7 DEF TurnsInv

\* What a client that is gone leaves of its request; what was on its way is
\* still in its sync_dir.
LEMMA TurnLeave ==
  \A c \in Clients : Turn /\ (Disconnect(c) \/ Exit(c) \/ Kill(c)) => TurnsInv'
<1> SUFFICES ASSUME NEW c \in Clients, Turn, Disconnect(c) \/ Exit(c) \/ Kill(c) PROVE TurnsInv'
  OBVIOUS
<1>1. /\ run[c] /\ \A d \in Clients : run'[d] => run[d]
      /\ UNCHANGED <<remote, local, saved, copies, superseded, version>>
      /\ \A d \in Clients \ {c} : base'[d] = base[d] /\ job'[d] = job[d]
  <2>1. CASE Disconnect(c)
    BY <2>1, CurrentSession, Tables DEF Disconnect, Turn, stateVars
  <2>2. CASE Exit(c)
    BY <2>2, Tables DEF Exit, Turn, userVars
  <2>3. CASE Kill(c)
    BY <2>3, Tables DEF Kill, Turn
  <2> QED BY <2>1, <2>2, <2>3
<1>2. ServedOK(c) /\ WorkerOK(c) /\ RecordOK(c)
  BY <1>1, TurnFacts
<1>3. \A t \in Tokens : \/ sess'[t] = sess[t]
                        \/ /\ sess'[t].st \in {"idle", "closed"}
                           /\ sess'[t].st = "idle" => sess'[t].client = sess[t].client /\ sess[t].st = "commit"
                           /\ sess[t].st \in {"idle", "commit"}
  <2>1. CASE Exit(c)
    BY <2>1, Tables DEF Exit, Ready, Closed, Turn
  <2>2. CASE Disconnect(c) \/ Kill(c)
    <3>1. sess' = sess \/ \E arrived \in BOOLEAN : sess' = Left(cur[c], arrived)
      BY <2>2 DEF Disconnect, Kill
    <3>2. sess' = sess \/ (sess[cur[c]].st = "commit" /\ sess' = [sess EXCEPT ![cur[c]].st = "idle"])
      BY <3>1 DEF Left
    <3>3. ASSUME sess[cur[c]].st = "commit", sess' = [sess EXCEPT ![cur[c]].st = "idle"], NEW t \in Tokens
          PROVE  sess'[t] = sess[t] \/ (/\ sess'[t].st = "idle" /\ sess'[t].client = sess[t].client
                                       /\ sess[t].st = "commit")
      BY <3>3, Tables DEF SessStates, Turn
    <3> QED BY <3>2, <3>3
  <2> QED BY <2>1, <2>2
<1>4. RequestsOK'
  BY <1>1, <1>3, RequestsKept
<1>5. AllSafe'
  BY <1>1, <1>2, <1>3, SafeKept DEF ServedOK
<1>6. RecordOK(c)'
  <2>1. /\ base'[c] = base[c] \/ (base'[c] = saved[c] /\ job'[c].st = "idle")
        /\ job'[c].st = "rename" => job[c].st = "rename"
        /\ job'[c].st # "rename" => job[c].st # "rename" \/ (base'[c] = saved[c] /\ job'[c].st = "idle")
    BY Tables DEF Disconnect, Exit, Kill, Turn, NoJob, stateVars, JobStates
  <2> QED BY <1>1, <1>2, <2>1 DEF RecordOK, Old
<1>7. ASSUME run'[c] PROVE ServedOK(c)' /\ WorkerOK(c)'
  <2>1. Disconnect(c)
    BY <1>7, Tables DEF Exit, Kill, Turn
  <2>2. /\ UNCHANGED <<base, event>>
        /\ chan' = [chan EXCEPT ![cur[c]] = <<>>]
        /\ job' = [job EXCEPT ![c].st = IF @ = "wait" THEN "failed" ELSE @]
    BY <2>1 DEF Disconnect, stateVars
  <2>3. ServedOK(c)'
    <3>1. \A t \in Tokens : chan'[t] = chan[t] \/ chan'[t] = <<>>
      BY <2>2, Tables DEF Turn
    <3> QED BY <1>1, <1>2, <1>3, <3>1 DEF ServedOK
  <2>4. WorkerOK(c)'
    <3>1. Pending' => Pending
      BY <1>3 DEF Pending
    <3>2. \/ job[c].st = "wait" /\ job'[c].st = "failed"
          \/ job'[c] = job[c]
      BY <2>2, Tables DEF Turn, JobStates
    <3> QED BY <1>1, <1>2, <2>2, <3>1, <3>2 DEF WorkerOK, Pushes, Old
  <2> QED BY <2>3, <2>4
<1> QED BY <1>1, <1>4, <1>5, <1>6, <1>7, TurnFrame DEF TurnOK

\* A step of a client that makes no request and does nothing to the file: what
\* becomes of its job and its record.
LEMMA TurnQuiet ==
  ASSUME Turn, NEW c \in Clients, run[c],
         UNCHANGED <<remote, local, sess, chan, run, superseded, copies, version>>,
         \A d \in Clients \ {c} : base'[d] = base[d] /\ saved'[d] = saved[d] /\ job'[d] = job[d],
         RecordOK(c)', WorkerOK(c)'
  PROVE  TurnsInv'
<1>1. RequestsOK' /\ AllSafe'
  BY RequestsKept, SafeKept
<1>2. ServedOK(c)'
  BY TurnFacts DEF ServedOK
<1> QED BY <1>1, <1>2, TurnFrame DEF TurnOK

\* reconcile up to its decision, and the worker: what was written here is sent when the
\* server has what the record says, what is fetched replaces nothing new.
LEMMA TurnReconcile ==
  \A c \in Clients : Turn /\ (List(c) \/ Scan(c) \/ Fetch(c) \/ Save(c) \/ JobFails(c) \/ Look(c)) => TurnsInv'
<1> SUFFICES ASSUME NEW c \in Clients, Turn, List(c) \/ Scan(c) \/ Fetch(c) \/ Save(c) \/ JobFails(c) \/ Look(c)
             PROVE  TurnsInv'
  OBVIOUS
<1>1. run[c]
  <2>1. Online(c) \/ job[c].st # "idle"
    BY DEF List, Scan, Fetch, Save, JobFails, Look, Ready
  <2> QED BY <2>1, TurnFacts, CurrentSession DEF Turn
<1>2. /\ UNCHANGED <<remote, local, sess, chan, run, superseded, copies, version>>
      /\ \A d \in Clients \ {c} : base'[d] = base[d] /\ saved'[d] = saved[d] /\ job'[d] = job[d]
      /\ event'[c] => event[c]
  BY Tables DEF List, Scan, Fetch, Save, JobFails, Look, Turn, serverVars, stateVars, userVars
<1>3. RecordOK(c) /\ WorkerOK(c) /\ JobOK(c)
  BY <1>1, TurnFacts
<1>4. Pending' <=> Pending
  BY <1>2 DEF Pending
<1>5. RecordOK(c)' /\ WorkerOK(c)'
  <2> USE Tables DEF Turn, JobStates
  <2>1. CASE List(c)
    <3>1. /\ UNCHANGED <<base, saved>> /\ job[c].st = "idle"
          /\ job'[c].st = "scan" /\ job'[c].val = remote
      BY <1>3, <2>1 DEF List, NoJob, Idle, JobOK, stateVars
    <3> QED BY <1>2, <1>3, <1>4, <3>1 DEF RecordOK, WorkerOK, Pushes, Old
  <2>2. CASE Scan(c)
    <3> DEFINE plan == Plan(local[c], job[c].val, base[c])
    <3>1. /\ UNCHANGED saved /\ job[c].st = "scan"
          /\ job'[c].here = local[c] /\ job'[c].val = job[c].val
          /\ plan = "same" => job'[c].st = "save" /\ base'[c] = local[c]
          /\ plan # "same" => base'[c] = base[c]
          /\ plan \in {"upload", "remove"} => job'[c].st = "send"
          /\ plan = "fetch" => job'[c].st = "fetch"
          /\ plan = "unlink" => job'[c].st = "unlink"
          /\ plan \in {"same", "upload", "remove", "fetch", "unlink"}
      <4>1. plan \in {"same", "upload", "remove", "fetch", "unlink"}
        BY DEF Plan
      <4> HIDE DEF plan
      <4>2. /\ job[c].st = "scan" /\ UNCHANGED saved
            /\ base' = IF plan = "same" THEN [base EXCEPT ![c] = local[c]] ELSE base
            /\ job' = [job EXCEPT ![c].here = local[c],
                                  ![c].st = CASE plan = "same" -> "save"
                                              [] plan \in {"upload", "remove"} -> "send"
                                              [] plan = "fetch" -> "fetch"
                                              [] plan = "unlink" -> "unlink"]
        BY <2>2 DEF Scan, plan
      <4> QED BY <4>1, <4>2
    <3>2. CASE plan = "same"
      <4>1. local[c] = job[c].val
        BY <3>2 DEF Plan
      <4>2. remote = local[c]
        BY <1>3, <3>1, <4>1 DEF WorkerOK
      <4>3. Pushes(remote, c)'
        BY <1>2, <4>2 DEF Pushes, Plan
      <4> QED BY <1>2, <1>3, <3>1, <3>2, <4>2, <4>3 DEF RecordOK, WorkerOK, Old
    <3>3. CASE plan \in {"upload", "remove"}
      <4>1. Pushes(remote, c)'
        BY <1>2, <1>3, <3>1, <3>3 DEF WorkerOK, Pushes, Plan
      <4>2. remote = local[c] \/ Old(remote)
        BY <1>3, <3>1, <3>3 DEF WorkerOK, RecordOK, Plan, Old
      <4> QED BY <1>2, <1>3, <3>1, <3>3, <4>1, <4>2 DEF RecordOK, WorkerOK, Old
    <3>4. CASE plan \in {"fetch", "unlink"}
      <4>1. job[c].val = remote
        BY <1>3, <3>1, <3>4 DEF WorkerOK, Pushes
      <4>2. ~Pending
        BY <1>3, <3>4, <4>1 DEF WorkerOK, Pushes
      <4>3. plan = "unlink" => remote = Absent /\ Old(local[c])
        BY <1>3, <3>1, <3>4, <4>1 DEF RecordOK, Plan, Old
      <4> QED BY <1>2, <1>3, <1>4, <3>1, <3>4, <4>2, <4>3 DEF RecordOK, WorkerOK, Old
    <3> QED BY <3>1, <3>2, <3>3, <3>4
  <2>3. CASE Fetch(c)
    <3>1. /\ UNCHANGED <<base, saved>> /\ job[c].st = "fetch"
          /\ \/ job'[c].st = "save"
             \/ job'[c].st = "install" /\ job'[c].val = remote
      BY <2>3 DEF Fetch, stateVars
    <3> QED BY <1>2, <1>3, <1>4, <3>1 DEF RecordOK, WorkerOK, Pushes, Old
  <2>4. CASE Save(c)
    <3>1. /\ UNCHANGED base /\ saved'[c] = base[c] /\ job[c].st = "save" /\ job'[c].st = "idle"
      BY <2>4 DEF Save, NoJob
    <3> QED BY <1>2, <1>3, <1>4, <3>1 DEF RecordOK, WorkerOK, Pushes, Old
  <2>5. CASE JobFails(c)
    <3>1. /\ UNCHANGED <<base, saved>> /\ job[c].st \in {"failed", "send", "fetch"} /\ job'[c].st = "save"
      BY <2>5 DEF JobFails, stateVars
    <3> QED BY <1>2, <1>3, <1>4, <3>1 DEF RecordOK, WorkerOK, Pushes, Old
  <2>6. CASE Look(c)
    <3>1. /\ UNCHANGED <<base, saved>> /\ event[c] /\ job[c].st = "idle"
          /\ local[c] = base[c] => job' = job
      BY <1>3, <2>6 DEF Look, Idle, JobOK
    <3>2. local[c] = base[c]
      BY <1>3, <3>1 DEF WorkerOK
    <3> QED BY <1>2, <1>3, <1>4, <3>1, <3>2 DEF RecordOK, WorkerOK, Pushes, Old
  <2> HIDE DEF Turn, JobStates
  <2> QED BY ONLY <2>1, <2>2, <2>3, <2>4, <2>5, <2>6,
                  List(c) \/ Scan(c) \/ Fetch(c) \/ Save(c) \/ JobFails(c) \/ Look(c)
<1> QED BY <1>1, <1>2, <1>5, TurnQuiet

\* A request carries what the client has, and replaces what the user replaced.
LEMMA TurnSend == \A c \in Clients : Turn /\ Send(c) => TurnsInv'
<1> SUFFICES ASSUME NEW c \in Clients, Turn, Send(c) PROVE TurnsInv'
  OBVIOUS
<1>1. /\ Ready(c) /\ Online(c) /\ job[c].st = "send" /\ run[c]
      /\ UNCHANGED <<remote, local, base, saved, event, chan, run, superseded, copies, version>>
      /\ \A d \in Clients \ {c} : job'[d] = job[d]
  BY CurrentSession, Tables DEF Send, Ready, Turn, stateVars, userVars
<1>2. RecordOK(c) /\ WorkerOK(c) /\ ServedOK(c)
  BY <1>1, TurnFacts
<1>3. job[c].here = local[c] /\ (remote = local[c] \/ Old(remote)) /\ Pushes(remote, c)
  BY <1>1, <1>2 DEF WorkerOK
<1>4. /\ job'[c].st = "wait" /\ job'[c].here = local[c]
      /\ sess' = Request(cur[c], local[c], "sync")
  BY <1>1, <1>3, Tables DEF Send, Turn, JobStates
<1>5. cur[c] \in Tokens /\ sess[cur[c]].st = "idle" /\ sess[cur[c]].client = c
  BY <1>1, CurrentSession DEF Ready, Turn
<1>6. /\ sess'[cur[c]].st = "commit" /\ sess'[cur[c]].val = local[c]
      /\ sess'[cur[c]].origin = "sync" /\ sess'[cur[c]].client = c
      /\ \A t \in Tokens \ {cur[c]} : sess'[t] = sess[t]
  <2>1. sess \in [Tokens -> SessStates] /\ local[c] \in Contents /\ "sync" \in Origins
    BY Tables DEF Turn, Origins
  <2>2. \A t \in Tokens \ {cur[c]} : sess'[t] = sess[t]
    BY <1>4, <1>5, RequestOther DEF Turn
  <2> QED BY <1>4, <1>5, <2>1, <2>2, RequestFields
<1>7. RequestsOK'
  <2>1. RequestsOK
    BY TurnFacts
  <2>2. \A t \in Tokens : sess'[t].st = "commit" =>
           sess'[t].origin = "sync" /\ sess'[t].val = local[c] /\ (remote = sess'[t].val \/ Old(remote))
    BY <1>2, <1>3, <1>6, <2>1 DEF RequestsOK, ServedOK
  <2> QED BY <1>1, <2>2 DEF RequestsOK, Old
<1>8. AllSafe'
  <2>1. \A t \in Tokens : sess[t].st = "commit" => sess'[t] = sess[t]
    BY <1>5, <1>6
  <2> QED BY <1>1, <2>1, SafeKept
<1>9. RecordOK(c)'
  BY <1>1, <1>2, <1>4 DEF RecordOK, Old
<1>10. ServedOK(c)'
  BY <1>1, <1>2, <1>6 DEF ServedOK
<1>11. WorkerOK(c)'
  BY <1>1, <1>2, <1>3, <1>4 DEF WorkerOK, Pushes, Old
<1> QED BY <1>1, <1>7, <1>8, <1>9, <1>10, <1>11, TurnFrame DEF TurnOK

\* A step that changes the file of a client, which then is the file of the
\* server, if anyone still waits for it to be, or is about to be.
LEMMA TurnFile ==
  ASSUME Turn, NEW c \in Clients, run[c],
         UNCHANGED <<remote, sess, chan, run, superseded, version>>, copies \subseteq copies',
         \A d \in Clients \ {c} : /\ local'[d] = local[d] /\ base'[d] = base[d] /\ saved'[d] = saved[d]
                                  /\ job'[d] = job[d],
         Old(local[c]) \/ local[c] \in copies' \cup {remote, local'[c]},
         Pending \/ remote = local[c] => local'[c] = local[c],
         RecordOK(c)', WorkerOK(c)'
  PROVE  TurnsInv'
<1>1. RequestsOK' /\ AllSafe'
  BY RequestsKept, SafeKept DEF Old
<1>2. ServedOK(c)'
  <2>1. ServedOK(c)
    BY TurnFacts
  <2> QED BY <2>1 DEF ServedOK, Pending
<1> QED BY <1>1, <1>2, TurnFrame DEF TurnOK

\* A file is installed or deleted: what was here is the server's, is replaced, or is kept as
\* a conflicted copy.
LEMMA TurnInstall ==
  \A c \in Clients : Turn /\ (Unlink(c) \/ Install(c) \/ Rename(c) \/ RenameFails(c)) => TurnsInv'
<1> SUFFICES ASSUME NEW c \in Clients, Turn, Unlink(c) \/ Install(c) \/ Rename(c) \/ RenameFails(c)
             PROVE  TurnsInv'
  OBVIOUS
<1>1. run[c]
  <2>1. job[c].st # "idle"
    BY DEF Unlink, Install, Rename, RenameFails
  <2> QED BY <2>1, TurnFacts
<1>2. /\ UNCHANGED <<remote, sess, chan, run, saved, superseded, version>> /\ copies \subseteq copies'
      /\ \A d \in Clients \ {c} : local'[d] = local[d] /\ base'[d] = base[d] /\ job'[d] = job[d]
  BY Tables DEF Unlink, Install, Keep, Rename, RenameFails, Turn, serverVars, userVars
<1>3. RecordOK(c) /\ WorkerOK(c) /\ JobOK(c)
  BY <1>1, TurnFacts
<1>4. Pending' <=> Pending
  BY <1>2 DEF Pending
<1> DEFINE Effect == /\ Old(local[c]) \/ local[c] \in copies' \cup {remote, local'[c]}
                     /\ Pending \/ remote = local[c] => local'[c] = local[c]
<1>5. Effect /\ RecordOK(c)' /\ WorkerOK(c)'
  <2>1. CASE Unlink(c)
    <3>1. /\ job[c].st = "unlink" /\ job'[c].st = "save" /\ local'[c] = Absent /\ base'[c] = Absent
      BY <2>1, Tables DEF Unlink, Turn, JobStates
    <3>2. remote = Absent /\ Old(local[c]) /\ (Pending => remote = local[c])
      BY <1>3, <3>1 DEF WorkerOK
    <3>3. Pending' => Pushes(remote, c)'
      BY <3>1, <1>2, <3>2 DEF Pushes, Plan
    <3> QED BY <1>2, <1>3, <1>4, <3>1, <3>2, <3>3 DEF RecordOK, WorkerOK, Old
  <2>2. CASE Install(c)
    <3>1. /\ job[c].st = "install" /\ job'[c].st = "rename" /\ job'[c].val = job[c].val /\ base'[c] = job[c].val
      BY <2>2, Tables DEF Install, Turn, JobStates
    <3>2. remote = job[c].val /\ (Pending => remote = local[c])
      BY <1>3, <3>1 DEF WorkerOK
    <3>3. \/ /\ local[c] \notin {Absent, remote, base[c]} /\ local'[c] = Absent
             /\ local[c] \in copies'
          \/ local[c] \in {Absent, remote, base[c]} /\ local' = local
      BY <2>2, <3>2, Tables DEF Install, Keep, Turn
    <3>4. Pending' => Pushes(remote, c)'
      BY <3>1, <1>2, <1>4, <3>2, <3>3 DEF Pushes, Plan
    <3>5. RecordOK(c)'
      BY <1>2, <1>3, <3>1, <3>2, <3>3 DEF RecordOK, Old
    <3>6. WorkerOK(c)'
      BY <1>2, <1>3, <1>4, <3>1, <3>2, <3>3, <3>4 DEF RecordOK, WorkerOK, Old
    <3> QED BY <3>2, <3>3, <3>5, <3>6
  <2>3. CASE Rename(c)
    <3>1. /\ job[c].st = "rename" /\ job'[c].st = "save" /\ local'[c] = job[c].val /\ UNCHANGED base
      BY <2>3, Tables DEF Rename, Turn, JobStates
    <3>2. /\ remote = job[c].val /\ base[c] = job[c].val
          /\ Pending => remote = local[c]
          /\ local[c] = remote \/ Old(local[c])
      BY <1>3, <3>1 DEF WorkerOK, JobOK
    <3>3. Pending' => Pushes(remote, c)'
      BY <3>1, <1>2, <3>2 DEF Pushes, Plan
    <3> QED BY <1>2, <1>3, <1>4, <3>1, <3>2, <3>3 DEF RecordOK, WorkerOK, Old
  <2>4. CASE RenameFails(c)
    <3>1. /\ job[c].st = "rename" /\ job'[c].st = "save" /\ UNCHANGED local /\ local[c] = Absent /\ base'[c] = Absent
      BY <2>4, Tables DEF RenameFails, Turn, JobStates
    <3>2. Pending => remote = local[c]
      BY <1>3, <3>1 DEF WorkerOK
    <3>3. Pending' => Pushes(remote, c)'
      BY <3>1, <1>2, <1>4, <3>2 DEF Pushes, Plan
    <3> QED BY <1>2, <1>3, <1>4, <3>1, <3>2, <3>3 DEF RecordOK, WorkerOK, Old
  <2> HIDE DEF Effect
  <2> QED BY ONLY <2>1, <2>2, <2>3, <2>4, Unlink(c) \/ Install(c) \/ Rename(c) \/ RenameFails(c)
<1> QED BY <1>1, <1>2, <1>5, TurnFile

\* A push tells a client that runs alone nothing new.
LEMMA TurnReceive == \A c \in Clients : Turn /\ Receive(c) => TurnsInv'
<1> SUFFICES ASSUME NEW c \in Clients, Turn, Receive(c) PROVE TurnsInv'
  OBVIOUS
<1> DEFINE t == cur[c]
           push == Head(chan[t])
<1>1. t \in Tokens /\ run[c] /\ chan[t] # <<>> /\ chan[t] \in Seq(Contents)
  BY CurrentSession, Tables DEF Receive, Turn
<1>2. RecordOK(c) /\ WorkerOK(c) /\ ServedOK(c)
  BY <1>1, TurnFacts
<1>3. push = remote /\ remote = local[c]
  <2>1. 1 \in DOMAIN chan[t] /\ push = chan[t][1]
    BY <1>1
  <2> QED BY <1>1, <1>2, <2>1 DEF ServedOK
<1>4. /\ UNCHANGED <<remote, sess, run, local, copies, event, superseded, version>>
      /\ \A d \in Clients \ {c} : base'[d] = base[d] /\ saved'[d] = saved[d] /\ job'[d] = job[d]
      /\ job[c].st = "idle"
  BY <1>1, TurnFacts, Tables DEF Receive, Turn, userVars, Idle, JobOK
<1>5. \/ /\ push = Absent /\ base'[c] = Absent /\ saved'[c] = Absent /\ job'[c].st = "unlink"
      \/ /\ base'[c] = base[c] /\ saved'[c] = saved[c] /\ job'[c].st = "install" /\ job'[c].val = push
  BY Tables DEF Receive, Turn, NoJob
<1> HIDE DEF push
<1>6. RequestsOK' /\ AllSafe'
  BY <1>4, RequestsKept, SafeKept
<1>7. ServedOK(c)'
  <2>1. \A u \in Tokens : chan'[u] = chan[u] \/ (u = t /\ chan'[u] = Tail(chan[u]))
    BY Tables, Zenon DEF Receive, Turn
  <2>2. \A u \in Tokens : \A i \in DOMAIN chan'[u] : chan'[u][i] = remote /\ remote = local[c]
    <3> SUFFICES ASSUME NEW u \in Tokens, NEW i \in DOMAIN chan'[u]
                 PROVE  chan'[u][i] = remote
      BY <1>3
    <3>1. CASE chan'[u] = chan[u]
      BY <1>2, <3>1 DEF ServedOK
    <3>2. CASE u = t /\ chan'[u] = Tail(chan[t])
      <4>1. i + 1 \in DOMAIN chan[t] /\ chan'[u][i] = chan[t][i + 1]
        BY <1>1, <3>2
      <4> QED BY <1>1, <1>2, <4>1 DEF ServedOK
    <3> QED BY <2>1, <3>1, <3>2
  <2> QED BY <1>2, <1>4, <2>2 DEF ServedOK
<1>8. RecordOK(c)'
  BY <1>2, <1>3, <1>4, <1>5 DEF RecordOK, Old
<1>9. WorkerOK(c)'
  <2>1. Pending' => Pushes(remote, c)'
    BY <1>3, <1>4 DEF Pushes, Plan
  <2> QED BY <1>2, <1>3, <1>4, <1>5, <2>1 DEF WorkerOK, Old
<1> QED BY <1>1, <1>4, <1>6, <1>7, <1>8, <1>9, TurnFrame DEF TurnOK

\* What a session still has to be told is told to the client that runs alone.
LEMMA LinkOwner ==
  ASSUME Turn, NEW u \in Tokens, chan[u] # <<>> \/ Live(u)
  PROVE  \E c \in Clients : run[c] /\ cur[c] = u
<1>1. Live(u)
  BY DEF LinksOK, Turn
<1> QED BY <1>1, Tables, SyncAssumption DEF Live, Turn

\* The server takes what the client has; what it had before is an old version.
LEMMA TurnCommit == \A t \in Tokens : Turn /\ Commit(t) => TurnsInv'
<1> SUFFICES ASSUME NEW t \in Tokens, Turn, Commit(t) PROVE TurnsInv'
  OBVIOUS
<1> DEFINE val == sess[t].val
<1>1. sess[t].st = "commit" /\ remote' = val /\ Pending
  BY DEF Commit, Pending
<1>2. /\ sess[t].origin = "sync" /\ (remote = val \/ Old(remote))
      /\ \A u \in Tokens : sess[u].st = "commit" => sess[u].val = val
      /\ \A u \in Tokens : sess[u].st = "commit" => sess[u].origin = "sync"
  BY <1>1, TurnFacts DEF RequestsOK
<1>3. UNCHANGED <<local, base, saved, event, copies, chan, run, job, superseded, version>>
  BY <1>2 DEF Commit, stateVars
<1>4. /\ sess'[t].st \in {"reply", "refuse"} /\ sess'[t].val = val /\ sess'[t].client = sess[t].client
      /\ \A u \in Tokens \ {t} : sess'[u] = sess[u]
  BY Tables DEF Commit, SessStates, Turn
<1>5. Pending' => Pending
  BY <1>1
<1>6. Alone'
  BY <1>3, TurnFacts DEF Alone
<1>7. RequestsOK'
  <2>1. \A u \in Tokens : sess'[u].st = "commit" => sess'[u] = sess[u] /\ sess[u].st = "commit"
    BY <1>4
  <2>2. \A u \in Tokens : sess'[u].st = "commit" => sess'[u].val = val /\ sess'[u].origin = "sync"
    BY <1>2, <2>1
  <2> QED BY <1>1, <2>2 DEF RequestsOK
<1>8. AllSafe'
  <2> SUFFICES ASSUME NEW v \in 1..version PROVE Safe(v)'
    BY <1>3 DEF AllSafe
  <2>1. Safe(v) /\ v # Absent
    BY TurnFacts, SyncAssumption DEF AllSafe
  <2>2. CASE v = remote
    BY <1>1, <1>2, <1>3, <2>1, <2>2 DEF Safe, Old
  <2>3. CASE v \in superseded \cup copies \/ \E c \in Clients : local[c] = v
    BY <1>3, <2>3 DEF Safe
  <2>4. ASSUME NEW u \in Tokens, sess[u].st = "commit", sess[u].val = v PROVE Safe(v)'
    BY <1>1, <1>2, <2>4 DEF Safe
  <2> QED BY <2>1, <2>2, <2>3, <2>4 DEF Safe
<1>9. ASSUME NEW c \in Clients PROVE TurnOK(c)'
  <2>1. RecordOK(c)'
    <3>1. RecordOK(c)
      BY TurnFacts
    <3> QED BY <1>1, <1>2, <1>3, <3>1 DEF RecordOK, Old
  <2>2. ASSUME run[c] PROVE ServedOK(c)' /\ WorkerOK(c)'
    <3>1. ServedOK(c) /\ WorkerOK(c)
      BY <2>2, TurnFacts
    <3>2. local[c] = val
      BY <1>1, <3>1 DEF ServedOK
    <3>3. ServedOK(c)'
      BY <1>1, <1>3, <1>4, <3>1, <3>2 DEF ServedOK
    <3>4. Pushes(remote, c)'
      BY <1>1, <1>3, <3>2 DEF Pushes, Plan
    <3>5. Pushes(remote, c)
      BY <1>1, <3>1 DEF WorkerOK
    <3>6. job[c].st = "scan" => Pushes(job[c].val, c)'
      BY <1>3, <3>1, <3>5 DEF WorkerOK, Pushes
    <3>7. job[c].st \in {"fetch", "install", "rename", "unlink"} => remote' = remote
      BY <1>1, <3>1, <3>2 DEF WorkerOK
    <3> QED BY <1>1, <1>3, <1>5, <3>1, <3>2, <3>3, <3>4, <3>6, <3>7 DEF WorkerOK, Old
  <2> QED BY <1>3, <2>1, <2>2 DEF TurnOK
<1> QED BY <1>6, <1>7, <1>8, <1>9 DEF TurnsInv

\* A step of a session that changes neither the file nor a record.
LEMMA TurnSession ==
  ASSUME Turn, UNCHANGED <<remote, run, stateVars, job, superseded, version>>,
         \A u \in Tokens : sess'[u].st = "commit" <=> sess[u].st = "commit",
         \A u \in Tokens : sess'[u].st = "commit" => sess'[u] = sess[u],
         \A c \in Clients : run[c] => ServedOK(c)'
  PROVE  TurnsInv'
<1>1. UNCHANGED <<local, base, saved, event, copies>> /\ (Pending' <=> Pending)
  BY DEF stateVars, Pending
<1>2. Alone' /\ RequestsOK'
  BY TurnFacts, RequestsKept DEF Alone
<1>3. AllSafe'
  <2>1. \A u \in Tokens : sess[u].st = "commit" => sess'[u] = sess[u]
    OBVIOUS
  <2> QED BY <1>1, <2>1, TurnFacts DEF AllSafe, Safe
<1>4. ASSUME NEW c \in Clients PROVE TurnOK(c)'
  <2>1. RecordOK(c)'
    BY <1>1, TurnFacts DEF RecordOK, Old
  <2>2. run[c] => WorkerOK(c)'
    BY <1>1, TurnFacts DEF WorkerOK, Pushes, Old
  <2> QED BY <2>1, <2>2 DEF TurnOK
<1> QED BY <1>2, <1>3, <1>4 DEF TurnsInv

\* The client hears that the server has its file: the record is the file that was hashed.
LEMMA TurnReply == \A t \in Tokens : Turn /\ Reply(t) => TurnsInv'
<1> SUFFICES ASSUME NEW t \in Tokens, Turn, Reply(t) PROVE TurnsInv'
  OBVIOUS
<1>1. /\ UNCHANGED <<remote, run, chan, cur, local, saved, event, copies, superseded, version>>
      /\ sess[t].st \in {"reply", "refuse"}
  BY DEF Reply, userVars
<1>2. /\ sess'[t].st \in {"push", "idle"} /\ sess'[t].val = sess[t].val /\ sess'[t].client = sess[t].client
      /\ \A u \in Tokens \ {t} : sess'[u] = sess[u]
  BY Tables DEF Reply, SessStates, Turn
<1>3. ASSUME NEW c \in Clients, run[c] PROVE ServedOK(c)'
  <2>1. ServedOK(c)
    BY <1>3, TurnFacts
  <2> QED BY <1>1, <1>2, <2>1 DEF ServedOK
<1>4. \A u \in Tokens : /\ sess'[u].st = "commit" => sess'[u] = sess[u]
                        /\ sess'[u].st = "commit" <=> sess[u].st = "commit"
  BY <1>1, <1>2
<1>5. CASE ~(Live(t) /\ sess[t].origin = "sync")
  <2>1. UNCHANGED <<base, job>>
    BY <1>5, Zenon DEF Reply
  <2> QED BY <1>1, <1>3, <1>4, <2>1, TurnSession DEF stateVars
<1>6. CASE Live(t) /\ sess[t].origin = "sync"
  <2>1. PICK c \in Clients : run[c] /\ cur[c] = t
    BY <1>6, LinkOwner
  <2>2. sess[t].client = c /\ Online(c)
    BY <2>1, Tables, SyncAssumption DEF Turn, Online
  <2>3. job[c].st = "wait"
    BY <1>1, <1>6, <2>1, <2>2, TurnFacts DEF WaitOK
  <2>4. RecordOK(c) /\ WorkerOK(c) /\ ServedOK(c)
    BY <2>1, TurnFacts
  <2>5. job[c].here = local[c] /\ remote = local[c]
    BY <1>1, <2>3, <2>4 DEF WorkerOK, ServedOK
  <2>6. /\ base'[c] = local[c] /\ job'[c].st = "save"
        /\ \A d \in Clients \ {c} : base'[d] = base[d] /\ job'[d] = job[d]
    BY <1>6, <2>2, <2>5, Tables DEF Reply, Turn, JobStates
  <2>7. RecordOK(c)'
    BY <1>1, <2>3, <2>4, <2>5, <2>6 DEF RecordOK, Old
  <2>8. Pushes(remote, c)'
    BY <1>1, <2>5 DEF Pushes, Plan
  <2>9. WorkerOK(c)'
    BY <1>1, <2>5, <2>6, <2>8 DEF WorkerOK
  <2>10. RequestsOK' /\ AllSafe'
    BY <1>1, <1>4, <2>1, RequestsKept, SafeKept
  <2> QED BY <1>1, <1>3, <2>1, <2>6, <2>7, <2>9, <2>10, TurnFrame DEF TurnOK
<1> QED BY <1>5, <1>6

\* Pushes, to the one client there is, and the ends of sessions.
LEMMA TurnPush == \A t \in Tokens : Turn /\ (Push(t) \/ SessionEnds(t)) => TurnsInv'
<1> SUFFICES ASSUME NEW t \in Tokens, Turn, Push(t) \/ SessionEnds(t) PROVE TurnsInv'
  OBVIOUS
<1>1. UNCHANGED <<remote, run, cur, stateVars, job, superseded, version>>
  BY DEF Push, SessionEnds, userVars
<1>2. \A u \in Tokens : \/ sess'[u].client = sess[u].client /\ sess'[u].st = sess[u].st /\ sess'[u].val = sess[u].val
                        \/ u = t /\ sess'[u].st \in {"idle", "closed"}
                           /\ (sess'[u].st = "idle" => sess'[u].client = sess[u].client /\ sess[u].st = "push")
  <2>1. CASE SessionEnds(t)
    BY <2>1, Tables DEF SessionEnds, Closed, Turn
  <2>2. CASE Push(t)
    <3>1. /\ sess[t].st = "push"
          /\ sess' = [sess EXCEPT ![t].st = "idle"] \/ \E u : sess' = [sess EXCEPT ![t].to = @ \ {u}]
      BY <2>2 DEF Push
    <3>2. CASE sess' = [sess EXCEPT ![t].st = "idle"]
      BY <3>1, <3>2, Tables DEF SessStates, Turn
    <3>3. ASSUME NEW u, sess' = [sess EXCEPT ![t].to = @ \ {u}], NEW s \in Tokens
          PROVE  sess'[s].client = sess[s].client /\ sess'[s].st = sess[s].st /\ sess'[s].val = sess[s].val
      BY <3>3, Tables DEF SessStates, Turn
    <3> QED BY <3>1, <3>2, <3>3
  <2> QED BY <2>1, <2>2
<1>3. \A u \in Tokens \ {t} : sess'[u] = sess[u]
  BY Tables DEF Push, SessionEnds, Turn
<1>4. sess[t].st \in {"push", "idle"}
  BY DEF Push, SessionEnds
<1>5. \A u \in Tokens : /\ sess'[u].st = "commit" => sess'[u] = sess[u]
                        /\ sess'[u].st = "commit" <=> sess[u].st = "commit"
  BY <1>2, <1>3, <1>4
<1>6. ASSUME NEW c \in Clients, run[c] PROVE ServedOK(c)'
  <2>1. ServedOK(c)
    BY <1>6, TurnFacts
  <2>2. ASSUME NEW u \in Tokens, NEW i \in DOMAIN chan'[u] PROVE chan'[u][i] = remote /\ remote = local[c]
    <3>1. CASE chan'[u] = chan[u]
      BY <2>1, <2>2, <3>1 DEF ServedOK
    <3>2. CASE chan'[u] # chan[u]
      <4>1. /\ sess[t].st = "push"
            /\ \E w \in sess[t].to :
                  /\ sess[t].val # Absent => remote # Absent
                  /\ chan' = [chan EXCEPT ![w] = Append(@, IF sess[t].val = Absent THEN Absent ELSE remote)]
        BY <3>2, Zenon DEF Push, SessionEnds
      <4>2. sess[t].val = remote /\ remote = local[c]
        BY <2>1, <4>1 DEF ServedOK
      <4>3. chan'[u] = Append(chan[u], remote) /\ chan[u] \in Seq(Contents)
        BY <3>2, <4>1, <4>2, Tables DEF Turn
      <4>4. (i \in DOMAIN chan[u] /\ chan'[u][i] = chan[u][i]) \/ chan'[u][i] = remote
        BY <2>2, <4>3
      <4> QED BY <2>1, <4>2, <4>4 DEF ServedOK
    <3> QED BY <3>1, <3>2
  <2>3. local'[c] = local[c] /\ remote' = remote
    BY <1>1 DEF stateVars
  <2> QED BY <1>2, <2>1, <2>2, <2>3 DEF ServedOK
<1> QED BY <1>1, <1>5, <1>6, TurnSession

\* Every step of a turn keeps the invariant.
LEMMA TurnsNext ==
  SyncTypeInv /\ JobInv /\ LinksOK /\ TurnsInv /\ [SyncNext]_syncVars => TurnsInv'
<1> SUFFICES ASSUME SyncTypeInv, JobInv, LinksOK, TurnsInv, [SyncNext]_syncVars, Turns' PROVE TurnsInv'
  BY DEF TurnsInv
<1>1. UNCHANGED story
  <2>1. ASSUME NEW c \in Clients,
               \/ Edit(c) \/ Erase(c) \/ CmdUpload(c) \/ CmdDelete(c)
               \/ Connect(c) \/ Disconnect(c) \/ Exit(c) \/ Kill(c)
        PROVE  UNCHANGED story
    BY ONLY <2>1 DEF Edit, Erase, CmdUpload, CmdDelete, Commanded, Connect, Disconnect, Exit, Kill
  <2>2. ASSUME NEW c \in Clients, List(c) \/ ClientStep(c) \/ RenameFails(c) PROVE UNCHANGED story
    BY ONLY <2>2 DEF List, RenameFails, ClientStep, Scan, Send, Fetch, Unlink, Save, JobFails,
           Install, Rename,
                     Look, Receive
  <2>3. ASSUME NEW t \in Tokens, ServerStep(t) PROVE UNCHANGED story
    BY ONLY <2>3 DEF ServerStep, Commit, Reply, Push, SessionEnds
  <2>4. CASE UNCHANGED syncVars
    BY <2>4 DEF syncVars
  <2> QED BY <2>1, <2>2, <2>3, <2>4, Zenon DEF SyncNext
<1>2. Turn
  BY <1>1 DEF Turn, Turns
<1>3. CASE UNCHANGED syncVars
  <2>1. UNCHANGED <<remote, run, stateVars, job, superseded, version, sess, chan, local>>
    BY <1>3 DEF syncVars, serverVars, stateVars, userVars
  <2>2. \A c \in Clients : run[c] => ServedOK(c)'
    BY <1>2, <2>1, TurnFacts DEF ServedOK
  <2> QED BY <1>2, <2>1, <2>2, TurnSession
<1>4. ASSUME NEW c \in Clients,
             \/ Edit(c) \/ Erase(c) \/ CmdUpload(c) \/ CmdDelete(c)
             \/ Connect(c) \/ Disconnect(c) \/ Exit(c) \/ Kill(c)
             \/ List(c) \/ ClientStep(c) \/ RenameFails(c)
      PROVE  TurnsInv'
  BY ONLY <1>2, <1>4, c \in Clients, TurnUser, TurnCommand, TurnConnect, TurnLeave, TurnReconcile,
         TurnSend,
          TurnInstall, TurnReceive, Zenon DEF ClientStep
<1>5. ASSUME NEW t \in Tokens, ServerStep(t) PROVE TurnsInv'
  BY ONLY <1>2, <1>5, t \in Tokens, TurnCommit, TurnReply, TurnPush, Zenon DEF ServerStep
<1> QED BY <1>3, <1>4, <1>5, Zenon DEF SyncNext

\* TurnsKeepEdits for any number of clients, sessions and edits: when the clients run in turns
\* and the user gives no commands, no version is lost, wherever a connection breaks, an install
\* fails or a client is killed between two steps of reconcile, of an upload or of install.
THEOREM TurnsCorrect == SyncSpec => []TurnsKeepEdits
<1> DEFINE IInv == SyncTypeInv /\ JobInv /\ LinksOK /\ TurnsInv
<1>1. SyncInit => IInv
  BY SyncInitType, JobInit, LinksInit, TurnsInit
<1>2. IInv /\ [SyncNext]_syncVars => IInv'
  BY SyncTypeNext, JobNext, LinksNext, TurnsNext
<1>3. IInv => TurnsKeepEdits
  <2> SUFFICES ASSUME TurnsInv, Turns, NEW v \in 1..version PROVE v \in superseded \/ Kept(v)
    BY DEF TurnsKeepEdits, Turns, NoEditLost
  <2>1. Safe(v)
    BY DEF TurnsInv, AllSafe
  <2> QED BY <2>1, Zenon DEF Safe, Kept
<1> QED BY <1>1, <1>2, <1>3, PTL DEF SyncSpec
=============================================================================
