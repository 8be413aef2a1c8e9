----------------------------- MODULE SyncProofs -----------------------------
(***************************************************************************)
(* Proofs of the safety properties of module Sync that hold however the    *)
(* user works, for every value of its constants.  Their invariants are     *)
(* built on that of SyncTyping:                                            *)
(*   JobInv      what a client is doing, and what its session is doing for *)
(*               it: an answer is only given to a job that waits for it;   *)
(*   HeldInv     an open session is some client's;                         *)
(*   WorkInv     a file that differs from the record of the client was     *)
(*               written, or deleted, by the user there, and so was what   *)
(*               is on its way to the server;                              *)
(*   NoticedInv  a file that differs from the record is in somebody's      *)
(*               hands, or its name in the queue.                          *)
(***************************************************************************)
EXTENDS SyncTyping

\* The client's thread and its session agree on what they are doing.
JobOK(c) ==
    /\ Idle(c) <=> job[c].st = "idle"
    /\ ~run[c] => Idle(c) /\ ~event[c]
    /\ sup[c] = "receive" => Online(c)
    /\ job[c].st = "wait" => Online(c)
    /\ job[c].st \in {"install", "rename"} => job[c].val # Absent
    /\ job[c].st = "rename" => base[c] = job[c].val
    /\ job[c].st = "failed" => sup[c] = "due" /\ (job[c].who = "super" => ~Online(c))

\* A session works on a request of reconcile or of the worker only while that
\* waits for the answer.
WaitOK(c) ==
    /\ Online(c) /\ sess[cur[c]].origin = "sync"
    /\ sess[cur[c]].st \in {"commit", "reply", "refuse"}
    => job[c].st = "wait"

\* The first part of the inductive invariants.
JobInv == \A c \in Clients : JobOK(c) /\ WaitOK(c)

\* No client is at work in the beginning.
LEMMA JobInit == SyncInit => JobInv
<1> SUFFICES ASSUME SyncInit PROVE JobInv
  OBVIOUS
<1> QED BY DEF SyncInit, JobInv, JobOK, WaitOK, Idle, Online, NoJob

\* Sessions of different clients are different ones.
LEMMA OwnSession ==
  ASSUME SyncTypeInv, NEW c \in Clients, NEW d \in Clients, Online(c), Online(d), cur[c] = cur[d]
  PROVE  c = d
BY Tables DEF Online

\* A client that leaves touches no session but its own,
LEMMA LeftOther == \A t, u, arrived : u # t => Left(t, arrived)[u] = sess[u]
BY DEF Left

\* and neither does one that makes a request.
LEMMA RequestOther ==
  ASSUME SyncTypeInv, NEW t \in Tokens, NEW u \in Tokens \ {t}, NEW v, NEW b
  PROVE  Request(t, v, b)[u] = sess[u]
BY Tables DEF Request

\* The user's edits and commands, while the threads are at work.
LEMMA JobUser ==
  \A c \in Clients :
    SyncTypeInv /\ JobInv /\ (Edit(c) \/ Erase(c) \/ CmdUpload(c) \/ CmdDelete(c)) => JobInv'
<1> SUFFICES ASSUME NEW c \in Clients, SyncTypeInv, JobInv, NEW d \in Clients,
                    Edit(c) \/ Erase(c) \/ CmdUpload(c) \/ CmdDelete(c)
             PROVE  JobOK(d)' /\ WaitOK(d)'
  BY DEF JobInv
<1>1. CASE Edit(c) \/ Erase(c)
  BY <1>1, Tables DEF JobInv, JobOK, WaitOK, Idle, Online, Edit, Erase, serverVars
<1>2. CASE CmdUpload(c) \/ CmdDelete(c)
  <2>1. Commanded(c)
    BY <1>2 DEF CmdUpload, CmdDelete
  <2>2. cur[c] \in Tokens /\ Online(c)
    BY <2>1, CurrentSession DEF Commanded, Ready
  <2>3. PICK v : sess' = Request(cur[c], v, "command")
    BY <1>2 DEF CmdUpload, CmdDelete
  <2>4. \A u \in Tokens : sess'[u].origin = "command" \/ sess'[u] = sess[u]
    BY <2>2, <2>3, Tables DEF Request, SessStates
  <2>5. JobOK(d)'
    BY <2>1 DEF JobInv, JobOK, Idle, Online, Commanded, stateVars
  <2>6. WaitOK(d)'
    BY <2>1, <2>4, CurrentSession DEF JobInv, WaitOK, Online, Commanded
  <2> QED BY <2>5, <2>6
<1> QED BY <1>1, <1>2

\* A connection is made: the supervisor owes a reconcile.
LEMMA JobConnect == \A c \in Clients : SyncTypeInv /\ JobInv /\ Connect(c) => JobInv'
<1> SUFFICES ASSUME NEW c \in Clients, SyncTypeInv, JobInv, Connect(c), NEW d \in Clients
             PROVE  JobOK(d)' /\ WaitOK(d)'
  BY DEF JobInv
<1>1. PICK t \in Tokens : /\ sess[t].st = "closed" /\ cur' = [cur EXCEPT ![c] = t]
                          /\ sess' = [sess EXCEPT ![t] = [Closed EXCEPT !.client = c, !.st = "idle"]]
  BY DEF Connect
<1>2. JobOK(d)'
  BY <1>1, Tables, SyncAssumption DEF JobInv, JobOK, Idle, Online, Connect, stateVars
<1>3. WaitOK(d)'
  BY <1>1, Tables, SyncAssumption DEF JobInv, WaitOK, Online, Connect, Closed
<1> QED BY <1>2, <1>3

\* A connection breaks: an exchange that waits for its answer fails.
LEMMA JobDisconnect == \A c \in Clients : SyncTypeInv /\ JobInv /\ Disconnect(c) => JobInv'
<1> SUFFICES ASSUME NEW c \in Clients, SyncTypeInv, JobInv, Disconnect(c), NEW d \in Clients
             PROVE  JobOK(d)' /\ WaitOK(d)'
  BY DEF JobInv
<1>1. JobOK(d)'
  BY Tables DEF JobInv, JobOK, Idle, Online, Disconnect, stateVars, JobStates
<1>2. d # c => job'[d] = job[d]
  BY Tables DEF Disconnect
<1>3. d # c /\ Online(d) => sess'[cur[d]] = sess[cur[d]]
  BY OwnSession DEF Disconnect, Left
<1>4. WaitOK(d)'
  BY <1>2, <1>3, Tables DEF JobInv, WaitOK, Online, Disconnect
<1> QED BY <1>1, <1>4

\* The program ends, or is killed: its job is gone with it.
LEMMA JobExit == \A c \in Clients : SyncTypeInv /\ JobInv /\ (Exit(c) \/ Kill(c)) => JobInv'
<1> SUFFICES ASSUME NEW c \in Clients, SyncTypeInv, JobInv, Exit(c) \/ Kill(c), NEW d \in Clients
             PROVE  JobOK(d)' /\ WaitOK(d)'
  BY DEF JobInv
<1>1. JobOK(d)'
  <2>1. CASE Exit(c)
    BY <2>1, Tables DEF JobInv, JobOK, Idle, Online, Exit
  <2>2. CASE Kill(c)
    BY <2>2, Tables DEF JobInv, JobOK, Idle, Online, Kill, NoJob
  <2> QED BY <2>1, <2>2
<1>2. d # c => job'[d] = job[d]
  BY Tables DEF Exit, Kill
<1>3. d # c /\ Online(d) => sess'[cur[d]] = sess[cur[d]]
  <2>1. Online(c) => cur[c] # cur[d] \/ d = c \/ ~Online(d)
    BY OwnSession
  <2>2. CASE Exit(c)
    BY <2>1, <2>2 DEF Exit
  <2>3. CASE Kill(c)
    <3>1. sess' = sess \/ (Online(c) /\ \E arrived \in BOOLEAN : sess' = Left(cur[c], arrived))
      BY <2>3 DEF Kill
    <3> QED BY <2>1, <3>1, LeftOther
  <2> QED BY <2>2, <2>3
<1>4. /\ cur'[c] = NoToken
      /\ d # c => cur'[d] = cur[d]
  BY Tables DEF Exit, Kill
<1>5. WaitOK(d)'
  BY <1>2, <1>3, <1>4, Tables DEF JobInv, WaitOK, Online
<1> QED BY <1>1, <1>5

\* The steps of reconcile, of install, of the worker and of receive_loop.
LEMMA JobWork ==
  \A c \in Clients :
    SyncTypeInv /\ JobInv /\ (List(c) \/ Scan(c) \/ Fetch(c) \/ Unlink(c) \/ Save(c) \/ JobFails(c)
                              \/ Install(c) \/ Rename(c) \/ RenameFails(c) \/ Look(c) \/ Receive(c)) => JobInv'
<1> SUFFICES ASSUME NEW c \in Clients, SyncTypeInv, JobInv, NEW d \in Clients,
                    List(c) \/ Scan(c) \/ Fetch(c) \/ Unlink(c) \/ Save(c) \/ JobFails(c)
                      \/ Install(c) \/ Rename(c) \/ RenameFails(c) \/ Look(c) \/ Receive(c)
             PROVE  JobOK(d)' /\ WaitOK(d)'
  BY DEF JobInv
<1>1. UNCHANGED <<sess, run, cur>>
  BY DEF List, Scan, Fetch, Unlink, Save, JobFails, Install, Rename, RenameFails, Look, Receive,
         serverVars
<1>2. job'[d] = job[d] \/ (d = c /\ job[c].st # "wait")
  BY Tables DEF JobInv, JobOK, List, Scan, Fetch, Unlink, Save, JobFails, Install, Rename,
         RenameFails, Look, Receive
<1>3. WaitOK(d)'
  BY <1>1, <1>2 DEF JobInv, JobOK, WaitOK, Online, Idle, List, Look, Receive
<1>4. JobOK(d)'
  <2> USE Tables DEF JobInv, JobOK, Idle, Online, stateVars, JobStates
  <2>1. CASE List(c)
    <3>1. /\ UNCHANGED <<run, cur, sup, base, event>> /\ run[c]
          /\ d # c => job'[d] = job[d]
          /\ job'[c].st = "scan" /\ job'[c].who \in {"super", "main"}
      BY <2>1, CurrentSession DEF List, NoJob, Ready
    <3> QED BY <3>1
  <2>2. CASE Scan(c)
    <3>1. /\ UNCHANGED <<run, cur, sup, event>> /\ job[c].st = "scan"
          /\ d # c => job'[d] = job[d] /\ base'[d] = base[d]
          /\ job'[c].st \in {"save", "send", "fetch", "unlink"} /\ job'[c].who = job[c].who
      BY <2>2 DEF Scan, Plan, serverVars
    <3> QED BY <3>1
  <2>3. CASE Fetch(c)
    BY <2>3 DEF Fetch
  <2>4. CASE Unlink(c)
    BY <2>4 DEF Unlink
  <2>5. CASE Save(c)
    BY <2>5 DEF Save, NoJob
  <2>6. CASE JobFails(c)
    BY <2>6 DEF JobFails
  <2>7. CASE Install(c)
    BY <2>7 DEF Install, Keep
  <2>8. CASE Rename(c)
    BY <2>8 DEF Rename
  <2>9. CASE RenameFails(c)
    BY <2>9 DEF RenameFails
  <2>10. CASE Look(c)
    BY <2>10 DEF Look
  <2>11. CASE Receive(c)
    BY <2>11 DEF Receive
  <2> HIDE DEF JobInv, JobOK, Idle, Online, stateVars, JobStates
  <2> QED BY ONLY <2>1, <2>2, <2>3, <2>4, <2>5, <2>6, <2>7, <2>8, <2>9, <2>10, <2>11,
                  List(c) \/ Scan(c) \/ Fetch(c) \/ Unlink(c) \/ Save(c) \/ JobFails(c)
                  \/ Install(c) \/ Rename(c) \/ RenameFails(c) \/ Look(c) \/ Receive(c)
<1> QED BY <1>3, <1>4

\* An exchange starts: the session works for the job that waits for it.
LEMMA JobSend == \A c \in Clients : SyncTypeInv /\ JobInv /\ Send(c) => JobInv'
<1> SUFFICES ASSUME NEW c \in Clients, SyncTypeInv, JobInv, Send(c), NEW d \in Clients
             PROVE  JobOK(d)' /\ WaitOK(d)'
  BY DEF JobInv
<1>1. JobOK(d)'
  <2>1. /\ UNCHANGED <<run, cur, sup, base, event>> /\ Online(c)
        /\ job[c].st = "send" /\ \E x \in {"save", "wait"} : job' = [job EXCEPT ![c].st = x]
    BY DEF Send, Ready, stateVars
  <2> QED BY <2>1, Tables DEF JobInv, JobOK, Idle, Online, JobStates
<1>2. WaitOK(d)'
  <2>1. CASE d = c
    <3>1. job'[c].st = "wait" \/ (UNCHANGED <<sess, cur>> /\ sess[cur[c]].st = "idle")
      BY Tables DEF Send, Ready, JobStates
    <3> QED BY <2>1, <3>1 DEF WaitOK, Online
  <2>2. CASE d # c
    <3>1. Online(d) => sess'[cur[d]] = sess[cur[d]]
      <4>1. Online(c) /\ (sess' = sess \/ \E v : sess' = Request(cur[c], v, "sync"))
        BY DEF Send, Ready
      <4>2. Online(d) => cur[d] \in Tokens \ {cur[c]} /\ cur[c] \in Tokens
        BY <2>2, <4>1, OwnSession, CurrentSession
      <4> QED BY <4>1, <4>2, RequestOther
    <3>2. cur' = cur /\ job'[d] = job[d]
      BY <2>2, Tables DEF Send
    <3> QED BY <3>1, <3>2 DEF JobInv, WaitOK, Online
  <2> QED BY <2>1, <2>2
<1> QED BY <1>1, <1>2

\* The server's steps: only Reply reaches the client, whose job waits for it.
LEMMA JobServer == \A t \in Tokens : SyncTypeInv /\ JobInv /\ ServerStep(t) => JobInv'
<1> SUFFICES ASSUME NEW t \in Tokens, SyncTypeInv, JobInv, ServerStep(t), NEW d \in Clients
             PROVE  JobOK(d)' /\ WaitOK(d)'
  BY DEF JobInv
<1>1. CASE Commit(t)
  <2>1. JobOK(d)'
    BY <1>1 DEF JobInv, JobOK, Idle, Online, Commit, stateVars
  <2>2. \A u \in Tokens : /\ sess'[u].origin = sess[u].origin
                          /\ sess'[u].st = sess[u].st \/ sess[u].st = "commit"
    BY <1>1, Tables DEF Commit, SessStates
  <2>3. UNCHANGED <<cur, job>>
    BY <1>1 DEF Commit
  <2>4. WaitOK(d)'
    BY <2>2, <2>3, CurrentSession DEF JobInv, WaitOK, Online
  <2> QED BY <2>1, <2>4
<1>2. CASE Reply(t)
  <2> DEFINE told == Live(t) /\ sess[t].origin = "sync"
             c == sess[t].client
  <2>1. told => c \in Clients /\ Online(c) /\ cur[c] = t /\ job[c].st = "wait"
    <3>1. told => c \in Clients /\ Online(c) /\ cur[c] = t
      BY Tables, SyncAssumption DEF Live, Online
    <3>2. sess[t].st \in {"reply", "refuse"}
      BY <1>2 DEF Reply
    <3> QED BY <3>1, <3>2 DEF JobInv, WaitOK
  <2>2. /\ UNCHANGED <<cur, run, sup, event>>
        /\ job' = IF told THEN [job EXCEPT ![c].st = "save"] ELSE job
        /\ base' = IF told THEN [base EXCEPT ![c] = job[c].here] ELSE base
    BY <1>2, Zenon DEF Reply
  <2>3. \A u \in Tokens : sess'[u] = sess[u] \/ (u = t /\ sess'[u].st \in {"push", "idle"})
    BY <1>2, Tables DEF Reply, SessStates
  <2> HIDE DEF told, c
  <2>4. JobOK(d)'
    BY <2>1, <2>2, Tables DEF JobInv, JobOK, Idle, Online, JobStates
  <2>5. told => cur[c] = t /\ sess'[t].st \in {"push", "idle"}
    BY <1>2, <2>1, Tables DEF Reply, SessStates
  <2>6. job'[d] = job[d] \/ (told /\ d = c)
    BY <2>2, Tables
  <2>7. WaitOK(d)'
    BY <2>2, <2>3, <2>5, <2>6, CurrentSession DEF JobInv, WaitOK, Online
  <2> QED BY <2>4, <2>7
<1>3. CASE Push(t) \/ SessionEnds(t)
  <2>1. UNCHANGED <<cur, run, sup, base, event, job>>
    BY <1>3 DEF Push, SessionEnds, stateVars
  <2>2. \A u \in Tokens : \/ sess'[u].origin = sess[u].origin /\ sess'[u].st = sess[u].st
                          \/ sess'[u].st \in {"idle", "closed"}
    <3>1. CASE SessionEnds(t)
      BY <3>1, Tables DEF SessionEnds, Closed
    <3>2. CASE Push(t)
      <4>1. sess' = [sess EXCEPT ![t].st = "idle"] \/ \E u : sess' = [sess EXCEPT ![t].to = @ \ {u}]
        BY <3>2 DEF Push
      <4>2. CASE sess' = [sess EXCEPT ![t].st = "idle"]
        BY <4>2, Tables DEF SessStates
      <4>3. ASSUME NEW u, sess' = [sess EXCEPT ![t].to = @ \ {u}]
            PROVE  \A s \in Tokens : sess'[s].origin = sess[s].origin /\ sess'[s].st = sess[s].st
        BY <4>3, Tables DEF SessStates
      <4> QED BY <4>1, <4>2, <4>3
    <3> QED BY <1>3, <3>1, <3>2
  <2>3. JobOK(d)'
    BY <2>1 DEF JobInv, JobOK, Idle, Online
  <2>4. WaitOK(d)'
    BY <2>1, <2>2, CurrentSession DEF JobInv, WaitOK, Online
  <2> QED BY <2>3, <2>4
<1> QED BY <1>1, <1>2, <1>3 DEF ServerStep

\* Every step keeps what a client and its session agree on.
LEMMA JobNext == SyncTypeInv /\ JobInv /\ [SyncNext]_syncVars => JobInv'
<1> SUFFICES ASSUME SyncTypeInv, JobInv, [SyncNext]_syncVars PROVE JobInv'
  OBVIOUS
<1>1. CASE UNCHANGED syncVars
  BY ONLY JobInv, <1>1, Zenon DEF JobInv, JobOK, WaitOK, Idle, Online, syncVars, serverVars,
         stateVars, userVars
<1>2. ASSUME NEW c \in Clients,
             \/ Edit(c) \/ Erase(c) \/ CmdUpload(c) \/ CmdDelete(c)
             \/ Connect(c) \/ Disconnect(c) \/ Exit(c) \/ Kill(c)
             \/ List(c) \/ ClientStep(c) \/ RenameFails(c)
      PROVE  JobInv'
  BY ONLY SyncTypeInv, JobInv, <1>2, c \in Clients, JobUser, JobConnect, JobDisconnect, JobExit,
          JobWork, JobSend, Zenon DEF ClientStep
<1>3. ASSUME NEW t \in Tokens, ServerStep(t) PROVE JobInv'
  BY <1>3, JobServer
<1> QED BY <1>1, <1>2, <1>3, Zenon DEF SyncNext

\* A session that is open is some client's.
HeldInv == \A t \in Tokens : sess[t].st # "closed" => sess[t].client \in Clients

\* No session is open in the beginning.
LEMMA HeldInit == SyncInit => HeldInv
BY DEF SyncInit, HeldInv, Closed

\* A session is opened by a client, and its client stays the same until it ends.
LEMMA HeldNext == SyncTypeInv /\ HeldInv /\ [SyncNext]_syncVars => HeldInv'
<1> SUFFICES ASSUME SyncTypeInv, HeldInv, [SyncNext]_syncVars PROVE HeldInv'
  OBVIOUS
<1> USE DEF HeldInv
<1>1. CASE UNCHANGED sess
  BY <1>1
<1>2. ASSUME NEW c \in Clients, CmdUpload(c) \/ CmdDelete(c) \/ Send(c), sess' # sess PROVE HeldInv'
  <2>1. Online(c) /\ \E v, b : sess' = Request(cur[c], v, b)
    BY <1>2 DEF CmdUpload, CmdDelete, Commanded, Send, Ready
  <2>2. PICK v, b : sess' = Request(cur[c], v, b)
    BY <2>1
  <2>3. sess'[cur[c]].client = c
    BY <2>1, <2>2, CurrentSession, Tables DEF Request, SessStates
  <2> QED BY <2>1, <2>2, <2>3, RequestOther, CurrentSession
<1>3. ASSUME NEW c \in Clients, Connect(c) PROVE HeldInv'
  BY <1>3, Tables DEF Connect, Closed
<1>4. ASSUME NEW c \in Clients, NEW arrived \in BOOLEAN, Online(c), sess' = Left(cur[c], arrived) PROVE HeldInv'
  BY <1>4, CurrentSession, Tables DEF Left, SessStates
<1>5. ASSUME NEW c \in Clients, Exit(c) PROVE HeldInv'
  BY <1>5, Tables DEF Exit, Closed
<1>6. ASSUME NEW t \in Tokens, ServerStep(t) PROVE HeldInv'
  <2>1. CASE Commit(t)
    BY <2>1, Tables DEF Commit, SessStates
  <2>2. CASE Reply(t)
    <3>1. \/ sess' = [sess EXCEPT ![t].st = "push", ![t].to = Others(t)]
          \/ sess' = [sess EXCEPT ![t].st = "idle"]
      BY <2>2 DEF Reply
    <3>2. sess[t].st # "closed"
      BY <2>2 DEF Reply
    <3>3. \A u \in Tokens : sess'[u].client = sess[u].client /\ (u # t => sess'[u] = sess[u])
      BY <3>1, Tables DEF SessStates
    <3> QED BY ONLY HeldInv, <3>2, <3>3 DEF HeldInv
  <2>3. CASE Push(t)
    <3>1. \/ \E w : sess' = [sess EXCEPT ![t].to = w]
          \/ sess' = [sess EXCEPT ![t].st = "idle"]
      BY <2>3 DEF Push
    <3>2. sess[t].st # "closed"
      BY <2>3 DEF Push
    <3>3. \A u \in Tokens : sess'[u].client = sess[u].client /\ (u # t => sess'[u] = sess[u])
      BY <3>1, Tables DEF SessStates
    <3> QED BY ONLY HeldInv, <3>2, <3>3 DEF HeldInv
  <2>4. CASE SessionEnds(t)
    BY <2>4, Tables DEF SessionEnds, Closed
  <2> QED BY <1>6, <2>1, <2>2, <2>3, <2>4 DEF ServerStep
<1>7. ASSUME NEW c \in Clients, Disconnect(c) \/ Kill(c) PROVE HeldInv'
  <2>1. sess' = sess \/ (Online(c) /\ \E arrived \in BOOLEAN : sess' = Left(cur[c], arrived))
    BY <1>7 DEF Disconnect, Kill
  <2> QED BY <1>1, <1>4, <2>1
<1>8. ASSUME NEW c \in Clients, Edit(c) \/ Erase(c) \/ List(c) \/ Scan(c) \/ Fetch(c) \/ Unlink(c) \/ Save(c)
                \/ JobFails(c) \/ Install(c) \/ Rename(c) \/ RenameFails(c) \/ Look(c) \/ Receive(c)
      PROVE  HeldInv'
  <2>1. UNCHANGED sess
    BY <1>8, Zenon DEF Edit, Erase, List, Scan, Fetch, Unlink, Save, JobFails, Install, Rename,
           RenameFails, Look, Receive, serverVars
  <2> QED BY <1>1, <2>1
<1>9. CASE UNCHANGED syncVars
  BY <1>1, <1>9 DEF syncVars, serverVars
<1> HIDE DEF HeldInv
<1> QED BY <1>1, <1>2, <1>3, <1>5, <1>6, <1>7, <1>8, <1>9, Zenon DEF SyncNext, ClientStep


\* No file, or a version made here.
Mine(c, v) == v = Absent \/ maker[v] = c

\* What differs from the record was written, or deleted, by the user here.
WorkOK(c) ==
    /\ job[c].st \notin {"rename", "unlink"} => local[c] = base[c] \/ Mine(c, local[c])
    /\ job[c].st \in {"send", "wait"} => Mine(c, local[c])
    /\ job[c].st # "rename" /\ local[c] = Absent /\ base[c] # Absent => c \in asked
    /\ job[c].st \in {"send", "wait"} /\ (local[c] = Absent \/ job[c].here = Absent) => c \in asked

\* So is what is on its way to the server on the client's own account.
RequestOK(t) ==
    sess[t].st = "commit" =>
        /\ sess[t].origin = "sync" => Mine(sess[t].client, sess[t].val)
        /\ sess[t].val = Absent => sess[t].client \in asked

\* The versions to come are nobody's; the rest is said of clients that were not
\* killed, which may have had a file installed that their record does not know.
WorkInv ==
    /\ \A v \in Versions : v > version => maker[v] = Nobody
    /\ NoneKilled => (\A c \in Clients : WorkOK(c)) /\ (\A t \in Tokens : RequestOK(t))

\* Nothing differs from the records in the beginning.
LEMMA WorkInit == SyncInit => WorkInv
<1> SUFFICES ASSUME SyncInit PROVE WorkInv
  OBVIOUS
<1> QED BY DEF SyncInit, WorkInv, WorkOK, RequestOK, NoJob, Closed

\* What was made here stays so, and the first of the next versions is free.
MakersKept ==
    /\ \A v \in Versions : v > version' => maker'[v] = Nobody
    /\ \A c \in Clients, v \in Contents : v = Absent \/ maker[v] = c => v = Absent \/ maker'[v] = c
    /\ asked \subseteq asked'

\* A step that makes no version changes no maker.
LEMMA SameMakers ==
  ASSUME SyncTypeInv, WorkInv, UNCHANGED <<version, maker>>, asked \subseteq asked'
  PROVE  MakersKept
BY DEF MakersKept, WorkInv, SyncTypeInv, SyncTypeOK

\* A new version is the first that was free, and belongs to the client it is made at.
LEMMA NewMaker ==
  ASSUME SyncTypeInv, WorkInv, NEW c \in Clients, version < MaxVersion,
         version' = version + 1, maker' = [maker EXCEPT ![version + 1] = c], UNCHANGED asked
  PROVE  MakersKept /\ version + 1 \in Versions /\ maker'[version + 1] = c /\ version + 1 # Absent
<1>1. /\ version \in Nat /\ version + 1 \in Versions /\ maker \in [Versions -> Clients \cup {Nobody}]
      /\ version + 1 # Absent
  BY SyncAssumption DEF SyncTypeInv, SyncTypeOK, Versions
<1>2. \A v \in Versions : v > version' => maker'[v] = Nobody
  BY <1>1 DEF WorkInv, Versions
<1>3. maker[version + 1] = Nobody
  BY <1>1 DEF WorkInv
<1>4. ASSUME NEW d \in Clients, NEW v \in Versions, maker[v] = d PROVE maker'[v] = d
  BY <1>1, <1>3, <1>4, SyncAssumption
<1>5. \A d \in Clients, v \in Contents : v = Absent \/ maker[v] = d => v = Absent \/ maker'[v] = d
  BY <1>4, ContentTypes
<1> QED BY <1>1, <1>2, <1>5 DEF MakersKept

\* The user kills no client again.
LEMMA KillsCount ==
  ASSUME SyncTypeInv, NEW kind \in {"edits", "deletes", "commands", "faults", "kills"},
         left[kind] > 0, left' = Spend(kind), UNCHANGED story
  PROVE  /\ NoneKilled' => NoneKilled
         /\ kind = "kills" => ~NoneKilled'
<1>1. left \in StoryRecords /\ story \in StoryRecords /\ left.kills \in 0..story.kills
  BY DEF SyncTypeInv, SyncTypeOK
<1> QED BY ONLY <1>1, kind \in {"edits", "deletes", "commands", "faults", "kills"}, left[kind] > 0,
left' = Spend(kind), UNCHANGED story
  DEF Spend, NoneKilled, StoryRecords

\* What a client has to do is the same after a step that leaves its file, record and
\* job alone.
LEMMA SameWork ==
  ASSUME SyncTypeInv, NEW c \in Clients, WorkOK(c), MakersKept,
         local'[c] = local[c], base'[c] = base[c], job'[c] = job[c]
  PROVE  WorkOK(c)'
BY Tables DEF WorkOK, Mine, MakersKept

\* A request stays good after a step that makes no new one.
LEMMA SameRequest ==
  ASSUME SyncTypeInv, NEW t \in Tokens, RequestOK(t), MakersKept,
         sess'[t].st = "commit" => sess'[t] = sess[t] /\ sess[t].client \in Clients
  PROVE  RequestOK(t)'
<1>1. sess[t].val \in Contents
  BY Tables DEF SessStates
<1> QED BY <1>1 DEF RequestOK, Mine, MakersKept

\* A step of client c that makes no request.
LEMMA WorkFrame ==
  ASSUME SyncTypeInv, HeldInv, WorkInv, MakersKept, NoneKilled' => NoneKilled,
         NEW c \in Clients,
         NoneKilled => WorkOK(c)',
         \A d \in Clients \ {c} : local'[d] = local[d] /\ base'[d] = base[d] /\ job'[d] = job[d],
         \A t \in Tokens : sess'[t].st = "commit" => sess'[t] = sess[t]
  PROVE  WorkInv'
<1>1. ASSUME NoneKilled', NEW d \in Clients PROVE WorkOK(d)'
  BY <1>1, SameWork DEF WorkInv
<1>2. ASSUME NoneKilled', NEW t \in Tokens PROVE RequestOK(t)'
  <2>1. sess'[t].st = "commit" => sess'[t] = sess[t] /\ sess[t].client \in Clients
    BY DEF HeldInv
  <2> QED BY <1>2, <2>1, SameRequest DEF WorkInv
<1>3. \A v \in Versions : v > version' => maker'[v] = Nobody
  BY DEF MakersKept
<1> QED BY <1>1, <1>2, <1>3 DEF WorkInv

\* An edit or a deletion makes the file differ, by the user's own hand.
LEMMA WorkUser ==
  \A c \in Clients :
    SyncTypeInv /\ JobInv /\ HeldInv /\ WorkInv /\ (Edit(c) \/ Erase(c)) => WorkInv'
<1> SUFFICES ASSUME NEW c \in Clients, SyncTypeInv, JobInv, HeldInv, WorkInv, Edit(c) \/ Erase(c)
             PROVE  WorkInv'
  OBVIOUS
<1>1. /\ UNCHANGED <<story, base, job, sess>>
      /\ \A d \in Clients \ {c} : local'[d] = local[d]
  BY Tables DEF Edit, Erase, serverVars
<1>2. NoneKilled' => NoneKilled
  <2>1. \E kind \in {"edits", "deletes"} : left[kind] > 0 /\ left' = Spend(kind)
    BY DEF Edit, Erase
  <2> QED BY <1>1, <2>1, KillsCount
<1>3. CASE Edit(c)
  <2>1. MakersKept /\ maker'[version + 1] = c /\ version + 1 # Absent
    BY <1>3, NewMaker DEF Edit
  <2>2. local'[c] = version + 1
    BY <1>3, Tables DEF Edit
  <2>3. NoneKilled => WorkOK(c)'
    BY <1>1, <2>1, <2>2, Tables DEF WorkInv, WorkOK, Mine, MakersKept
  <2> QED BY <1>1, <1>2, <2>1, <2>3, WorkFrame
<1>4. CASE Erase(c)
  <2>1. MakersKept
    BY <1>4, SameMakers DEF Erase
  <2>2. local'[c] = Absent /\ c \in asked'
    BY <1>4, Tables DEF Erase
  <2>3. NoneKilled => WorkOK(c)'
    BY <1>1, <2>2, Tables DEF WorkOK, Mine
  <2> QED BY <1>1, <1>2, <2>1, <2>3, WorkFrame
<1> QED BY <1>3, <1>4

\* A request of client c, from a command or for its own file.
LEMMA WorkRequest ==
  ASSUME SyncTypeInv, HeldInv, WorkInv, MakersKept, NoneKilled' => NoneKilled,
         NEW c \in Clients, Online(c),
         NEW v \in Contents, NEW b \in Origins, sess' = Request(cur[c], v, b),
         NoneKilled => (b = "sync" => Mine(c, v)') /\ (v = Absent => c \in asked'),
         NoneKilled => WorkOK(c)',
         \A d \in Clients \ {c} : local'[d] = local[d] /\ base'[d] = base[d] /\ job'[d] = job[d]
  PROVE  WorkInv'
<1>1. ASSUME NoneKilled', NEW d \in Clients PROVE WorkOK(d)'
  BY <1>1, SameWork DEF WorkInv
<1>2. ASSUME NoneKilled', NEW t \in Tokens PROVE RequestOK(t)'
  <2>1. cur[c] \in Tokens /\ sess[cur[c]].client = c
    BY CurrentSession
  <2>2. CASE t = cur[c]
    <3>1. sess'[t].client = c /\ sess'[t].val = v /\ sess'[t].origin = b
      BY <2>1, <2>2, Tables, RequestFields
    <3> QED BY <1>2, <3>1 DEF RequestOK, Mine
  <2>3. CASE t # cur[c]
    <3>1. sess'[t] = sess[t]
      BY <2>1, <2>3, RequestOther
    <3> QED BY <1>2, <3>1, SameRequest DEF WorkInv, HeldInv
  <2> QED BY <2>2, <2>3
<1>3. \A w \in Versions : w > version' => maker'[w] = Nobody
  BY DEF MakersKept
<1> QED BY <1>1, <1>2, <1>3 DEF WorkInv

\* A command sends what the user wrote, or the deletion he asked for.
LEMMA WorkCommand ==
  \A c \in Clients :
    SyncTypeInv /\ HeldInv /\ WorkInv /\ (CmdUpload(c) \/ CmdDelete(c)) => WorkInv'
<1> SUFFICES ASSUME NEW c \in Clients, SyncTypeInv, HeldInv, WorkInv, CmdUpload(c) \/ CmdDelete(c)
             PROVE  WorkInv'
  OBVIOUS
<1>1. Commanded(c) /\ Online(c) /\ UNCHANGED <<story, local, base, job>>
  BY DEF CmdUpload, CmdDelete, Commanded, Ready, stateVars
<1>2. NoneKilled' => NoneKilled
  BY <1>1, KillsCount DEF Commanded
<1>3. CASE CmdUpload(c)
  <2>1. MakersKept /\ version + 1 \in Contents /\ version + 1 # Absent
    BY <1>3, NewMaker, ContentTypes DEF CmdUpload
  <2>2. NoneKilled => WorkOK(c)'
    BY <1>1, <2>1, SameWork DEF WorkInv
  <2>3. sess' = Request(cur[c], version + 1, "command") /\ "command" \in Origins
    BY <1>3 DEF CmdUpload, Origins
  <2> QED BY <1>1, <1>2, <2>1, <2>2, <2>3, WorkRequest
<1>4. CASE CmdDelete(c)
  <2>1. MakersKept /\ Absent \in Contents
    BY <1>4, SameMakers, ContentTypes DEF CmdDelete
  <2>2. NoneKilled => WorkOK(c)'
    BY <1>1, <2>1, SameWork DEF WorkInv
  <2>3. sess' = Request(cur[c], Absent, "command") /\ c \in asked' /\ "command" \in Origins
    BY <1>4 DEF CmdDelete, Origins
  <2> QED BY <1>1, <1>2, <2>1, <2>2, <2>3, WorkRequest
<1> QED BY <1>3, <1>4

\* What the worker or reconcile sends was written here, what it deletes was deleted here.
LEMMA WorkSend ==
  \A c \in Clients : SyncTypeInv /\ HeldInv /\ WorkInv /\ Send(c) => WorkInv'
<1> SUFFICES ASSUME NEW c \in Clients, SyncTypeInv, HeldInv, WorkInv, Send(c) PROVE WorkInv'
  OBVIOUS
<1>1. /\ UNCHANGED <<story, left, version, maker, asked, local, base>> /\ Online(c)
      /\ job[c].st = "send"
      /\ \A d \in Clients \ {c} : job'[d] = job[d]
  BY Tables DEF Send, Ready, stateVars, userVars
<1>2. MakersKept /\ (NoneKilled' => NoneKilled)
  BY <1>1, SameMakers DEF NoneKilled
<1>3. CASE job[c].here # Absent /\ local[c] = Absent
  <2>1. job'[c].st = "save" /\ UNCHANGED sess
    BY <1>1, <1>3, Tables DEF Send, JobStates
  <2>2. NoneKilled => WorkOK(c)'
    BY <1>1, <2>1 DEF WorkInv, WorkOK, Mine
  <2> QED BY <1>1, <1>2, <2>1, <2>2, WorkFrame
<1>4. CASE ~(job[c].here # Absent /\ local[c] = Absent)
  <2> DEFINE v == IF job[c].here = Absent THEN Absent ELSE local[c]
  <2>1. sess' = Request(cur[c], v, "sync") /\ job'[c].st = "wait" /\ job'[c].here = job[c].here
    BY <1>1, <1>4, Tables DEF Send, JobStates
  <2>2. v \in Contents /\ "sync" \in Origins
    BY Tables, ContentTypes DEF Origins
  <2>3. NoneKilled => WorkOK(c)'
    BY <1>1, <2>1 DEF WorkInv, WorkOK, Mine
  <2>4. NoneKilled => Mine(c, v)' /\ (v = Absent => c \in asked')
    BY <1>1, <1>4 DEF WorkInv, WorkOK, Mine
  <2> QED BY <1>1, <1>2, <2>1, <2>2, <2>3, <2>4, WorkRequest
<1> QED BY <1>3, <1>4

\* A connection is made or lost: no request is made, none is changed.
LEMMA WorkConnection ==
  \A c \in Clients :
    SyncTypeInv /\ HeldInv /\ WorkInv /\ (Connect(c) \/ Disconnect(c) \/ Exit(c)) => WorkInv'
<1> SUFFICES ASSUME NEW c \in Clients, SyncTypeInv, HeldInv, WorkInv, Connect(c) \/ Disconnect(c) \/ Exit(c)
             PROVE  WorkInv'
  OBVIOUS
<1>1. /\ UNCHANGED <<story, version, maker, asked, local, base>>
      /\ \A d \in Clients \ {c} : job'[d] = job[d]
  BY Tables DEF Connect, Disconnect, Exit, stateVars, userVars
<1>2. MakersKept
  BY <1>1, SameMakers
<1>3. NoneKilled' => NoneKilled
  <2>1. left' = left \/ (left["faults"] > 0 /\ left' = Spend("faults"))
    BY DEF Connect, Disconnect, Exit, userVars
  <2> QED BY <1>1, <2>1, KillsCount DEF NoneKilled
<1>4. \A t \in Tokens : sess'[t].st = "commit" => sess'[t] = sess[t]
  <2>1. CASE Connect(c)
    <3>1. PICK t \in Tokens : sess' = [sess EXCEPT ![t] = [Closed EXCEPT !.client = c, !.st = "idle"]]
      BY <2>1 DEF Connect
    <3> QED BY <3>1, Tables DEF Closed
  <2>2. CASE Disconnect(c)
    <3>1. PICK arrived \in BOOLEAN : sess' = Left(cur[c], arrived)
      BY <2>2 DEF Disconnect
    <3>2. sess' = sess \/ sess' = [sess EXCEPT ![cur[c]].st = "idle"]
      BY <3>1 DEF Left
    <3> QED BY <3>2, Tables DEF SessStates
  <2>3. CASE Exit(c)
    BY <2>3, Tables DEF Exit, Closed
  <2> QED BY <2>1, <2>2, <2>3
<1>5. NoneKilled => WorkOK(c)'
  <2>1. job'[c] = job[c] \/ (job[c].st = "wait" /\ job'[c].st = "failed")
    BY Tables DEF Connect, Disconnect, Exit, JobStates
  <2> QED BY <1>1, <2>1 DEF WorkInv, WorkOK, Mine
<1> QED BY <1>1, <1>2, <1>3, <1>4, <1>5, WorkFrame

\* A client that is killed ends what the two properties promise.
LEMMA WorkKill == \A c \in Clients : SyncTypeInv /\ WorkInv /\ Kill(c) => WorkInv'
<1> SUFFICES ASSUME NEW c \in Clients, SyncTypeInv, WorkInv, Kill(c) PROVE WorkInv'
  OBVIOUS
<1>1. ~NoneKilled'
  BY KillsCount DEF Kill
<1>2. UNCHANGED <<version, maker>>
  BY DEF Kill
<1> QED BY <1>1, <1>2 DEF WorkInv

\* The steps of a job.  Install moves a file away, and Unlink deletes it, for the server;
\* the record is set before that shows, which is why neither is taken for the user's work.
LEMMA WorkWork ==
  \A c \in Clients :
    SyncTypeInv /\ JobInv /\ HeldInv /\ WorkInv
    /\ (List(c) \/ Scan(c) \/ Fetch(c) \/ Unlink(c) \/ Save(c) \/ JobFails(c)
        \/ Install(c) \/ Rename(c) \/ RenameFails(c) \/ Look(c) \/ Receive(c)) => WorkInv'
<1> SUFFICES ASSUME NEW c \in Clients, SyncTypeInv, JobInv, HeldInv, WorkInv,
                    List(c) \/ Scan(c) \/ Fetch(c) \/ Unlink(c) \/ Save(c) \/ JobFails(c)
                      \/ Install(c) \/ Rename(c) \/ RenameFails(c) \/ Look(c) \/ Receive(c)
             PROVE  WorkInv'
  OBVIOUS
<1>1. UNCHANGED <<story, version, maker, asked, sess>>
  BY DEF List, Scan, Fetch, Unlink, Save, JobFails, Install, Rename, RenameFails, Look, Receive,
         serverVars, userVars
<1>2. \A d \in Clients \ {c} : local'[d] = local[d] /\ base'[d] = base[d] /\ job'[d] = job[d]
  BY Tables DEF List, Scan, Fetch, Unlink, Save, JobFails, Install, Keep, Rename, RenameFails, Look,
         Receive,
                stateVars
<1>3. MakersKept
  BY <1>1, SameMakers
<1>4. NoneKilled' => NoneKilled
  <2>1. \/ left' = left
        \/ \E kind \in {"commands", "faults"} : left[kind] > 0 /\ left' = Spend(kind)
    BY DEF List, Scan, Fetch, Unlink, Save, JobFails, Install, Rename, RenameFails, Look, Receive,
           userVars
  <2> QED BY <1>1, <2>1, KillsCount DEF NoneKilled
<1>5. ASSUME NoneKilled PROVE WorkOK(c)'
  <2>1. WorkOK(c) /\ JobOK(c)
    BY <1>5 DEF WorkInv, JobInv
  <2> USE <1>1, <2>1, Tables DEF WorkOK, Mine, JobStates
  <2>2. CASE List(c)
    <3>1. job[c].st = "idle" /\ job'[c].st = "scan" /\ UNCHANGED <<local, base>>
      BY <2>2 DEF List, NoJob, Idle, JobOK, stateVars
    <3> QED BY <3>1
  <2>3. CASE Scan(c)
    <3>1. /\ UNCHANGED local /\ job[c].st = "scan"
          /\ job'[c].here = local[c]
          /\ job'[c].st \in {"save", "send", "fetch", "unlink"}
          /\ job'[c].st = "send" => local[c] # base[c]
          /\ base'[c] \in {local[c], base[c]}
      BY <2>3 DEF Scan, Plan
    <3> QED BY <3>1
  <2>4. CASE Fetch(c)
    BY <2>4 DEF Fetch, stateVars
  <2>5. CASE Unlink(c)
    BY <2>5 DEF Unlink
  <2>6. CASE Save(c)
    BY <2>6 DEF Save, NoJob
  <2>7. CASE JobFails(c)
    BY <2>7 DEF JobFails, stateVars
  <2>8. CASE Install(c)
    BY <2>8 DEF Install
  <2>9. CASE Rename(c)
    BY <2>9 DEF Rename, JobOK
  <2>10. CASE RenameFails(c)
    BY <2>10 DEF RenameFails
  <2>11. CASE Look(c)
    <3>1. job[c].st = "idle" /\ UNCHANGED <<local, base>>
          /\ \/ job'[c] = job[c]
             \/ local[c] # base[c] /\ job'[c].here = local[c] /\ job'[c].st = "send"
      BY <2>11 DEF Look, NoJob, Idle, JobOK
    <3> QED BY <3>1
  <2>12. CASE Receive(c)
    <3>1. job[c].st = "idle" /\ UNCHANGED local
          /\ \/ base'[c] = base[c] /\ job'[c].st = "install"
             \/ base'[c] = Absent /\ job'[c].st = "unlink"
      BY <2>12 DEF Receive, NoJob, Idle, JobOK
    <3> QED BY <3>1
  <2> HIDE DEF WorkOK, Mine, JobStates
  <2> QED BY ONLY <2>2, <2>3, <2>4, <2>5, <2>6, <2>7, <2>8, <2>9, <2>10, <2>11, <2>12,
                  List(c) \/ Scan(c) \/ Fetch(c) \/ Unlink(c) \/ Save(c) \/ JobFails(c)
                  \/ Install(c) \/ Rename(c) \/ RenameFails(c) \/ Look(c) \/ Receive(c)
<1> QED BY <1>1, <1>2, <1>3, <1>4, <1>5, WorkFrame

\* The server's steps: the record is what was hashed, and what differs from it by then is
\* the user's.
LEMMA WorkServer == \A t \in Tokens : SyncTypeInv /\ JobInv /\ HeldInv /\ WorkInv /\ ServerStep(t) => WorkInv'
<1> SUFFICES ASSUME NEW t \in Tokens, SyncTypeInv, JobInv, HeldInv, WorkInv, ServerStep(t) PROVE WorkInv'
  OBVIOUS
<1>1. UNCHANGED <<story, left, version, maker, asked, local>>
  BY DEF ServerStep, Commit, Reply, Push, SessionEnds, stateVars, userVars
<1>2. MakersKept /\ (NoneKilled' => NoneKilled)
  BY <1>1, SameMakers DEF NoneKilled
<1>3. \A u \in Tokens : sess'[u].st = "commit" => sess'[u] = sess[u]
  <2> USE Tables DEF SessStates
  <2>1. CASE Commit(t)
    BY <2>1 DEF Commit
  <2>2. CASE Reply(t)
    BY <2>2 DEF Reply
  <2>3. CASE Push(t)
    <3>1. /\ sess[t].st = "push"
          /\ sess' = [sess EXCEPT ![t].st = "idle"] \/ \E w : sess' = [sess EXCEPT ![t].to = w]
      BY <2>3 DEF Push
    <3>2. CASE sess' = [sess EXCEPT ![t].st = "idle"]
      BY <3>2
    <3>3. ASSUME NEW w, sess' = [sess EXCEPT ![t].to = w], NEW u \in Tokens, sess'[u].st = "commit"
          PROVE  sess'[u] = sess[u]
      BY <3>1, <3>3
    <3> QED BY <3>1, <3>2, <3>3
  <2>4. CASE SessionEnds(t)
    BY <2>4 DEF SessionEnds, Closed
  <2> HIDE DEF SessStates
  <2> QED BY ONLY <2>1, <2>2, <2>3, <2>4, ServerStep(t) DEF ServerStep
<1>4. ASSUME NoneKilled, NEW d \in Clients PROVE WorkOK(d)'
  <2>1. WorkOK(d) /\ JobOK(d)
    BY <1>4 DEF WorkInv, JobInv
  <2>2. CASE job'[d] = job[d] /\ base'[d] = base[d]
    BY <1>1, <1>2, <2>1, <2>2, SameWork
  <2>3. CASE ~(job'[d] = job[d] /\ base'[d] = base[d])
    <3>1. Reply(t)
      BY <2>3 DEF ServerStep, Commit, Push, SessionEnds, stateVars
    <3>2. Live(t) /\ sess[t].origin = "sync" /\ sess[t].client = d
      BY <2>3, <3>1, Tables DEF Reply
    <3>3. base'[d] = job[d].here /\ job'[d].st = "save"
      BY <3>1, <3>2, Tables DEF Reply, JobStates
    <3>4. cur[d] = t /\ Online(d) /\ sess[t].st \in {"reply", "refuse"}
      BY <3>1, <3>2, Tables, SyncAssumption DEF Live, Online, Reply
    <3>5. job[d].st = "wait"
      BY <3>2, <3>4 DEF JobInv, WaitOK
    <3> QED BY <1>1, <2>1, <3>3, <3>5 DEF WorkOK, Mine
  <2> QED BY <2>2, <2>3
<1>5. ASSUME NoneKilled', NEW u \in Tokens PROVE RequestOK(u)'
  <2>1. sess'[u].st = "commit" => sess'[u] = sess[u] /\ sess[u].client \in Clients
    BY <1>3 DEF HeldInv
  <2> QED BY <1>2, <1>5, <2>1, SameRequest DEF WorkInv
<1>6. \A w \in Versions : w > version' => maker'[w] = Nobody
  BY <1>2 DEF MakersKept
<1> QED BY <1>2, <1>4, <1>5, <1>6 DEF WorkInv

\* Every step keeps apart what the user did and what was done for him.
LEMMA WorkNext == SyncTypeInv /\ JobInv /\ HeldInv /\ WorkInv /\ [SyncNext]_syncVars => WorkInv'
<1> SUFFICES ASSUME SyncTypeInv, JobInv, HeldInv, WorkInv, [SyncNext]_syncVars PROVE WorkInv'
  OBVIOUS
<1>1. CASE UNCHANGED syncVars
  BY ONLY WorkInv, <1>1, Zenon DEF WorkInv, WorkOK, RequestOK, Mine, NoneKilled, syncVars, serverVars,
         stateVars, userVars
<1>2. ASSUME NEW c \in Clients,
             \/ Edit(c) \/ Erase(c) \/ CmdUpload(c) \/ CmdDelete(c)
             \/ Connect(c) \/ Disconnect(c) \/ Exit(c) \/ Kill(c)
             \/ List(c) \/ ClientStep(c) \/ RenameFails(c)
      PROVE  WorkInv'
  BY ONLY SyncTypeInv, JobInv, HeldInv, WorkInv, <1>2, c \in Clients, WorkUser, WorkCommand,
          WorkConnection, WorkKill, WorkWork, WorkSend, Zenon DEF ClientStep
<1>3. ASSUME NEW t \in Tokens, ServerStep(t) PROVE WorkInv'
  BY <1>3, WorkServer
<1> QED BY <1>1, <1>2, <1>3, Zenon DEF SyncNext

\* What every reachable state has, of who made what and who deleted it.
LEMMA WorkAlways == SyncSpec => [](SyncTypeInv /\ WorkInv)
<1> DEFINE IInv == SyncTypeInv /\ JobInv /\ HeldInv /\ WorkInv
<1>1. SyncInit => IInv
  BY SyncInitType, JobInit, HeldInit, WorkInit
<1>2. IInv /\ [SyncNext]_syncVars => IInv'
  BY SyncTypeNext, JobNext, HeldNext, WorkNext
<1>3. IInv => SyncTypeInv /\ WorkInv
  OBVIOUS
<1> QED BY <1>1, <1>2, <1>3, PTL DEF SyncSpec

\* NoEcho for any number of clients and sessions, any story: while no client was killed,
\* a client uploads on its own only what was written in its sync_dir.  sync_local_change and reconcile
\* compare with the record, and install sets the record before it renames the file.
THEOREM NoEchoCorrect == SyncSpec => []NoEcho
<1>1. SyncTypeInv /\ WorkInv => NoEcho
  BY Tables DEF WorkInv, RequestOK, Mine, NoEcho
<1> QED BY <1>1, WorkAlways, PTL

\* RemovalsAreAsked for any number of clients and sessions, any story: while no client was
\* killed, remove_remote is only reached when the user deleted the file there, never
\* because install moved it away or a push deleted it.
THEOREM RemovalsCorrect == SyncSpec => []RemovalsAreAsked
<1>1. SyncTypeInv /\ WorkInv => RemovalsAreAsked
  BY DEF WorkInv, RequestOK, RemovalsAreAsked
<1> QED BY <1>1, WorkAlways, PTL

\* A client that has reconciled, or is about to have, knows what differs from
\* the record: it is in the worker's hands, or an event for it is in its queue.
NoticedOK(c) ==
    sup[c] = "receive" \/ (job[c].who = "super" /\ Online(c)) =>
        /\ job[c].st \in {"idle", "save"} => local[c] = base[c] \/ event[c] \/ c \in gone
        /\ job[c].st \in {"send", "wait"} => local[c] = job[c].here \/ event[c]

\* The inductive invariant of DirtyIsNoticed, on top of JobInv.
NoticedInv == \A c \in Clients : NoticedOK(c)

\* No client is connected in the beginning.
LEMMA NoticedInit == SyncInit => NoticedInv
BY DEF SyncInit, NoticedInv, NoticedOK, NoJob, Online

\* A step that leaves the file, the record, the job and the queue of a client alone.
LEMMA SameNoticed ==
  ASSUME NEW c \in Clients, NoticedOK(c),
         sup'[c] = sup[c], cur'[c] = cur[c], local'[c] = local[c], base'[c] = base[c], job'[c] = job[c],
         event'[c] = event[c], c \in gone => c \in gone'
  PROVE  NoticedOK(c)'
BY DEF NoticedOK, Online

\* Every step keeps a difference noticed: Look compares what it takes from the queue, an
\* exchange that fails leaves the supervisor to reconcile again.
LEMMA NoticedNext == SyncTypeInv /\ JobInv /\ NoticedInv /\ [SyncNext]_syncVars => NoticedInv'
<1> SUFFICES ASSUME SyncTypeInv, JobInv, NoticedInv, [SyncNext]_syncVars, NEW d \in Clients PROVE NoticedOK(d)'
  BY DEF NoticedInv
<1>1. NoticedOK(d) /\ JobOK(d)
  BY DEF NoticedInv, JobInv
<1>2. CASE UNCHANGED syncVars
  BY <1>1, <1>2, SameNoticed DEF syncVars, serverVars, stateVars
<1>3. ASSUME NEW c \in Clients, Edit(c) \/ Erase(c) PROVE NoticedOK(d)'
  <2>1. UNCHANGED <<run, sup, cur, base, job, gone>>
    BY <1>3 DEF Edit, Erase, serverVars
  <2>2. (local'[d] = local[d] /\ event'[d] = event[d]) \/ (d = c /\ event'[d] = run[d])
    BY <1>3, Tables DEF Edit, Erase
  <2>3. Online(d) => run[d]
    BY CurrentSession
  <2> QED BY <1>1, <2>1, <2>2, <2>3 DEF NoticedOK, JobOK, Online
<1>4. ASSUME NEW c \in Clients, CmdUpload(c) \/ CmdDelete(c) PROVE NoticedOK(d)'
  BY <1>1, <1>4, SameNoticed DEF CmdUpload, CmdDelete, Commanded, stateVars
<1>5. ASSUME NEW c \in Clients, Connect(c) \/ Disconnect(c) \/ Exit(c) \/ Kill(c) PROVE NoticedOK(d)'
  <2>1. CASE d # c
    <3>1. /\ sup'[d] = sup[d] /\ cur'[d] = cur[d] /\ local' = local /\ base'[d] = base[d] /\ job'[d] = job[d]
          /\ event'[d] = event[d] /\ gone' = gone
      BY <1>5, <2>1, Tables DEF Connect, Disconnect, Exit, Kill, stateVars
    <3> QED BY <1>1, <3>1, SameNoticed
  <2>2. CASE d = c
    <3>1. sup'[c] = "due"
      BY <1>5, Tables DEF Connect, Disconnect, Exit, Kill
    <3>2. cur'[c] = NoToken \/ job'[c].who # "super"
      BY <1>5, Tables DEF Connect, Disconnect, Exit, Kill
    <3> QED BY <2>2, <3>1, <3>2 DEF NoticedOK, Online
  <2> QED BY <2>1, <2>2
<1>6. ASSUME NEW c \in Clients, d # c, List(c) \/ ClientStep(c) \/ RenameFails(c) PROVE NoticedOK(d)'
  <2>1. /\ sup'[d] = sup[d] /\ cur' = cur /\ local'[d] = local[d] /\ base'[d] = base[d] /\ job'[d] = job[d]
        /\ event'[d] = event[d]
    BY <1>6, Tables DEF List, ClientStep, Scan, Send, Fetch, Unlink, Save, JobFails, Install, Keep,
           Rename,
                   RenameFails, Look, Receive, stateVars
  <2>2. d \in gone => d \in gone'
    BY <1>6, Zenon DEF List, ClientStep, Scan, Send, Fetch, Unlink, Save, JobFails, Install, Rename,
                   RenameFails, Look, Receive
  <2> QED BY <1>1, <2>1, <2>2, SameNoticed
<1>7. ASSUME List(d) \/ ClientStep(d) \/ RenameFails(d) PROVE NoticedOK(d)'
  <2> USE <1>1, Tables DEF NoticedOK, Online, JobStates
  <2>1. CASE List(d)
    <3>1. job'[d].st = "scan"
      BY <2>1 DEF List
    <3> QED BY <3>1
  <2>2. CASE Scan(d)
    <3>1. /\ UNCHANGED <<local, event, gone, sup, cur>> /\ job[d].st = "scan"
          /\ job'[d].here = local[d] /\ job'[d].who = job[d].who
          /\ job'[d].st \in {"save", "send", "fetch", "unlink"}
          /\ job'[d].st = "save" => local[d] = base'[d]
      BY <2>2 DEF Scan, Plan, serverVars
    <3> QED BY <3>1
  <2>3. CASE Send(d)
    <3>1. /\ UNCHANGED <<local, base, event, gone, sup, cur>> /\ job[d].st = "send"
          /\ job'[d].here = job[d].here /\ job'[d].who = job[d].who
          /\ \/ job'[d].st = "save" /\ job[d].here # Absent /\ local[d] = Absent
             \/ job'[d].st = "wait"
      BY <2>3 DEF Send, stateVars
    <3> QED BY <3>1
  <2>4. CASE Fetch(d)
    <3>1. /\ UNCHANGED <<local, base, event, sup, cur>> /\ job'[d].who = job[d].who
          /\ \/ job'[d].st = "save" /\ d \in gone'
             \/ job'[d].st = "install"
      BY <2>4 DEF Fetch, stateVars
    <3> QED BY <3>1
  <2>5. CASE Unlink(d)
    <3>1. local'[d] = base'[d] /\ job'[d].st = "save"
      BY <2>5 DEF Unlink
    <3> QED BY <3>1
  <2>6. CASE Save(d)
    <3>1. /\ UNCHANGED <<local, base, event, gone, cur>> /\ job[d].st = "save"
          /\ job'[d].st = "idle" /\ job'[d].who = "none"
          /\ sup'[d] = sup[d] \/ (job[d].who = "super" /\ Online(d))
      BY <2>6 DEF Save, NoJob
    <3> QED BY <3>1
  <2>7. CASE JobFails(d)
    <3>1. /\ UNCHANGED <<local, base, event, gone, sup, cur>> /\ job'[d].who = job[d].who
          /\ job[d].st = "failed" \/ ~Online(d)
      BY <2>7 DEF JobFails, stateVars, serverVars
    <3> QED BY <3>1 DEF JobOK
  <2>8. CASE Install(d)
    <3>1. job'[d].st = "rename"
      BY <2>8 DEF Install
    <3> QED BY <3>1
  <2>9. CASE Rename(d)
    <3>1. event'[d] /\ job'[d].st = "save"
      BY <2>9 DEF Rename
    <3> QED BY <3>1
  <2>10. CASE RenameFails(d)
    <3>1. local'[d] = Absent /\ base'[d] = Absent /\ job'[d].st = "save"
      BY <2>10 DEF RenameFails
    <3> QED BY <3>1
  <2>11. CASE Look(d)
    <3>1. \/ job' = job /\ local'[d] = base'[d] /\ job[d].st = "idle"
          \/ job'[d].st = "send" /\ local'[d] = job'[d].here
      BY <2>11 DEF Look, NoJob, Idle, JobOK
    <3> QED BY <3>1
  <2>12. CASE Receive(d)
    <3>1. job'[d].st \in {"unlink", "install"}
      BY <2>12 DEF Receive
    <3> QED BY <3>1
  <2> HIDE DEF NoticedOK, Online, JobStates
  <2> QED BY ONLY <1>7, <2>1, <2>2, <2>3, <2>4, <2>5, <2>6, <2>7, <2>8, <2>9, <2>10, <2>11, <2>12
         DEF ClientStep
<1>8. ASSUME NEW t \in Tokens, ServerStep(t) PROVE NoticedOK(d)'
  <2>1. UNCHANGED <<sup, cur, local, event, gone>>
    BY <1>8 DEF ServerStep, Commit, Reply, Push, SessionEnds, stateVars
  <2>2. CASE job'[d] = job[d] /\ base'[d] = base[d]
    BY <1>1, <2>1, <2>2, SameNoticed
  <2>3. CASE ~(job'[d] = job[d] /\ base'[d] = base[d])
    <3>1. Reply(t)
      BY <1>8, <2>3 DEF ServerStep, Commit, Push, SessionEnds, stateVars
    <3>2. Live(t) /\ sess[t].origin = "sync" /\ sess[t].client = d
      BY <2>3, <3>1, Tables DEF Reply
    <3>3. base'[d] = job[d].here /\ job'[d].st = "save" /\ job'[d].who = job[d].who
      BY <3>1, <3>2, Tables DEF Reply, JobStates
    <3>4. cur[d] = t /\ Online(d) /\ sess[t].st \in {"reply", "refuse"}
      BY <3>1, <3>2, Tables, SyncAssumption DEF Live, Online, Reply
    <3>5. job[d].st = "wait"
      BY <3>2, <3>4 DEF JobInv, WaitOK
    <3> QED BY <1>1, <2>1, <3>3, <3>5 DEF NoticedOK, Online
  <2> QED BY <2>2, <2>3
<1> QED BY <1>2, <1>3, <1>4, <1>5, <1>6, <1>7, <1>8, Zenon DEF SyncNext

\* DirtyIsNoticed for any number of clients and sessions, any story: when the worker is not
\* busy, a client that has reconciled and is in receive_loop has the file as in its record, or
\* its name in the queue (enqueue), or had nothing to download at its last reconcile.
THEOREM NoticedCorrect == SyncSpec => []DirtyIsNoticed
<1> DEFINE IInv == SyncTypeInv /\ JobInv /\ NoticedInv
<1>1. SyncInit => IInv
  BY SyncInitType, JobInit, NoticedInit
<1>2. IInv /\ [SyncNext]_syncVars => IInv'
  BY SyncTypeNext, JobNext, NoticedNext
<1>3. IInv => DirtyIsNoticed
  BY DEF JobInv, JobOK, NoticedInv, NoticedOK, DirtyIsNoticed
<1> QED BY <1>1, <1>2, <1>3, PTL DEF SyncSpec
=============================================================================
