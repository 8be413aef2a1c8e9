----------------------------- MODULE SyncTyping -----------------------------
(***************************************************************************)
(* Type correctness of module Sync, for every value of its constants.  The *)
(* inductive invariant adds to SyncTypeOK that the bounds of the story are *)
(* numbers and that a session that is not open is nobody's: without that,  *)
(* Connect could give the session of one client to another.                *)
(*                                                                         *)
(* Most steps change a field or two of a session or of a job; the lemmas   *)
(* up to FetchFields say for each such change what it leaves alone.        *)
(***************************************************************************)
EXTENDS Sync, SequenceTheorems, TLAPS

StoryRecords ==
    [habit : {"turns", "laptop", "stay", "any"}, edits : Nat, deletes : Nat, commands : Nat,
     faults : Nat, kills : Nat]

SyncTypeInv ==
    /\ SyncTypeOK
    /\ story \in StoryRecords /\ left \in StoryRecords
    /\ \A t \in Tokens : sess[t].st = "closed" => sess[t].client = Nobody

\* Everything starts with its type: no client runs, no session is open.
LEMMA SyncInitType == SyncInit => SyncTypeInv
<1> SUFFICES ASSUME SyncInit PROVE SyncTypeInv
  OBVIOUS
<1> USE SyncAssumption DEF SyncInit
<1>1. 1 \in Versions /\ 1 \in Contents /\ Absent \in Contents
  BY DEF Versions, Contents
<1>2. story \in StoryRecords /\ left = story /\ story \in Stories
  BY DEF StoryRecords
<1>3. \A b \in {"edits", "deletes", "commands", "faults", "kills"} : left[b] \in 0..story[b]
  BY <1>2 DEF StoryRecords
<1>4. Closed \in SessStates /\ NoJob \in JobStates
  BY <1>1 DEF Closed, NoJob, SessStates, JobStates
<1>5. sess \in [Tokens -> SessStates] /\ job \in [Clients -> JobStates]
  BY <1>4
<1>6. chan \in [Tokens -> Seq(Contents)]
  OBVIOUS
<1>7. \A t \in Tokens : sess[t].client = Nobody
  BY DEF Closed
<1>8. /\ run \in [Clients -> BOOLEAN] /\ cur \in [Clients -> Tokens \cup {NoToken}]
      /\ sup \in [Clients -> {"due", "receive"}] /\ event \in [Clients -> BOOLEAN]
      /\ local \in [Clients -> Contents] /\ base \in [Clients -> Contents]
      /\ saved \in [Clients -> Contents]
      /\ maker \in [Versions -> Clients \cup {Nobody}]
      /\ remote \in Contents /\ version \in Versions
      /\ copies \in SUBSET Versions /\ superseded \in SUBSET Versions
      /\ gone \in SUBSET Clients /\ asked \in SUBSET Clients
      /\ \A c \in Clients : cur[c] = NoToken
  BY <1>1
<1> QED
  BY ONLY <1>2, <1>3, <1>5, <1>6, <1>7, <1>8, Zenon DEF SyncTypeInv, SyncTypeOK

\* Replacing the record of one session, or of one client's job, keeps the types.
LEMMA SessUpdate ==
  ASSUME NEW f \in [Tokens -> SessStates], NEW t \in Tokens, NEW r \in SessStates
  PROVE  [f EXCEPT ![t] = r] \in [Tokens -> SessStates]
OBVIOUS

\* The same for the job of one client.
LEMMA JobUpdate ==
  ASSUME NEW f \in [Clients -> JobStates], NEW c \in Clients, NEW r \in JobStates
  PROVE  [f EXCEPT ![c] = r] \in [Clients -> JobStates]
OBVIOUS

Origins   == {"command", "sync"}
SessSteps == {"closed", "idle", "commit", "reply", "refuse", "push"}
JobSteps  == {"idle", "scan", "send", "wait", "failed", "fetch", "install", "rename", "unlink",
              "save"}

\* One field of a session, or of a job, may change to anything of its type.
LEMMA SessField ==
  ASSUME NEW g \in SessStates
  PROVE  /\ \A x \in SessSteps : [g EXCEPT !.st = x] \in SessStates
         /\ \A v \in Contents : [g EXCEPT !.val = v] \in SessStates
         /\ \A b \in Origins : [g EXCEPT !.origin = b] \in SessStates
         /\ \A w \in SUBSET Tokens : [g EXCEPT !.to = w] \in SessStates
<1> USE DEF SessStates, SessSteps, Origins
<1>1. ASSUME NEW x \in SessSteps PROVE [g EXCEPT !.st = x] \in SessStates
  OBVIOUS
<1>2. ASSUME NEW v \in Contents PROVE [g EXCEPT !.val = v] \in SessStates
  OBVIOUS
<1>3. ASSUME NEW b \in Origins PROVE [g EXCEPT !.origin = b] \in SessStates
  OBVIOUS
<1>4. ASSUME NEW w \in SUBSET Tokens PROVE [g EXCEPT !.to = w] \in SessStates
  OBVIOUS
<1> HIDE DEF SessStates, SessSteps, Origins
<1> QED BY <1>1, <1>2, <1>3, <1>4

\* The same for the fields of a job.
LEMMA JobField ==
  ASSUME NEW g \in JobStates
  PROVE  /\ \A x \in JobSteps : [g EXCEPT !.st = x] \in JobStates
         /\ \A v \in Contents : /\ [g EXCEPT !.val = v] \in JobStates
                               /\ [g EXCEPT !.here = v] \in JobStates
<1> USE DEF JobStates, JobSteps
<1>1. ASSUME NEW x \in JobSteps PROVE [g EXCEPT !.st = x] \in JobStates
  OBVIOUS
<1>2. ASSUME NEW v \in Contents PROVE [g EXCEPT !.val = v] \in JobStates
  OBVIOUS
<1>3. ASSUME NEW v \in Contents PROVE [g EXCEPT !.here = v] \in JobStates
  OBVIOUS
<1> HIDE DEF JobStates, JobSteps
<1> QED BY <1>1, <1>2, <1>3

\* The steps of a session, with the fields that change together.  Every other
\* field, and every other session, stays as it is.
LEMMA RequestFields ==
  ASSUME sess \in [Tokens -> SessStates], NEW t \in Tokens, NEW v \in Contents, NEW b \in Origins
  PROVE  /\ Request(t, v, b) \in [Tokens -> SessStates]
         /\ \A u \in Tokens :
               /\ Request(t, v, b)[u].client = sess[u].client
               /\ Request(t, v, b)[u].to = sess[u].to
               /\ Request(t, v, b)[u].st = IF u = t THEN "commit" ELSE sess[u].st
               /\ Request(t, v, b)[u].val = IF u = t THEN v ELSE sess[u].val
               /\ Request(t, v, b)[u].origin = IF u = t THEN b ELSE sess[u].origin
<1> DEFINE p == [sess[t] EXCEPT !.st = "commit"]
           q == [p EXCEPT !.val = v]
           r == [q EXCEPT !.origin = b]
<1>1. \A u \in Tokens :
               /\ Request(t, v, b)[u].client = sess[u].client
               /\ Request(t, v, b)[u].to = sess[u].to
               /\ Request(t, v, b)[u].st = IF u = t THEN "commit" ELSE sess[u].st
               /\ Request(t, v, b)[u].val = IF u = t THEN v ELSE sess[u].val
               /\ Request(t, v, b)[u].origin = IF u = t THEN b ELSE sess[u].origin
  BY DEF Request, SessStates
<1>2. Request(t, v, b) = [sess EXCEPT ![t] = r]
  BY DEF Request
<1>3. p \in SessStates
  BY SessField DEF SessSteps
<1> HIDE DEF p
<1>4. q \in SessStates
  BY <1>3, SessField
<1> HIDE DEF q
<1>5. r \in SessStates
  BY <1>4, SessField
<1> HIDE DEF r
<1>6. Request(t, v, b) \in [Tokens -> SessStates]
  BY <1>2, <1>5, SessUpdate
<1> QED BY ONLY <1>1, <1>6

\* A session goes on to its next step.
LEMMA StepFields ==
  ASSUME sess \in [Tokens -> SessStates], NEW t \in Tokens, NEW x \in SessSteps,
         sess' = [sess EXCEPT ![t].st = x]
  PROVE  /\ sess' \in [Tokens -> SessStates]
         /\ \A u \in Tokens :
               /\ sess'[u].client = sess[u].client /\ sess'[u].to = sess[u].to
               /\ sess'[u].st = IF u = t THEN x ELSE sess[u].st
               /\ sess'[u].val = sess[u].val /\ sess'[u].origin = sess[u].origin
<1> DEFINE p == [sess[t] EXCEPT !.st = x]
<1>1. \A u \in Tokens :
               /\ sess'[u].client = sess[u].client /\ sess'[u].to = sess[u].to
               /\ sess'[u].st = IF u = t THEN x ELSE sess[u].st
               /\ sess'[u].val = sess[u].val /\ sess'[u].origin = sess[u].origin
  BY DEF SessStates
<1>2. sess' = [sess EXCEPT ![t] = p]
  OBVIOUS
<1>3. p \in SessStates
  BY SessField
<1> HIDE DEF p
<1>4. sess' \in [Tokens -> SessStates]
  BY <1>2, <1>3, SessUpdate
<1> QED BY ONLY <1>1, <1>4

\* The sessions a push is still to be sent to change.
LEMMA ToFields ==
  ASSUME sess \in [Tokens -> SessStates], NEW t \in Tokens, NEW w \in SUBSET Tokens,
         sess' = [sess EXCEPT ![t].to = w]
  PROVE  /\ sess' \in [Tokens -> SessStates]
         /\ \A u \in Tokens :
               /\ sess'[u].client = sess[u].client
               /\ sess'[u].to = IF u = t THEN w ELSE sess[u].to
               /\ sess'[u].st = sess[u].st /\ sess'[u].val = sess[u].val /\ sess'[u].origin = sess[u].origin
<1> DEFINE p == [sess[t] EXCEPT !.to = w]
<1>1. \A u \in Tokens :
               /\ sess'[u].client = sess[u].client
               /\ sess'[u].to = IF u = t THEN w ELSE sess[u].to
               /\ sess'[u].st = sess[u].st /\ sess'[u].val = sess[u].val /\ sess'[u].origin = sess[u].origin
  BY DEF SessStates
<1>2. sess' = [sess EXCEPT ![t] = p]
  OBVIOUS
<1>3. p \in SessStates
  BY SessField
<1> HIDE DEF p
<1>4. sess' \in [Tokens -> SessStates]
  BY <1>2, <1>3, SessUpdate
<1> QED BY ONLY <1>1, <1>4

\* The client leaves: a request that has not arrived is dropped.
LEMMA LeftFields ==
  ASSUME sess \in [Tokens -> SessStates], NEW t \in Tokens, NEW arrived \in BOOLEAN,
         sess' = Left(t, arrived)
  PROVE  /\ sess' \in [Tokens -> SessStates]
         /\ \A u \in Tokens :
               /\ sess'[u].client = sess[u].client /\ sess'[u].to = sess[u].to
               /\ sess'[u].st = IF u = t /\ sess[t].st = "commit" /\ ~arrived THEN "idle" ELSE sess[u].st
               /\ sess'[u].val = sess[u].val /\ sess'[u].origin = sess[u].origin
<1>1. CASE sess[t].st = "commit" /\ ~arrived
  <2>1. sess' = [sess EXCEPT ![t].st = "idle"] /\ "idle" \in SessSteps
    BY <1>1 DEF Left, SessSteps
  <2>2. sess' \in [Tokens -> SessStates]
    BY <2>1, StepFields
  <2> QED BY <1>1, <2>1, <2>2, StepFields
<1>2. CASE ~(sess[t].st = "commit" /\ ~arrived)
  BY <1>2 DEF Left
<1> QED BY <1>1, <1>2

\* The handler has answered, and the pushes are due.
LEMMA ReplyFields ==
  ASSUME sess \in [Tokens -> SessStates], NEW t \in Tokens, NEW w \in SUBSET Tokens,
         sess' = [sess EXCEPT ![t].st = "push", ![t].to = w]
  PROVE  /\ sess' \in [Tokens -> SessStates]
         /\ \A u \in Tokens :
               /\ sess'[u].client = sess[u].client
               /\ sess'[u].to = IF u = t THEN w ELSE sess[u].to
               /\ sess'[u].st = IF u = t THEN "push" ELSE sess[u].st
               /\ sess'[u].val = sess[u].val /\ sess'[u].origin = sess[u].origin
<1> DEFINE p == [sess[t] EXCEPT !.st = "push"]
           r == [p EXCEPT !.to = w]
<1>1. \A u \in Tokens :
         /\ sess'[u].client = sess[u].client
         /\ sess'[u].to = IF u = t THEN w ELSE sess[u].to
         /\ sess'[u].st = IF u = t THEN "push" ELSE sess[u].st
         /\ sess'[u].val = sess[u].val /\ sess'[u].origin = sess[u].origin
  BY DEF SessStates
<1>2. sess' = [sess EXCEPT ![t] = r]
  OBVIOUS
<1>3. p \in SessStates
  BY SessField DEF SessSteps
<1> HIDE DEF p
<1>4. r \in SessStates
  BY <1>3, SessField
<1> HIDE DEF r
<1>5. sess' \in [Tokens -> SessStates]
  BY <1>2, <1>4, SessUpdate
<1> QED BY ONLY <1>1, <1>5

\* The same for the steps of a job.
LEMMA JobStepFields ==
  ASSUME job \in [Clients -> JobStates], NEW c \in Clients, NEW x \in JobSteps,
         job' = [job EXCEPT ![c].st = x]
  PROVE  /\ job' \in [Clients -> JobStates]
         /\ \A d \in Clients :
               /\ job'[d].who = job[d].who
               /\ job'[d].st = IF d = c THEN x ELSE job[d].st
               /\ job'[d].here = job[d].here
               /\ job'[d].val = job[d].val
<1> DEFINE p == [job[c] EXCEPT !.st = x]
<1>1. \A d \in Clients :
               /\ job'[d].who = job[d].who
               /\ job'[d].st = IF d = c THEN x ELSE job[d].st
               /\ job'[d].here = job[d].here
               /\ job'[d].val = job[d].val
  BY DEF JobStates
<1>2. job' = [job EXCEPT ![c] = p]
  OBVIOUS
<1>3. p \in JobStates
  BY JobField
<1> HIDE DEF p
<1>4. job' \in [Clients -> JobStates]
  BY <1>2, <1>3, JobUpdate
<1> QED BY ONLY <1>1, <1>4

\* reconcile has compared the file, and goes on with what it found.
LEMMA ScanFields ==
  ASSUME job \in [Clients -> JobStates], NEW c \in Clients, NEW x \in JobSteps, NEW v \in Contents,
         job' = [job EXCEPT ![c].here = v, ![c].st = x]
  PROVE  /\ job' \in [Clients -> JobStates]
         /\ \A d \in Clients :
               /\ job'[d].who = job[d].who
               /\ job'[d].st = IF d = c THEN x ELSE job[d].st
               /\ job'[d].here = IF d = c THEN v ELSE job[d].here
               /\ job'[d].val = job[d].val
<1> DEFINE p == [job[c] EXCEPT !.here = v]
           r == [p EXCEPT !.st = x]
<1>1. \A d \in Clients :
               /\ job'[d].who = job[d].who
               /\ job'[d].st = IF d = c THEN x ELSE job[d].st
               /\ job'[d].here = IF d = c THEN v ELSE job[d].here
               /\ job'[d].val = job[d].val
  BY DEF JobStates
<1>2. job' = [job EXCEPT ![c] = r]
  OBVIOUS
<1>3. p \in JobStates
  BY JobField
<1> HIDE DEF p
<1>4. r \in JobStates
  BY <1>3, JobField
<1> HIDE DEF r
<1>5. job' \in [Clients -> JobStates]
  BY <1>2, <1>4, JobUpdate
<1> QED BY ONLY <1>1, <1>5

\* The file has come from the server.
LEMMA FetchFields ==
  ASSUME job \in [Clients -> JobStates], NEW c \in Clients, NEW v \in Contents,
         job' = [job EXCEPT ![c].st = "install", ![c].val = v]
  PROVE  /\ job' \in [Clients -> JobStates]
         /\ \A d \in Clients :
               /\ job'[d].who = job[d].who
               /\ job'[d].st = IF d = c THEN "install" ELSE job[d].st
               /\ job'[d].here = job[d].here
               /\ job'[d].val = IF d = c THEN v ELSE job[d].val
<1> DEFINE p == [job[c] EXCEPT !.st = "install"]
           r == [p EXCEPT !.val = v]
<1>1. \A d \in Clients :
               /\ job'[d].who = job[d].who
               /\ job'[d].st = IF d = c THEN "install" ELSE job[d].st
               /\ job'[d].here = job[d].here
               /\ job'[d].val = IF d = c THEN v ELSE job[d].val
  BY DEF JobStates
<1>2. job' = [job EXCEPT ![c] = r]
  OBVIOUS
<1>3. p \in JobStates
  BY JobField DEF JobSteps
<1> HIDE DEF p
<1>4. r \in JobStates
  BY <1>3, JobField
<1> HIDE DEF r
<1>5. job' \in [Clients -> JobStates]
  BY <1>2, <1>4, JobUpdate
<1> QED BY ONLY <1>1, <1>5

\* What a step leaves of the bounds of the story.
BoundsKept(l) ==
    /\ l \in StoryRecords
    /\ \A b \in {"edits", "deletes", "commands", "faults", "kills"} : l[b] \in 0..story[b]

\* One thing less may happen: no bound is overdrawn.
LEMMA SpendType ==
  ASSUME SyncTypeInv, NEW kind \in {"edits", "deletes", "commands", "faults", "kills"},
         left[kind] > 0
  PROVE  BoundsKept(Spend(kind))
<1>1. /\ story \in StoryRecords /\ left \in StoryRecords
      /\ \A b \in {"edits", "deletes", "commands", "faults", "kills"} : left[b] \in 0..story[b]
  BY DEF SyncTypeInv, SyncTypeOK
<1> USE ONLY <1>1, left[kind] > 0 DEF StoryRecords, Spend, BoundsKept
<1>2. CASE kind = "edits"
  BY <1>2
<1>3. CASE kind = "deletes"
  BY <1>3
<1>4. CASE kind = "commands"
  BY <1>4
<1>5. CASE kind = "faults"
  BY <1>5
<1>6. CASE kind = "kills"
  BY <1>6
<1> QED BY <1>2, <1>3, <1>4, <1>5, <1>6, kind \in {"edits", "deletes", "commands", "faults", "kills"}

\* No file is a content, and not a version.
LEMMA ContentTypes ==
  /\ Absent \in Contents /\ Versions \subseteq Contents /\ Absent \notin Versions
  /\ \A v \in Contents : v # Absent => v \in Versions
BY SyncAssumption DEF Contents, Versions

\* A client that does nothing, a session that is closed, one that was just opened.
LEMMA RestTypes ==
  /\ NoJob \in JobStates /\ Closed \in SessStates
  /\ \A c \in Clients : [Closed EXCEPT !.client = c, !.st = "idle"] \in SessStates
BY ContentTypes DEF NoJob, JobStates, Closed, SessStates

\* The session of a client that is connected.
LEMMA CurrentSession ==
  ASSUME SyncTypeInv, NEW c \in Clients, Online(c)
  PROVE  /\ cur[c] \in Tokens /\ sess[cur[c]].client = c
         /\ sess[cur[c]].st # "closed" /\ run[c]
BY SyncAssumption DEF SyncTypeInv, SyncTypeOK, Online

\* The user writes the file.
LEMMA TypeEdit == \A c \in Clients : SyncTypeInv /\ Edit(c) => SyncTypeInv'
<1> SUFFICES ASSUME NEW c \in Clients, SyncTypeInv, Edit(c) PROVE SyncTypeInv'
  OBVIOUS
<1>1. BoundsKept(left')
  BY SpendType DEF Edit
<1>2. version + 1 \in Versions /\ version + 1 \in Contents
  BY SyncAssumption DEF Edit, SyncTypeInv, SyncTypeOK, Versions, Contents
<1>3. /\ version' \in Versions /\ local' \in [Clients -> Contents]
      /\ superseded' \in SUBSET Versions /\ maker' \in [Versions -> Clients \cup {Nobody}]
      /\ event' \in [Clients -> BOOLEAN]
  BY <1>2 DEF Edit, SyncTypeInv, SyncTypeOK
<1> QED
  BY ONLY SyncTypeInv, Edit(c), <1>1, <1>3, Zenon
     DEF SyncTypeInv, SyncTypeOK, BoundsKept, Edit, serverVars

\* The user deletes the file.
LEMMA TypeErase == \A c \in Clients : SyncTypeInv /\ Erase(c) => SyncTypeInv'
<1> SUFFICES ASSUME NEW c \in Clients, SyncTypeInv, Erase(c) PROVE SyncTypeInv'
  OBVIOUS
<1>1. BoundsKept(left')
  BY SpendType DEF Erase
<1>2. /\ local' \in [Clients -> Contents] /\ event' \in [Clients -> BOOLEAN]
      /\ superseded' \in SUBSET Versions /\ asked' \in SUBSET Clients
  BY ContentTypes DEF Erase, SyncTypeInv, SyncTypeOK
<1> QED
  BY ONLY SyncTypeInv, Erase(c), <1>1, <1>2, Zenon
     DEF SyncTypeInv, SyncTypeOK, BoundsKept, Erase, serverVars

\* upload and delete at the command line (cmd_upload, cmd_delete).
LEMMA TypeCommand == \A c \in Clients : SyncTypeInv /\ (CmdUpload(c) \/ CmdDelete(c)) => SyncTypeInv'
<1> SUFFICES ASSUME NEW c \in Clients, SyncTypeInv, CmdUpload(c) \/ CmdDelete(c) PROVE SyncTypeInv'
  OBVIOUS
<1>1. Commanded(c)
  BY DEF CmdUpload, CmdDelete
<1>2. BoundsKept(left')
  BY <1>1, SpendType DEF Commanded
<1>3. cur[c] \in Tokens /\ sess[cur[c]].client # Nobody
  BY <1>1, CurrentSession, SyncAssumption DEF Commanded, Ready
<1>4. version < MaxVersion => version + 1 \in Contents /\ version + 1 \in Versions
  BY SyncAssumption DEF SyncTypeInv, SyncTypeOK, Versions, Contents
<1>5. PICK v \in Contents : sess' = Request(cur[c], v, "command")
  BY <1>4, ContentTypes DEF CmdUpload, CmdDelete
<1>6. /\ sess' \in [Tokens -> SessStates]
      /\ \A u \in Tokens : sess'[u].client = sess[u].client /\ (sess'[u].st = "closed" => sess[u].st = "closed")
  <2>1. sess \in [Tokens -> SessStates] /\ "command" \in Origins
    BY DEF SyncTypeInv, SyncTypeOK, Origins
  <2> QED BY ONLY <1>3, <1>5, <2>1, RequestFields
<1>7. /\ version' \in Versions /\ maker' \in [Versions -> Clients \cup {Nobody}]
      /\ asked' \in SUBSET Clients
  <2>1. /\ version \in Versions /\ maker \in [Versions -> Clients \cup {Nobody}]
        /\ asked \in SUBSET Clients
    BY DEF SyncTypeInv, SyncTypeOK
  <2>2. CASE CmdUpload(c)
    BY ONLY c \in Clients, <1>4, <2>1, <2>2 DEF CmdUpload
  <2>3. CASE CmdDelete(c)
    BY ONLY c \in Clients, <2>1, <2>3 DEF CmdDelete
  <2> QED BY <2>2, <2>3
<1>8. /\ \A d \in Clients : cur'[d] # NoToken => run'[d] /\ sess'[cur'[d]].client = d
      /\ \A t \in Tokens : sess'[t].st = "closed" => sess'[t].client = Nobody
  BY <1>1, <1>6 DEF Commanded, SyncTypeInv, SyncTypeOK
<1> QED
  BY ONLY SyncTypeInv, <1>1, <1>2, <1>6, <1>7, <1>8, Zenon
     DEF SyncTypeInv, SyncTypeOK, BoundsKept, Commanded, stateVars

\* The types that the proofs of the single steps start from.
LEMMA Tables ==
  ASSUME SyncTypeInv
  PROVE  /\ sess \in [Tokens -> SessStates] /\ job \in [Clients -> JobStates]
         /\ chan \in [Tokens -> Seq(Contents)] /\ cur \in [Clients -> Tokens \cup {NoToken}]
         /\ local \in [Clients -> Contents] /\ base \in [Clients -> Contents]
         /\ saved \in [Clients -> Contents] /\ event \in [Clients -> BOOLEAN]
         /\ run \in [Clients -> BOOLEAN] /\ sup \in [Clients -> {"due", "receive"}]
         /\ remote \in Contents
         /\ \A d \in Clients : cur[d] # NoToken => run[d] /\ sess[cur[d]].client = d
         /\ \A t \in Tokens : sess[t].st = "closed" => sess[t].client = Nobody
BY Zenon DEF SyncTypeInv, SyncTypeOK

\* The pushes on their way to one session change.
LEMMA ChanUpdate ==
  ASSUME chan \in [Tokens -> Seq(Contents)], NEW t, NEW s \in Seq(Contents)
  PROVE  [chan EXCEPT ![t] = s] \in [Tokens -> Seq(Contents)]
OBVIOUS

\* No push is on its way.
LEMMA NoPushes == <<>> \in Seq(Contents)
OBVIOUS

\* connect_once: the new session is the client's.
LEMMA TypeConnect == \A c \in Clients : SyncTypeInv /\ Connect(c) => SyncTypeInv'
<1> SUFFICES ASSUME NEW c \in Clients, SyncTypeInv, Connect(c) PROVE SyncTypeInv'
  OBVIOUS
<1> DEFINE r == [Closed EXCEPT !.client = c, !.st = "idle"]
<1>1. PICK t \in Tokens : /\ sess[t].st = "closed"
                          /\ sess' = [sess EXCEPT ![t] = r] /\ cur' = [cur EXCEPT ![c] = t]
  BY DEF Connect
<1>2. r \in SessStates /\ r.client = c /\ r.st = "idle"
  BY RestTypes DEF Closed
<1> HIDE DEF r
<1>3. /\ cur' \in [Clients -> Tokens \cup {NoToken}]
      /\ run' \in [Clients -> BOOLEAN] /\ sup' \in [Clients -> {"due", "receive"}]
  BY <1>1, Tables DEF Connect
<1>4. \A d \in Clients : cur'[d] # NoToken => run'[d] /\ sess'[cur'[d]].client = d
  BY <1>1, <1>2, Tables, SyncAssumption DEF Connect
<1>5. \A u \in Tokens : sess'[u].st = "closed" => sess'[u].client = Nobody
  BY <1>1, <1>2, Tables
<1>6. sess' \in [Tokens -> SessStates]
  BY <1>1, <1>2, SessUpdate, Tables
<1> QED
  BY ONLY SyncTypeInv, Connect(c), <1>3, <1>4, <1>5, <1>6, Zenon
     DEF SyncTypeInv, SyncTypeOK, Connect, stateVars, userVars

\* mark_disconnected: the client has no session any more.
LEMMA TypeDisconnect == \A c \in Clients : SyncTypeInv /\ Disconnect(c) => SyncTypeInv'
<1> SUFFICES ASSUME NEW c \in Clients, SyncTypeInv, Disconnect(c) PROVE SyncTypeInv'
  OBVIOUS
<1>1. BoundsKept(left')
  BY SpendType DEF Disconnect
<1>2. cur[c] \in Tokens
  BY CurrentSession DEF Disconnect
<1>3. PICK arrived \in BOOLEAN : sess' = Left(cur[c], arrived)
  BY DEF Disconnect
<1>4. /\ sess' \in [Tokens -> SessStates]
      /\ \A u \in Tokens : sess'[u].client = sess[u].client /\ (sess'[u].st = "closed" => sess[u].st = "closed")
  BY <1>2, <1>3, LeftFields, Tables
<1>5. job' \in [Clients -> JobStates]
  <2>1. PICK x \in JobSteps : job' = [job EXCEPT ![c].st = x]
    BY Tables DEF Disconnect, JobSteps, JobStates
  <2> QED BY <2>1, JobStepFields, Tables
<1>6. /\ cur' \in [Clients -> Tokens \cup {NoToken}] /\ sup' \in [Clients -> {"due", "receive"}]
  BY Tables DEF Disconnect
<1>8. chan' \in [Tokens -> Seq(Contents)]
  BY Tables, ChanUpdate, NoPushes DEF Disconnect
<1>7. /\ \A d \in Clients : cur'[d] # NoToken => run'[d] /\ sess'[cur'[d]].client = d
      /\ \A t \in Tokens : sess'[t].st = "closed" => sess'[t].client = Nobody
  BY <1>4, Tables DEF Disconnect
<1> QED
  BY ONLY SyncTypeInv, Disconnect(c), <1>1, <1>4, <1>5, <1>6, <1>7, <1>8, Zenon
     DEF SyncTypeInv, SyncTypeOK, BoundsKept, Disconnect, stateVars

\* shutdown: the session that is closed was nobody else's.
LEMMA TypeExit == \A c \in Clients : SyncTypeInv /\ Exit(c) => SyncTypeInv'
<1> SUFFICES ASSUME NEW c \in Clients, SyncTypeInv, Exit(c) PROVE SyncTypeInv'
  OBVIOUS
<1>1. Online(c) => cur[c] \in Tokens
  BY CurrentSession
<1>2. sess' \in [Tokens -> SessStates]
  BY <1>1, SessUpdate, RestTypes, Tables DEF Exit
<1>3. chan' \in [Tokens -> Seq(Contents)]
  BY Tables, ChanUpdate, NoPushes DEF Exit
<1>4. /\ cur' \in [Clients -> Tokens \cup {NoToken}] /\ run' \in [Clients -> BOOLEAN]
      /\ sup' \in [Clients -> {"due", "receive"}] /\ event' \in [Clients -> BOOLEAN]
  BY Tables DEF Exit
<1>5. \A u \in Tokens : sess'[u] = sess[u] \/ (sess'[u] = Closed /\ Online(c) /\ u = cur[c])
  BY <1>1, Tables DEF Exit
<1>6. Closed.client = Nobody
  BY DEF Closed
<1>7. \A d \in Clients : cur'[d] # NoToken => run'[d] /\ sess'[cur'[d]].client = d
  BY <1>5, Tables DEF Exit, Online
<1>8. \A u \in Tokens : sess'[u].st = "closed" => sess'[u].client = Nobody
  BY <1>5, <1>6, Tables
<1> QED
  BY ONLY SyncTypeInv, Exit(c), <1>2, <1>3, <1>4, <1>7, <1>8, Zenon
     DEF SyncTypeInv, SyncTypeOK, Exit, userVars

\* The program is killed, with or without a connection.
LEMMA TypeKill == \A c \in Clients : SyncTypeInv /\ Kill(c) => SyncTypeInv'
<1> SUFFICES ASSUME NEW c \in Clients, SyncTypeInv, Kill(c) PROVE SyncTypeInv'
  OBVIOUS
<1>1. BoundsKept(left')
  BY SpendType DEF Kill
<1>2. /\ sess' \in [Tokens -> SessStates] /\ chan' \in [Tokens -> Seq(Contents)]
      /\ \A u \in Tokens : sess'[u].client = sess[u].client /\ (sess'[u].st = "closed" => sess[u].st = "closed")
  <2>1. CASE Online(c)
    <3>1. cur[c] \in Tokens
      BY <2>1, CurrentSession
    <3>2. PICK arrived \in BOOLEAN : sess' = Left(cur[c], arrived)
      BY <2>1 DEF Kill
    <3>3. chan' \in [Tokens -> Seq(Contents)]
      BY <2>1, ChanUpdate, NoPushes, Tables DEF Kill
    <3>4. sess \in [Tokens -> SessStates]
      BY Tables
    <3> QED BY ONLY <3>1, <3>2, <3>3, <3>4, LeftFields
  <2>2. CASE ~Online(c)
    BY <2>2, Tables DEF Kill
  <2> QED BY <2>1, <2>2
<1>3. /\ cur' \in [Clients -> Tokens \cup {NoToken}] /\ run' \in [Clients -> BOOLEAN]
      /\ sup' \in [Clients -> {"due", "receive"}] /\ event' \in [Clients -> BOOLEAN]
      /\ base' \in [Clients -> Contents]
  BY Tables DEF Kill
<1>4. job' \in [Clients -> JobStates]
  BY JobUpdate, RestTypes, Tables DEF Kill
<1>5. /\ \A d \in Clients : cur'[d] # NoToken => run'[d] /\ sess'[cur'[d]].client = d
      /\ \A t \in Tokens : sess'[t].st = "closed" => sess'[t].client = Nobody
  <2>1. /\ cur'[c] = NoToken
        /\ \A d \in Clients \ {c} : cur'[d] = cur[d] /\ run'[d] = run[d]
    BY Tables DEF Kill
  <2>2. /\ cur \in [Clients -> Tokens \cup {NoToken}]
        /\ \A d \in Clients : cur[d] # NoToken => run[d] /\ sess[cur[d]].client = d
        /\ \A t \in Tokens : sess[t].st = "closed" => sess[t].client = Nobody
    BY Tables
  <2>3. /\ \A t \in Tokens : sess'[t].client = sess[t].client
        /\ \A t \in Tokens : sess'[t].st = "closed" => sess[t].st = "closed"
    BY ONLY <1>2
  <2>4. ASSUME NEW d \in Clients, cur'[d] # NoToken PROVE run'[d] /\ sess'[cur'[d]].client = d
    <3>1. d # c /\ cur'[d] = cur[d] /\ run'[d] = run[d]
      BY ONLY <2>1, <2>4
    <3>2. cur[d] \in Tokens /\ run[d] /\ sess[cur[d]].client = d
      BY ONLY <2>2, <2>4, <3>1
    <3> QED BY ONLY <2>3, <3>1, <3>2
  <2>5. \A t \in Tokens : sess'[t].st = "closed" => sess'[t].client = Nobody
    BY ONLY <2>2, <2>3
  <2> QED BY ONLY <2>4, <2>5
<1> QED
  BY ONLY SyncTypeInv, Kill(c), <1>1, <1>2, <1>3, <1>4, <1>5, Zenon
     DEF SyncTypeInv, SyncTypeOK, BoundsKept, Kill

\* A job can always come to its save.
LEMMA SaveStep == "save" \in JobSteps
BY DEF JobSteps

\* reconcile asks for the list of the server.
LEMMA TypeList == \A c \in Clients : SyncTypeInv /\ List(c) => SyncTypeInv'
<1> SUFFICES ASSUME NEW c \in Clients, SyncTypeInv, List(c) PROVE SyncTypeInv'
  OBVIOUS
<1>1. BoundsKept(left')
  BY SpendType DEF List, BoundsKept, SyncTypeInv, SyncTypeOK
<1>2. job' \in [Clients -> JobStates]
  <2> DEFINE r == [NoJob EXCEPT !.who = IF sup[c] = "due" THEN "super" ELSE "main",
                                !.st = "scan", !.val = remote]
  <2>1. r \in JobStates
    BY Tables, ContentTypes DEF NoJob, JobStates
  <2>2. job' = [job EXCEPT ![c] = r]
    BY Zenon DEF List
  <2> HIDE DEF r
  <2> QED BY <2>1, <2>2, JobUpdate, Tables
<1>3. gone' \in SUBSET Clients
  BY DEF List, SyncTypeInv, SyncTypeOK
<1> QED
  BY ONLY SyncTypeInv, List(c), <1>1, <1>2, <1>3, Zenon
     DEF SyncTypeInv, SyncTypeOK, BoundsKept, List, serverVars, stateVars

\* reconcile compares the file.
LEMMA TypeScan == \A c \in Clients : SyncTypeInv /\ Scan(c) => SyncTypeInv'
<1> SUFFICES ASSUME NEW c \in Clients, SyncTypeInv, Scan(c) PROVE SyncTypeInv'
  OBVIOUS
<1>1. PICK x \in JobSteps : job' = [job EXCEPT ![c].here = local[c], ![c].st = x]
  BY DEF Scan, JobSteps, Plan
<1>2. job' \in [Clients -> JobStates]
  <2>1. job \in [Clients -> JobStates] /\ local[c] \in Contents
    BY Tables
  <2> QED BY ONLY <1>1, <2>1, c \in Clients, ScanFields
<1>3. base' \in [Clients -> Contents]
  BY Tables DEF Scan
<1> QED
  BY ONLY SyncTypeInv, Scan(c), <1>2, <1>3, Zenon
     DEF SyncTypeInv, SyncTypeOK, Scan, serverVars, userVars

\* upload and remove_remote start an exchange.
LEMMA TypeSend == \A c \in Clients : SyncTypeInv /\ Send(c) => SyncTypeInv'
<1> SUFFICES ASSUME NEW c \in Clients, SyncTypeInv, Send(c) PROVE SyncTypeInv'
  OBVIOUS
<1>1. cur[c] \in Tokens
  BY CurrentSession DEF Send, Ready
<1>2. job' \in [Clients -> JobStates]
  <2>1. PICK x \in JobSteps : job' = [job EXCEPT ![c].st = x]
    BY DEF Send, JobSteps
  <2> QED BY <2>1, JobStepFields, Tables
<1>3. /\ sess' \in [Tokens -> SessStates]
      /\ \A u \in Tokens : sess'[u].client = sess[u].client /\ (sess'[u].st = "closed" => sess[u].st = "closed")
  <2>1. CASE UNCHANGED sess
    BY <2>1, Tables
  <2>2. CASE ~UNCHANGED sess
    <3>1. PICK v \in Contents : sess' = Request(cur[c], v, "sync")
      BY <2>2, Tables, ContentTypes DEF Send
    <3>2. "sync" \in Origins /\ sess \in [Tokens -> SessStates]
      BY Tables DEF Origins
    <3> QED BY ONLY <1>1, <3>1, <3>2, RequestFields
  <2> QED BY <2>1, <2>2
<1>4. /\ \A d \in Clients : cur'[d] # NoToken => run'[d] /\ sess'[cur'[d]].client = d
      /\ \A t \in Tokens : sess'[t].st = "closed" => sess'[t].client = Nobody
  BY <1>3, Tables DEF Send
<1> QED
  BY ONLY SyncTypeInv, Send(c), <1>2, <1>3, <1>4, Zenon
     DEF SyncTypeInv, SyncTypeOK, Send, stateVars, userVars

\* The steps of a job that only change the client's own file, record and job.
LEMMA TypeJobStep ==
  \A c \in Clients : SyncTypeInv /\ (Fetch(c) \/ Unlink(c) \/ Save(c) \/ JobFails(c)) => SyncTypeInv'
<1> SUFFICES ASSUME NEW c \in Clients, SyncTypeInv, Fetch(c) \/ Unlink(c) \/ Save(c) \/ JobFails(c)
             PROVE SyncTypeInv'
  OBVIOUS
<1>1. CASE Fetch(c)
  <2>1. job' \in [Clients -> JobStates]
    <3>1. CASE remote = Absent
      <4>1. job' = [job EXCEPT ![c].st = "save"]
        BY <1>1, <3>1 DEF Fetch
      <4> QED BY <4>1, SaveStep, JobStepFields, Tables
    <3>2. CASE remote # Absent
      <4>1. job' = [job EXCEPT ![c].st = "install", ![c].val = remote]
        BY <1>1, <3>2 DEF Fetch
      <4>2. job \in [Clients -> JobStates] /\ remote \in Contents
        BY Tables
      <4> QED BY ONLY <4>1, <4>2, c \in Clients, FetchFields
    <3> QED BY <3>1, <3>2
  <2>2. gone' \in SUBSET Clients
    BY <1>1 DEF Fetch, SyncTypeInv, SyncTypeOK
  <2> QED
    BY ONLY SyncTypeInv, <1>1, <2>1, <2>2, Zenon
       DEF SyncTypeInv, SyncTypeOK, Fetch, serverVars, stateVars, userVars
<1>2. CASE ~Fetch(c)
  <2>1. job' \in [Clients -> JobStates]
    <3>1. CASE Save(c)
      BY <3>1, JobUpdate, RestTypes, Tables DEF Save
    <3>2. CASE Unlink(c) \/ JobFails(c)
      <4>1. job' = [job EXCEPT ![c].st = "save"]
        BY <3>2 DEF Unlink, JobFails
      <4> QED BY <4>1, SaveStep, JobStepFields, Tables
    <3> QED BY <1>2, <3>1, <3>2
  <2>2. /\ local' \in [Clients -> Contents] /\ base' \in [Clients -> Contents]
        /\ saved' \in [Clients -> Contents] /\ event' \in [Clients -> BOOLEAN]
        /\ sup' \in [Clients -> {"due", "receive"}]
    <3>1. CASE Unlink(c)
      BY <3>1, Tables, ContentTypes DEF Unlink
    <3>2. CASE Save(c)
      BY <3>2, Tables DEF Save
    <3>3. CASE JobFails(c)
      BY <3>3, Tables DEF JobFails, stateVars
    <3> QED BY <1>2, <3>1, <3>2, <3>3
  <2>3. UNCHANGED <<story, gone, serverVars, run, cur, copies, userVars>>
    BY <1>2, Zenon DEF Unlink, Save, JobFails, stateVars
  <2> QED
    BY ONLY SyncTypeInv, <2>1, <2>2, <2>3, Zenon DEF SyncTypeInv, SyncTypeOK, serverVars, userVars
<1> QED BY <1>1, <1>2

\* What install moves away is a version.
LEMMA KeepType ==
  ASSUME SyncTypeInv, NEW c \in Clients, Keep(c)
  PROVE  /\ local' \in [Clients -> Contents] /\ event' \in [Clients -> BOOLEAN]
         /\ copies' \in SUBSET Versions
<1>1. /\ local \in [Clients -> Contents] /\ event \in [Clients -> BOOLEAN]
      /\ copies \in SUBSET Versions
  BY DEF SyncTypeInv, SyncTypeOK
<1>2. local[c] # Absent => local[c] \in Versions
  BY <1>1, ContentTypes
<1> QED BY ONLY <1>1, <1>2, ContentTypes, Keep(c), c \in Clients DEF Keep

\* install: the copy it keeps, the record, the rename and its failure.
LEMMA TypeInstall ==
  \A c \in Clients : SyncTypeInv /\ (Install(c) \/ Rename(c) \/ RenameFails(c)) => SyncTypeInv'
<1> SUFFICES ASSUME NEW c \in Clients, SyncTypeInv, Install(c) \/ Rename(c) \/ RenameFails(c)
             PROVE SyncTypeInv'
  OBVIOUS
<1>1. job' \in [Clients -> JobStates]
  <2>1. PICK x \in JobSteps : job' = [job EXCEPT ![c].st = x]
    BY DEF Install, Rename, RenameFails, JobSteps
  <2> QED BY <2>1, JobStepFields, Tables
<1>2. job[c].val \in Contents
  BY Tables DEF JobStates
<1>3. CASE Install(c)
  <2>1. base' \in [Clients -> Contents]
    BY <1>2, <1>3, Tables DEF Install
  <2> QED
    BY ONLY SyncTypeInv, <1>1, <1>3, <2>1, KeepType, c \in Clients, Zenon
       DEF SyncTypeInv, SyncTypeOK, Install, serverVars, userVars
<1>4. CASE Rename(c)
  <2>1. local' \in [Clients -> Contents] /\ event' \in [Clients -> BOOLEAN]
    BY <1>2, <1>4, Tables DEF Rename
  <2> QED
    BY ONLY SyncTypeInv, <1>1, <1>4, <2>1, Zenon
       DEF SyncTypeInv, SyncTypeOK, Rename, serverVars, userVars
<1>5. CASE RenameFails(c)
  <2>1. base' \in [Clients -> Contents]
    BY <1>5, Tables, ContentTypes DEF RenameFails
  <2>2. BoundsKept(left')
    BY <1>5, SpendType DEF RenameFails
  <2> QED
    BY ONLY SyncTypeInv, <1>1, <1>5, <2>1, <2>2, Zenon
       DEF SyncTypeInv, SyncTypeOK, BoundsKept, RenameFails, serverVars
<1> QED BY <1>3, <1>4, <1>5

\* The jobs that the worker and receive_loop begin.
LEMMA NewJobs ==
  ASSUME NEW v \in Contents
  PROVE  /\ [NoJob EXCEPT !.who = "worker", !.st = "send", !.here = v] \in JobStates
         /\ [NoJob EXCEPT !.who = "push", !.val = v, !.st = "unlink"] \in JobStates
         /\ [NoJob EXCEPT !.who = "push", !.val = v, !.st = "install"] \in JobStates
BY ContentTypes DEF NoJob, JobStates

\* worker_loop takes a name from the queue.
LEMMA TypeLook == \A c \in Clients : SyncTypeInv /\ Look(c) => SyncTypeInv'
<1> SUFFICES ASSUME NEW c \in Clients, SyncTypeInv, Look(c) PROVE SyncTypeInv'
  OBVIOUS
<1>1. job' \in [Clients -> JobStates] /\ event' \in [Clients -> BOOLEAN]
  <2> DEFINE r == [NoJob EXCEPT !.who = "worker", !.st = "send", !.here = local[c]]
  <2>1. r \in JobStates
    BY NewJobs, Tables
  <2>2. job' = job \/ job' = [job EXCEPT ![c] = r]
    BY DEF Look
  <2> HIDE DEF r
  <2>3. event' \in [Clients -> BOOLEAN]
    BY Tables DEF Look
  <2> QED BY <2>1, <2>2, <2>3, JobUpdate, Tables
<1> QED
  BY ONLY SyncTypeInv, Look(c), <1>1, Zenon DEF SyncTypeInv, SyncTypeOK, Look, serverVars, userVars

\* The push that is received, and what is left of the others.
LEMMA HeadTail ==
  ASSUME SyncTypeInv, NEW t \in Tokens, chan[t] # <<>>
  PROVE  /\ Head(chan[t]) \in Contents /\ Tail(chan[t]) \in Seq(Contents)
         /\ Len(chan[t]) \in Nat /\ Len(chan[t]) > 0 /\ Head(chan[t]) = chan[t][1]
         /\ Len(Tail(chan[t])) = Len(chan[t]) - 1
         /\ \A i \in 1..Len(chan[t]) - 1 : Tail(chan[t])[i] = chan[t][i + 1]
<1>1. chan[t] \in Seq(Contents)
  BY Tables
<1> QED BY <1>1

\* receive_loop takes a push.
LEMMA TypeReceive == \A c \in Clients : SyncTypeInv /\ Receive(c) => SyncTypeInv'
<1> SUFFICES ASSUME NEW c \in Clients, SyncTypeInv, Receive(c) PROVE SyncTypeInv'
  OBVIOUS
<1> DEFINE push == Head(chan[cur[c]])
           r == [NoJob EXCEPT !.who = "push", !.val = push,
                              !.st = IF push = Absent THEN "unlink" ELSE "install"]
<1>1. cur[c] \in Tokens
  BY CurrentSession DEF Receive
<1>2. push \in Contents /\ Tail(chan[cur[c]]) \in Seq(Contents)
  BY <1>1, HeadTail DEF Receive
<1>3. r \in JobStates
  <2> HIDE DEF push
  <2> QED BY <1>2, NewJobs
<1>4. job' = [job EXCEPT ![c] = r]
  BY Zenon DEF Receive
<1> HIDE DEF r
<1>5. job' \in [Clients -> JobStates]
  BY <1>3, <1>4, JobUpdate, Tables
<1>6. chan' \in [Tokens -> Seq(Contents)]
  <2>1. chan' = [chan EXCEPT ![cur[c]] = Tail(chan[cur[c]])]
    BY DEF Receive
  <2> QED BY <1>2, <2>1, ChanUpdate, Tables
<1>7. base' \in [Clients -> Contents] /\ saved' \in [Clients -> Contents]
  BY Tables, ContentTypes DEF Receive
<1> QED
  BY ONLY SyncTypeInv, Receive(c), <1>5, <1>6, <1>7, Zenon
     DEF SyncTypeInv, SyncTypeOK, Receive, userVars

\* A step of a session that leaves its client alone keeps the links.
LEMMA LinksKept ==
  ASSUME SyncTypeInv, UNCHANGED <<cur, run>>,
         \A u \in Tokens : /\ sess'[u].client = sess[u].client
                           /\ sess'[u].st = "closed" => sess[u].st = "closed"
  PROVE  /\ \A d \in Clients : cur'[d] # NoToken => run'[d] /\ sess'[cur'[d]].client = d
         /\ \A t \in Tokens : sess'[t].st = "closed" => sess'[t].client = Nobody
BY Tables

\* The steps of a session's handler.
LEMMA TypeServer == \A t \in Tokens : SyncTypeInv /\ ServerStep(t) => SyncTypeInv'
<1> SUFFICES ASSUME NEW t \in Tokens, SyncTypeInv, ServerStep(t) PROVE SyncTypeInv'
  OBVIOUS
<1>1. sess \in [Tokens -> SessStates] /\ remote \in Contents
  BY Tables
<1>2. CASE Commit(t)
  <2>1. PICK x \in {"refuse", "reply"} : sess' = [sess EXCEPT ![t].st = x]
    BY <1>2 DEF Commit
  <2>2. x \in SessSteps /\ x # "closed"
    BY DEF SessSteps
  <2>3. /\ sess' \in [Tokens -> SessStates]
        /\ \A u \in Tokens : sess'[u].client = sess[u].client /\ (sess'[u].st = "closed" => sess[u].st = "closed")
    <3>1. sess' \in [Tokens -> SessStates]
      BY <1>1, <2>1, <2>2, StepFields
    <3>2. \A u \in Tokens : sess'[u].client = sess[u].client /\ (sess'[u].st = "closed" => sess[u].st = "closed")
      BY <1>1, <2>1, <2>2, StepFields
    <3> QED BY <3>1, <3>2
  <2>4. remote' \in Contents /\ superseded' \in SUBSET Versions
    BY <1>1, <1>2 DEF Commit, SessStates, SyncTypeInv, SyncTypeOK
  <2>5. UNCHANGED <<cur, run>>
    BY <1>2 DEF Commit
  <2> QED
    BY ONLY SyncTypeInv, <1>2, <2>3, <2>4, <2>5, LinksKept, Zenon
       DEF SyncTypeInv, SyncTypeOK, Commit, stateVars
<1>3. CASE Reply(t)
  <2>1. /\ sess' \in [Tokens -> SessStates]
        /\ \A u \in Tokens : sess'[u].client = sess[u].client /\ (sess'[u].st = "closed" => sess[u].st = "closed")
    <3>1. CASE sess' = [sess EXCEPT ![t].st = "idle"]
      <4>1. "idle" \in SessSteps
        BY DEF SessSteps
      <4>2. sess' \in [Tokens -> SessStates]
        BY <1>1, <3>1, <4>1, StepFields
      <4>3. \A u \in Tokens : sess'[u].client = sess[u].client /\ (sess'[u].st = "closed" => sess[u].st = "closed")
        BY <1>1, <3>1, <4>1, StepFields
      <4> QED BY <4>2, <4>3
    <3>2. CASE sess' = [sess EXCEPT ![t].st = "push", ![t].to = Others(t)]
      <4>1. Others(t) \in SUBSET Tokens
        BY DEF Others
      <4>2. sess' \in [Tokens -> SessStates]
        BY <1>1, <3>2, <4>1, ReplyFields
      <4>3. \A u \in Tokens : sess'[u].client = sess[u].client /\ (sess'[u].st = "closed" => sess[u].st = "closed")
        <5>1. \A u \in Tokens : sess'[u].client = sess[u].client
          BY <1>1, <3>2, <4>1, ReplyFields
        <5>2. \A u \in Tokens : sess'[u].st = IF u = t THEN "push" ELSE sess[u].st
          BY <1>1, <3>2, <4>1, ReplyFields
        <5> QED BY ONLY <5>1, <5>2
      <4> QED BY <4>2, <4>3
    <3> QED BY <1>3, <3>1, <3>2 DEF Reply
  <2>2. job' \in [Clients -> JobStates]
    <3>1. CASE sess[t].client \in Clients
      BY <1>3, <3>1, SaveStep, JobStepFields, Tables DEF Reply
    <3>2. CASE sess[t].client \notin Clients
      BY <1>3, <3>2, Tables DEF Reply
    <3> QED BY <3>1, <3>2
  <2>3. base' \in [Clients -> Contents]
    <3>1. CASE sess[t].client \in Clients
      <4>1. job[sess[t].client].here \in Contents
        BY <3>1, Tables DEF JobStates
      <4> QED BY <1>3, <3>1, <4>1, Tables DEF Reply
    <3>2. CASE sess[t].client \notin Clients
      BY <1>3, <3>2, Tables DEF Reply
    <3> QED BY <3>1, <3>2
  <2>4. UNCHANGED <<cur, run>>
    BY <1>3 DEF Reply
  <2> QED
    BY ONLY SyncTypeInv, <1>3, <2>1, <2>2, <2>3, <2>4, LinksKept, Zenon
       DEF SyncTypeInv, SyncTypeOK, Reply, userVars
<1>4. CASE Push(t)
  <2>1. /\ sess' \in [Tokens -> SessStates]
        /\ \A u \in Tokens : sess'[u].client = sess[u].client /\ (sess'[u].st = "closed" => sess[u].st = "closed")
    <3>1. CASE sess[t].to = {}
      <4>1. sess' = [sess EXCEPT ![t].st = "idle"] /\ "idle" \in SessSteps
        BY <1>4, <3>1 DEF Push, SessSteps
      <4>2. sess' \in [Tokens -> SessStates]
        BY <1>1, <4>1, StepFields
      <4>3. \A u \in Tokens : sess'[u].client = sess[u].client /\ (sess'[u].st = "closed" => sess[u].st = "closed")
        BY <1>1, <4>1, StepFields
      <4> QED BY <4>2, <4>3
    <3>2. CASE sess[t].to # {}
      <4>1. PICK w \in sess[t].to : sess' = [sess EXCEPT ![t].to = sess[t].to \ {w}]
        BY <1>1, <1>4, <3>2 DEF Push
      <4>2. sess[t].to \ {w} \in SUBSET Tokens
        BY <1>1 DEF SessStates
      <4>3. sess' \in [Tokens -> SessStates]
        BY <1>1, <4>1, <4>2, ToFields
      <4>4. \A u \in Tokens : sess'[u].client = sess[u].client /\ (sess'[u].st = "closed" => sess[u].st = "closed")
        BY <1>1, <4>1, <4>2, ToFields
      <4> QED BY <4>3, <4>4
    <3> QED BY <3>1, <3>2
  <2>2. chan' \in [Tokens -> Seq(Contents)]
    <3>1. CASE chan' = chan
      BY <3>1, Tables
    <3>2. CASE chan' # chan
      <4>1. PICK u \in sess[t].to, v \in Contents : chan' = [chan EXCEPT ![u] = Append(chan[u], v)]
        BY <1>1, <1>4, <3>2, ContentTypes, Tables DEF Push, SessStates
      <4>2. u \in Tokens
        BY <1>1 DEF SessStates
      <4>3. Append(chan[u], v) \in Seq(Contents)
        BY <4>2, Tables, AppendProperties
      <4> QED BY <4>1, <4>3, ChanUpdate, Tables
    <3> QED BY <3>1, <3>2
  <2>3. UNCHANGED <<cur, run>>
    BY <1>4 DEF Push
  <2> QED
    BY ONLY SyncTypeInv, <1>4, <2>1, <2>2, <2>3, LinksKept, Zenon
       DEF SyncTypeInv, SyncTypeOK, Push, stateVars, userVars
<1>5. CASE SessionEnds(t)
  <2>1. sess' = [sess EXCEPT ![t] = Closed] /\ ~Live(t) /\ cur' = cur /\ run' = run
    BY <1>5 DEF SessionEnds
  <2>2. sess' \in [Tokens -> SessStates] /\ Closed.client = Nobody
    BY <1>1, <2>1, SessUpdate, RestTypes DEF Closed
  <2>3. /\ \A d \in Clients : cur'[d] # NoToken => run'[d] /\ sess'[cur'[d]].client = d
        /\ \A u \in Tokens : sess'[u].st = "closed" => sess'[u].client = Nobody
    BY <2>1, <2>2, Tables DEF Live
  <2> QED
    BY ONLY SyncTypeInv, <1>5, <2>2, <2>3, Zenon
       DEF SyncTypeInv, SyncTypeOK, SessionEnds, stateVars, userVars
<1> QED BY <1>2, <1>3, <1>4, <1>5 DEF ServerStep

\* Every step keeps the types.
LEMMA SyncTypeNext == SyncTypeInv /\ [SyncNext]_syncVars => SyncTypeInv'
<1> SUFFICES ASSUME SyncTypeInv, [SyncNext]_syncVars PROVE SyncTypeInv'
  OBVIOUS
<1>1. CASE UNCHANGED syncVars
  BY ONLY SyncTypeInv, <1>1, Zenon DEF SyncTypeInv, SyncTypeOK, syncVars, serverVars, stateVars, userVars
<1>2. ASSUME NEW c \in Clients,
             \/ Edit(c) \/ Erase(c) \/ CmdUpload(c) \/ CmdDelete(c)
             \/ Connect(c) \/ Disconnect(c) \/ Exit(c) \/ Kill(c)
             \/ List(c) \/ ClientStep(c) \/ RenameFails(c)
      PROVE  SyncTypeInv'
  BY ONLY SyncTypeInv, <1>2, c \in Clients, TypeEdit, TypeErase, TypeCommand, TypeConnect,
         TypeDisconnect, TypeExit, TypeKill,
     TypeList, TypeScan, TypeSend, TypeJobStep, TypeInstall, TypeLook, TypeReceive, Zenon
     DEF ClientStep
<1>3. ASSUME NEW t \in Tokens, ServerStep(t) PROVE SyncTypeInv'
  BY <1>3, TypeServer
<1> QED BY <1>1, <1>2, <1>3, Zenon DEF SyncNext

\* Every variable of the synchronisation keeps its type: no session is taken
\* from a client that is connected, no bound of the story is overdrawn, and a
\* push or a file only ever carries a version that was made.
THEOREM SyncTypeCorrect == SyncSpec => []SyncTypeOK
<1>1. SyncTypeInv => SyncTypeOK
  BY DEF SyncTypeInv
<1> QED BY <1>1, SyncInitType, SyncTypeNext, PTL DEF SyncSpec
=============================================================================
