------------------------------ MODULE Transfer ------------------------------
(***************************************************************************)
(* Files on the command connection of a client: transact, upload and       *)
(* download of client/client.cpp, handle_upload and handle_download of     *)
(* server/server.cpp, over send_file and recv_file_body of                 *)
(* common/files.cpp.  A file crosses as a header with its size, chunks,    *)
(* and an end or an abort; meanwhile the user edits it in place, another   *)
(* session replaces the server's, a disk fails, a connection breaks, or    *)
(* the client gives an exchange up and goes on over a new connection.      *)
(***************************************************************************)
EXTENDS Naturals, Sequences

CONSTANTS
    Threads,     \* client threads with exchanges to make ...
    Worker,      \* ... and the one of them that only uploads
    None,        \* no thread
    MaxConns,    \* bound on connections, used one after the other
    MaxRequests, \* bound on exchanges
    MaxSize,     \* bound on the chunks of a file
    MaxChanges,  \* bound on edits of the file, here or by another session there
    Removed,     \* no such file
    MaxMishaps   \* bound on what goes wrong: timeouts, broken connections, bad disks

ASSUME TransferAssumption ==
    /\ None \notin Threads
    /\ {MaxConns, MaxRequests, MaxSize, MaxChanges, MaxMishaps} \subseteq Nat /\ MaxSize > 0

VARIABLES
    mine,        \* the client's file: the edit that each chunk comes from
    theirs,      \* the server's file
    cmd,         \* the connection the client uses, 0 if it has none
    dialled,     \* connections made so far
    up, down,    \* messages under way on each connection
    alive,       \* connections that neither side has closed
    cli,         \* the exchange of each client thread
    late,        \* connections on which an exchange began after one had failed on them
                 \* and before they were closed
    locked,      \* the thread that has cmd_mutex_
    srv,         \* the handler of each connection
    committed,   \* what the server has stored, with the request it came with
    received,    \* the last file a download left in the client's hands
    changes, requests, mishaps

transferVars == <<mine, theirs, cmd, dialled, up, down, alive, cli, late, locked, srv, committed, received,
                  changes, requests, mishaps>>

Conns == 1..MaxConns
Parts == UNION {[1..n -> 0..MaxChanges] : n \in 0..MaxSize}

\* req tells the exchange a message belongs to; the program does not send it.
Message ==
    [type : {"upload", "file"}, val : 0..MaxSize, req : 0..MaxRequests]
    \cup [type : {"data"}, val : 0..MaxChanges, req : 0..MaxRequests]
    \cup [type : {"download", "end", "abort", "ok", "error"}, val : {0}, req : 0..MaxRequests]

\* One side of an exchange.  body: the chunks sent or received; size: how many were
\* announced; open: what an open file still reads as, for a file that is replaced
\* and never written in place; disk: can the copy be written?; on: the connection.
Nothing == [st |-> "idle", req |-> 0, size |-> 0, body |-> <<>>, open |-> <<>>, disk |-> "fine",
            on |-> 0]
Sides == [st : {"idle", "wait", "send", "reply", "answer", "body", "mark", "commit", "ok",
                "error", "done"},
          req : 0..MaxRequests, size : 0..MaxSize, body : Parts, open : Parts, disk : {"fine", "full"},
          on : 0..MaxConns]

TransferTypeOK ==
    /\ mine \in Parts /\ theirs \in Parts \cup {Removed} /\ received \in Parts
    /\ cmd \in 0..dialled /\ dialled \in 0..MaxConns /\ alive \in SUBSET (1..dialled)
    /\ late \in SUBSET (1..dialled)
    /\ up \in [Conns -> Seq(Message)] /\ down \in [Conns -> Seq(Message)]
    /\ cli \in [Threads -> Sides] /\ srv \in [Conns -> Sides]
    /\ locked \in Threads \cup {None}
    /\ \A side \in {cli[h] : h \in Threads} \cup {srv[k] : k \in Conns} : Len(side.body) <= side.size
    /\ committed \in SUBSET [req : 0..MaxRequests, body : Parts]
    /\ changes \in 0..MaxChanges /\ requests \in 0..MaxRequests /\ mishaps \in 0..MaxMishaps

TransferInit ==
    /\ mine = <<0>>
    /\ theirs = [i \in 1..MaxSize |-> 0] /\ received = theirs
    /\ cmd = 0 /\ dialled = 0 /\ alive = {} /\ late = {}
    /\ up = [k \in Conns |-> <<>>] /\ down = up
    /\ cli = [h \in Threads |-> Nothing] /\ locked = None /\ srv = [k \in Conns |-> Nothing]
    /\ committed = {[req |-> 0, body |-> theirs]}
    /\ changes = 0 /\ requests = 0 /\ mishaps = 0

files == <<mine, theirs, committed, received, changes>>
lines == <<cmd, dialled, alive, late>>
clients == <<cli, locked>>

Msg(type, val, req) == [type |-> type, val |-> val, req |-> req]

-----------------------------------------------------------------------------
(* send_file and recv_file_body, for either side.                           *)

\* Mutation of NextPart: the file is sent to its end, however far that is by now.
NextPartToEnd(side, content) ==
    IF Len(content) > Len(side.body)
      THEN Msg("data", content[Len(side.body) + 1], side.req)
      ELSE Msg("end", 0, side.req)

\* The next message of a file: exactly the announced size, or an abort if the file
\* has shrunk.
NextPart(side, content) ==
    IF Len(side.body) = side.size THEN Msg("end", 0, side.req)
    ELSE IF Len(content) > Len(side.body)
           THEN Msg("data", content[Len(side.body) + 1], side.req)
           ELSE Msg("abort", 0, side.req)

\* Mutation of BodyState: an abort ends the file like an end.
BodyStateLenient(side, msg) ==
    IF msg.type = "data" THEN IF Len(side.body) < side.size THEN "more" ELSE "broken"
    ELSE IF msg.type \in {"end", "abort"} THEN IF side.disk = "fine" THEN "whole" ELSE "failed"
    ELSE "broken"

\* What a message makes of a file that is being received.
BodyState(side, msg) ==
    IF msg.type = "data" THEN IF Len(side.body) < side.size THEN "more" ELSE "broken"
    ELSE IF msg.type = "end"
           THEN IF Len(side.body) # side.size THEN "broken"
                ELSE IF side.disk = "fine" THEN "whole" ELSE "failed"
    ELSE IF msg.type = "abort" THEN "failed" ELSE "broken"

-----------------------------------------------------------------------------
(* transact, by a client thread h.                                          *)

\* wait_for_connection; the supervisor has made a new one if there was none.
TakeConnection(h) ==
    /\ cli[h].st = "idle"
    /\ IF cmd # 0 THEN UNCHANGED lines
       ELSE /\ dialled < MaxConns
            /\ cmd' = dialled + 1 /\ dialled' = dialled + 1 /\ alive' = alive \cup {cmd'}
            /\ UNCHANGED late
    /\ cli' = [cli EXCEPT ![h].st = "wait", ![h].on = cmd']
    /\ UNCHANGED <<files, locked, up, down, srv, requests, mishaps>>

\* cmd_mutex_ is taken, and the first message of the exchange sent ...
Begin(h, msg, st, size) ==
    /\ cli[h].st = "wait" /\ locked = None /\ cli[h].on \in alive
    /\ requests < MaxRequests
    /\ requests' = requests + 1
    /\ locked' = h
    /\ cli' = [cli EXCEPT ![h].st = st, ![h].size = size, ![h].req = msg.req]
    /\ up' = [up EXCEPT ![cli[h].on] = Append(@, msg)]
    /\ late' = IF \E g \in Threads : cli[g].st = "mark" /\ cli[g].on = cli[h].on
                 THEN late \cup {cli[h].on} ELSE late
    /\ UNCHANGED <<files, cmd, dialled, alive, down, srv, mishaps>>

\* ... which fails if the connection is closed by now.
CannotBegin(h) ==
    /\ cli[h].st = "wait" /\ locked = None /\ cli[h].on \notin alive
    /\ cli' = [cli EXCEPT ![h].st = "mark"]
    /\ UNCHANGED <<files, lines, locked, up, down, srv, requests, mishaps>>

BeginUpload(h) == Begin(h, Msg("upload", Len(mine), requests + 1), "send", Len(mine))

BeginDownload(h) == h # Worker /\ Begin(h, Msg("download", 0, requests + 1), "answer", 0)

\* send_file: the file is read as it is by now.
ClientSends(h) ==
    LET msg == NextPart(cli[h], mine)
        k   == cli[h].on
    IN
    /\ cli[h].st = "send" /\ k \in alive
    /\ up' = [up EXCEPT ![k] = Append(@, msg)]
    /\ cli' = IF msg.type = "data" THEN [cli EXCEPT ![h].body = Append(@, msg.val)]
              ELSE [cli EXCEPT ![h].st = "reply"]
    /\ UNCHANGED <<files, lines, locked, down, srv, requests, mishaps>>

\* The exchange is over, for better or worse: cmd_mutex_ is released.
Over(h, failed) ==
    /\ cli' = [cli EXCEPT ![h] = IF failed THEN [Nothing EXCEPT !.st = "mark", !.on = cli[h].on]
                                           ELSE Nothing]
    /\ locked' = None

\* An answer: to an upload anything but Ok is a refusal; to a download, the file
\* or an error, and anything else is a failure.
ClientHears(h) ==
    LET k == cli[h].on
        msg == Head(down[k])
    IN
    /\ cli[h].st \in {"reply", "answer"} /\ down[k] # <<>>
    /\ down' = [down EXCEPT ![k] = Tail(@)]
    /\ IF cli[h].st = "answer" /\ msg.type = "file"
         THEN /\ cli' = [cli EXCEPT ![h].st = "body", ![h].size = msg.val]
              /\ UNCHANGED locked
         ELSE Over(h, cli[h].st = "answer" /\ msg.type # "error")
    /\ UNCHANGED <<files, lines, up, srv, requests, mishaps>>

ClientReceives(h) ==
    LET k   == cli[h].on
        msg == Head(down[k])
        is  == BodyState(cli[h], msg)
    IN
    /\ cli[h].st = "body" /\ down[k] # <<>>
    /\ down' = [down EXCEPT ![k] = Tail(@)]
    /\ IF is = "more" THEN /\ cli' = [cli EXCEPT ![h].body = Append(@, msg.val)]
                           /\ UNCHANGED locked
       ELSE Over(h, is = "broken")
    /\ received' = IF is = "whole" THEN cli[h].body ELSE received
    /\ UNCHANGED <<mine, theirs, committed, changes, lines, up, srv, requests, mishaps>>

\* The connection is closed, or what the thread waits for takes too long.
ExchangeLost(h) ==
    /\ locked = h
    /\ IF cli[h].on \in alive THEN mishaps < MaxMishaps /\ mishaps' = mishaps + 1
                              ELSE UNCHANGED mishaps
    /\ Over(h, TRUE)
    /\ UNCHANGED <<files, lines, up, down, srv, requests>>

\* Mutation of MarkLost: the connection is kept for the next exchange.
MarkNothing(h) ==
    /\ cli[h].st = "mark"
    /\ cli' = [cli EXCEPT ![h] = Nothing]
    /\ UNCHANGED <<files, lines, locked, up, down, srv, requests, mishaps>>

\* mark_disconnected, after cmd_mutex_ was released.
MarkLost(h) ==
    /\ cli[h].st = "mark"
    /\ IF cmd = cli[h].on THEN /\ alive' = alive \ {cmd} /\ cmd' = 0
                               /\ UNCHANGED <<dialled, late>>
                          ELSE UNCHANGED lines
    /\ cli' = [cli EXCEPT ![h] = Nothing]
    /\ UNCHANGED <<files, locked, up, down, srv, requests, mishaps>>

-----------------------------------------------------------------------------
(* The server: the handler of a connection.                                 *)

\* What the handler says arrives if the connection is still there; otherwise the
\* handler ends.
Say(k, msg, next) ==
    /\ down' = IF k \in alive THEN [down EXCEPT ![k] = Append(@, msg)] ELSE down
    /\ srv' = [srv EXCEPT ![k] = IF k \in alive THEN next ELSE [Nothing EXCEPT !.st = "done"]]

\* A handler that is to receive an upload, and one that has opened a file to send it.
ToReceive(req, size) == [Nothing EXCEPT !.st = "body", !.req = req, !.size = size]
ToSend(req, content) ==
    [Nothing EXCEPT !.st = "send", !.req = req, !.size = Len(content), !.open = content]

\* handle_request: the header of an upload; or a download, for which the file is
\* opened and its size announced, if it is there.
TakeRequest(k) ==
    LET msg == Head(up[k]) IN
    /\ srv[k].st = "idle" /\ up[k] # <<>>
    /\ up' = [up EXCEPT ![k] = Tail(@)]
    /\ \/ /\ msg.type = "upload"
          /\ srv' = [srv EXCEPT ![k] = ToReceive(msg.req, msg.val)]
          /\ UNCHANGED down
       \/ /\ msg.type = "download" /\ theirs = Removed
          /\ Say(k, Msg("error", 0, msg.req), Nothing)
       \/ /\ msg.type = "download" /\ theirs # Removed
          /\ Say(k, Msg("file", Len(theirs), msg.req), ToSend(msg.req, theirs))
    /\ UNCHANGED <<files, lines, clients, requests, mishaps>>

\* recv_file_body for an upload: what is broken ends the handler.
ServerReceives(k) ==
    LET msg == Head(up[k])
        is  == BodyState(srv[k], msg)
    IN
    /\ srv[k].st = "body" /\ up[k] # <<>>
    /\ up' = [up EXCEPT ![k] = Tail(@)]
    /\ srv' = [srv EXCEPT ![k] =
                  CASE is = "more"   -> [srv[k] EXCEPT !.body = Append(srv[k].body, msg.val)]
                    [] is = "whole"  -> [srv[k] EXCEPT !.st = "commit"]
                    [] is = "failed" -> [srv[k] EXCEPT !.st = "error"]
                    [] is = "broken" -> [srv[k] EXCEPT !.st = "done"]]
    /\ alive' = IF is = "broken" THEN alive \ {k} ELSE alive
    /\ UNCHANGED <<files, cmd, dialled, late, down, clients, requests, mishaps>>

\* commit under the write mutex, replicated; a folder may be in the way.
CommitUpload(k) ==
    /\ srv[k].st = "commit"
    /\ \/ /\ theirs' = srv[k].body
          /\ committed' = committed \cup {[req |-> srv[k].req, body |-> srv[k].body]}
          /\ srv' = [srv EXCEPT ![k].st = "ok"]
       \/ /\ srv' = [srv EXCEPT ![k].st = "error"]
          /\ UNCHANGED <<theirs, committed>>
    /\ UNCHANGED <<mine, received, changes, lines, up, down, clients, requests, mishaps>>

\* Ok, or "the upload was not completed".
AnswerUpload(k) ==
    /\ srv[k].st \in {"ok", "error"}
    /\ Say(k, Msg(srv[k].st, 0, srv[k].req), Nothing)
    /\ UNCHANGED <<files, lines, up, clients, requests, mishaps>>

\* Mutation of ServerSends: every chunk is read from the file of that name.
ServerSendsByName(k) ==
    LET msg == NextPart(srv[k], IF theirs = Removed THEN <<>> ELSE theirs) IN
    /\ srv[k].st = "send"
    /\ Say(k, msg, IF msg.type = "data" THEN [srv[k] EXCEPT !.body = Append(@, msg.val)]
                   ELSE Nothing)
    /\ UNCHANGED <<files, lines, up, clients, requests, mishaps>>

\* send_file for a download: the file it has opened stays what it was.
ServerSends(k) ==
    LET msg == NextPart(srv[k], srv[k].open) IN
    /\ srv[k].st = "send"
    /\ Say(k, msg, IF msg.type = "data" THEN [srv[k] EXCEPT !.body = Append(@, msg.val)] ELSE Nothing)
    /\ UNCHANGED <<files, lines, up, clients, requests, mishaps>>

\* The connection is closed, and all that arrived has been read.
HandlerEnds(k) ==
    /\ srv[k].st \in {"idle", "body"} /\ k \in 1..dialled \ alive /\ up[k] = <<>>
    /\ srv' = [srv EXCEPT ![k] = [Nothing EXCEPT !.st = "done"]]
    /\ UNCHANGED <<files, lines, up, down, clients, requests, mishaps>>

-----------------------------------------------------------------------------
(* The environment.                                                         *)

\* The user writes the file in place: a chunk anew, one more, or one less.
EditInPlace ==
    /\ changes < MaxChanges
    /\ changes' = changes + 1
    /\ \/ \E i \in 1..Len(mine) : mine' = [mine EXCEPT ![i] = changes + 1]
       \/ Len(mine) < MaxSize /\ mine' = Append(mine, changes + 1)
       \/ Len(mine) > 0 /\ mine' = SubSeq(mine, 1, Len(mine) - 1)
    /\ UNCHANGED <<theirs, committed, received, lines, up, down, clients, srv, requests, mishaps>>

\* Another session's upload or delete replaces or removes the server's file.
ReplaceThere ==
    /\ changes < MaxChanges
    /\ changes' = changes + 1
    /\ \/ \E n \in 0..MaxSize : theirs' = [i \in 1..n |-> changes + 1]
       \/ theirs' = Removed
    /\ committed' = committed \cup {[req |-> 0, body |-> b] : b \in {theirs'} \ {Removed}}
    /\ UNCHANGED <<mine, received, lines, up, down, clients, srv, requests, mishaps>>

\* A disk is full: a copy being received cannot be written from now on.
DiskFails ==
    /\ mishaps < MaxMishaps
    /\ mishaps' = mishaps + 1
    /\ \/ \E h \in Threads :
             /\ cli[h].st = "body" /\ cli[h].disk = "fine"
             /\ cli' = [cli EXCEPT ![h].disk = "full"] /\ UNCHANGED srv
       \/ \E k \in Conns :
             /\ srv[k].st = "body" /\ srv[k].disk = "fine"
             /\ srv' = [srv EXCEPT ![k].disk = "full"] /\ UNCHANGED cli
    /\ UNCHANGED <<files, lines, locked, up, down, requests>>

\* A connection breaks, and what was under way on it is lost.
ConnectionBreaks(k) ==
    /\ mishaps < MaxMishaps /\ k \in alive
    /\ mishaps' = mishaps + 1
    /\ alive' = alive \ {k}
    /\ up' = [up EXCEPT ![k] = <<>>] /\ down' = [down EXCEPT ![k] = <<>>]
    /\ UNCHANGED <<files, cmd, dialled, late, clients, srv, requests>>

TransferNext ==
    \/ \E h \in Threads : \/ TakeConnection(h) \/ BeginUpload(h) \/ BeginDownload(h)
                          \/ CannotBegin(h)
                          \/ ClientSends(h) \/ ClientHears(h) \/ ClientReceives(h)
                          \/ ExchangeLost(h) \/ MarkLost(h)
    \/ \E k \in Conns : \/ TakeRequest(k) \/ ServerReceives(k) \/ CommitUpload(k)
                        \/ AnswerUpload(k) \/ ServerSends(k) \/ HandlerEnds(k)
                        \/ ConnectionBreaks(k)
    \/ EditInPlace \/ ReplaceThere \/ DiskFails

TransferSpec == TransferInit /\ [][TransferNext]_transferVars

-----------------------------------------------------------------------------
(* Properties.                                                              *)

\* Something has arrived for a thread that waits for it, and no exchange began on
\* the connection between the failure of another one and mark_disconnected:
\* transact releases cmd_mutex_ first, to a thread that may have waited for it.
Arrived(h) == locked = h /\ down[cli[h].on] # <<>> /\ cli[h].on \notin late

\* A timeout lets no late answer pass for the answer to the next request, and no
\* side takes a part of a file for a request or an answer: "keep reading even if
\* the file can't be written, so the stream stays in sync" (recv_file_body).
StreamInSync ==
    /\ \A h \in Threads : Arrived(h) =>
          /\ Head(down[cli[h].on]).req = cli[h].req
          /\ Head(down[cli[h].on]).type \in
                CASE cli[h].st \in {"send", "reply"} -> {"ok", "error"}
                  [] cli[h].st = "answer" -> {"file", "error"}
                  [] cli[h].st = "body" -> {"data", "end", "abort"}
    /\ \A k \in Conns \ late : up[k] # <<>> =>
          /\ srv[k].st = "idle" => Head(up[k]).type \in {"upload", "download"}
          /\ srv[k].st = "body" => Head(up[k]).type \in {"data", "end", "abort"}

\* An Ok means that the server stored all that the client announced and read, for
\* this very request, whatever happened to the file meanwhile (upload,
\* handle_upload).
OkIsStored ==
    \A h \in Threads :
        Arrived(h) /\ cli[h].st = "reply" /\ Head(down[cli[h].on]).type = "ok" =>
            /\ Len(cli[h].body) = cli[h].size
            /\ [req |-> cli[h].req, body |-> cli[h].body] \in committed

\* A download is a file the server once had, whole: never a mixture of two, nor a
\* part of one, while other sessions replace it.
WholeFiles == \E c \in committed : c.body = received
=============================================================================
