--------------------------- MODULE TransferProofs ---------------------------
(***************************************************************************)
(* Proofs of the safety properties of module Transfer, for every value of  *)
(* its constants: any number of client threads, connections and requests,  *)
(* files of any size.  The inductive invariants, each on top of the first: *)
(*   TypeParts    the types; who has cmd_mutex_; which connections work;   *)
(*   WholeInv     behind every header of a file that is under way, in      *)
(*                every file a handler has open, and in what a thread has  *)
(*                received so far, is a file that the server had;          *)
(*   ExchangeInv  the exchange in hand is all there is on a connection: no *)
(*                message of an earlier one is before it, none is missing  *)
(*                from it, and between two exchanges the wires are empty.  *)
(*                It holds on connections on which no exchange began       *)
(*                between the failure of another one and                   *)
(*                mark_disconnected (those are in late).                   *)
(***************************************************************************)
EXTENDS Transfer, SequenceTheorems, TLAPS

\* A client thread is in transact only while it has cmd_mutex_, on a connection
\* that was made; one that is not yet or no longer in it holds no part of a file.
LockOK(h) ==
    /\ cli[h].st \in {"idle", "wait", "send", "reply", "answer", "body", "mark"}
    /\ locked = h <=> cli[h].st \in {"send", "reply", "answer", "body"}
    /\ cli[h].st # "idle" => cli[h].on \in 1..dialled
    /\ cli[h].st \in {"idle", "wait", "answer"} => cli[h].body = <<>>

\* A connection works only while it is the client's, and its handler runs;
\* nothing is on one that was not made.
ConnOK(k) ==
    /\ k \in alive => k = cmd /\ srv[k].st # "done"
    /\ srv[k].st \in {"idle", "body", "commit", "ok", "error", "send", "done"}
    /\ k > dialled => up[k] = <<>> /\ down[k] = <<>> /\ srv[k].st = "idle"

\* The stages of an exchange, and the content of a file.
Steps == {"idle", "wait", "send", "reply", "answer", "body", "mark", "commit", "ok", "error", "done"}

Chunks == 0..MaxChanges

\* The constants, and a file as a sequence of chunks.
LEMMA Bounds ==
  /\ MaxConns \in Nat /\ MaxRequests \in Nat /\ MaxSize \in Nat /\ MaxChanges \in Nat /\ MaxMishaps \in Nat
  /\ None \notin Threads /\ MaxSize > 0
BY TransferAssumption

\* A part of a file is a short sequence of chunks.
LEMMA PartsAreFiles == \A b : b \in Parts <=> b \in Seq(Chunks) /\ Len(b) <= MaxSize
<1>1. ASSUME NEW b \in Parts PROVE b \in Seq(Chunks) /\ Len(b) <= MaxSize
  <2>1. PICK n \in 0..MaxSize : b \in [1..n -> Chunks]
    BY DEF Parts, Chunks
  <2>2. n \in Nat /\ n <= MaxSize
    BY Bounds
  <2>3. b \in Seq(Chunks)
    BY <2>1, <2>2, SeqDef
  <2>4. Len(b) = n
    BY <2>1, <2>2, <2>3, LenProperties
  <2> QED BY <2>2, <2>3, <2>4
<1>2. ASSUME NEW b \in Seq(Chunks), Len(b) <= MaxSize PROVE b \in Parts
  <2>1. Len(b) \in Nat /\ b \in [1..Len(b) -> Chunks]
    BY LenProperties
  <2>2. Len(b) \in 0..MaxSize
    BY <1>2, <2>1, Bounds
  <2> QED BY <2>1, <2>2 DEF Parts, Chunks
<1> QED BY <1>1, <1>2

\* The kinds of messages and their fields.
LEMMA Messages ==
  /\ \A n \in 0..MaxSize, r \in 0..MaxRequests :
        Msg("upload", n, r) \in Message /\ Msg("file", n, r) \in Message
  /\ \A v \in Chunks, r \in 0..MaxRequests : Msg("data", v, r) \in Message
  /\ \A x \in {"download", "end", "abort", "ok", "error"}, r \in 0..MaxRequests : Msg(x, 0, r) \in Message
  /\ \A x, v, r : Msg(x, v, r).type = x /\ Msg(x, v, r).val = v /\ Msg(x, v, r).req = r
BY DEF Msg, Message, Chunks

\* What the fields of a message can hold.
LEMMA MessageFields ==
  ASSUME NEW m \in Message
  PROVE  /\ m.req \in 0..MaxRequests
         /\ m.type \in {"upload", "file", "data", "download", "end", "abort", "ok", "error"}
         /\ m.type \in {"upload", "file"} => m.val \in 0..MaxSize
         /\ m.type = "data" => m.val \in Chunks
BY DEF Message, Chunks

\* One field of a side may change to anything of its type.
LEMMA SideField ==
  ASSUME NEW g \in Sides
  PROVE  /\ \A x \in Steps : [g EXCEPT !.st = x] \in Sides
         /\ \A r \in 0..MaxRequests : [g EXCEPT !.req = r] \in Sides
         /\ \A n \in 0..MaxSize : [g EXCEPT !.size = n] \in Sides
         /\ \A b \in Parts : [g EXCEPT !.body = b] \in Sides /\ [g EXCEPT !.open = b] \in Sides
         /\ [g EXCEPT !.disk = "full"] \in Sides
         /\ \A k \in 0..MaxConns : [g EXCEPT !.on = k] \in Sides
<1> USE DEF Sides, Steps
<1>1. ASSUME NEW x \in Steps PROVE [g EXCEPT !.st = x] \in Sides
  OBVIOUS
<1>2. ASSUME NEW r \in 0..MaxRequests PROVE [g EXCEPT !.req = r] \in Sides
  OBVIOUS
<1>3. ASSUME NEW n \in 0..MaxSize PROVE [g EXCEPT !.size = n] \in Sides
  OBVIOUS
<1>4. ASSUME NEW b \in Parts PROVE [g EXCEPT !.body = b] \in Sides
  OBVIOUS
<1>5. ASSUME NEW b \in Parts PROVE [g EXCEPT !.open = b] \in Sides
  OBVIOUS
<1>6. [g EXCEPT !.disk = "full"] \in Sides
  OBVIOUS
<1>7. ASSUME NEW k \in 0..MaxConns PROVE [g EXCEPT !.on = k] \in Sides
  OBVIOUS
<1> HIDE DEF Sides, Steps
<1> QED BY <1>1, <1>2, <1>3, <1>4, <1>5, <1>6, <1>7

\* What the fields of a side can hold.
LEMMA SideTypes ==
  ASSUME NEW g \in Sides
  PROVE  /\ g.st \in Steps /\ g.req \in 0..MaxRequests /\ g.size \in 0..MaxSize
         /\ g.body \in Parts /\ g.open \in Parts /\ g.on \in 0..MaxConns
BY DEF Sides, Steps

\* A change of one field of a side leaves it a side, and the others as they are:
\* the stage,
LEMMA SetSt ==
  ASSUME NEW g \in Sides, NEW x \in Steps, NEW r, r = [g EXCEPT !.st = x]
  PROVE  /\ r \in Sides /\ r.st = x
         /\ r.req = g.req /\ r.size = g.size /\ r.body = g.body /\ r.open = g.open /\ r.on = g.on
<1>1. r \in Sides
  BY SideField
<1>2. /\ r.st = x
      /\ r.req = g.req /\ r.size = g.size /\ r.body = g.body /\ r.open = g.open /\ r.on = g.on
  BY DEF Sides
<1> QED BY ONLY <1>1, <1>2

\* the request,
LEMMA SetReq ==
  ASSUME NEW g \in Sides, NEW x \in 0..MaxRequests, NEW r, r = [g EXCEPT !.req = x]
  PROVE  /\ r \in Sides /\ r.req = x
         /\ r.st = g.st /\ r.size = g.size /\ r.body = g.body /\ r.open = g.open /\ r.on = g.on
<1>1. r \in Sides
  BY SideField
<1>2. /\ r.req = x
      /\ r.st = g.st /\ r.size = g.size /\ r.body = g.body /\ r.open = g.open /\ r.on = g.on
  BY DEF Sides
<1> QED BY ONLY <1>1, <1>2

\* the announced size,
LEMMA SetSize ==
  ASSUME NEW g \in Sides, NEW x \in 0..MaxSize, NEW r, r = [g EXCEPT !.size = x]
  PROVE  /\ r \in Sides /\ r.size = x
         /\ r.st = g.st /\ r.req = g.req /\ r.body = g.body /\ r.open = g.open /\ r.on = g.on
<1>1. r \in Sides
  BY SideField
<1>2. /\ r.size = x
      /\ r.st = g.st /\ r.req = g.req /\ r.body = g.body /\ r.open = g.open /\ r.on = g.on
  BY DEF Sides
<1> QED BY ONLY <1>1, <1>2

\* the part that was sent or received,
LEMMA SetBody ==
  ASSUME NEW g \in Sides, NEW x \in Parts, NEW r, r = [g EXCEPT !.body = x]
  PROVE  /\ r \in Sides /\ r.body = x
         /\ r.st = g.st /\ r.req = g.req /\ r.size = g.size /\ r.open = g.open /\ r.on = g.on
<1>1. r \in Sides
  BY SideField
<1>2. /\ r.body = x
      /\ r.st = g.st /\ r.req = g.req /\ r.size = g.size /\ r.open = g.open /\ r.on = g.on
  BY DEF Sides
<1> QED BY ONLY <1>1, <1>2

\* the open file,
LEMMA SetOpen ==
  ASSUME NEW g \in Sides, NEW x \in Parts, NEW r, r = [g EXCEPT !.open = x]
  PROVE  /\ r \in Sides /\ r.open = x
         /\ r.st = g.st /\ r.req = g.req /\ r.size = g.size /\ r.body = g.body /\ r.on = g.on
<1>1. r \in Sides
  BY SideField
<1>2. /\ r.open = x
      /\ r.st = g.st /\ r.req = g.req /\ r.size = g.size /\ r.body = g.body /\ r.on = g.on
  BY DEF Sides
<1> QED BY ONLY <1>1, <1>2

\* the disk,
LEMMA SetDisk ==
  ASSUME NEW g \in Sides, NEW x \in {"full"}, NEW r, r = [g EXCEPT !.disk = x]
  PROVE  /\ r \in Sides /\ r.disk = x
         /\ r.st = g.st /\ r.req = g.req /\ r.size = g.size /\ r.body = g.body /\ r.open = g.open /\ r.on = g.on
<1>1. r \in Sides
  BY SideField
<1>2. /\ r.disk = x
      /\ r.st = g.st /\ r.req = g.req /\ r.size = g.size /\ r.body = g.body /\ r.open = g.open /\ r.on = g.on
  BY DEF Sides
<1> QED BY ONLY <1>1, <1>2

\* the connection.
LEMMA SetOn ==
  ASSUME NEW g \in Sides, NEW x \in 0..MaxConns, NEW r, r = [g EXCEPT !.on = x]
  PROVE  /\ r \in Sides /\ r.on = x
         /\ r.st = g.st /\ r.req = g.req /\ r.size = g.size /\ r.body = g.body /\ r.open = g.open
<1>1. r \in Sides
  BY SideField
<1>2. /\ r.on = x
      /\ r.st = g.st /\ r.req = g.req /\ r.size = g.size /\ r.body = g.body /\ r.open = g.open
  BY DEF Sides
<1> QED BY ONLY <1>1, <1>2

\* A thread between two exchanges, a handler between two requests.
LEMMA NothingType ==
  /\ Nothing \in Sides /\ Nothing.st = "idle" /\ Nothing.body = <<>> /\ Nothing.size = 0
  /\ Nothing.on = 0 /\ <<>> \in Parts
<1>1. <<>> \in Parts
  <2>1. <<>> \in Seq(Chunks) /\ Len(<<>>) = 0
    OBVIOUS
  <2>2. 0 <= MaxSize
    BY Bounds
  <2> QED BY ONLY <2>1, <2>2, PartsAreFiles
<1> QED BY <1>1, Bounds DEF Nothing, Sides

\* A sequence of one more, and of one less.
LEMMA OneMore ==
  ASSUME NEW S, NEW s \in Seq(S), NEW m \in S
  PROVE  /\ Append(s, m) \in Seq(S) /\ Len(s) \in Nat /\ Len(Append(s, m)) = Len(s) + 1
         /\ Append(s, m)[Len(s) + 1] = m
         /\ \A j \in 1..Len(s) : Append(s, m)[j] = s[j]
OBVIOUS

\* The first message is taken: the others move up.
LEMMA OneLess ==
  ASSUME NEW S, NEW s \in Seq(S), s # <<>>
  PROVE  /\ Tail(s) \in Seq(S) /\ Len(s) \in Nat \ {0} /\ Len(Tail(s)) = Len(s) - 1
         /\ Head(s) = s[1] /\ Head(s) \in S
         /\ \A j \in 1..(Len(s) - 1) : Tail(s)[j] = s[j + 1]
OBVIOUS

\* The empty sequence has length 0.
LEMMA EmptyLen == Len(<<>>) = 0
OBVIOUS

\* A part of a file that has room for it, with one chunk more.
LEMMA OneChunkMore ==
  ASSUME NEW b \in Parts, NEW v \in Chunks, Len(b) < MaxSize
  PROVE  Append(b, v) \in Parts /\ Len(Append(b, v)) = Len(b) + 1
<1>1. b \in Seq(Chunks)
  BY PartsAreFiles
<1>2. Append(b, v) \in Seq(Chunks) /\ Len(b) \in Nat /\ Len(Append(b, v)) = Len(b) + 1
  BY <1>1, OneMore
<1>3. Len(Append(b, v)) <= MaxSize
  BY <1>2, Bounds
<1> QED BY ONLY <1>2, <1>3, PartsAreFiles

-----------------------------------------------------------------------------
(* The types, in the parts that the steps change together.                   *)

FilesOK ==
    /\ mine \in Parts /\ theirs \in Parts \cup {Removed} /\ received \in Parts
    /\ committed \in SUBSET [req : 0..MaxRequests, body : Parts] /\ changes \in 0..MaxChanges

LinesOK ==
    /\ dialled \in 0..MaxConns /\ cmd \in 0..dialled
    /\ alive \in SUBSET (1..dialled) /\ late \in SUBSET (1..dialled)

WiresOK == up \in [Conns -> Seq(Message)] /\ down \in [Conns -> Seq(Message)]

CountsOK == requests \in 0..MaxRequests /\ mishaps \in 0..MaxMishaps

SidesOK(table, S) ==
    table \in [S -> Sides] /\ \A x \in S : Len(table[x].body) <= table[x].size

LockTypeOK == locked \in Threads \cup {None}

TypeParts ==
    /\ FilesOK /\ LinesOK /\ WiresOK /\ CountsOK /\ LockTypeOK
    /\ SidesOK(cli, Threads) /\ SidesOK(srv, Conns)
    /\ \A h \in Threads : LockOK(h)
    /\ \A k \in Conns : ConnOK(k)

\* The parts make the type invariant.
LEMMA TypeInParts == TypeParts => TransferTypeOK
<1>1. TransferTypeOK <=> /\ FilesOK /\ LinesOK /\ WiresOK /\ CountsOK /\ LockTypeOK
                         /\ SidesOK(cli, Threads) /\ SidesOK(srv, Conns)
  BY Zenon DEF TransferTypeOK, FilesOK, LinesOK, WiresOK, CountsOK, LockTypeOK, SidesOK
<1> QED BY <1>1, Zenon DEF TypeParts

\* No thread and no handler is at work in the beginning.
LEMMA TransferInitType == TransferInit => TypeParts
<1> SUFFICES ASSUME TransferInit PROVE TypeParts
  OBVIOUS
<1> USE DEF TransferInit
<1>1. mine \in Parts /\ theirs \in Parts
  <2>1. <<0>> \in Seq(Chunks) /\ Len(<<0>>) = 1
    BY Bounds DEF Chunks
  <2>2. 1 <= MaxSize
    BY Bounds
  <2> QED BY <2>1, <2>2, PartsAreFiles, Bounds DEF Parts, Chunks
<1>2. FilesOK
  BY <1>1, Bounds DEF FilesOK
<1>3. LinesOK /\ WiresOK /\ CountsOK /\ LockTypeOK
  BY Bounds DEF LinesOK, WiresOK, CountsOK, LockTypeOK
<1>4. SidesOK(cli, Threads) /\ SidesOK(srv, Conns)
  BY NothingType DEF SidesOK
<1>5. \A h \in Threads : LockOK(h)
  BY NothingType, Bounds DEF LockOK
<1>6. \A k \in Conns : ConnOK(k)
  BY NothingType DEF ConnOK
<1> QED BY <1>2, <1>3, <1>4, <1>5, <1>6 DEF TypeParts

\* A step that changes one record of a table.
LEMMA OneSide ==
  ASSUME NEW S, NEW table \in [S -> Sides], \A x \in S : Len(table[x].body) <= table[x].size,
         NEW h \in S, NEW r \in Sides, Len(r.body) <= r.size,
         NEW next, next = [table EXCEPT ![h] = r]
  PROVE  SidesOK(next, S) /\ next[h] = r /\ \A g \in S : g # h => next[g] = table[g]
BY DEF SidesOK

\* One message more on a wire, and one less.
LEMMA OneWire ==
  ASSUME NEW f \in [Conns -> Seq(Message)], NEW k \in Conns
  PROVE  /\ \A m \in Message : [f EXCEPT ![k] = Append(f[k], m)] \in [Conns -> Seq(Message)]
         /\ f[k] # <<>> => [f EXCEPT ![k] = Tail(f[k])] \in [Conns -> Seq(Message)]
         /\ [f EXCEPT ![k] = <<>>] \in [Conns -> Seq(Message)]
<1>1. ASSUME NEW m \in Message PROVE Append(f[k], m) \in Seq(Message)
  OBVIOUS
<1>2. ASSUME f[k] # <<>> PROVE Tail(f[k]) \in Seq(Message)
  BY <1>2, OneLess
<1>3. <<>> \in Seq(Message)
  OBVIOUS
<1> QED BY <1>1, <1>2, <1>3

\* The parts that a step leaves alone.
LEMMA PartsKept ==
  /\ FilesOK /\ UNCHANGED files => FilesOK'
  /\ LinesOK /\ UNCHANGED lines => LinesOK'
  /\ WiresOK /\ UNCHANGED <<up, down>> => WiresOK'
  /\ CountsOK /\ UNCHANGED <<requests, mishaps>> => CountsOK'
  /\ LockTypeOK /\ UNCHANGED locked => LockTypeOK'
  /\ SidesOK(cli, Threads) /\ UNCHANGED cli => SidesOK(cli, Threads)'
  /\ SidesOK(srv, Conns) /\ UNCHANGED srv => SidesOK(srv, Conns)'
BY DEF FilesOK, files, LinesOK, lines, WiresOK, CountsOK, LockTypeOK, SidesOK

\* Every connection that was made has its place in the tables.
LEMMA Made == LinesOK => (\A k \in 1..dialled : k \in Conns) /\ (\A k \in alive : k \in 1..dialled)
BY Bounds DEF LinesOK, Conns

\* A thread whose exchange and whose hold of cmd_mutex_ a step leaves alone.
LEMMA LocksKept ==
  ASSUME TypeParts, LinesOK', dialled <= dialled', NEW g \in Threads, cli'[g] = cli[g],
         locked' = g <=> locked = g
  PROVE  LockOK(g)'
BY Bounds DEF TypeParts, LockOK, LinesOK

\* A connection that a step leaves alone.
LEMMA ConnsKept ==
  ASSUME TypeParts, UNCHANGED lines, NEW k \in Conns, up'[k] = up[k], down'[k] = down[k], srv'[k] = srv[k]
  PROVE  ConnOK(k)'
BY DEF TypeParts, ConnOK, lines

\* The threads, when a step changes neither an exchange nor the connections.
LEMMA ClientsKept ==
  TypeParts /\ UNCHANGED <<clients, lines>> =>
      SidesOK(cli, Threads)' /\ LockTypeOK' /\ LinesOK' /\ \A h \in Threads : LockOK(h)'
BY DEF TypeParts, clients, lines, LockTypeOK, SidesOK, LinesOK, LockOK

\* wait_for_connection: the connection that is used, or a new one.
LEMMA TypeTakeConnection == \A h \in Threads : TypeParts /\ TakeConnection(h) => TypeParts'
<1> SUFFICES ASSUME NEW h \in Threads, TypeParts, TakeConnection(h) PROVE TypeParts'
  OBVIOUS
<1> USE DEF TypeParts
<1>1. /\ LinesOK' /\ dialled <= dialled' /\ cmd' \in 1..dialled' /\ cmd' \in 0..MaxConns
      /\ \/ alive' = alive /\ cmd' = cmd
         \/ alive' = alive \cup {cmd'} /\ alive = {} /\ cmd' = dialled + 1
  <2>1. cmd = 0 => alive = {}
    BY Bounds DEF ConnOK, LinesOK, Conns
  <2>2. CASE cmd # 0
    <3>1. UNCHANGED lines
      BY <2>2 DEF TakeConnection
    <3>2. cmd' = cmd /\ dialled' = dialled /\ alive' = alive /\ late' = late
      BY <3>1 DEF lines
    <3>3. cmd \in 0..dialled /\ dialled \in 0..MaxConns
      BY DEF LinesOK
    <3>4. LinesOK' /\ dialled <= dialled' /\ cmd' \in 1..dialled' /\ cmd' \in 0..MaxConns
      <4>1. LinesOK'
        BY <3>1, PartsKept
      <4> QED BY ONLY <2>2, <3>2, <3>3, <4>1, Bounds
    <3> QED BY <3>2, <3>4
  <2>3. CASE cmd = 0
    <3>1. /\ dialled < MaxConns /\ cmd' = dialled + 1 /\ dialled' = dialled + 1
          /\ alive' = alive \cup {cmd'} /\ late' = late
      BY <2>3 DEF TakeConnection
    <3> QED BY <2>1, <2>3, <3>1, Bounds DEF LinesOK
  <2> QED BY <2>2, <2>3
<1> DEFINE p == [cli[h] EXCEPT !.st = "wait"]
           r == [p EXCEPT !.on = cmd']
<1>2. cli' = [cli EXCEPT ![h] = r] /\ cli[h] \in Sides
  BY DEF TakeConnection, SidesOK
<1>3. p \in Sides /\ p.body = cli[h].body /\ p.size = cli[h].size /\ p.st = "wait"
  BY <1>2, SetSt DEF Steps
<1> HIDE DEF p
<1>4. r \in Sides /\ r.body = cli[h].body /\ r.size = cli[h].size /\ r.st = "wait" /\ r.on = cmd'
  BY <1>1, <1>3, SetOn
<1> HIDE DEF r
<1>5. SidesOK(cli', Threads) /\ cli'[h] = r /\ \A g \in Threads : g # h => cli'[g] = cli[g]
  BY <1>2, <1>4, OneSide, Zenon DEF SidesOK
<1>6. UNCHANGED <<files, locked, up, down, srv, requests, mishaps>> /\ cli[h].st = "idle"
  BY DEF TakeConnection
<1>7. \A g \in Threads : LockOK(g)'
  <2>1. LockOK(h)'
    BY <1>1, <1>4, <1>5, <1>6 DEF LockOK
  <2> QED BY <1>1, <1>5, <1>6, <2>1, LocksKept
<1>8. \A k \in Conns : ConnOK(k)'
  <2>1. ASSUME NEW k \in Conns
        PROVE  /\ k > dialled' => k > dialled
               /\ k \in alive' => k = cmd' /\ (k \in alive \/ k > dialled)
    <3>1. (k \in alive => k = cmd) /\ k \in Int /\ dialled \in Int /\ dialled' \in Int
      BY <1>1, Bounds DEF ConnOK, LinesOK, Conns
    <3> QED BY ONLY <1>1, <3>1
  <2> QED BY <1>6, <2>1 DEF ConnOK
<1> QED BY <1>1, <1>5, <1>6, <1>7, <1>8, PartsKept DEF SidesOK

\* What send_file sends next is a message; a chunk only if one is missing.
LEMMA PartFacts ==
  ASSUME NEW g \in Sides, NEW b \in Parts, Len(g.body) <= g.size
  PROVE  /\ NextPart(g, b) \in Message /\ NextPart(g, b).req = g.req
         /\ NextPart(g, b).type \in {"data", "end", "abort"}
         /\ NextPart(g, b).type = "data" =>
               /\ Len(g.body) < g.size /\ Len(g.body) < Len(b)
               /\ NextPart(g, b).val = b[Len(g.body) + 1] /\ NextPart(g, b).val \in Chunks
         /\ NextPart(g, b).type = "end" => Len(g.body) = g.size
         /\ NextPart(g, b).type = "abort" => Len(g.body) < g.size /\ Len(b) <= Len(g.body)
<1>1. /\ g.req \in 0..MaxRequests /\ g.size \in Nat /\ g.body \in Seq(Chunks) /\ b \in Seq(Chunks)
      /\ Len(g.body) \in Nat /\ Len(b) \in Nat
  BY SideTypes, PartsAreFiles, LenProperties, Bounds
<1>2. CASE Len(g.body) = g.size
  <2>1. NextPart(g, b) = Msg("end", 0, g.req)
    BY <1>2 DEF NextPart
  <2> QED BY <1>1, <1>2, <2>1, Messages
<1>3. CASE Len(g.body) # g.size /\ Len(b) > Len(g.body)
  <2>1. NextPart(g, b) = Msg("data", b[Len(g.body) + 1], g.req)
    BY <1>3 DEF NextPart
  <2>2. b[Len(g.body) + 1] \in Chunks
    BY <1>1, <1>3, ElementOfSeq
  <2> QED BY <1>1, <1>3, <2>1, <2>2, Messages
<1>4. CASE Len(g.body) # g.size /\ ~(Len(b) > Len(g.body))
  <2>1. NextPart(g, b) = Msg("abort", 0, g.req)
    BY <1>4 DEF NextPart
  <2> QED BY <1>1, <1>4, <2>1, Messages
<1> QED BY <1>2, <1>3, <1>4

\* transact takes cmd_mutex_ and sends the first message.
LEMMA TypeBegin ==
  ASSUME TypeParts, NEW h \in Threads, NEW m \in Message, NEW st \in {"send", "answer"}, NEW n \in 0..MaxSize,
         Begin(h, m, st, n)
  PROVE  TypeParts'
<1> USE DEF TypeParts
<1>1. /\ cli[h].st = "wait" /\ locked = None /\ cli[h].on \in alive /\ requests < MaxRequests
      /\ requests' = requests + 1 /\ locked' = h
      /\ up' = [up EXCEPT ![cli[h].on] = Append(up[cli[h].on], m)]
      /\ late' = late \/ late' = late \cup {cli[h].on}
      /\ UNCHANGED <<files, cmd, dialled, alive, down, srv, mishaps>>
  BY DEF Begin
<1>2. cli[h].on \in 1..dialled /\ cli[h].on \in Conns
  BY <1>1, Made
<1> DEFINE p == [cli[h] EXCEPT !.st = st]
           q == [p EXCEPT !.size = n]
           r == [q EXCEPT !.req = m.req]
<1>3. cli' = [cli EXCEPT ![h] = r] /\ cli[h] \in Sides
  BY DEF Begin, SidesOK
<1>4. p \in Sides /\ p.body = cli[h].body /\ p.on = cli[h].on /\ p.st = st
  BY <1>3, SetSt DEF Steps
<1> HIDE DEF p
<1>5. q \in Sides /\ q.body = cli[h].body /\ q.on = cli[h].on /\ q.st = st /\ q.size = n
  BY <1>4, SetSize
<1> HIDE DEF q
<1>6. r \in Sides /\ r.body = cli[h].body /\ r.on = cli[h].on /\ r.st = st /\ r.size = n
  BY <1>5, SetReq, MessageFields
<1> HIDE DEF r
<1>7. cli[h].body = <<>> /\ Len(r.body) <= r.size
  BY <1>1, <1>6, Bounds DEF LockOK
<1>8. SidesOK(cli', Threads) /\ cli'[h] = r /\ \A g \in Threads : g # h => cli'[g] = cli[g]
  BY <1>3, <1>6, <1>7, OneSide, Zenon DEF SidesOK
<1>9. LinesOK' /\ WiresOK' /\ CountsOK' /\ LockTypeOK'
  <2>1. LinesOK'
    BY <1>1, <1>2 DEF LinesOK
  <2>2. WiresOK'
    BY <1>1, <1>2, OneWire DEF WiresOK
  <2>3. CountsOK' /\ LockTypeOK'
    BY <1>1, Bounds DEF CountsOK, LockTypeOK
  <2> QED BY <2>1, <2>2, <2>3
<1>10. \A g \in Threads : LockOK(g)'
  <2>1. LockOK(h)'
    BY <1>1, <1>6, <1>7, <1>8 DEF LockOK
  <2>2. ASSUME NEW g \in Threads, g # h PROVE LockOK(g)'
    BY <1>1, <1>8, <1>9, <2>2, LocksKept, Bounds DEF LinesOK
  <2> QED BY <2>1, <2>2
<1>11. \A k \in Conns : ConnOK(k)'
  <2>1. \A k \in Conns : k > dialled => k # cli[h].on
    BY <1>2, Bounds DEF LinesOK, Conns
  <2>2. \A k \in Conns : k # cli[h].on => up'[k] = up[k]
    BY <1>1 DEF WiresOK
  <2> QED BY <1>1, <2>1, <2>2 DEF ConnOK
<1> QED BY <1>1, <1>8, <1>9, <1>10, <1>11, PartsKept DEF SidesOK

\* transact takes cmd_mutex_, finds the connection closed, and releases it.
LEMMA TypeCannotBegin == \A h \in Threads : TypeParts /\ CannotBegin(h) => TypeParts'
<1> SUFFICES ASSUME NEW h \in Threads, TypeParts, CannotBegin(h) PROVE TypeParts'
  OBVIOUS
<1> USE DEF TypeParts
<1> DEFINE r == [cli[h] EXCEPT !.st = "mark"]
<1>1. cli' = [cli EXCEPT ![h] = r] /\ cli[h] \in Sides /\ cli[h].st = "wait"
      /\ UNCHANGED <<files, lines, locked, up, down, srv, requests, mishaps>>
  BY DEF CannotBegin, SidesOK
<1>2. r \in Sides /\ r.body = cli[h].body /\ r.on = cli[h].on /\ r.st = "mark" /\ r.size = cli[h].size
  BY <1>1, SetSt DEF Steps
<1> HIDE DEF r
<1>3. SidesOK(cli', Threads) /\ cli'[h] = r /\ \A g \in Threads : g # h => cli'[g] = cli[g]
  BY <1>1, <1>2, OneSide, Zenon DEF SidesOK
<1>4. \A g \in Threads : LockOK(g)'
  BY <1>1, <1>2, <1>3 DEF LockOK, lines
<1> QED BY <1>1, <1>3, <1>4, PartsKept, ConnsKept DEF SidesOK

\* The side of a thread whose exchange is over.
LEMMA OverSide ==
  ASSUME TypeParts, NEW h \in Threads, NEW f, Over(h, f), cli[h].st \in {"reply", "answer", "body", "send"},
         locked = h
  PROVE  /\ SidesOK(cli, Threads)' /\ LockTypeOK' /\ locked' = None
         /\ \A g \in Threads : g # h => cli'[g] = cli[g]
         /\ f => cli'[h].st = "mark" /\ cli'[h].on = cli[h].on
         /\ ~f => cli'[h].st = "idle"
         /\ UNCHANGED dialled => \A g \in Threads : LockOK(g)'
<1> USE DEF TypeParts
<1> DEFINE p == [Nothing EXCEPT !.st = "mark"]
           q == [p EXCEPT !.on = cli[h].on]
           r == IF f THEN q ELSE Nothing
<1>1. cli' = [cli EXCEPT ![h] = r] /\ cli[h] \in Sides /\ locked' = None
  BY DEF Over, SidesOK
<1>2. cli[h].on \in 0..MaxConns /\ cli[h].on \in 1..dialled
  BY <1>1, SideTypes DEF LockOK
<1>3. p \in Sides /\ p.body = <<>> /\ p.size = 0 /\ p.st = "mark"
  BY NothingType, SetSt DEF Steps
<1> HIDE DEF p
<1>4. q \in Sides /\ q.body = <<>> /\ q.size = 0 /\ q.st = "mark" /\ q.on = cli[h].on
  BY <1>2, <1>3, SetOn
<1> HIDE DEF q
<1>5. /\ r \in Sides /\ r.body = <<>> /\ Len(r.body) <= r.size
      /\ f => r.st = "mark" /\ r.on = cli[h].on
      /\ ~f => r.st = "idle"
  BY <1>4, NothingType
<1> HIDE DEF r
<1>6. SidesOK(cli', Threads) /\ cli'[h] = r /\ \A g \in Threads : g # h => cli'[g] = cli[g]
  BY <1>1, <1>5, OneSide, Zenon DEF SidesOK
<1>7. LockTypeOK'
  BY <1>1 DEF LockTypeOK
<1>8. ASSUME UNCHANGED dialled, NEW g \in Threads PROVE LockOK(g)'
  <2>1. LockOK(g) /\ LockOK(h) /\ None \notin Threads
    BY Bounds
  <2>2. CASE g = h
    BY <1>1, <1>2, <1>5, <1>6, <1>8, <2>1, <2>2 DEF LockOK
  <2>3. CASE g # h
    BY <1>1, <1>6, <1>8, <2>1, <2>3 DEF LockOK
  <2> QED BY <2>2, <2>3
<1> QED BY <1>1, <1>5, <1>6, <1>7, <1>8 DEF SidesOK

\* send_file, by the client: no more than was announced.
LEMMA TypeClientSends == \A h \in Threads : TypeParts /\ ClientSends(h) => TypeParts'
<1> SUFFICES ASSUME NEW h \in Threads, TypeParts, ClientSends(h) PROVE TypeParts'
  OBVIOUS
<1> USE DEF TypeParts
<1> DEFINE m == NextPart(cli[h], mine)
           k == cli[h].on
<1>1. /\ cli[h].st = "send" /\ k \in alive /\ up' = [up EXCEPT ![k] = Append(up[k], m)]
      /\ cli' = IF m.type = "data" THEN [cli EXCEPT ![h].body = Append(cli[h].body, m.val)]
                ELSE [cli EXCEPT ![h].st = "reply"]
      /\ UNCHANGED <<files, lines, locked, down, srv, requests, mishaps>>
  BY DEF ClientSends
<1>2. cli[h] \in Sides /\ k \in Conns /\ k \in 1..dialled /\ Len(cli[h].body) <= cli[h].size /\ mine \in Parts
  BY <1>1, Made DEF SidesOK, FilesOK
<1>3. m \in Message /\ (m.type = "data" => m.val \in Chunks /\ Len(cli[h].body) < cli[h].size)
  BY <1>2, PartFacts
<1> HIDE DEF m
<1>4. WiresOK'
  BY <1>1, <1>2, <1>3, OneWire DEF WiresOK
<1>5. \A c \in Conns : ConnOK(c)'
  <2>1. \A c \in Conns : c > dialled => c # k
    BY <1>2, Bounds DEF LinesOK, Conns
  <2>2. \A c \in Conns : c # k => up'[c] = up[c]
    BY <1>1 DEF WiresOK
  <2> QED BY <1>1, <2>1, <2>2 DEF ConnOK, lines
<1>6. SidesOK(cli, Threads)' /\ \A g \in Threads : LockOK(g)'
  <2>1. CASE m.type = "data"
    <3> DEFINE b == Append(cli[h].body, m.val)
               r == [cli[h] EXCEPT !.body = b]
    <3>1. cli' = [cli EXCEPT ![h] = r] /\ cli[h].size \in 0..MaxSize /\ cli[h].body \in Parts
      BY <1>1, <1>2, <2>1, SideTypes DEF SidesOK
    <3>2. Len(cli[h].body) \in Nat
      BY <3>1, PartsAreFiles, LenProperties
    <3>3. b \in Parts /\ Len(b) <= cli[h].size
      BY <1>3, <2>1, <3>1, <3>2, OneChunkMore, Bounds
    <3> HIDE DEF b
    <3>4. r \in Sides /\ r.body = b /\ r.st = "send" /\ r.size = cli[h].size /\ r.on = k
      BY <1>1, <1>2, <3>3, SetBody
    <3> HIDE DEF r
    <3>5. SidesOK(cli', Threads) /\ cli'[h] = r /\ \A g \in Threads : g # h => cli'[g] = cli[g]
      BY <3>1, <3>3, <3>4, OneSide, Zenon DEF SidesOK
    <3>6. \A g \in Threads : LockOK(g)'
      BY <1>1, <3>4, <3>5 DEF LockOK, lines
    <3> QED BY <3>5, <3>6 DEF SidesOK
  <2>2. CASE m.type # "data"
    <3> DEFINE r == [cli[h] EXCEPT !.st = "reply"]
    <3>1. cli' = [cli EXCEPT ![h] = r]
      BY <1>1, <2>2 DEF SidesOK
    <3>2. r \in Sides /\ r.body = cli[h].body /\ r.st = "reply" /\ r.size = cli[h].size /\ r.on = k
      BY <1>2, SetSt DEF Steps
    <3> HIDE DEF r
    <3>3. SidesOK(cli', Threads) /\ cli'[h] = r /\ \A g \in Threads : g # h => cli'[g] = cli[g]
      BY <1>2, <3>1, <3>2, OneSide, Zenon DEF SidesOK
    <3>4. \A g \in Threads : LockOK(g)'
      BY <1>1, <3>2, <3>3 DEF LockOK, lines
    <3> QED BY <3>3, <3>4 DEF SidesOK
  <2> QED BY <2>1, <2>2
<1> QED BY <1>1, <1>4, <1>5, <1>6, PartsKept

\* A wire from which the first message is taken; no thread reads one that was not made.
LEMMA OneHeard ==
  ASSUME TypeParts, NEW k \in Conns, down[k] # <<>>, down' = [down EXCEPT ![k] = Tail(down[k])],
         UNCHANGED <<lines, up, srv>>
  PROVE  WiresOK' /\ \A c \in Conns : ConnOK(c)'
<1> USE DEF TypeParts
<1>1. WiresOK'
  BY OneWire DEF WiresOK
<1>2. \A c \in Conns : c # k => down'[c] = down[c]
  BY DEF WiresOK
<1>3. ASSUME NEW c \in Conns PROVE ConnOK(c)'
  <2>1. c > dialled => c # k
    BY DEF ConnOK
  <2> QED BY <1>2, <2>1 DEF ConnOK, lines
<1> QED BY <1>1, <1>3

\* The answer to an upload, or the header of a download.
LEMMA TypeClientHears == \A h \in Threads : TypeParts /\ ClientHears(h) => TypeParts'
<1> SUFFICES ASSUME NEW h \in Threads, TypeParts, ClientHears(h) PROVE TypeParts'
  OBVIOUS
<1> USE DEF TypeParts
<1> DEFINE k == cli[h].on
           m == Head(down[k])
<1>1. /\ cli[h].st \in {"reply", "answer"} /\ down[k] # <<>> /\ down' = [down EXCEPT ![k] = Tail(down[k])]
      /\ UNCHANGED <<files, lines, up, srv, requests, mishaps>>
  BY DEF ClientHears
<1>2. cli[h] \in Sides /\ k \in Conns /\ k \in 1..dialled /\ locked = h
  BY <1>1, Made DEF SidesOK, LockOK
<1>3. m \in Message
  BY <1>1, <1>2, OneLess DEF WiresOK
<1>4. WiresOK' /\ \A c \in Conns : ConnOK(c)'
  BY <1>1, <1>2, OneHeard
<1>5. SidesOK(cli, Threads)' /\ LockTypeOK' /\ \A g \in Threads : LockOK(g)'
  <2>1. CASE cli[h].st = "answer" /\ m.type = "file"
    <3> DEFINE p == [cli[h] EXCEPT !.st = "body"]
               r == [p EXCEPT !.size = m.val]
    <3>1. cli' = [cli EXCEPT ![h] = r] /\ UNCHANGED locked
      BY <1>2, <2>1 DEF ClientHears, SidesOK
    <3>2. p \in Sides /\ p.body = cli[h].body /\ p.st = "body" /\ p.on = k
      BY <1>2, SetSt DEF Steps
    <3> HIDE DEF p
    <3>3. r \in Sides /\ r.body = cli[h].body /\ r.st = "body" /\ r.size = m.val /\ r.on = k
      BY <1>3, <2>1, <3>2, SetSize, MessageFields
    <3> HIDE DEF r
    <3>4. Len(r.body) <= r.size
      <4>1. r.body = <<>> /\ r.size \in 0..MaxSize
        BY <2>1, <3>3, SideTypes DEF LockOK
      <4> QED BY <4>1, Bounds
    <3>5. SidesOK(cli', Threads) /\ cli'[h] = r /\ \A g \in Threads : g # h => cli'[g] = cli[g]
      BY <3>1, <3>3, <3>4, OneSide, Zenon DEF SidesOK
    <3>6. \A g \in Threads : LockOK(g)'
      BY <1>1, <1>2, <3>1, <3>3, <3>5 DEF LockOK, lines
    <3> QED BY <3>1, <3>5, <3>6, PartsKept DEF SidesOK
  <2>2. CASE ~(cli[h].st = "answer" /\ m.type = "file")
    <3>1. Over(h, cli[h].st = "answer" /\ m.type # "error")
      BY <2>2 DEF ClientHears
    <3> QED BY <1>1, <1>2, <3>1, OverSide DEF lines
  <2> QED BY <2>1, <2>2
<1> QED BY <1>1, <1>4, <1>5, PartsKept

\* A chunk is accepted only while the announced size is not reached.
LEMMA MoreFacts ==
  ASSUME NEW g \in Sides, NEW m \in Message, Len(g.body) <= g.size, BodyState(g, m) = "more"
  PROVE  m.type = "data" /\ Len(g.body) < g.size /\ Append(g.body, m.val) \in Parts
         /\ Len(Append(g.body, m.val)) <= g.size
<1>1. m.type = "data" /\ Len(g.body) < g.size
  BY DEF BodyState
<1>2. g.body \in Parts /\ g.size \in 0..MaxSize /\ m.val \in Chunks /\ Len(g.body) \in Nat
  BY <1>1, SideTypes, MessageFields, PartsAreFiles, LenProperties
<1> QED BY <1>1, <1>2, OneChunkMore, Bounds

\* recv_file_body, by the client.
LEMMA TypeClientReceives == \A h \in Threads : TypeParts /\ ClientReceives(h) => TypeParts'
<1> SUFFICES ASSUME NEW h \in Threads, TypeParts, ClientReceives(h) PROVE TypeParts'
  OBVIOUS
<1> USE DEF TypeParts
<1> DEFINE k == cli[h].on
           m == Head(down[k])
           is == BodyState(cli[h], m)
<1>1. /\ cli[h].st = "body" /\ down[k] # <<>> /\ down' = [down EXCEPT ![k] = Tail(down[k])]
      /\ UNCHANGED <<mine, theirs, committed, changes, lines, up, srv, requests, mishaps>>
      /\ received' = IF is = "whole" THEN cli[h].body ELSE received
  BY DEF ClientReceives
<1>2. cli[h] \in Sides /\ k \in Conns /\ k \in 1..dialled /\ locked = h
  BY <1>1, Made DEF SidesOK, LockOK
<1>3. m \in Message
  BY <1>1, <1>2, OneLess DEF WiresOK
<1>4. WiresOK' /\ \A c \in Conns : ConnOK(c)'
  BY <1>1, <1>2, OneHeard
<1>5. SidesOK(cli, Threads)' /\ LockTypeOK' /\ \A g \in Threads : LockOK(g)'
  <2>1. CASE is = "more"
    <3> DEFINE b == Append(cli[h].body, m.val)
               r == [cli[h] EXCEPT !.body = b]
    <3>1. cli' = [cli EXCEPT ![h] = r] /\ UNCHANGED locked
      BY <2>1 DEF ClientReceives, SidesOK
    <3>2. b \in Parts /\ Len(b) <= cli[h].size
      BY <1>2, <1>3, <2>1, MoreFacts DEF SidesOK
    <3> HIDE DEF b
    <3>3. r \in Sides /\ r.body = b /\ r.st = "body" /\ r.size = cli[h].size /\ r.on = k
      BY <1>1, <1>2, <3>2, SetBody
    <3> HIDE DEF r
    <3>4. SidesOK(cli', Threads) /\ cli'[h] = r /\ \A g \in Threads : g # h => cli'[g] = cli[g]
      BY <3>1, <3>2, <3>3, OneSide, Zenon DEF SidesOK
    <3>5. \A g \in Threads : LockOK(g)'
      BY <1>1, <1>2, <3>1, <3>3, <3>4 DEF LockOK, lines
    <3> QED BY <3>1, <3>4, <3>5, PartsKept DEF SidesOK
  <2>2. CASE is # "more"
    <3>1. Over(h, is = "broken")
      BY <2>2 DEF ClientReceives
    <3> QED BY <1>1, <1>2, <3>1, OverSide DEF lines
  <2> QED BY <2>1, <2>2
<1>6. FilesOK'
  BY <1>1, <1>2, SideTypes DEF FilesOK
<1> QED BY <1>1, <1>4, <1>5, <1>6, PartsKept

\* An exchange that fails releases cmd_mutex_.
LEMMA TypeExchangeLost == \A h \in Threads : TypeParts /\ ExchangeLost(h) => TypeParts'
<1> SUFFICES ASSUME NEW h \in Threads, TypeParts, ExchangeLost(h) PROVE TypeParts'
  OBVIOUS
<1> USE DEF TypeParts
<1>1. locked = h /\ Over(h, TRUE) /\ UNCHANGED <<files, lines, up, down, srv, requests>>
      /\ (mishaps' = mishaps \/ (mishaps < MaxMishaps /\ mishaps' = mishaps + 1))
  BY DEF ExchangeLost
<1>2. CountsOK'
  BY <1>1, Bounds DEF CountsOK
<1>3. SidesOK(cli, Threads)' /\ LockTypeOK' /\ \A g \in Threads : LockOK(g)'
  BY <1>1, OverSide DEF LockOK, lines
<1> QED BY <1>1, <1>2, <1>3, PartsKept, ConnsKept

\* mark_disconnected closes the connection only if it is still the one in use.
LEMMA TypeMarkLost == \A h \in Threads : TypeParts /\ MarkLost(h) => TypeParts'
<1> SUFFICES ASSUME NEW h \in Threads, TypeParts, MarkLost(h) PROVE TypeParts'
  OBVIOUS
<1> USE DEF TypeParts
<1>1. /\ cli[h].st = "mark" /\ cli' = [cli EXCEPT ![h] = Nothing] /\ dialled' = dialled /\ late' = late
      /\ \/ alive' = alive \ {cmd} /\ cmd' = 0
         \/ alive' = alive /\ cmd' = cmd
      /\ UNCHANGED <<files, locked, up, down, srv, requests, mishaps>>
  BY DEF MarkLost, lines
<1>2. SidesOK(cli', Threads) /\ cli'[h] = Nothing /\ \A g \in Threads : g # h => cli'[g] = cli[g]
  <2>1. Nothing \in Sides /\ Len(Nothing.body) <= Nothing.size
    BY NothingType
  <2> QED BY <1>1, <2>1, OneSide, Zenon DEF SidesOK
<1>3. LinesOK'
  <2>1. dialled \in 0..MaxConns /\ dialled \in Nat /\ cmd \in 0..dialled /\ alive \in SUBSET (1..dialled)
        /\ late \in SUBSET (1..dialled)
    BY Bounds DEF LinesOK
  <2>2. cmd' \in 0..dialled /\ alive' \in SUBSET (1..dialled)
    <3>1. (alive' \subseteq alive) /\ (cmd' = 0 \/ cmd' = cmd)
      BY ONLY <1>1
    <3> QED BY ONLY <2>1, <3>1
  <2> QED BY ONLY <1>1, <2>1, <2>2 DEF LinesOK
<1>4. \A g \in Threads : LockOK(g)'
  BY <1>1, <1>2, NothingType DEF LockOK
<1>5. \A k \in Conns : ConnOK(k)'
  BY <1>1 DEF ConnOK
<1> QED BY <1>1, <1>2, <1>3, <1>4, <1>5, PartsKept DEF SidesOK

\* The handler's side after it has said something.
LEMMA SaySide ==
  ASSUME TypeParts, NEW k \in Conns, NEW m \in Message, NEW r \in Sides, Len(r.body) <= r.size,
         r.st \in {"idle", "send"}, k <= dialled, Say(k, m, r), UNCHANGED lines,
         \A c \in Conns : c # k => up'[c] = up[c]
  PROVE  /\ SidesOK(srv, Conns)' /\ down' \in [Conns -> Seq(Message)] /\ \A c \in Conns : ConnOK(c)'
         /\ \A c \in Conns : c # k => srv'[c] = srv[c] /\ down'[c] = down[c]
         /\ k \in alive => srv'[k] = r /\ down'[k] = Append(down[k], m)
         /\ k \notin alive => srv'[k].st = "done" /\ down'[k] = down[k]
<1> USE DEF TypeParts
<1> DEFINE p == [Nothing EXCEPT !.st = "done"]
           q == IF k \in alive THEN r ELSE p
<1>1. srv' = [srv EXCEPT ![k] = q]
  BY DEF Say
<1>2. p \in Sides /\ p.body = <<>> /\ p.size = 0 /\ p.st = "done"
  BY NothingType, SetSt DEF Steps
<1> HIDE DEF p
<1>3. q \in Sides /\ Len(q.body) <= q.size
  BY <1>2
<1>4. (k \in alive => q = r) /\ (k \notin alive => q.st = "done")
  BY <1>2
<1> HIDE DEF q
<1>5. SidesOK(srv', Conns) /\ srv'[k] = q /\ \A c \in Conns : c # k => srv'[c] = srv[c]
  BY <1>1, <1>3, OneSide, Zenon DEF SidesOK
<1>6. /\ down' \in [Conns -> Seq(Message)]
      /\ \A c \in Conns : c # k => down'[c] = down[c]
      /\ down'[k] = IF k \in alive THEN Append(down[k], m) ELSE down[k]
  BY OneWire DEF Say, WiresOK
<1>7. ASSUME NEW c \in Conns PROVE ConnOK(c)'
  <2>1. ~(k > dialled) /\ ConnOK(c) /\ UNCHANGED <<cmd, dialled, alive>>
    BY Bounds DEF Conns, LinesOK, lines
  <2>2. CASE c = k
    BY <1>4, <1>5, <1>6, <2>1, <2>2 DEF ConnOK
  <2>3. CASE c # k
    BY <1>5, <1>6, <2>1, <2>3 DEF ConnOK
  <2> QED BY <2>2, <2>3
<1> QED BY <1>4, <1>5, <1>6, <1>7 DEF SidesOK

\* The side of an upload, and that of a download with the file it has opened.
LEMMA UploadSide ==
  ASSUME NEW q \in 0..MaxRequests, NEW n \in 0..MaxSize, NEW r, r = ToReceive(q, n)
  PROVE  r \in Sides /\ r.st = "body" /\ r.req = q /\ r.size = n /\ r.body = <<>> /\ Len(r.body) <= r.size
<1> DEFINE s1 == [Nothing EXCEPT !.st = "body"]
           s2 == [s1 EXCEPT !.req = q]
           s3 == [s2 EXCEPT !.size = n]
<1>1. r = s3
  BY DEF ToReceive
<1>2. s1 \in Sides /\ s1.st = "body" /\ s1.body = <<>>
  BY NothingType, SetSt DEF Steps
<1> HIDE DEF s1
<1>3. s2 \in Sides /\ s2.st = "body" /\ s2.body = <<>> /\ s2.req = q
  BY <1>2, SetReq
<1> HIDE DEF s2
<1>4. s3 \in Sides /\ s3.st = "body" /\ s3.body = <<>> /\ s3.req = q /\ s3.size = n
  BY <1>3, SetSize
<1> HIDE DEF s3
<1>5. Len(r.body) <= r.size
  BY ONLY <1>1, <1>4, n \in 0..MaxSize, Bounds, EmptyLen
<1> QED BY ONLY <1>1, <1>4, <1>5

\* The side of a download has the file open, none of it sent.
LEMMA DownloadSide ==
  ASSUME NEW q \in 0..MaxRequests, NEW b \in Parts, NEW r, r = ToSend(q, b)
  PROVE  /\ r \in Sides /\ r.st = "send" /\ r.req = q /\ r.size = Len(b) /\ r.body = <<>>
         /\ r.open = b /\ Len(b) \in 0..MaxSize /\ Len(r.body) <= r.size
<1> DEFINE s1 == [Nothing EXCEPT !.st = "send"]
           s2 == [s1 EXCEPT !.req = q]
           s3 == [s2 EXCEPT !.size = Len(b)]
           s4 == [s3 EXCEPT !.open = b]
<1>1. r = s4
  BY DEF ToSend
<1>2. s1 \in Sides /\ s1.st = "send" /\ s1.body = <<>>
  BY NothingType, SetSt DEF Steps
<1> HIDE DEF s1
<1>3. s2 \in Sides /\ s2.st = "send" /\ s2.body = <<>> /\ s2.req = q
  BY <1>2, SetReq
<1> HIDE DEF s2
<1>4. Len(b) \in 0..MaxSize
  BY PartsAreFiles, LenProperties, Bounds
<1>5. s3 \in Sides /\ s3.st = "send" /\ s3.body = <<>> /\ s3.req = q /\ s3.size = Len(b)
  BY <1>3, <1>4, SetSize
<1> HIDE DEF s3
<1>6. s4 \in Sides /\ s4.st = "send" /\ s4.body = <<>> /\ s4.req = q /\ s4.size = Len(b) /\ s4.open = b
  BY <1>5, SetOpen
<1> HIDE DEF s4
<1>7. Len(r.body) <= r.size
  BY ONLY <1>1, <1>4, <1>6, Bounds, EmptyLen
<1> QED BY ONLY <1>1, <1>4, <1>6, <1>7

\* handle_request: an upload begins, a download begins or is refused.
LEMMA TypeTakeRequest == \A k \in Conns : TypeParts /\ TakeRequest(k) => TypeParts'
<1> SUFFICES ASSUME NEW k \in Conns, TypeParts, TakeRequest(k) PROVE TypeParts'
  OBVIOUS
<1> USE DEF TypeParts
<1> DEFINE m == Head(up[k])
<1>1. /\ srv[k].st = "idle" /\ up[k] # <<>> /\ up' = [up EXCEPT ![k] = Tail(up[k])]
      /\ UNCHANGED <<files, lines, clients, requests, mishaps>>
  BY DEF TakeRequest
<1>2. m \in Message /\ up' \in [Conns -> Seq(Message)] /\ \A c \in Conns : c # k => up'[c] = up[c]
  BY <1>1, OneLess, OneWire DEF WiresOK
<1>3. m.req \in 0..MaxRequests
  BY <1>2, MessageFields
<1>4. k <= dialled
  BY <1>1, Bounds DEF ConnOK, LinesOK, Conns
<1>5. SidesOK(srv, Conns)' /\ down' \in [Conns -> Seq(Message)] /\ \A c \in Conns : ConnOK(c)'
  <2>1. CASE m.type = "upload" /\ srv' = [srv EXCEPT ![k] = ToReceive(m.req, m.val)] /\ UNCHANGED down
    <3> DEFINE r == ToReceive(m.req, m.val)
    <3>1. srv' = [srv EXCEPT ![k] = r]
      BY <2>1
    <3>2. r \in Sides /\ r.st = "body" /\ Len(r.body) <= r.size
      <4>1. m.val \in 0..MaxSize
        BY <1>2, <2>1, MessageFields
      <4> QED BY <1>3, <4>1, UploadSide
    <3> HIDE DEF r
    <3>3. SidesOK(srv', Conns) /\ srv'[k] = r /\ \A c \in Conns : c # k => srv'[c] = srv[c]
      BY <3>1, <3>2, OneSide, Zenon DEF SidesOK
    <3>4. \A c \in Conns : ConnOK(c)'
      BY <1>1, <1>2, <1>4, <2>1, <3>2, <3>3, Bounds DEF ConnOK, lines, LinesOK, Conns
    <3> QED BY <2>1, <3>3, <3>4 DEF SidesOK, WiresOK
  <2>2. CASE Say(k, Msg("error", 0, m.req), Nothing)
    <3>1. Msg("error", 0, m.req) \in Message /\ Nothing \in Sides /\ Len(Nothing.body) <= Nothing.size
          /\ Nothing.st = "idle"
      BY <1>3, Messages, NothingType
    <3> QED BY <1>1, <1>2, <1>4, <2>2, <3>1, SaySide
  <2>3. CASE theirs # Removed /\ Say(k, Msg("file", Len(theirs), m.req), ToSend(m.req, theirs))
    <3> DEFINE r == ToSend(m.req, theirs)
    <3>1. theirs \in Parts
      BY <2>3 DEF FilesOK
    <3>2. Say(k, Msg("file", Len(theirs), m.req), r)
      BY <2>3
    <3>3. r \in Sides /\ r.st = "send" /\ Len(r.body) <= r.size /\ Len(theirs) \in 0..MaxSize
      BY <1>3, <3>1, DownloadSide
    <3> HIDE DEF r
    <3>4. Msg("file", Len(theirs), m.req) \in Message
      BY <1>3, <3>3, Messages
    <3> QED BY <1>1, <1>2, <1>4, <3>2, <3>3, <3>4, SaySide
  <2> HIDE DEF TypeParts
  <2> QED BY <2>1, <2>2, <2>3 DEF TakeRequest
<1> QED BY <1>1, <1>2, <1>5, PartsKept, ClientsKept DEF WiresOK

\* recv_file_body, by the server: no more than was announced is kept.
LEMMA TypeServerReceives == \A k \in Conns : TypeParts /\ ServerReceives(k) => TypeParts'
<1> SUFFICES ASSUME NEW k \in Conns, TypeParts, ServerReceives(k) PROVE TypeParts'
  OBVIOUS
<1> USE DEF TypeParts
<1> DEFINE m == Head(up[k])
           is == BodyState(srv[k], m)
<1>1. /\ srv[k].st = "body" /\ up[k] # <<>> /\ up' = [up EXCEPT ![k] = Tail(up[k])]
      /\ alive' = IF is = "broken" THEN alive \ {k} ELSE alive
      /\ UNCHANGED <<files, cmd, dialled, late, down, clients, requests, mishaps>>
  BY DEF ServerReceives
<1>2. m \in Message /\ up' \in [Conns -> Seq(Message)] /\ \A c \in Conns : c # k => up'[c] = up[c]
  BY <1>1, OneLess, OneWire DEF WiresOK
<1>3. srv[k] \in Sides /\ Len(srv[k].body) <= srv[k].size
  BY DEF SidesOK
<1>4. PICK r \in Sides :
         /\ srv' = [srv EXCEPT ![k] = r] /\ Len(r.body) <= r.size
         /\ r.st \in {"body", "commit", "error", "done"}
         /\ r.st = "done" => is = "broken"
  <2>1. CASE is = "more"
    <3> DEFINE b == Append(srv[k].body, m.val)
               r == [srv[k] EXCEPT !.body = b]
    <3>1. srv' = [srv EXCEPT ![k] = r]
      BY ONLY ServerReceives(k), <2>1 DEF ServerReceives
    <3>2. b \in Parts /\ Len(b) <= srv[k].size
      BY <1>2, <1>3, <2>1, MoreFacts
    <3> HIDE DEF b
    <3>3. r \in Sides /\ r.st = "body" /\ r.size = srv[k].size /\ r.body = b
      BY <1>1, <1>3, <3>2, SetBody
    <3> HIDE DEF r
    <3> QED BY <3>1, <3>2, <3>3
  <2>2. ASSUME NEW x \in {"commit", "error", "done"}, srv' = [srv EXCEPT ![k] = [srv[k] EXCEPT !.st = x]],
               x = "done" => is = "broken"
        PROVE \E r \in Sides :
                 /\ srv' = [srv EXCEPT ![k] = r] /\ Len(r.body) <= r.size
                 /\ r.st \in {"body", "commit", "error", "done"}
                 /\ r.st = "done" => is = "broken"
    <3> DEFINE r == [srv[k] EXCEPT !.st = x]
    <3>1. r \in Sides /\ r.st = x /\ r.size = srv[k].size /\ r.body = srv[k].body
      BY <1>3, SetSt DEF Steps
    <3>2. srv' = [srv EXCEPT ![k] = r]
      BY <2>2
    <3> HIDE DEF r
    <3> QED BY <1>3, <2>2, <3>1, <3>2
  <2>3. is \in {"more", "whole", "failed", "broken"}
    BY DEF BodyState
  <2>4. CASE is = "whole"
    BY <2>2, <2>4 DEF ServerReceives
  <2>5. CASE is = "failed"
    BY <2>2, <2>5 DEF ServerReceives
  <2>6. CASE is = "broken"
    BY <2>2, <2>6 DEF ServerReceives
  <2> QED BY <2>1, <2>3, <2>4, <2>5, <2>6
<1>5. SidesOK(srv', Conns) /\ srv'[k] = r /\ \A c \in Conns : c # k => srv'[c] = srv[c]
  <2>1. SidesOK(srv, Conns)
    OBVIOUS
  <2> QED BY ONLY <1>4, <2>1, k \in Conns, OneSide, Zenon DEF SidesOK
<1> HIDE DEF is
<1>6. LinesOK' /\ alive' \subseteq alive
  <2>1. alive' \subseteq alive
    BY <1>1
  <2> QED BY <1>1, <2>1 DEF LinesOK
<1>7. ASSUME NEW c \in Conns PROVE ConnOK(c)'
  <2>1. CASE c = k
    <3>1. ~(k > dialled)
      BY <1>1 DEF ConnOK
    <3>2. r.st = "done" => k \notin alive'
      BY <1>1, <1>4
    <3> QED BY <1>1, <1>4, <1>5, <1>6, <2>1, <3>1, <3>2 DEF ConnOK
  <2>2. CASE c # k
    BY <1>1, <1>2, <1>5, <1>6, <2>2 DEF ConnOK
  <2> QED BY <2>1, <2>2
<1>8. (\A h \in Threads : LockOK(h)') /\ LockTypeOK'
  BY <1>1, <1>6, LocksKept, PartsKept, Bounds DEF clients, LinesOK
<1> QED BY <1>1, <1>2, <1>5, <1>6, <1>7, <1>8, PartsKept DEF WiresOK, clients, SidesOK

\* handle_upload commits the file, or fails.
LEMMA TypeCommitUpload == \A k \in Conns : TypeParts /\ CommitUpload(k) => TypeParts'
<1> SUFFICES ASSUME NEW k \in Conns, TypeParts, CommitUpload(k) PROVE TypeParts'
  OBVIOUS
<1> USE DEF TypeParts
<1>1. /\ srv[k].st = "commit" /\ UNCHANGED <<mine, received, changes, lines, up, down, clients, requests, mishaps>>
      /\ \/ /\ theirs' = srv[k].body
            /\ committed' = committed \cup {[req |-> srv[k].req, body |-> srv[k].body]}
         \/ UNCHANGED <<theirs, committed>>
  BY DEF CommitUpload
<1>2. srv[k] \in Sides /\ Len(srv[k].body) <= srv[k].size /\ srv[k].body \in Parts
      /\ srv[k].req \in 0..MaxRequests
  BY SideTypes DEF SidesOK
<1>3. PICK x \in {"ok", "error"} : srv' = [srv EXCEPT ![k].st = x]
  BY DEF CommitUpload
<1> DEFINE r == [srv[k] EXCEPT !.st = x]
<1>4. srv' = [srv EXCEPT ![k] = r]
  BY <1>3
<1>5. r \in Sides /\ r.st = x /\ r.body = srv[k].body /\ r.size = srv[k].size
  BY <1>2, SetSt DEF Steps
<1> HIDE DEF r
<1>6. SidesOK(srv', Conns) /\ srv'[k] = r /\ \A c \in Conns : c # k => srv'[c] = srv[c]
  BY <1>2, <1>4, <1>5, OneSide, Zenon DEF SidesOK
<1>7. \A c \in Conns : ConnOK(c)'
  BY <1>1, <1>5, <1>6 DEF ConnOK, lines
<1>8. FilesOK'
  BY <1>1, <1>2 DEF FilesOK
<1> QED BY <1>1, <1>6, <1>7, <1>8, PartsKept, ClientsKept DEF SidesOK

\* handle_upload answers.
LEMMA TypeAnswerUpload == \A k \in Conns : TypeParts /\ AnswerUpload(k) => TypeParts'
<1> SUFFICES ASSUME NEW k \in Conns, TypeParts, AnswerUpload(k) PROVE TypeParts'
  OBVIOUS
<1> USE DEF TypeParts
<1>1. /\ srv[k].st \in {"ok", "error"} /\ Say(k, Msg(srv[k].st, 0, srv[k].req), Nothing)
      /\ UNCHANGED <<files, lines, up, clients, requests, mishaps>>
  BY DEF AnswerUpload
<1>2. srv[k].req \in 0..MaxRequests /\ k <= dialled
  BY <1>1, SideTypes, Bounds DEF SidesOK, ConnOK, LinesOK, Conns
<1>3. Msg(srv[k].st, 0, srv[k].req) \in Message
  BY <1>1, <1>2, Messages
<1>4. Nothing \in Sides /\ Len(Nothing.body) <= Nothing.size /\ Nothing.st = "idle"
  BY NothingType, EmptyLen
<1>5. SidesOK(srv, Conns)' /\ down' \in [Conns -> Seq(Message)] /\ \A c \in Conns : ConnOK(c)'
  BY <1>1, <1>2, <1>3, <1>4, SaySide
<1> QED BY <1>1, <1>5, PartsKept, ClientsKept DEF WiresOK

\* The side of a download after one chunk more, or after the end.
LEMMA SendSide ==
  ASSUME TypeParts, NEW k \in Conns, ServerSends(k)
  PROVE  LET m == NextPart(srv[k], srv[k].open)
             r == IF m.type = "data" THEN [srv[k] EXCEPT !.body = Append(srv[k].body, m.val)] ELSE Nothing
         IN
         /\ Say(k, m, r) /\ m \in Message /\ r \in Sides /\ Len(r.body) <= r.size /\ k <= dialled
         /\ m.type = "data" => /\ r.body = Append(srv[k].body, m.val) /\ r.st = "send" /\ r.size = srv[k].size
                               /\ r.open = srv[k].open /\ r.req = srv[k].req
         /\ m.type # "data" => r.st = "idle"
<1> USE DEF TypeParts
<1> DEFINE m == NextPart(srv[k], srv[k].open)
           r == IF m.type = "data" THEN [srv[k] EXCEPT !.body = Append(srv[k].body, m.val)] ELSE Nothing
<1>1. srv[k].st = "send" /\ Say(k, m, r)
  BY DEF ServerSends
<1>2. srv[k] \in Sides /\ Len(srv[k].body) <= srv[k].size /\ srv[k].open \in Parts /\ srv[k].body \in Parts
      /\ srv[k].size \in 0..MaxSize /\ Len(srv[k].body) \in Nat
  BY SideTypes, PartsAreFiles, LenProperties DEF SidesOK
<1>3. m \in Message /\ (m.type = "data" => m.val \in Chunks /\ Len(srv[k].body) < srv[k].size)
  BY <1>2, PartFacts
<1>4. k <= dialled
  BY <1>1, Bounds DEF ConnOK, LinesOK, Conns
<1> HIDE DEF m
<1>5. CASE m.type = "data"
  <2> DEFINE b == Append(srv[k].body, m.val)
             q == [srv[k] EXCEPT !.body = b]
  <2>1. r = q
    BY <1>5
  <2>2. b \in Parts /\ Len(b) <= srv[k].size
    BY <1>2, <1>3, <1>5, OneChunkMore, Bounds
  <2>5. b = Append(srv[k].body, m.val)
    OBVIOUS
  <2> HIDE DEF b
  <2>3. /\ q \in Sides /\ q.body = b /\ q.st = "send" /\ q.size = srv[k].size /\ q.open = srv[k].open
        /\ q.req = srv[k].req
    BY <1>1, <1>2, <2>2, SetBody
  <2> HIDE DEF q
  <2>4. /\ r \in Sides /\ r.body = Append(srv[k].body, m.val) /\ r.st = "send" /\ r.size = srv[k].size
        /\ r.open = srv[k].open /\ r.req = srv[k].req /\ Len(r.body) <= r.size
    BY <2>1, <2>2, <2>3, <2>5
  <2> HIDE DEF r
  <2>6. r = IF m.type = "data" THEN [srv[k] EXCEPT !.body = Append(srv[k].body, m.val)] ELSE Nothing
    BY DEF r
  <2> QED BY ONLY <1>1, <1>3, <1>4, <1>5, <2>4 DEF m, r
<1>6. CASE m.type # "data"
  <2>1. r = Nothing
    BY <1>6
  <2>2. Nothing \in Sides /\ Len(Nothing.body) <= Nothing.size /\ Nothing.st = "idle"
    BY NothingType, EmptyLen
  <2> QED BY ONLY <1>1, <1>3, <1>4, <1>6, <2>1, <2>2 DEF m
<1> QED BY <1>5, <1>6

\* send_file, by the server.
LEMMA TypeServerSends == \A k \in Conns : TypeParts /\ ServerSends(k) => TypeParts'
<1> SUFFICES ASSUME NEW k \in Conns, TypeParts, ServerSends(k) PROVE TypeParts'
  OBVIOUS
<1> DEFINE m == NextPart(srv[k], srv[k].open)
           r == IF m.type = "data" THEN [srv[k] EXCEPT !.body = Append(srv[k].body, m.val)] ELSE Nothing
<1>1. UNCHANGED <<files, lines, up, clients, requests, mishaps>>
  BY DEF ServerSends
<1>2. /\ Say(k, m, r) /\ m \in Message /\ r \in Sides /\ Len(r.body) <= r.size /\ k <= dialled
      /\ r.st \in {"idle", "send"}
  BY SendSide
<1> HIDE DEF m, r
<1>3. SidesOK(srv, Conns)' /\ down' \in [Conns -> Seq(Message)] /\ \A c \in Conns : ConnOK(c)'
  BY <1>1, <1>2, SaySide
<1> QED BY <1>1, <1>3, PartsKept, ClientsKept DEF WiresOK, TypeParts

\* The handler of a closed connection ends.
LEMMA TypeHandlerEnds == \A k \in Conns : TypeParts /\ HandlerEnds(k) => TypeParts'
<1> SUFFICES ASSUME NEW k \in Conns, TypeParts, HandlerEnds(k) PROVE TypeParts'
  OBVIOUS
<1> USE DEF TypeParts
<1> DEFINE r == [Nothing EXCEPT !.st = "done"]
<1>1. /\ srv' = [srv EXCEPT ![k] = r] /\ k \in 1..dialled \ alive
      /\ UNCHANGED <<files, lines, up, down, clients, requests, mishaps>>
  BY DEF HandlerEnds
<1>2. r \in Sides /\ r.body = <<>> /\ r.st = "done" /\ r.size = 0
  BY NothingType, SetSt DEF Steps
<1> HIDE DEF r
<1>3. SidesOK(srv', Conns) /\ srv'[k] = r /\ \A c \in Conns : c # k => srv'[c] = srv[c]
  <2>1. Len(r.body) <= r.size
    BY <1>2, EmptyLen
  <2> QED BY <1>1, <1>2, <2>1, OneSide, Zenon DEF SidesOK
<1>4. ~(k > dialled)
  BY <1>1, Bounds DEF LinesOK, Conns
<1>5. \A c \in Conns : ConnOK(c)'
  BY <1>1, <1>2, <1>3, <1>4 DEF ConnOK, lines
<1> QED BY <1>1, <1>3, <1>5, PartsKept, ClientsKept DEF SidesOK

\* An edit in place leaves a file.
LEMMA TypeEditInPlace == TypeParts /\ EditInPlace => TypeParts'
<1> SUFFICES ASSUME TypeParts, EditInPlace PROVE TypeParts'
  OBVIOUS
<1> USE DEF TypeParts
<1>1. /\ changes < MaxChanges /\ changes' = changes + 1
      /\ UNCHANGED <<theirs, committed, received, lines, up, down, clients, srv, requests, mishaps>>
  BY DEF EditInPlace
<1>2. changes' \in 0..MaxChanges /\ changes + 1 \in Chunks
  BY <1>1, Bounds DEF FilesOK, Chunks
<1>3. mine \in Seq(Chunks) /\ Len(mine) \in Nat /\ Len(mine) <= MaxSize
  BY PartsAreFiles, LenProperties DEF FilesOK
<1>4. mine' \in Seq(Chunks) /\ Len(mine') <= MaxSize
  <2>1. CASE \E i \in 1..Len(mine) : mine' = [mine EXCEPT ![i] = changes + 1]
    BY <1>2, <1>3, <2>1, ExceptSeq
  <2>2. CASE Len(mine) < MaxSize /\ mine' = Append(mine, changes + 1)
    <3>1. mine' \in Seq(Chunks) /\ Len(mine') = Len(mine) + 1
      BY <1>2, <1>3, <2>2, OneMore
    <3> QED BY <1>3, <2>2, <3>1, Bounds
  <2>3. CASE Len(mine) > 0 /\ mine' = SubSeq(mine, 1, Len(mine) - 1)
    <3>1. \A i \in 1..Len(mine) - 1 : mine[i] \in Chunks
      BY <1>3
    <3>2. mine' \in Seq(Chunks) /\ Len(mine') = IF 1 <= Len(mine) - 1 THEN Len(mine) - 1 - 1 + 1 ELSE 0
      BY <1>3, <2>3, <3>1, SubSeqProperties
    <3> QED BY <1>3, <3>2, Bounds
  <2> QED BY <2>1, <2>2, <2>3 DEF EditInPlace
<1>5. FilesOK'
  BY <1>1, <1>2, <1>4, PartsAreFiles DEF FilesOK
<1> QED BY <1>1, <1>5, PartsKept, ClientsKept, ConnsKept

\* Another session's upload leaves a file, its delete none.
LEMMA TypeReplaceThere == TypeParts /\ ReplaceThere => TypeParts'
<1> SUFFICES ASSUME TypeParts, ReplaceThere PROVE TypeParts'
  OBVIOUS
<1> USE DEF TypeParts
<1>1. /\ changes < MaxChanges /\ changes' = changes + 1
      /\ committed' = committed \cup {[req |-> 0, body |-> b] : b \in {theirs'} \ {Removed}}
      /\ UNCHANGED <<mine, received, lines, up, down, clients, srv, requests, mishaps>>
  BY DEF ReplaceThere
<1>2. changes' \in 0..MaxChanges /\ changes + 1 \in Chunks
  BY <1>1, Bounds DEF FilesOK, Chunks
<1>3. theirs' \in Parts \cup {Removed}
  <2>1. ASSUME NEW n \in 0..MaxSize, theirs' = [i \in 1..n |-> changes + 1] PROVE theirs' \in Parts
    BY <1>2, <2>1 DEF Parts, Chunks
  <2> QED BY <2>1 DEF ReplaceThere
<1>4. \A b \in {theirs'} \ {Removed} : [req |-> 0, body |-> b] \in [req : 0..MaxRequests, body : Parts]
  BY <1>3, Bounds
<1>5. FilesOK'
  BY <1>1, <1>2, <1>3, <1>4 DEF FilesOK
<1> QED BY <1>1, <1>5, PartsKept, ClientsKept, ConnsKept

\* A full disk changes only how an exchange will end.
LEMMA TypeDiskFails == TypeParts /\ DiskFails => TypeParts'
<1> SUFFICES ASSUME TypeParts, DiskFails PROVE TypeParts'
  OBVIOUS
<1> USE DEF TypeParts
<1>1. /\ mishaps < MaxMishaps /\ mishaps' = mishaps + 1
      /\ UNCHANGED <<files, lines, locked, up, down, requests>>
  BY DEF DiskFails
<1>2. CountsOK'
  BY <1>1, Bounds DEF CountsOK
<1>3. CASE \E h \in Threads : cli[h].st = "body" /\ cli' = [cli EXCEPT ![h].disk = "full"] /\ UNCHANGED srv
  <2>1. PICK h \in Threads : cli' = [cli EXCEPT ![h].disk = "full"] /\ UNCHANGED srv
    BY <1>3
  <2> DEFINE r == [cli[h] EXCEPT !.disk = "full"]
  <2>2. cli' = [cli EXCEPT ![h] = r] /\ cli[h] \in Sides
    BY <2>1 DEF SidesOK
  <2>3. r \in Sides /\ r.body = cli[h].body /\ r.size = cli[h].size /\ r.st = cli[h].st /\ r.on = cli[h].on
    BY <2>2, SetDisk
  <2> HIDE DEF r
  <2>4. SidesOK(cli', Threads) /\ cli'[h] = r /\ \A g \in Threads : g # h => cli'[g] = cli[g]
    BY <2>2, <2>3, OneSide, Zenon DEF SidesOK
  <2>5. \A g \in Threads : LockOK(g)'
    BY <1>1, <2>3, <2>4 DEF LockOK, lines
  <2> QED BY <1>1, <1>2, <2>1, <2>4, <2>5, PartsKept, ConnsKept DEF SidesOK
<1>4. CASE \E k \in Conns : srv[k].st = "body" /\ srv' = [srv EXCEPT ![k].disk = "full"] /\ UNCHANGED cli
  <2>1. PICK k \in Conns : srv' = [srv EXCEPT ![k].disk = "full"] /\ UNCHANGED cli
    BY <1>4
  <2> DEFINE r == [srv[k] EXCEPT !.disk = "full"]
  <2>2. srv' = [srv EXCEPT ![k] = r] /\ srv[k] \in Sides
    BY <2>1 DEF SidesOK
  <2>3. r \in Sides /\ r.body = srv[k].body /\ r.size = srv[k].size /\ r.st = srv[k].st
    BY <2>2, SetDisk
  <2> HIDE DEF r
  <2>4. SidesOK(srv', Conns) /\ srv'[k] = r /\ \A c \in Conns : c # k => srv'[c] = srv[c]
    BY <2>2, <2>3, OneSide, Zenon DEF SidesOK
  <2>5. \A c \in Conns : ConnOK(c)'
    BY <1>1, <2>3, <2>4 DEF ConnOK, lines
  <2> QED BY <1>1, <1>2, <2>1, <2>4, <2>5, PartsKept, ClientsKept DEF SidesOK, clients
<1> QED BY <1>3, <1>4 DEF DiskFails

\* A connection that breaks loses what is under way on it.
LEMMA TypeConnectionBreaks == \A k \in Conns : TypeParts /\ ConnectionBreaks(k) => TypeParts'
<1> SUFFICES ASSUME NEW k \in Conns, TypeParts, ConnectionBreaks(k) PROVE TypeParts'
  OBVIOUS
<1> USE DEF TypeParts
<1>1. /\ mishaps < MaxMishaps /\ mishaps' = mishaps + 1 /\ alive' = alive \ {k}
      /\ up' = [up EXCEPT ![k] = <<>>] /\ down' = [down EXCEPT ![k] = <<>>]
      /\ UNCHANGED <<files, cmd, dialled, late, clients, srv, requests>>
  BY DEF ConnectionBreaks
<1>2. CountsOK' /\ WiresOK'
  BY <1>1, OneWire, Bounds DEF CountsOK, WiresOK
<1>3. alive' \subseteq alive
  BY <1>1
<1>4. LinesOK'
  BY <1>1, <1>3 DEF LinesOK
<1>5. (\A h \in Threads : LockOK(h)') /\ LockTypeOK'
  BY <1>1, <1>4, LocksKept, PartsKept, Bounds DEF clients, LinesOK
<1>6. \A c \in Conns : ConnOK(c)'
  <2>1. \A c \in Conns : up'[c] \in {up[c], <<>>} /\ down'[c] \in {down[c], <<>>}
    BY <1>1 DEF WiresOK
  <2> QED BY <1>1, <1>3, <2>1 DEF ConnOK
<1> QED BY <1>1, <1>2, <1>4, <1>5, <1>6, PartsKept DEF clients

\* Every step keeps the types.
LEMMA TypeNext == TypeParts /\ [TransferNext]_transferVars => TypeParts'
<1> SUFFICES ASSUME TypeParts, [TransferNext]_transferVars PROVE TypeParts'
  OBVIOUS
<1>1. ASSUME NEW h \in Threads, BeginUpload(h) PROVE TypeParts'
  <2> DEFINE m == Msg("upload", Len(mine), requests + 1)
  <2>1. Len(mine) \in 0..MaxSize /\ requests + 1 \in 0..MaxRequests
    BY <1>1, PartsAreFiles, LenProperties, Bounds DEF BeginUpload, Begin, TypeParts, FilesOK, CountsOK
  <2>2. m \in Message
    BY <2>1, Messages
  <2> HIDE DEF m
  <2>3. Begin(h, m, "send", Len(mine))
    BY <1>1 DEF BeginUpload, m
  <2> QED BY <2>1, <2>2, <2>3, TypeBegin
<1>2. ASSUME NEW h \in Threads, BeginDownload(h) PROVE TypeParts'
  <2> DEFINE m == Msg("download", 0, requests + 1)
  <2>1. 0 \in 0..MaxSize /\ requests + 1 \in 0..MaxRequests
    BY <1>2, Bounds DEF BeginDownload, Begin, TypeParts, CountsOK
  <2>2. m \in Message
    BY <2>1, Messages
  <2> HIDE DEF m
  <2>3. Begin(h, m, "answer", 0)
    BY <1>2 DEF BeginDownload, m
  <2> QED BY <2>1, <2>2, <2>3, TypeBegin
<1>3. ASSUME NEW h \in Threads,
             \/ TakeConnection(h) \/ CannotBegin(h) \/ ClientSends(h) \/ ClientHears(h)
             \/ ClientReceives(h) \/ ExchangeLost(h) \/ MarkLost(h)
      PROVE  TypeParts'
  BY ONLY <1>3, TypeParts, h \in Threads, TypeTakeConnection, TypeCannotBegin, TypeClientSends, TypeClientHears,
          TypeClientReceives, TypeExchangeLost, TypeMarkLost, Zenon
<1>4. ASSUME NEW k \in Conns,
             \/ TakeRequest(k) \/ ServerReceives(k) \/ CommitUpload(k) \/ AnswerUpload(k)
             \/ ServerSends(k) \/ HandlerEnds(k) \/ ConnectionBreaks(k)
      PROVE  TypeParts'
  BY ONLY <1>4, TypeParts, k \in Conns, TypeTakeRequest, TypeServerReceives, TypeCommitUpload, TypeAnswerUpload,
          TypeServerSends, TypeHandlerEnds, TypeConnectionBreaks, Zenon
<1>5. CASE UNCHANGED transferVars
  BY <1>5, PartsKept, ClientsKept, ConnsKept DEF transferVars, TypeParts, files, lines, clients
<1> QED BY <1>1, <1>2, <1>3, <1>4, <1>5, TypeEditInPlace, TypeReplaceThere, TypeDiskFails, Zenon
        DEF TransferNext

\* The first invariant holds for ever.
LEMMA TypeAlways == TransferSpec => []TypeParts
BY TransferInitType, TypeNext, PTL DEF TransferSpec

\* Type correctness: sizes never exceed what was announced (send_file,
\* recv_file_body), and counters, wires and tables stay what they are declared to be.
THEOREM TransferTypeCorrect == TransferSpec => []TransferTypeOK
BY TypeInParts, TypeAlways, PTL

-----------------------------------------------------------------------------
(* A download is a file the server had, whole.                               *)

\* After n chunks of the file b, s goes on with the rest of it from place i.
Follows(s, i, n, b) ==
    \A j \in 1..Len(s) : i < j /\ j - i + n <= Len(b) =>
        s[j].type = "data" /\ s[j].val = b[j - i + n]

\* That is all of it, or the handler is about to send what is missing, or the
\* connection is gone.
Rest(k, i, n, b) ==
    /\ Follows(down[k], i, n, b)
    /\ \/ Len(b) - n <= Len(down[k]) - i
       \/ srv[k].st = "send" /\ srv[k].open = b /\ Len(srv[k].body) = n + Len(down[k]) - i
       \/ k \notin alive

\* The server's file, and the one a handler has open, were stored whole.
ThereOK == theirs = Removed \/ \E c \in committed : c.body = theirs

OpenOK(k) ==
    srv[k].st = "send" =>
        /\ \E c \in committed : c.body = srv[k].open
        /\ srv[k].size = Len(srv[k].open)

\* The file that a header on the wire announces is what comes behind it.
HeaderOK(k, i) ==
    down[k][i].type = "file" =>
        \E c \in committed : Len(c.body) = down[k][i].val /\ Rest(k, i, 0, c.body)

\* What a thread has received, with what is to come, is a file the server had.
Reads(h, b) ==
    /\ Len(b) = cli[h].size
    /\ \A j \in 1..Len(cli[h].body) : cli[h].body[j] = b[j]
    /\ Rest(cli[h].on, 0, Len(cli[h].body), b)

ReadOK(h) == cli[h].st = "body" => \E c \in committed : Reads(h, c.body)

\* The second inductive invariant: all of that, and the property.
WholeInv ==
    /\ WholeFiles /\ ThereOK
    /\ \A k \in Conns : OpenOK(k)
    /\ \A k \in Conns : \A i \in 1..Len(down[k]) : HeaderOK(k, i)
    /\ \A h \in Threads : ReadOK(h)

\* A step that neither writes nor reads the wire.
LEMMA RestKept ==
  ASSUME NEW k, NEW i, NEW n, NEW b, Rest(k, i, n, b), down'[k] = down[k],
         k \in alive' => k \in alive,
         srv[k].st = "send" /\ k \in alive' => srv'[k] = srv[k]
  PROVE  Rest(k, i, n, b)'
BY DEF Rest

\* The wires hold sequences, and lengths are numbers.
LEMMA WireTypes ==
  ASSUME TypeParts, NEW k \in Conns
  PROVE  /\ down[k] \in Seq(Message) /\ up[k] \in Seq(Message)
         /\ Len(down[k]) \in Nat /\ Len(up[k]) \in Nat
         /\ srv[k] \in Sides /\ Len(srv[k].body) \in Nat /\ Len(srv[k].body) <= srv[k].size
         /\ srv[k].body \in Parts /\ srv[k].open \in Parts /\ Len(srv[k].open) \in Nat
         /\ srv[k].size \in Nat /\ srv[k].req \in 0..MaxRequests
<1>1. down[k] \in Seq(Message) /\ up[k] \in Seq(Message) /\ srv[k] \in Sides /\ Len(srv[k].body) <= srv[k].size
  BY DEF TypeParts, WiresOK, SidesOK
<1>2. srv[k].body \in Parts /\ srv[k].open \in Parts /\ srv[k].size \in Nat /\ srv[k].req \in 0..MaxRequests
  BY <1>1, SideTypes, Bounds
<1> QED BY <1>1, <1>2, PartsAreFiles, LenProperties

\* The fields of the exchange of a thread.
LEMMA ThreadTypes ==
  ASSUME TypeParts, NEW h \in Threads
  PROVE  /\ cli[h] \in Sides /\ Len(cli[h].body) \in Nat /\ Len(cli[h].body) <= cli[h].size
         /\ cli[h].body \in Parts /\ cli[h].size \in Nat /\ cli[h].req \in 0..MaxRequests
         /\ LockOK(h) /\ (cli[h].st # "idle" => cli[h].on \in Conns)
<1>1. cli[h] \in Sides /\ Len(cli[h].body) <= cli[h].size /\ LockOK(h) /\ LinesOK
  BY DEF TypeParts, SidesOK
<1>2. cli[h].body \in Parts /\ cli[h].size \in Nat /\ cli[h].req \in 0..MaxRequests
  BY <1>1, SideTypes, Bounds
<1>3. Len(cli[h].body) \in Nat
  BY <1>2, PartsAreFiles, LenProperties
<1>4. cli[h].st # "idle" => cli[h].on \in Conns
  BY <1>1, Made DEF LockOK
<1> QED BY <1>1, <1>2, <1>3, <1>4

\* What the server has stored are files.
LEMMA StoredTypes ==
  ASSUME TypeParts, NEW c \in committed
  PROVE  c.body \in Parts /\ c.body \in Seq(Chunks) /\ Len(c.body) \in Nat /\ Len(c.body) <= MaxSize
<1>1. c.body \in Parts
  BY DEF TypeParts, FilesOK
<1> QED BY <1>1, PartsAreFiles, LenProperties

\* The first message is taken from the wire.
LEMMA RestTaken ==
  ASSUME TypeParts, NEW k \in Conns, NEW n \in Nat, NEW b \in Seq(Chunks), down[k] # <<>>,
         down'[k] = Tail(down[k]), k \in alive' <=> k \in alive, srv'[k] = srv[k]
  PROVE  /\ \A i \in Nat : i > 0 /\ Rest(k, i, n, b) => Rest(k, i - 1, n, b)'
         /\ Rest(k, 0, n, b) => Rest(k, 0, n + 1, b)'
<1> DEFINE d == down[k]
           e == down'[k]
<1>1. /\ Len(d) \in Nat /\ Len(e) = Len(d) - 1 /\ Len(b) \in Nat /\ Len(srv[k].body) \in Nat
      /\ \A j \in 1..Len(e) : e[j] = d[j + 1] /\ j + 1 \in 1..Len(d)
  <2>1. d \in Seq(Message) /\ Len(b) \in Nat /\ Len(srv[k].body) \in Nat
    BY WireTypes, LenProperties
  <2>2. /\ Len(d) \in Nat \ {0} /\ Len(e) = Len(d) - 1
        /\ \A j \in 1..(Len(d) - 1) : e[j] = d[j + 1]
    BY <2>1, OneLess
  <2> QED BY <2>1, <2>2
<1>2. ASSUME NEW i \in Nat, i > 0, Rest(k, i, n, b) PROVE Rest(k, i - 1, n, b)'
  <2>1. Follows(e, i - 1, n, b)
    <3> SUFFICES ASSUME NEW j \in 1..Len(e), i - 1 < j, j - (i - 1) + n <= Len(b)
                 PROVE  e[j].type = "data" /\ e[j].val = b[j - (i - 1) + n]
      BY DEF Follows
    <3>1. i < j + 1 /\ (j + 1) - i + n <= Len(b) /\ (j + 1) - i + n = j - (i - 1) + n
      BY <1>1
    <3> QED BY <1>1, <1>2, <3>1 DEF Rest, Follows
  <2>2. \/ Len(b) - n <= Len(e) - (i - 1)
        \/ srv[k].st = "send" /\ srv[k].open = b /\ Len(srv[k].body) = n + Len(e) - (i - 1)
        \/ k \notin alive
    BY <1>1, <1>2 DEF Rest
  <2> QED BY <2>1, <2>2 DEF Rest
<1>3. ASSUME Rest(k, 0, n, b) PROVE Rest(k, 0, n + 1, b)'
  <2>1. Follows(e, 0, n + 1, b)
    <3> SUFFICES ASSUME NEW j \in 1..Len(e), j - 0 + (n + 1) <= Len(b)
                 PROVE  e[j].type = "data" /\ e[j].val = b[j - 0 + (n + 1)]
      BY DEF Follows
    <3>1. 0 < j + 1 /\ (j + 1) - 0 + n <= Len(b) /\ (j + 1) - 0 + n = j - 0 + (n + 1)
      BY <1>1
    <3> QED BY <1>1, <1>3, <3>1 DEF Rest, Follows
  <2>2. \/ Len(b) - (n + 1) <= Len(e) - 0
        \/ srv[k].st = "send" /\ srv[k].open = b /\ Len(srv[k].body) = n + 1 + Len(e) - 0
        \/ k \notin alive
    <3>1. \/ Len(b) - n <= Len(d) - 0
          \/ srv[k].st = "send" /\ srv[k].open = b /\ Len(srv[k].body) = n + Len(d) - 0
          \/ k \notin alive
      BY <1>3 DEF Rest
    <3> DEFINE ld == Len(d)
               le == Len(e)
               lb == Len(b)
               ls == Len(srv[k].body)
    <3>2. ld \in Nat /\ le = ld - 1 /\ lb \in Nat /\ ls \in Nat
      BY <1>1
    <3> HIDE DEF ld, le, lb, ls
    <3>3. lb - n <= ld - 0 => lb - (n + 1) <= le - 0
      BY ONLY <3>2, n \in Nat
    <3>4. ls = n + ld - 0 => ls = n + 1 + le - 0
      BY ONLY <3>2, n \in Nat
    <3> QED BY ONLY <3>1, <3>3, <3>4 DEF ld, le, lb, ls
  <2> QED BY <2>1, <2>2 DEF Rest
<1> QED BY <1>2, <1>3

\* The handler sends a message: the next chunk of its file, the end of it, or something
\* else when it has no file open.
LEMMA RestSaid ==
  ASSUME TypeParts, NEW k \in Conns, NEW i \in Nat, NEW n \in Nat, NEW b \in Seq(Chunks), NEW m \in Message,
         Rest(k, i, n, b), k \in alive, down'[k] = Append(down[k], m),
         srv[k].st = "send" =>
            \/ /\ Len(srv[k].body) < Len(srv[k].open)
               /\ m.type = "data" /\ m.val = srv[k].open[Len(srv[k].body) + 1]
               /\ srv'[k].st = "send" /\ srv'[k].open = srv[k].open
               /\ Len(srv'[k].body) = Len(srv[k].body) + 1
            \/ Len(srv[k].body) = Len(srv[k].open)
  PROVE  Rest(k, i, n, b)'
<1> DEFINE d == down[k]
           e == down'[k]
<1>1. /\ Len(d) \in Nat /\ Len(e) = Len(d) + 1 /\ Len(b) \in Nat /\ Len(srv[k].body) \in Nat
      /\ e[Len(d) + 1] = m /\ \A j \in 1..Len(d) : e[j] = d[j]
  BY WireTypes, LenProperties, OneMore
<1>2. /\ \A j \in 1..Len(d) : i < j /\ j - i + n <= Len(b) => d[j].type = "data" /\ d[j].val = b[j - i + n]
      /\ \/ Len(b) - n <= Len(d) - i
         \/ srv[k].st = "send" /\ srv[k].open = b /\ Len(srv[k].body) = n + Len(d) - i
  BY DEF Rest, Follows
<1>3. CASE Len(b) - n <= Len(d) - i
  <2>1. \A j \in 1..Len(e) : i < j /\ j - i + n <= Len(b) => j \in 1..Len(d)
    BY <1>1, <1>3
  <2> QED BY <1>1, <1>2, <1>3, <2>1 DEF Rest, Follows
<1>4. CASE srv[k].st = "send" /\ srv[k].open = b /\ Len(srv[k].body) = n + Len(d) - i /\ Len(b) - n > Len(d) - i
  <2>1. /\ m.type = "data" /\ m.val = b[Len(srv[k].body) + 1] /\ srv'[k].st = "send" /\ srv'[k].open = b
        /\ Len(srv'[k].body) = Len(srv[k].body) + 1
    BY <1>1, <1>4
  <2>2. Len(srv[k].body) + 1 = Len(d) + 1 - i + n /\ Len(srv'[k].body) = n + Len(e) - i
    BY <1>1, <1>4, <2>1
  <2>3. Follows(e, i, n, b)
    <3> SUFFICES ASSUME NEW j \in 1..Len(e), i < j, j - i + n <= Len(b)
                 PROVE  e[j].type = "data" /\ e[j].val = b[j - i + n]
      BY DEF Follows
    <3>1. CASE j \in 1..Len(d)
      BY <1>1, <1>2, <3>1
    <3>2. CASE j = Len(d) + 1
      <4>1. j - i + n = Len(srv[k].body) + 1
        BY ONLY <1>1, <2>2, <3>2
      <4> QED BY ONLY <1>1, <2>1, <3>2, <4>1
    <3> QED BY <1>1, <3>1, <3>2
  <2> QED BY <2>1, <2>2, <2>3 DEF Rest
<1> QED BY <1>1, <1>2, <1>3, <1>4

-----------------------------------------------------------------------------
(* What the steps of a client thread do, field by field.                     *)

\* A table in which one field of one record changes.
LEMMA NewSt ==
  ASSUME NEW S, NEW f \in [S -> Sides], NEW h \in S, NEW x \in Steps, NEW next, next = [f EXCEPT ![h].st = x]
  PROVE  /\ next[h].st = x /\ next[h].req = f[h].req /\ next[h].size = f[h].size
         /\ next[h].body = f[h].body /\ next[h].open = f[h].open /\ next[h].on = f[h].on
         /\ \A g \in S : g # h => next[g] = f[g]
<1> DEFINE r == [f[h] EXCEPT !.st = x]
<1>1. next = [f EXCEPT ![h] = r] /\ f[h] \in Sides
  OBVIOUS
<1>2. /\ r.st = x /\ r.req = f[h].req /\ r.size = f[h].size
      /\ r.body = f[h].body /\ r.open = f[h].open /\ r.on = f[h].on
  BY <1>1, SetSt
<1> HIDE DEF r
<1>3. next[h] = r /\ \A g \in S : g # h => next[g] = f[g]
  BY ONLY <1>1, f \in [S -> Sides], h \in S
<1> QED BY ONLY <1>2, <1>3

\* The same for the part that was received,
LEMMA NewBody ==
  ASSUME NEW S, NEW f \in [S -> Sides], NEW h \in S, NEW b \in Parts, NEW next, next = [f EXCEPT ![h].body = b]
  PROVE  /\ next[h].body = b /\ next[h].req = f[h].req /\ next[h].size = f[h].size
         /\ next[h].st = f[h].st /\ next[h].open = f[h].open /\ next[h].on = f[h].on
         /\ \A g \in S : g # h => next[g] = f[g]
<1> DEFINE r == [f[h] EXCEPT !.body = b]
<1>1. next = [f EXCEPT ![h] = r] /\ f[h] \in Sides
  OBVIOUS
<1>2. /\ r.body = b /\ r.req = f[h].req /\ r.size = f[h].size
      /\ r.st = f[h].st /\ r.open = f[h].open /\ r.on = f[h].on
  BY <1>1, SetBody
<1> HIDE DEF r
<1>3. next[h] = r /\ \A g \in S : g # h => next[g] = f[g]
  BY ONLY <1>1, f \in [S -> Sides], h \in S
<1> QED BY ONLY <1>2, <1>3

\* and for the disk.
LEMMA NewDisk ==
  ASSUME NEW S, NEW f \in [S -> Sides], NEW h \in S, NEW next, next = [f EXCEPT ![h].disk = "full"]
  PROVE  /\ next[h].body = f[h].body /\ next[h].req = f[h].req /\ next[h].size = f[h].size
         /\ next[h].st = f[h].st /\ next[h].open = f[h].open /\ next[h].on = f[h].on
         /\ \A g \in S : g # h => next[g] = f[g]
<1> DEFINE r == [f[h] EXCEPT !.disk = "full"]
<1>1. next = [f EXCEPT ![h] = r] /\ f[h] \in Sides
  OBVIOUS
<1>2. /\ r.body = f[h].body /\ r.req = f[h].req /\ r.size = f[h].size
      /\ r.st = f[h].st /\ r.open = f[h].open /\ r.on = f[h].on
  BY <1>1, SetDisk
<1> HIDE DEF r
<1>3. next[h] = r /\ \A g \in S : g # h => next[g] = f[g]
  BY ONLY <1>1, f \in [S -> Sides], h \in S
<1> QED BY ONLY <1>2, <1>3

\* What the steps of a client thread do to its side, field by field.
LEMMA TakeConnectionEffect ==
  ASSUME TypeParts, NEW h \in Threads, TakeConnection(h)
  PROVE  /\ cli'[h].st = "wait" /\ \A g \in Threads : g # h => cli'[g] = cli[g]
         /\ UNCHANGED <<files, locked, up, down, srv, late>>
         /\ \/ alive' = alive
            \/ alive' = alive \cup {cmd'} /\ cmd' > dialled /\ cmd' \in Conns
<1> DEFINE p == [cli[h] EXCEPT !.st = "wait"]
           r == [p EXCEPT !.on = cmd']
<1>1. cli' = [cli EXCEPT ![h] = r] /\ cli[h] \in Sides /\ cli \in [Threads -> Sides]
  BY DEF TakeConnection, SidesOK, TypeParts
<1>2. p \in Sides /\ p.st = "wait"
  BY <1>1, SetSt DEF Steps
<1> HIDE DEF p
<1>3. LinesOK'
  BY TypeTakeConnection DEF TypeParts
<1>4. cmd' \in 0..MaxConns
  BY <1>3, Bounds DEF LinesOK
<1>5. r.st = "wait"
  BY <1>2, <1>4, SetOn
<1> HIDE DEF r
<1>6. cli'[h] = r /\ \A g \in Threads : g # h => cli'[g] = cli[g]
  BY ONLY <1>1, h \in Threads
<1>7. UNCHANGED <<files, locked, up, down, srv, late>>
  BY DEF TakeConnection, lines
<1>8. \/ alive' = alive
      \/ alive' = alive \cup {cmd'} /\ cmd' > dialled /\ cmd' \in Conns
  BY Bounds DEF TakeConnection, lines, TypeParts, LinesOK, Conns
<1> QED BY <1>5, <1>6, <1>7, <1>8

\* transact's first message.
LEMMA BeginEffect ==
  ASSUME TypeParts, NEW h \in Threads, NEW m \in Message, NEW st \in {"send", "answer"}, NEW n \in 0..MaxSize,
         Begin(h, m, st, n)
  PROVE  /\ cli[h].st = "wait" /\ locked = None /\ locked' = h /\ cli[h].on \in alive /\ cli[h].on \in Conns
         /\ cli'[h].st = st /\ cli'[h].size = n /\ cli'[h].req = m.req
         /\ cli'[h].body = <<>> /\ cli'[h].on = cli[h].on
         /\ \A g \in Threads : g # h => cli'[g] = cli[g]
         /\ up'[cli[h].on] = Append(up[cli[h].on], m)
         /\ \A k \in Conns : k # cli[h].on => up'[k] = up[k]
         /\ UNCHANGED <<files, cmd, dialled, alive, down, srv>>
         /\ late' = IF \E g \in Threads : cli[g].st = "mark" /\ cli[g].on = cli[h].on
                      THEN late \cup {cli[h].on} ELSE late
<1> USE DEF TypeParts
<1> DEFINE p == [cli[h] EXCEPT !.st = st]
           q == [p EXCEPT !.size = n]
           r == [q EXCEPT !.req = m.req]
<1>1. cli' = [cli EXCEPT ![h] = r] /\ cli[h] \in Sides /\ cli \in [Threads -> Sides]
  BY DEF Begin, SidesOK
<1>2. p \in Sides /\ p.body = cli[h].body /\ p.on = cli[h].on /\ p.st = st
  BY <1>1, SetSt DEF Steps
<1> HIDE DEF p
<1>3. q \in Sides /\ q.body = cli[h].body /\ q.on = cli[h].on /\ q.st = st /\ q.size = n
  BY <1>2, SetSize
<1> HIDE DEF q
<1>4. r.body = cli[h].body /\ r.on = cli[h].on /\ r.st = st /\ r.size = n /\ r.req = m.req
  BY <1>3, SetReq, MessageFields
<1> HIDE DEF r
<1>5. cli'[h] = r /\ \A g \in Threads : g # h => cli'[g] = cli[g]
  BY ONLY <1>1, h \in Threads
<1>6. cli[h].st = "wait" /\ locked = None /\ locked' = h /\ cli[h].on \in alive
      /\ UNCHANGED <<files, cmd, dialled, alive, down, srv>>
  BY DEF Begin
<1>7. cli[h].body = <<>> /\ cli[h].on \in Conns
  BY <1>6, Made DEF LockOK
<1>8. /\ up'[cli[h].on] = Append(up[cli[h].on], m)
      /\ \A k \in Conns : k # cli[h].on => up'[k] = up[k]
  BY <1>7 DEF Begin, WiresOK
<1>9. late' = IF \E g \in Threads : cli[g].st = "mark" /\ cli[g].on = cli[h].on
                THEN late \cup {cli[h].on} ELSE late
  BY DEF Begin
<1> HIDE DEF TypeParts
<1> QED BY <1>4, <1>5, <1>6, <1>7, <1>8, <1>9, Zenon

\* send_file: the thread reads on, or waits for the answer.
LEMMA ClientSendsEffect ==
  ASSUME TypeParts, NEW h \in Threads, ClientSends(h)
  PROVE  LET m == NextPart(cli[h], mine)
             k == cli[h].on
         IN
         /\ cli[h].st = "send" /\ k \in alive /\ k \in Conns /\ m \in Message
         /\ up'[k] = Append(up[k], m) /\ \A j \in Conns : j # k => up'[j] = up[j]
         /\ m.type = "data" => cli'[h].body = Append(cli[h].body, m.val) /\ cli'[h].st = "send"
         /\ m.type # "data" => cli'[h].body = cli[h].body /\ cli'[h].st = "reply"
         /\ cli'[h].size = cli[h].size /\ cli'[h].req = cli[h].req /\ cli'[h].on = k
         /\ \A g \in Threads : g # h => cli'[g] = cli[g]
         /\ UNCHANGED <<files, lines, locked, down, srv>>
<1> USE DEF TypeParts
<1> DEFINE m == NextPart(cli[h], mine)
           k == cli[h].on
<1>1. /\ cli[h].st = "send" /\ k \in alive /\ up' = [up EXCEPT ![k] = Append(up[k], m)]
      /\ cli' = IF m.type = "data" THEN [cli EXCEPT ![h].body = Append(cli[h].body, m.val)]
                ELSE [cli EXCEPT ![h].st = "reply"]
      /\ UNCHANGED <<files, lines, locked, down, srv>>
  BY DEF ClientSends
<1>2. cli[h] \in Sides /\ k \in Conns /\ Len(cli[h].body) <= cli[h].size /\ mine \in Parts
      /\ cli \in [Threads -> Sides]
  BY <1>1, Made DEF SidesOK, FilesOK
<1>3. m \in Message /\ (m.type = "data" => m.val \in Chunks /\ Len(cli[h].body) < cli[h].size)
  BY <1>2, PartFacts
<1> HIDE DEF m
<1>4. up'[k] = Append(up[k], m) /\ \A j \in Conns : j # k => up'[j] = up[j]
  BY <1>1, <1>2 DEF WiresOK
<1>5. ASSUME m.type = "data"
      PROVE  /\ cli'[h].body = Append(cli[h].body, m.val) /\ cli'[h].st = "send"
             /\ cli'[h].size = cli[h].size /\ cli'[h].req = cli[h].req /\ cli'[h].on = k
             /\ \A g \in Threads : g # h => cli'[g] = cli[g]
  <2>1. cli[h].body \in Parts /\ cli[h].size \in 0..MaxSize /\ Len(cli[h].body) \in Nat
    BY <1>2, SideTypes, PartsAreFiles, LenProperties
  <2>2. Append(cli[h].body, m.val) \in Parts
    BY <1>3, <1>5, <2>1, OneChunkMore, Bounds
  <2>3. cli' = [cli EXCEPT ![h].body = Append(cli[h].body, m.val)]
    BY <1>1, <1>5
  <2>4. cli[h].st = "send"
    BY <1>1
  <2> QED BY ONLY <1>2, <2>2, <2>3, <2>4, h \in Threads, NewBody
<1>6. ASSUME m.type # "data"
      PROVE  /\ cli'[h].body = cli[h].body /\ cli'[h].st = "reply"
             /\ cli'[h].size = cli[h].size /\ cli'[h].req = cli[h].req /\ cli'[h].on = k
             /\ \A g \in Threads : g # h => cli'[g] = cli[g]
  <2>1. cli' = [cli EXCEPT ![h].st = "reply"]
    BY <1>1, <1>6
  <2> QED BY ONLY <1>2, <2>1, h \in Threads, NewSt DEF Steps
<1> HIDE DEF TypeParts
<1> QED BY <1>1, <1>2, <1>3, <1>4, <1>5, <1>6, Zenon DEF m

\* A message is taken from the wire of a thread.
LEMMA WireRead ==
  ASSUME TypeParts, NEW k \in Conns, down[k] # <<>>, down' = [down EXCEPT ![k] = Tail(down[k])]
  PROVE  /\ down'[k] = Tail(down[k]) /\ \A j \in Conns : j # k => down'[j] = down[j]
         /\ Head(down[k]) \in Message /\ Head(down[k]) = down[k][1]
BY OneLess DEF TypeParts, WiresOK

\* The answer, or the header of a file, ends the wait.
LEMMA ClientHearsEffect ==
  ASSUME TypeParts, NEW h \in Threads, ClientHears(h)
  PROVE  LET k == cli[h].on
             m == Head(down[k])
         IN
         /\ cli[h].st \in {"reply", "answer"} /\ k \in Conns /\ down[k] # <<>> /\ locked = h
         /\ m \in Message /\ m = down[k][1]
         /\ down'[k] = Tail(down[k]) /\ \A j \in Conns : j # k => down'[j] = down[j]
         /\ \A g \in Threads : g # h => cli'[g] = cli[g]
         /\ UNCHANGED <<files, lines, up, srv>>
         /\ \/ /\ cli[h].st = "answer" /\ m.type = "file" /\ cli'[h].st = "body" /\ cli'[h].size = m.val
               /\ cli'[h].body = <<>> /\ cli'[h].req = cli[h].req /\ cli'[h].on = k /\ locked' = locked
            \/ /\ ~(cli[h].st = "answer" /\ m.type = "file") /\ locked' = None
               /\ (cli'[h].st = "mark" /\ cli'[h].on = k) \/ cli'[h].st = "idle"
               /\ cli'[h].st = "idle" => ~(cli[h].st = "answer" /\ m.type # "error")
<1> USE DEF TypeParts
<1> DEFINE k == cli[h].on
           m == Head(down[k])
<1>1. /\ cli[h].st \in {"reply", "answer"} /\ down[k] # <<>> /\ down' = [down EXCEPT ![k] = Tail(down[k])]
      /\ UNCHANGED <<files, lines, up, srv>>
  BY DEF ClientHears
<1>2. cli[h] \in Sides /\ k \in Conns /\ locked = h /\ cli \in [Threads -> Sides]
  BY <1>1, Made DEF SidesOK, LockOK
<1>3. /\ m \in Message /\ m = down[k][1]
      /\ down'[k] = Tail(down[k]) /\ \A j \in Conns : j # k => down'[j] = down[j]
  BY <1>1, <1>2, WireRead
<1>4. ASSUME cli[h].st = "answer", m.type = "file"
      PROVE  /\ cli'[h].st = "body" /\ cli'[h].size = m.val /\ cli'[h].body = <<>> /\ cli'[h].req = cli[h].req
             /\ cli'[h].on = k /\ locked' = locked
             /\ \A g \in Threads : g # h => cli'[g] = cli[g]
  <2> DEFINE p == [cli[h] EXCEPT !.st = "body"]
             r == [p EXCEPT !.size = m.val]
  <2>1. cli' = [cli EXCEPT ![h] = r] /\ locked' = locked
    BY <1>2, <1>4 DEF ClientHears
  <2>2. p \in Sides /\ p.body = cli[h].body /\ p.st = "body" /\ p.on = k /\ p.req = cli[h].req
    BY <1>2, SetSt DEF Steps
  <2> HIDE DEF p
  <2>3. r.body = cli[h].body /\ r.st = "body" /\ r.size = m.val /\ r.on = k /\ r.req = cli[h].req
    BY <1>3, <1>4, <2>2, SetSize, MessageFields
  <2> HIDE DEF r
  <2>4. cli[h].body = <<>>
    BY <1>4 DEF LockOK
  <2>5. cli'[h] = r /\ \A g \in Threads : g # h => cli'[g] = cli[g]
    BY ONLY <1>2, <2>1, h \in Threads
  <2> QED BY ONLY <2>1, <2>3, <2>4, <2>5
<1>5. ASSUME ~(cli[h].st = "answer" /\ m.type = "file")
      PROVE  /\ locked' = None
             /\ (cli'[h].st = "mark" /\ cli'[h].on = k) \/ cli'[h].st = "idle"
             /\ cli'[h].st = "idle" => ~(cli[h].st = "answer" /\ m.type # "error")
             /\ \A g \in Threads : g # h => cli'[g] = cli[g]
  <2>1. Over(h, cli[h].st = "answer" /\ m.type # "error")
    BY <1>5 DEF ClientHears
  <2> QED BY <1>1, <1>2, <2>1, OverSide
<1> HIDE DEF TypeParts
<1> QED BY <1>1, <1>2, <1>3, <1>4, <1>5, Zenon

\* recv_file_body: one chunk more, or the end of the exchange.
LEMMA ClientReceivesEffect ==
  ASSUME TypeParts, NEW h \in Threads, ClientReceives(h)
  PROVE  LET k  == cli[h].on
             m  == Head(down[k])
             is == BodyState(cli[h], m)
         IN
         /\ cli[h].st = "body" /\ k \in Conns /\ down[k] # <<>> /\ locked = h
         /\ m \in Message /\ m = down[k][1]
         /\ down'[k] = Tail(down[k]) /\ \A j \in Conns : j # k => down'[j] = down[j]
         /\ \A g \in Threads : g # h => cli'[g] = cli[g]
         /\ UNCHANGED <<mine, theirs, committed, lines, up, srv>>
         /\ received' = IF is = "whole" THEN cli[h].body ELSE received
         /\ \/ /\ is = "more" /\ cli'[h].body = Append(cli[h].body, m.val) /\ m.type = "data"
               /\ Len(cli[h].body) < cli[h].size
               /\ cli'[h].st = "body" /\ cli'[h].size = cli[h].size
               /\ cli'[h].req = cli[h].req /\ cli'[h].on = k /\ locked' = locked
            \/ /\ is # "more" /\ locked' = None
               /\ is = "broken" => cli'[h].st = "mark" /\ cli'[h].on = k
               /\ is # "broken" => cli'[h].st = "idle"
<1> USE DEF TypeParts
<1> DEFINE k == cli[h].on
           m == Head(down[k])
           is == BodyState(cli[h], m)
<1>1. /\ cli[h].st = "body" /\ down[k] # <<>> /\ down' = [down EXCEPT ![k] = Tail(down[k])]
      /\ UNCHANGED <<mine, theirs, committed, lines, up, srv>>
      /\ received' = IF is = "whole" THEN cli[h].body ELSE received
  BY DEF ClientReceives
<1>2. cli[h] \in Sides /\ k \in Conns /\ locked = h /\ cli \in [Threads -> Sides]
  BY <1>1, Made DEF SidesOK, LockOK
<1>3. /\ m \in Message /\ m = down[k][1]
      /\ down'[k] = Tail(down[k]) /\ \A j \in Conns : j # k => down'[j] = down[j]
  BY <1>1, <1>2, WireRead
<1>4. ASSUME is = "more"
      PROVE  /\ cli'[h].body = Append(cli[h].body, m.val) /\ m.type = "data" /\ Len(cli[h].body) < cli[h].size
             /\ cli'[h].st = "body" /\ cli'[h].size = cli[h].size
             /\ cli'[h].req = cli[h].req /\ cli'[h].on = k /\ locked' = locked
             /\ \A g \in Threads : g # h => cli'[g] = cli[g]
  <2>1. Append(cli[h].body, m.val) \in Parts /\ m.type = "data" /\ Len(cli[h].body) < cli[h].size
    BY <1>2, <1>3, <1>4, MoreFacts DEF SidesOK
  <2>2. cli' = [cli EXCEPT ![h].body = Append(cli[h].body, m.val)] /\ locked' = locked
    BY <1>4 DEF ClientReceives
  <2> QED BY ONLY <1>1, <1>2, <2>1, <2>2, h \in Threads, NewBody
<1>5. ASSUME is # "more"
      PROVE  /\ locked' = None
             /\ is = "broken" => cli'[h].st = "mark" /\ cli'[h].on = k
             /\ is # "broken" => cli'[h].st = "idle"
             /\ \A g \in Threads : g # h => cli'[g] = cli[g]
  <2>1. Over(h, is = "broken")
    BY <1>5 DEF ClientReceives
  <2> HIDE DEF is
  <2> QED BY <1>1, <1>2, <2>1, OverSide
<1> HIDE DEF TypeParts
<1> QED BY <1>1, <1>2, <1>3, <1>4, <1>5, Zenon

\* A failure of the exchange.
LEMMA ExchangeLostEffect ==
  ASSUME TypeParts, NEW h \in Threads, ExchangeLost(h)
  PROVE  /\ locked = h /\ locked' = None /\ cli'[h].st = "mark" /\ cli'[h].on = cli[h].on
         /\ \A g \in Threads : g # h => cli'[g] = cli[g]
         /\ UNCHANGED <<files, lines, up, down, srv>>
<1>1. locked = h /\ Over(h, TRUE) /\ UNCHANGED <<files, lines, up, down, srv>>
  BY DEF ExchangeLost
<1>2. cli[h].st \in {"reply", "answer", "body", "send"}
  BY <1>1 DEF TypeParts, LockOK
<1> QED BY <1>1, <1>2, OverSide

\* mark_disconnected.
LEMMA MarkLostEffect ==
  ASSUME TypeParts, NEW h \in Threads, MarkLost(h)
  PROVE  /\ cli[h].st = "mark" /\ cli'[h].st = "idle" /\ \A g \in Threads : g # h => cli'[g] = cli[g]
         /\ UNCHANGED <<files, locked, up, down, srv, late>>
         /\ alive' = alive \/ (alive' = alive \ {cmd} /\ cmd = cli[h].on)
         /\ cli[h].on \notin alive'
<1>1. /\ cli[h].st = "mark" /\ cli' = [cli EXCEPT ![h] = Nothing]
      /\ UNCHANGED <<files, locked, up, down, srv, late>>
      /\ \/ alive' = alive \ {cmd} /\ cmd = cli[h].on
         \/ alive' = alive /\ cmd # cli[h].on
  BY DEF MarkLost, lines
<1>2. cli'[h] = Nothing /\ \A g \in Threads : g # h => cli'[g] = cli[g]
  BY <1>1 DEF TypeParts, SidesOK
<1>3. \A k \in alive : k = cmd
  BY Made DEF TypeParts, ConnOK
<1> QED BY <1>1, <1>2, <1>3, NothingType

-----------------------------------------------------------------------------
(* What the steps of a handler do, and of the environment, field by field.   *)

\* Requests are taken on connections that were made.
LEMMA BusyIsMade ==
  ASSUME TypeParts, NEW k \in Conns, up[k] # <<>> \/ srv[k].st # "idle"
  PROVE  k <= dialled
BY Bounds DEF TypeParts, ConnOK, LinesOK, Conns

\* handle_request.
LEMMA TakeRequestEffect ==
  ASSUME TypeParts, NEW k \in Conns, TakeRequest(k)
  PROVE  LET m == Head(up[k]) IN
         /\ srv[k].st = "idle" /\ up[k] # <<>> /\ m \in Message /\ m = up[k][1] /\ up'[k] = Tail(up[k])
         /\ \A j \in Conns : j # k => up'[j] = up[j] /\ down'[j] = down[j] /\ srv'[j] = srv[j]
         /\ UNCHANGED <<files, lines, clients>>
         /\ \/ /\ m.type = "upload" /\ down'[k] = down[k]
               /\ srv'[k].st = "body" /\ srv'[k].req = m.req /\ srv'[k].size = m.val /\ srv'[k].body = <<>>
            \/ /\ m.type = "download" /\ k \in alive /\ srv'[k].st = "idle"
               /\ down'[k] = Append(down[k], Msg("error", 0, m.req))
            \/ /\ m.type = "download" /\ k \in alive /\ theirs # Removed /\ theirs \in Parts
               /\ srv'[k].st = "send" /\ srv'[k].req = m.req /\ srv'[k].size = Len(theirs)
               /\ srv'[k].body = <<>> /\ srv'[k].open = theirs
               /\ down'[k] = Append(down[k], Msg("file", Len(theirs), m.req))
            \/ /\ m.type = "download" /\ k \notin alive /\ srv'[k].st = "done" /\ down'[k] = down[k]
<1> USE DEF TypeParts
<1> DEFINE m == Head(up[k])
<1>1. /\ srv[k].st = "idle" /\ up[k] # <<>> /\ up' = [up EXCEPT ![k] = Tail(up[k])]
      /\ UNCHANGED <<files, lines, clients>>
  BY DEF TakeRequest
<1>2. m \in Message /\ m = up[k][1] /\ up'[k] = Tail(up[k]) /\ \A j \in Conns : j # k => up'[j] = up[j]
  BY <1>1, OneLess DEF WiresOK
<1>3. m.req \in 0..MaxRequests /\ k <= dialled
  BY <1>1, <1>2, MessageFields, BusyIsMade
<1>4. srv \in [Conns -> Sides]
  BY DEF SidesOK
<1>5. CASE m.type = "upload" /\ srv' = [srv EXCEPT ![k] = ToReceive(m.req, m.val)] /\ UNCHANGED down
  <2> DEFINE r == ToReceive(m.req, m.val)
  <2>1. r.st = "body" /\ r.req = m.req /\ r.size = m.val /\ r.body = <<>>
    <3>1. m.val \in 0..MaxSize
      BY <1>2, <1>5, MessageFields
    <3> QED BY <1>3, <3>1, UploadSide
  <2> HIDE DEF r
  <2>2. srv' = [srv EXCEPT ![k] = r]
    BY <1>5 DEF r
  <2>3. srv'[k] = r /\ (\A j \in Conns : j # k => down'[j] = down[j] /\ srv'[j] = srv[j]) /\ down'[k] = down[k]
    BY ONLY <1>4, <1>5, <2>2, k \in Conns
  <2> HIDE DEF TypeParts
  <2> QED BY <1>1, <1>2, <1>5, <2>1, <2>3
<1>6. CASE m.type = "download" /\ Say(k, Msg("error", 0, m.req), Nothing)
  <2>1. Msg("error", 0, m.req) \in Message /\ Nothing \in Sides /\ Len(Nothing.body) <= Nothing.size
        /\ Nothing.st = "idle"
    BY <1>3, Messages, NothingType, EmptyLen
  <2>2. /\ \A j \in Conns : j # k => srv'[j] = srv[j] /\ down'[j] = down[j]
        /\ k \in alive => srv'[k] = Nothing /\ down'[k] = Append(down[k], Msg("error", 0, m.req))
        /\ k \notin alive => srv'[k].st = "done" /\ down'[k] = down[k]
    BY <1>1, <1>2, <1>3, <1>6, <2>1, SaySide
  <2> HIDE DEF TypeParts
  <2> QED BY <1>1, <1>2, <1>6, <2>1, <2>2
<1>7. CASE /\ m.type = "download" /\ theirs # Removed
           /\ Say(k, Msg("file", Len(theirs), m.req), ToSend(m.req, theirs))
  <2> DEFINE r == ToSend(m.req, theirs)
             a == Msg("file", Len(theirs), m.req)
  <2>1. theirs \in Parts
    BY <1>7 DEF FilesOK
  <2>2. /\ r \in Sides /\ r.st = "send" /\ r.req = m.req /\ r.size = Len(theirs) /\ r.body = <<>>
        /\ r.open = theirs /\ Len(theirs) \in 0..MaxSize /\ Len(r.body) <= r.size
    BY <1>3, <2>1, DownloadSide
  <2>3. a \in Message
    BY <1>3, <2>2, Messages
  <2>4. Say(k, a, r)
    BY <1>7
  <2> HIDE DEF r, a
  <2>5. /\ \A j \in Conns : j # k => srv'[j] = srv[j] /\ down'[j] = down[j]
        /\ k \in alive => srv'[k] = r /\ down'[k] = Append(down[k], a)
        /\ k \notin alive => srv'[k].st = "done" /\ down'[k] = down[k]
    BY <1>1, <1>2, <1>3, <2>2, <2>3, <2>4, SaySide
  <2> HIDE DEF TypeParts
  <2> QED BY <1>1, <1>2, <1>7, <2>1, <2>2, <2>5 DEF a
<1> HIDE DEF TypeParts
<1>8. \/ m.type = "upload" /\ srv' = [srv EXCEPT ![k] = ToReceive(m.req, m.val)] /\ UNCHANGED down
      \/ m.type = "download" /\ Say(k, Msg("error", 0, m.req), Nothing)
      \/ /\ m.type = "download" /\ theirs # Removed
         /\ Say(k, Msg("file", Len(theirs), m.req), ToSend(m.req, theirs))
  BY DEF TakeRequest
<1> QED BY ONLY <1>5, <1>6, <1>7, <1>8

\* recv_file_body: one chunk more, the end, or what cannot be understood.
LEMMA ServerReceivesEffect ==
  ASSUME TypeParts, NEW k \in Conns, ServerReceives(k)
  PROVE  LET m == Head(up[k]) IN
         /\ srv[k].st = "body" /\ up[k] # <<>> /\ m \in Message /\ m = up[k][1] /\ up'[k] = Tail(up[k])
         /\ \A j \in Conns : j # k => up'[j] = up[j] /\ srv'[j] = srv[j]
         /\ UNCHANGED <<files, cmd, dialled, late, down, clients>>
         /\ \/ /\ m.type = "data" /\ srv'[k].st = "body" /\ srv'[k].req = srv[k].req
               /\ srv'[k].size = srv[k].size /\ srv'[k].body = Append(srv[k].body, m.val)
               /\ alive' = alive
            \/ /\ m.type = "end" /\ Len(srv[k].body) = srv[k].size /\ srv'[k].st = "commit"
               /\ srv'[k].req = srv[k].req /\ srv'[k].body = srv[k].body /\ alive' = alive
            \/ /\ m.type \in {"end", "abort"} /\ srv'[k].st = "error" /\ srv'[k].req = srv[k].req
               /\ alive' = alive
            \/ /\ \/ m.type \notin {"data", "end", "abort"}
                  \/ m.type = "data" /\ ~(Len(srv[k].body) < srv[k].size)
                  \/ m.type = "end" /\ Len(srv[k].body) # srv[k].size
               /\ srv'[k].st = "done" /\ alive' = alive \ {k}
<1> USE DEF TypeParts
<1> DEFINE m  == Head(up[k])
           is == BodyState(srv[k], m)
<1>1. /\ srv[k].st = "body" /\ up[k] # <<>> /\ up' = [up EXCEPT ![k] = Tail(up[k])]
      /\ alive' = IF is = "broken" THEN alive \ {k} ELSE alive
      /\ UNCHANGED <<files, cmd, dialled, late, down, clients>>
  BY DEF ServerReceives
<1>2. m \in Message /\ m = up[k][1] /\ up'[k] = Tail(up[k]) /\ \A j \in Conns : j # k => up'[j] = up[j]
  BY <1>1, OneLess DEF WiresOK
<1>3. srv \in [Conns -> Sides] /\ srv[k] \in Sides /\ Len(srv[k].body) <= srv[k].size
  BY DEF SidesOK
<1>4. CASE is = "more"
  <2>1. m.type = "data" /\ Append(srv[k].body, m.val) \in Parts
    BY <1>2, <1>3, <1>4, MoreFacts
  <2>2. srv' = [srv EXCEPT ![k] = [srv[k] EXCEPT !.body = Append(srv[k].body, m.val)]]
    BY <1>4 DEF ServerReceives
  <2>3. srv' = [srv EXCEPT ![k].body = Append(srv[k].body, m.val)]
    BY <2>2
  <2>4. /\ srv'[k].body = Append(srv[k].body, m.val) /\ srv'[k].req = srv[k].req /\ srv'[k].size = srv[k].size
        /\ srv'[k].st = srv[k].st /\ \A j \in Conns : j # k => srv'[j] = srv[j]
    BY ONLY <1>3, <2>1, <2>3, k \in Conns, NewBody
  <2> HIDE DEF is, TypeParts
  <2> QED BY <1>1, <1>2, <1>4, <2>1, <2>4
<1>5. CASE is = "whole"
  <2>1. m.type = "end" /\ Len(srv[k].body) = srv[k].size
    BY <1>5 DEF BodyState
  <2>2. srv' = [srv EXCEPT ![k].st = "commit"]
    BY <1>5 DEF ServerReceives
  <2>3. /\ srv'[k].body = srv[k].body /\ srv'[k].req = srv[k].req /\ srv'[k].size = srv[k].size
        /\ srv'[k].st = "commit" /\ \A j \in Conns : j # k => srv'[j] = srv[j]
    BY ONLY <1>3, <2>2, k \in Conns, NewSt DEF Steps
  <2> HIDE DEF is, TypeParts
  <2> QED BY <1>1, <1>2, <1>5, <2>1, <2>3
<1>6. CASE is = "failed"
  <2>1. m.type \in {"end", "abort"}
    BY <1>6 DEF BodyState
  <2>2. srv' = [srv EXCEPT ![k].st = "error"]
    BY <1>6 DEF ServerReceives
  <2>3. /\ srv'[k].req = srv[k].req
        /\ srv'[k].st = "error" /\ \A j \in Conns : j # k => srv'[j] = srv[j]
    BY ONLY <1>3, <2>2, k \in Conns, NewSt DEF Steps
  <2> HIDE DEF is, TypeParts
  <2> QED BY <1>1, <1>2, <1>6, <2>1, <2>3
<1>7. CASE is = "broken"
  <2>1. \/ m.type \notin {"data", "end", "abort"}
        \/ m.type = "data" /\ ~(Len(srv[k].body) < srv[k].size)
        \/ m.type = "end" /\ Len(srv[k].body) # srv[k].size
    BY <1>7 DEF BodyState
  <2>2. srv' = [srv EXCEPT ![k].st = "done"]
    BY <1>7 DEF ServerReceives
  <2>3. srv'[k].st = "done" /\ \A j \in Conns : j # k => srv'[j] = srv[j]
    BY ONLY <1>3, <2>2, k \in Conns, NewSt DEF Steps
  <2> HIDE DEF is, TypeParts
  <2> QED BY <1>1, <1>2, <1>7, <2>1, <2>3
<1>8. is \in {"more", "whole", "failed", "broken"}
  BY DEF BodyState
<1> QED BY ONLY <1>4, <1>5, <1>6, <1>7, <1>8

\* The commit, or its failure.
LEMMA CommitUploadEffect ==
  ASSUME TypeParts, NEW k \in Conns, CommitUpload(k)
  PROVE  /\ srv[k].st = "commit" /\ srv'[k].req = srv[k].req
         /\ \A j \in Conns : j # k => srv'[j] = srv[j]
         /\ UNCHANGED <<received, lines, up, down, clients>>
         /\ \/ /\ srv'[k].st = "ok" /\ theirs' = srv[k].body
               /\ committed' = committed \cup {[req |-> srv[k].req, body |-> srv[k].body]}
            \/ srv'[k].st = "error" /\ UNCHANGED <<theirs, committed>>
<1>1. srv \in [Conns -> Sides]
  BY DEF SidesOK, TypeParts
<1>2. PICK x \in {"ok", "error"} :
        /\ srv' = [srv EXCEPT ![k].st = x]
        /\ \/ /\ x = "ok" /\ theirs' = srv[k].body
              /\ committed' = committed \cup {[req |-> srv[k].req, body |-> srv[k].body]}
           \/ x = "error" /\ UNCHANGED <<theirs, committed>>
  BY DEF CommitUpload
<1>3. srv'[k].st = x /\ srv'[k].req = srv[k].req /\ \A j \in Conns : j # k => srv'[j] = srv[j]
  <2>1. x \in Steps
    BY DEF Steps
  <2> QED BY ONLY <1>1, <1>2, <2>1, k \in Conns, NewSt
<1>4. srv[k].st = "commit" /\ UNCHANGED <<received, lines, up, down, clients>>
  BY DEF CommitUpload
<1> QED BY <1>2, <1>3, <1>4

\* The answer arrives if the connection is there.
LEMMA AnswerUploadEffect ==
  ASSUME TypeParts, NEW k \in Conns, AnswerUpload(k)
  PROVE  /\ srv[k].st \in {"ok", "error"} /\ UNCHANGED <<files, lines, up, clients>>
         /\ \A j \in Conns : j # k => srv'[j] = srv[j] /\ down'[j] = down[j]
         /\ k \in alive => srv'[k].st = "idle" /\ down'[k] = Append(down[k], Msg(srv[k].st, 0, srv[k].req))
         /\ k \notin alive => srv'[k].st = "done" /\ down'[k] = down[k]
         /\ Msg(srv[k].st, 0, srv[k].req) \in Message
<1>1. /\ srv[k].st \in {"ok", "error"} /\ Say(k, Msg(srv[k].st, 0, srv[k].req), Nothing)
      /\ UNCHANGED <<files, lines, up, clients>>
  BY DEF AnswerUpload
<1>2. srv[k].req \in 0..MaxRequests /\ k <= dialled
  BY <1>1, SideTypes, BusyIsMade DEF SidesOK, TypeParts
<1>3. Msg(srv[k].st, 0, srv[k].req) \in Message
  BY <1>1, <1>2, Messages
<1>4. Nothing \in Sides /\ Len(Nothing.body) <= Nothing.size /\ Nothing.st = "idle"
  BY NothingType, EmptyLen
<1>5. /\ \A j \in Conns : j # k => srv'[j] = srv[j] /\ down'[j] = down[j]
      /\ k \in alive => srv'[k] = Nothing /\ down'[k] = Append(down[k], Msg(srv[k].st, 0, srv[k].req))
      /\ k \notin alive => srv'[k].st = "done" /\ down'[k] = down[k]
  BY <1>1, <1>2, <1>3, <1>4, SaySide
<1> QED BY <1>1, <1>3, <1>4, <1>5

\* send_file reads the file that was opened.
LEMMA ServerSendsEffect ==
  ASSUME TypeParts, NEW k \in Conns, ServerSends(k)
  PROVE  LET m == NextPart(srv[k], srv[k].open) IN
         /\ srv[k].st = "send" /\ UNCHANGED <<files, lines, up, clients>> /\ m \in Message
         /\ \A j \in Conns : j # k => srv'[j] = srv[j] /\ down'[j] = down[j]
         /\ k \in alive => down'[k] = Append(down[k], m)
         /\ k \in alive /\ m.type = "data" =>
               /\ srv'[k].st = "send" /\ srv'[k].body = Append(srv[k].body, m.val)
               /\ srv'[k].open = srv[k].open /\ srv'[k].size = srv[k].size /\ srv'[k].req = srv[k].req
         /\ k \in alive /\ m.type # "data" => srv'[k].st = "idle"
         /\ k \notin alive => srv'[k].st = "done" /\ down'[k] = down[k]
<1> DEFINE m == NextPart(srv[k], srv[k].open)
           r == IF m.type = "data" THEN [srv[k] EXCEPT !.body = Append(srv[k].body, m.val)] ELSE Nothing
<1>1. srv[k].st = "send" /\ UNCHANGED <<files, lines, up, clients>>
  BY DEF ServerSends
<1>2. /\ Say(k, m, r) /\ m \in Message /\ r \in Sides /\ Len(r.body) <= r.size /\ k <= dialled
      /\ m.type = "data" => /\ r.body = Append(srv[k].body, m.val) /\ r.st = "send" /\ r.size = srv[k].size
                            /\ r.open = srv[k].open /\ r.req = srv[k].req
      /\ m.type # "data" => r.st = "idle"
  BY SendSide
<1> HIDE DEF m, r
<1>3. /\ \A j \in Conns : j # k => srv'[j] = srv[j] /\ down'[j] = down[j]
      /\ k \in alive => srv'[k] = r /\ down'[k] = Append(down[k], m)
      /\ k \notin alive => srv'[k].st = "done" /\ down'[k] = down[k]
  BY <1>1, <1>2, SaySide
<1> QED BY <1>1, <1>2, <1>3 DEF m

\* The end of a handler.
LEMMA HandlerEndsEffect ==
  ASSUME TypeParts, NEW k \in Conns, HandlerEnds(k)
  PROVE  /\ srv[k].st \in {"idle", "body"} /\ k \notin alive /\ srv'[k].st = "done"
         /\ \A j \in Conns : j # k => srv'[j] = srv[j]
         /\ UNCHANGED <<files, lines, up, down, clients>>
<1> DEFINE r == [Nothing EXCEPT !.st = "done"]
<1>1. r.st = "done"
  BY NothingType, SetSt DEF Steps
<1>2. srv' = [srv EXCEPT ![k] = r] /\ srv \in [Conns -> Sides]
  BY DEF HandlerEnds, SidesOK, TypeParts
<1> HIDE DEF r
<1>3. srv'[k] = r /\ \A j \in Conns : j # k => srv'[j] = srv[j]
  BY ONLY <1>2, k \in Conns
<1> QED BY <1>1, <1>3 DEF HandlerEnds

Alike(a, b) ==
    a.st = b.st /\ a.req = b.req /\ a.size = b.size /\ a.body = b.body /\ a.open = b.open /\ a.on = b.on

\* A disk that is full.
LEMMA DiskFailsEffect ==
  ASSUME TypeParts, DiskFails
  PROVE  /\ \A h \in Threads : Alike(cli'[h], cli[h])
         /\ \A k \in Conns : Alike(srv'[k], srv[k]) /\ (srv[k].st # "body" => srv'[k] = srv[k])
         /\ UNCHANGED <<files, lines, locked, up, down>>
<1>1. UNCHANGED <<files, lines, locked, up, down>>
  BY DEF DiskFails
<1>2. CASE \E h \in Threads : cli' = [cli EXCEPT ![h].disk = "full"] /\ UNCHANGED srv
  <2>1. PICK h \in Threads : cli' = [cli EXCEPT ![h].disk = "full"] /\ UNCHANGED srv
    BY <1>2
  <2>2. cli \in [Threads -> Sides]
    BY DEF TypeParts, SidesOK
  <2>3. \A g \in Threads : Alike(cli'[g], cli[g])
    BY <2>1, <2>2, NewDisk DEF Alike
  <2> QED BY <1>1, <2>1, <2>3 DEF Alike
<1>3. CASE \E k \in Conns : srv[k].st = "body" /\ srv' = [srv EXCEPT ![k].disk = "full"] /\ UNCHANGED cli
  <2>1. PICK k \in Conns : srv[k].st = "body" /\ srv' = [srv EXCEPT ![k].disk = "full"] /\ UNCHANGED cli
    BY <1>3
  <2>2. srv \in [Conns -> Sides]
    BY DEF TypeParts, SidesOK
  <2>3. \A j \in Conns : Alike(srv'[j], srv[j]) /\ (j # k => srv'[j] = srv[j])
    BY <2>1, <2>2, NewDisk DEF Alike
  <2> QED BY <1>1, <2>1, <2>3 DEF Alike
<1> QED BY <1>1, <1>2, <1>3 DEF DiskFails

\* A connection that breaks.
LEMMA ConnectionBreaksEffect ==
  ASSUME TypeParts, NEW k \in Conns, ConnectionBreaks(k)
  PROVE  /\ alive' = alive \ {k} /\ up'[k] = <<>> /\ down'[k] = <<>>
         /\ \A j \in Conns : j # k => up'[j] = up[j] /\ down'[j] = down[j]
         /\ UNCHANGED <<files, cmd, dialled, late, clients, srv>>
BY DEF ConnectionBreaks, TypeParts, WiresOK

-----------------------------------------------------------------------------
(* The steps that move no file between the two sides.                        *)

\* A connection, and a thread that receives a file, that a step leaves alone.
KeptConn(k) ==
    /\ down'[k] = down[k]
    /\ k \in alive' => k \in alive
    /\ srv[k].st = "send" \/ srv'[k].st = "send" => srv'[k] = srv[k]

KeptRead(h) ==
    cli'[h].st = "body" =>
        cli[h].st = "body" /\ cli'[h].size = cli[h].size /\ cli'[h].body = cli[h].body /\ cli'[h].on = cli[h].on

\* What comes on a connection that is left alone is still a whole file,
LEMMA ConnKept ==
  ASSUME NEW k \in Conns, committed \subseteq committed', KeptConn(k), OpenOK(k), \A i \in 1..Len(down[k]) : HeaderOK(k, i)
  PROVE  OpenOK(k)' /\ \A i \in 1..Len(down'[k]) : HeaderOK(k, i)'
<1>1. OpenOK(k)'
  BY DEF KeptConn, OpenOK
<1>2. ASSUME NEW i \in 1..Len(down[k]) PROVE HeaderOK(k, i)'
  <2>1. down'[k] = down[k] /\ HeaderOK(k, i)
    BY DEF KeptConn
  <2>2. ASSUME NEW b, Rest(k, i, 0, b) PROVE Rest(k, i, 0, b)'
    BY <2>2, RestKept DEF KeptConn
  <2> QED BY <2>1, <2>2 DEF HeaderOK
<1> QED BY <1>1, <1>2 DEF KeptConn

\* and so is what a thread receives that is left alone.
LEMMA ReadKept ==
  ASSUME NEW h \in Threads, committed \subseteq committed', KeptRead(h), KeptConn(cli[h].on), ReadOK(h)
  PROVE  ReadOK(h)'
<1> SUFFICES ASSUME cli'[h].st = "body" PROVE \E c \in committed' : Reads(h, c.body)'
  BY DEF ReadOK
<1>1. cli[h].st = "body" /\ cli'[h].size = cli[h].size /\ cli'[h].body = cli[h].body /\ cli'[h].on = cli[h].on
  BY DEF KeptRead
<1>2. PICK c \in committed : Reads(h, c.body)
  BY <1>1 DEF ReadOK
<1>3. PICK k : k = cli[h].on
  OBVIOUS
<1>4. PICK n : n = Len(cli[h].body)
  OBVIOUS
<1>5. Rest(k, 0, n, c.body)
  BY <1>2, <1>3, <1>4 DEF Reads
<1>6. Rest(k, 0, n, c.body)'
  BY <1>3, <1>5, RestKept DEF KeptConn
<1>7. Reads(h, c.body)'
  BY <1>1, <1>2, <1>3, <1>4, <1>6 DEF Reads
<1> QED BY <1>7

\* A step that moves no file between the two sides.
LEMMA WholeKept ==
  ASSUME TypeParts, WholeInv, committed \subseteq committed', received' = received, theirs' = theirs \/ ThereOK',
         \A k \in Conns : KeptConn(k), \A h \in Threads : KeptRead(h)
  PROVE  WholeInv'
<1>1. WholeFiles' /\ ThereOK'
  BY DEF WholeFiles, ThereOK, WholeInv
<1>2. \A k \in Conns : OpenOK(k)' /\ \A i \in 1..Len(down'[k]) : HeaderOK(k, i)'
  BY ConnKept DEF WholeInv
<1>3. ASSUME NEW h \in Threads PROVE ReadOK(h)'
  <2>1. CASE cli[h].st = "body"
    <3>1. KeptConn(cli[h].on) /\ KeptRead(h) /\ ReadOK(h)
      BY <2>1, ThreadTypes DEF WholeInv
    <3> QED BY <3>1, ReadKept
  <2>2. CASE cli[h].st # "body"
    BY <2>2 DEF KeptRead, ReadOK
  <2> QED BY <2>1, <2>2
<1> QED BY <1>1, <1>2, <1>3 DEF WholeInv

\* Only the thread that has cmd_mutex_ receives.
LEMMA OneReads ==
  ASSUME TypeParts, NEW h \in Threads, locked = h, NEW g \in Threads, g # h
  PROVE  cli[g].st \notin {"send", "reply", "answer", "body"}
BY DEF TypeParts, LockOK

\* A new connection has nothing under way on it.
LEMMA WholeTakeConnection == \A h \in Threads : TypeParts /\ WholeInv /\ TakeConnection(h) => WholeInv'
<1> SUFFICES ASSUME NEW h \in Threads, TypeParts, WholeInv, TakeConnection(h) PROVE WholeInv'
  OBVIOUS
<1>1. /\ cli'[h].st = "wait" /\ \A g \in Threads : g # h => cli'[g] = cli[g]
      /\ UNCHANGED <<files, locked, up, down, srv, late>>
      /\ \/ alive' = alive
         \/ alive' = alive \cup {cmd'} /\ cmd' > dialled /\ cmd' \in Conns
  BY TakeConnectionEffect
<1>2. committed' = committed /\ received' = received /\ theirs' = theirs
  BY <1>1 DEF files
<1>3. ASSUME NEW k \in Conns
      PROVE  KeptConn(k) \/ (down[k] = <<>> /\ srv[k].st = "idle" /\ k > dialled)
  BY <1>1 DEF KeptConn, TypeParts, ConnOK
<1>4. ASSUME NEW k \in Conns PROVE OpenOK(k)' /\ \A i \in 1..Len(down'[k]) : HeaderOK(k, i)'
  <2>1. CASE KeptConn(k)
    BY <1>2, <2>1, ConnKept DEF WholeInv
  <2>2. CASE down[k] = <<>> /\ srv[k].st = "idle"
    <3>1. Len(down'[k]) = 0 /\ 1..0 = {}
      BY <1>1, <2>2, EmptyLen
    <3> QED BY <1>1, <2>2, <3>1 DEF OpenOK
  <2> QED BY <1>3, <2>1, <2>2
<1>5. ASSUME NEW g \in Threads PROVE ReadOK(g)'
  <2>1. CASE cli'[g].st = "body"
    <3>1. g # h /\ cli'[g] = cli[g]
      BY <1>1, <2>1
    <3>2. cli[g].on \in Conns /\ cli[g].on \in 1..dialled
      BY <2>1, <3>1, ThreadTypes DEF LockOK
    <3>3. KeptConn(cli[g].on)
      BY <1>3, <3>2, Bounds DEF TypeParts, LinesOK
    <3> QED BY <1>2, <3>1, <3>3, ReadKept DEF WholeInv, KeptRead
  <2>2. CASE cli'[g].st # "body"
    BY <2>2 DEF ReadOK
  <2> QED BY <2>1, <2>2
<1>6. WholeFiles' /\ ThereOK'
  BY <1>2 DEF WholeFiles, ThereOK, WholeInv
<1> QED BY <1>4, <1>5, <1>6 DEF WholeInv

\* The first message of an exchange goes the other way.
LEMMA WholeBegin ==
  ASSUME TypeParts, WholeInv, NEW h \in Threads, NEW m \in Message, NEW st \in {"send", "answer"},
         NEW n \in 0..MaxSize, Begin(h, m, st, n)
  PROVE  WholeInv'
<1>1. /\ cli'[h].st = st /\ \A g \in Threads : g # h => cli'[g] = cli[g]
      /\ UNCHANGED <<files, cmd, dialled, alive, down, srv>>
  BY BeginEffect
<1>2. \A k \in Conns : KeptConn(k)
  BY <1>1 DEF KeptConn
<1>3. \A g \in Threads : KeptRead(g)
  BY <1>1 DEF KeptRead
<1> QED BY <1>1, <1>2, <1>3, WholeKept DEF files

\* A thread that cannot begin receives nothing.
LEMMA WholeCannotBegin == \A h \in Threads : TypeParts /\ WholeInv /\ CannotBegin(h) => WholeInv'
<1> SUFFICES ASSUME NEW h \in Threads, TypeParts, WholeInv, CannotBegin(h) PROVE WholeInv'
  OBVIOUS
<1>1. UNCHANGED <<files, lines, down, srv>> /\ cli' = [cli EXCEPT ![h].st = "mark"] /\ cli \in [Threads -> Sides]
  BY DEF CannotBegin, TypeParts, SidesOK
<1>2. cli'[h].st = "mark" /\ \A g \in Threads : g # h => cli'[g] = cli[g]
  BY <1>1, NewSt DEF Steps
<1>3. (\A k \in Conns : KeptConn(k)) /\ \A g \in Threads : KeptRead(g)
  BY <1>1, <1>2 DEF KeptConn, KeptRead, lines
<1> QED BY <1>1, <1>3, WholeKept DEF files

\* An upload goes the other way.
LEMMA WholeClientSends == \A h \in Threads : TypeParts /\ WholeInv /\ ClientSends(h) => WholeInv'
<1> SUFFICES ASSUME NEW h \in Threads, TypeParts, WholeInv, ClientSends(h) PROVE WholeInv'
  OBVIOUS
<1>1. /\ cli'[h].st \in {"send", "reply"} /\ \A g \in Threads : g # h => cli'[g] = cli[g]
      /\ UNCHANGED <<files, lines, down, srv>>
  BY ClientSendsEffect
<1>2. (\A k \in Conns : KeptConn(k)) /\ \A g \in Threads : KeptRead(g)
  BY <1>1 DEF KeptConn, KeptRead, lines
<1> QED BY <1>1, <1>2, WholeKept DEF files

\* What was received of a file that does not come whole is thrown away.
LEMMA WholeExchangeLost == \A h \in Threads : TypeParts /\ WholeInv /\ ExchangeLost(h) => WholeInv'
<1> SUFFICES ASSUME NEW h \in Threads, TypeParts, WholeInv, ExchangeLost(h) PROVE WholeInv'
  OBVIOUS
<1>1. /\ cli'[h].st = "mark" /\ \A g \in Threads : g # h => cli'[g] = cli[g]
      /\ UNCHANGED <<files, lines, down, srv>>
  BY ExchangeLostEffect
<1>2. (\A k \in Conns : KeptConn(k)) /\ \A g \in Threads : KeptRead(g)
  BY <1>1 DEF KeptConn, KeptRead, lines
<1> QED BY <1>1, <1>2, WholeKept DEF files

\* Closing the connection takes nothing from what was sent.
LEMMA WholeMarkLost == \A h \in Threads : TypeParts /\ WholeInv /\ MarkLost(h) => WholeInv'
<1> SUFFICES ASSUME NEW h \in Threads, TypeParts, WholeInv, MarkLost(h) PROVE WholeInv'
  OBVIOUS
<1>1. /\ cli'[h].st = "idle" /\ \A g \in Threads : g # h => cli'[g] = cli[g]
      /\ UNCHANGED <<files, down, srv>> /\ (alive' = alive \/ alive' = alive \ {cmd})
  BY MarkLostEffect
<1>2. (\A k \in Conns : KeptConn(k)) /\ \A g \in Threads : KeptRead(g)
  BY <1>1 DEF KeptConn, KeptRead
<1> QED BY <1>1, <1>2, WholeKept DEF files

\* What the server receives it does not send.
LEMMA WholeServerReceives == \A k \in Conns : TypeParts /\ WholeInv /\ ServerReceives(k) => WholeInv'
<1> SUFFICES ASSUME NEW k \in Conns, TypeParts, WholeInv, ServerReceives(k) PROVE WholeInv'
  OBVIOUS
<1>1. /\ srv[k].st = "body" /\ srv'[k].st # "send" /\ \A j \in Conns : j # k => srv'[j] = srv[j]
      /\ UNCHANGED <<files, down, clients>> /\ (alive' = alive \/ alive' = alive \ {k})
  BY ServerReceivesEffect
<1>2. (\A j \in Conns : KeptConn(j)) /\ \A g \in Threads : KeptRead(g)
  BY <1>1 DEF KeptConn, KeptRead, clients
<1> QED BY <1>1, <1>2, WholeKept DEF files

\* A commit replaces the file: one that is open stays what it was.
LEMMA WholeCommitUpload == \A k \in Conns : TypeParts /\ WholeInv /\ CommitUpload(k) => WholeInv'
<1> SUFFICES ASSUME NEW k \in Conns, TypeParts, WholeInv, CommitUpload(k) PROVE WholeInv'
  OBVIOUS
<1>1. /\ srv[k].st = "commit" /\ srv'[k].st # "send" /\ \A j \in Conns : j # k => srv'[j] = srv[j]
      /\ UNCHANGED <<received, lines, down, clients>>
      /\ \/ /\ theirs' = srv[k].body
            /\ committed' = committed \cup {[req |-> srv[k].req, body |-> srv[k].body]}
         \/ UNCHANGED <<theirs, committed>>
  BY CommitUploadEffect
<1>2. (\A j \in Conns : KeptConn(j)) /\ \A g \in Threads : KeptRead(g)
  BY <1>1 DEF KeptConn, KeptRead, clients, lines
<1>3. committed \subseteq committed' /\ (theirs' = theirs \/ ThereOK')
  <2> DEFINE c == [req |-> srv[k].req, body |-> srv[k].body]
  <2>1. c.body = srv[k].body
    OBVIOUS
  <2>2. theirs' = srv[k].body /\ c \in committed' => ThereOK'
    BY <2>1 DEF ThereOK
  <2> HIDE DEF c
  <2> QED BY <1>1, <2>2 DEF c
<1> QED BY <1>1, <1>2, <1>3, WholeKept

\* A handler ends on a connection that is closed.
LEMMA WholeHandlerEnds == \A k \in Conns : TypeParts /\ WholeInv /\ HandlerEnds(k) => WholeInv'
<1> SUFFICES ASSUME NEW k \in Conns, TypeParts, WholeInv, HandlerEnds(k) PROVE WholeInv'
  OBVIOUS
<1>1. /\ srv[k].st # "send" /\ srv'[k].st # "send" /\ \A j \in Conns : j # k => srv'[j] = srv[j]
      /\ UNCHANGED <<files, lines, down, clients>>
  BY HandlerEndsEffect
<1>2. (\A j \in Conns : KeptConn(j)) /\ \A g \in Threads : KeptRead(g)
  BY <1>1 DEF KeptConn, KeptRead, clients, lines
<1> QED BY <1>1, <1>2, WholeKept DEF files

\* Other sessions replace the file as a whole, never in place.
LEMMA WholeEnvironment == TypeParts /\ WholeInv /\ (EditInPlace \/ ReplaceThere \/ DiskFails) => WholeInv'
<1> SUFFICES ASSUME TypeParts, WholeInv, EditInPlace \/ ReplaceThere \/ DiskFails PROVE WholeInv'
  OBVIOUS
<1>1. CASE EditInPlace
  <2>1. UNCHANGED <<theirs, committed, received, lines, down, clients, srv>>
    BY <1>1 DEF EditInPlace
  <2>2. (\A j \in Conns : KeptConn(j)) /\ \A g \in Threads : KeptRead(g)
    BY <2>1 DEF KeptConn, KeptRead, clients, lines
  <2> QED BY <2>1, <2>2, WholeKept
<1>2. CASE ReplaceThere
  <2>1. /\ UNCHANGED <<received, lines, down, clients, srv>>
        /\ committed' = committed \cup {[req |-> 0, body |-> b] : b \in {theirs'} \ {Removed}}
    BY <1>2 DEF ReplaceThere
  <2>2. (\A j \in Conns : KeptConn(j)) /\ \A g \in Threads : KeptRead(g)
    BY <2>1 DEF KeptConn, KeptRead, clients, lines
  <2>3. ThereOK'
    <3> DEFINE c == [req |-> 0, body |-> theirs']
    <3>1. c.body = theirs' /\ (theirs' # Removed => c \in committed')
      BY <2>1
    <3> HIDE DEF c
    <3> QED BY <3>1 DEF ThereOK
  <2> QED BY <2>1, <2>2, <2>3, WholeKept
<1>3. CASE DiskFails
  <2>1. /\ \A h \in Threads : Alike(cli'[h], cli[h])
        /\ \A k \in Conns : Alike(srv'[k], srv[k]) /\ (srv[k].st # "body" => srv'[k] = srv[k])
        /\ UNCHANGED <<files, lines, down>>
    BY <1>3, DiskFailsEffect
  <2>2. \A j \in Conns : KeptConn(j)
    BY <2>1 DEF KeptConn, lines, Alike
  <2>3. \A g \in Threads : KeptRead(g)
    BY <2>1 DEF KeptRead, Alike
  <2> QED BY <2>1, <2>2, <2>3, WholeKept DEF files
<1> QED BY <1>1, <1>2, <1>3

\* The two kinds of exchange.
LEMMA BeginUploadIs ==
  ASSUME TypeParts, NEW h \in Threads, BeginUpload(h)
  PROVE  \E m \in Message, n \in 0..MaxSize :
           Begin(h, m, "send", n) /\ m = Msg("upload", n, requests + 1)
<1> DEFINE m == Msg("upload", Len(mine), requests + 1)
<1>1. Len(mine) \in 0..MaxSize /\ requests + 1 \in 0..MaxRequests
  BY PartsAreFiles, LenProperties, Bounds DEF BeginUpload, Begin, TypeParts, FilesOK, CountsOK
<1>2. m \in Message
  BY <1>1, Messages
<1>3. m = Msg("upload", Len(mine), requests + 1)
  OBVIOUS
<1> HIDE DEF m
<1>4. Begin(h, m, "send", Len(mine))
  BY <1>3 DEF BeginUpload
<1> QED BY <1>1, <1>2, <1>3, <1>4

\* A download announces nothing.
LEMMA BeginDownloadIs ==
  ASSUME TypeParts, NEW h \in Threads, BeginDownload(h)
  PROVE  \E m \in Message, n \in 0..MaxSize :
           Begin(h, m, "answer", n) /\ m = Msg("download", 0, requests + 1)
<1> DEFINE m == Msg("download", 0, requests + 1)
<1>1. 0 \in 0..MaxSize /\ requests + 1 \in 0..MaxRequests
  BY Bounds DEF BeginDownload, Begin, TypeParts, CountsOK
<1>2. m \in Message
  BY <1>1, Messages
<1>3. m = Msg("download", 0, requests + 1)
  OBVIOUS
<1> HIDE DEF m
<1>4. Begin(h, m, "answer", 0)
  BY <1>3 DEF BeginDownload
<1> QED BY <1>1, <1>2, <1>3, <1>4

-----------------------------------------------------------------------------
(* The steps that do.                                                        *)

\* Behind a header that moves up on the wire there is still the file.
LEMMA HeadersMove ==
  ASSUME TypeParts, WholeInv, NEW k \in Conns, down[k] # <<>>, down'[k] = Tail(down[k]),
         UNCHANGED <<lines, srv, committed>>, NEW i \in 1..Len(down'[k])
  PROVE  HeaderOK(k, i)'
<1>1. down[k] \in Seq(Message)
  BY WireTypes
<1>2. i + 1 \in 1..Len(down[k]) /\ down'[k][i] = down[k][i + 1] /\ i \in Nat
  <2>1. /\ Len(down[k]) \in Nat \ {0} /\ Len(Tail(down[k])) = Len(down[k]) - 1
        /\ \A j \in 1..(Len(down[k]) - 1) : Tail(down[k])[j] = down[k][j + 1]
    BY <1>1, OneLess
  <2> QED BY <2>1
<1>3. HeaderOK(k, i + 1)
  BY <1>2 DEF WholeInv
<1>4. ASSUME NEW c \in committed, Rest(k, i + 1, 0, c.body) PROVE Rest(k, i, 0, c.body)'
  <2>1. c.body \in Seq(Chunks) /\ i + 1 \in Nat /\ i + 1 > 0 /\ (i + 1) - 1 = i
    BY <1>2, StoredTypes
  <2>2. Rest(k, (i + 1) - 1, 0, c.body)'
    BY <1>4, <2>1, RestTaken DEF lines
  <2> QED BY <2>1, <2>2
<1> QED BY <1>2, <1>3, <1>4 DEF HeaderOK

\* The header of a file: what follows it is that file.
LEMMA WholeClientHears == \A h \in Threads : TypeParts /\ WholeInv /\ ClientHears(h) => WholeInv'
<1> SUFFICES ASSUME NEW h \in Threads, TypeParts, WholeInv, ClientHears(h) PROVE WholeInv'
  OBVIOUS
<1> DEFINE k == cli[h].on
           m == Head(down[k])
<1>1. /\ k \in Conns /\ down[k] # <<>> /\ locked = h /\ m = down[k][1]
      /\ down'[k] = Tail(down[k]) /\ \A j \in Conns : j # k => down'[j] = down[j]
      /\ \A g \in Threads : g # h => cli'[g] = cli[g]
      /\ UNCHANGED <<files, lines, up, srv>>
      /\ \/ /\ m.type = "file" /\ cli'[h].st = "body" /\ cli'[h].size = m.val
            /\ cli'[h].body = <<>> /\ cli'[h].on = k
         \/ cli'[h].st # "body"
  BY ClientHearsEffect
<1> HIDE DEF m
<1>2. WholeFiles' /\ ThereOK'
  BY <1>1 DEF WholeInv, WholeFiles, ThereOK, files
<1>3. ASSUME NEW j \in Conns PROVE OpenOK(j)' /\ \A i \in 1..Len(down'[j]) : HeaderOK(j, i)'
  <2>1. CASE j = k
    BY <1>1, <2>1, HeadersMove DEF WholeInv, OpenOK, files
  <2>2. CASE j # k
    BY <1>1, <2>2, ConnKept DEF WholeInv, KeptConn, files, lines
  <2> QED BY <2>1, <2>2
<1>4. ReadOK(h)'
  <2> SUFFICES ASSUME cli'[h].st = "body" PROVE \E c \in committed' : Reads(h, c.body)'
    BY DEF ReadOK
  <2>1. m.type = "file" /\ cli'[h].size = m.val /\ cli'[h].body = <<>> /\ cli'[h].on = k
    BY <1>1
  <2>2. 1 \in 1..Len(down[k])
    <3>1. down[k] \in Seq(Message)
      BY <1>1, WireTypes
    <3>2. Len(down[k]) \in Nat \ {0}
      BY <1>1, <3>1, OneLess
    <3> QED BY <3>2
  <2>3. PICK c \in committed : Len(c.body) = m.val /\ Rest(k, 1, 0, c.body)
    BY <1>1, <2>1, <2>2 DEF WholeInv, HeaderOK
  <2>4. Rest(k, 1 - 1, 0, c.body)'
    BY <1>1, <2>3, StoredTypes, RestTaken DEF lines
  <2>5. Reads(h, c.body)'
    <3>1. Len(cli'[h].body) = 0 /\ 1 - 1 = 0 /\ 1..0 = {}
      BY <2>1, EmptyLen
    <3> QED BY <2>1, <2>3, <2>4, <3>1 DEF Reads
  <2> QED BY <1>1, <2>5 DEF files
<1>5. ASSUME NEW g \in Threads, g # h PROVE ReadOK(g)'
  BY <1>1, <1>5, OneReads DEF ReadOK
<1> QED BY <1>2, <1>3, <1>4, <1>5 DEF WholeInv

\* The end comes only behind all chunks of the file the header was of.
LEMMA WholeClientReceives == \A h \in Threads : TypeParts /\ WholeInv /\ ClientReceives(h) => WholeInv'
<1> SUFFICES ASSUME NEW h \in Threads, TypeParts, WholeInv, ClientReceives(h) PROVE WholeInv'
  OBVIOUS
<1> DEFINE k  == cli[h].on
           m  == Head(down[k])
           is == BodyState(cli[h], m)
<1>1. /\ cli[h].st = "body" /\ k \in Conns /\ down[k] # <<>> /\ locked = h /\ m = down[k][1] /\ m \in Message
      /\ down'[k] = Tail(down[k]) /\ \A j \in Conns : j # k => down'[j] = down[j]
      /\ \A g \in Threads : g # h => cli'[g] = cli[g]
      /\ UNCHANGED <<mine, theirs, committed, lines, up, srv>>
      /\ received' = IF is = "whole" THEN cli[h].body ELSE received
      /\ \/ /\ cli'[h].body = Append(cli[h].body, m.val) /\ m.type = "data" /\ Len(cli[h].body) < cli[h].size
            /\ cli'[h].size = cli[h].size /\ cli'[h].on = k
         \/ cli'[h].st # "body"
  BY ClientReceivesEffect
<1>2. is = "whole" => Len(cli[h].body) = cli[h].size
  BY DEF BodyState
<1> HIDE DEF is
<1>3. PICK c \in committed : Reads(h, c.body)
  BY <1>1 DEF WholeInv, ReadOK
<1>4. PICK b : b = c.body
  OBVIOUS
<1>5. PICK n : n = Len(cli[h].body)
  OBVIOUS
<1>6. /\ b \in Seq(Chunks) /\ Len(b) \in Nat /\ cli[h].body \in Seq(Chunks) /\ n \in Nat /\ Len(b) = cli[h].size
      /\ \A j \in 1..n : cli[h].body[j] = b[j]
      /\ Rest(k, 0, n, b)
  BY <1>3, <1>4, <1>5, StoredTypes, ThreadTypes, PartsAreFiles DEF Reads
<1>7. WholeFiles' /\ ThereOK'
  <2>1. is = "whole" => cli[h].body = b
    BY <1>2, <1>5, <1>6, SeqEqual
  <2>2. WholeFiles'
    BY <1>1, <1>4, <2>1 DEF WholeInv, WholeFiles
  <2>3. ThereOK'
    BY <1>1 DEF WholeInv, ThereOK
  <2> QED BY <2>2, <2>3
<1>8. ASSUME NEW j \in Conns PROVE OpenOK(j)' /\ \A i \in 1..Len(down'[j]) : HeaderOK(j, i)'
  <2>1. CASE j = k
    BY <1>1, <2>1, HeadersMove DEF WholeInv, OpenOK
  <2>2. CASE j # k
    BY <1>1, <2>2, ConnKept DEF WholeInv, KeptConn, lines
  <2> QED BY <2>1, <2>2
<1>9. ReadOK(h)'
  <2> SUFFICES ASSUME cli'[h].st = "body" PROVE Reads(h, b)'
    BY <1>1, <1>4 DEF ReadOK
  <2>1. /\ cli'[h].body = Append(cli[h].body, m.val) /\ m.type = "data" /\ n < Len(b)
        /\ cli'[h].size = cli[h].size /\ cli'[h].on = k
    BY <1>1, <1>5, <1>6
  <2>2. m.val = b[n + 1] /\ m.val \in Chunks
    <3>1. down[k] \in Seq(Message)
      BY <1>1, WireTypes
    <3>2. Len(down[k]) \in Nat \ {0}
      BY <1>1, <3>1, OneLess
    <3>3. 1 \in 1..Len(down[k]) /\ 0 < 1 /\ 1 - 0 + n <= Len(b) /\ 1 - 0 + n = n + 1
      BY <1>6, <2>1, <3>2
    <3>4. m.val \in Chunks
      BY <1>1, <2>1, MessageFields
    <3> QED BY <1>1, <1>6, <3>3, <3>4 DEF Rest, Follows
  <2>3. /\ Len(cli'[h].body) = n + 1 /\ cli'[h].body[n + 1] = m.val
        /\ \A j \in 1..n : cli'[h].body[j] = cli[h].body[j]
    <3>1. cli[h].body \in Seq(Chunks) /\ n = Len(cli[h].body)
      BY <1>5, <1>6
    <3> QED BY ONLY <2>1, <2>2, <3>1, OneMore
  <2>4. Rest(k, 0, n + 1, b)'
    BY <1>1, <1>6, RestTaken DEF lines
  <2>5. \A j \in 1..(n + 1) : cli'[h].body[j] = b[j]
    <3>1. \A j \in 1..(n + 1) : j \in 1..n \/ j = n + 1
      BY <1>6
    <3> QED BY <1>6, <2>2, <2>3, <3>1
  <2> QED BY <1>6, <2>1, <2>3, <2>4, <2>5 DEF Reads
<1>10. ASSUME NEW g \in Threads, g # h PROVE ReadOK(g)'
  BY <1>1, <1>10, OneReads DEF ReadOK
<1> QED BY <1>7, <1>8, <1>9, <1>10 DEF WholeInv

\* A handler sends a message that continues the file it is sending, if there is one.
LEMMA WholeSaid ==
  ASSUME TypeParts, WholeInv, NEW k \in Conns, NEW m \in Message, k \in alive,
         down'[k] = Append(down[k], m), UNCHANGED <<files, lines, clients>>,
         \A j \in Conns : j # k => srv'[j] = srv[j] /\ down'[j] = down[j],
         srv[k].st = "send" =>
            \/ /\ Len(srv[k].body) < Len(srv[k].open)
               /\ m.type = "data" /\ m.val = srv[k].open[Len(srv[k].body) + 1]
               /\ srv'[k].st = "send" /\ srv'[k].open = srv[k].open
               /\ Len(srv'[k].body) = Len(srv[k].body) + 1
            \/ Len(srv[k].body) = Len(srv[k].open),
         OpenOK(k)', NEW p, p = Len(down[k]) + 1, m.type = "file" => HeaderOK(k, p)'
  PROVE  WholeInv'
<1>1. committed' = committed /\ WholeFiles' /\ ThereOK'
  BY DEF WholeInv, WholeFiles, ThereOK, files
<1>2. /\ Len(down[k]) \in Nat /\ Len(down'[k]) = Len(down[k]) + 1 /\ down'[k][Len(down[k]) + 1] = m
      /\ \A i \in 1..Len(down[k]) : down'[k][i] = down[k][i]
  BY WireTypes, OneMore
<1>3. ASSUME NEW i \in Nat, NEW n \in Nat, NEW b \in Seq(Chunks), Rest(k, i, n, b) PROVE Rest(k, i, n, b)'
  BY <1>3, RestSaid
<1>4. ASSUME NEW i \in 1..Len(down'[k]) PROVE HeaderOK(k, i)'
  <2>1. CASE i \in 1..Len(down[k])
    <3>1. HeaderOK(k, i) /\ down'[k][i] = down[k][i] /\ i \in Nat
      BY <1>2, <2>1 DEF WholeInv
    <3> QED BY <1>1, <1>3, <3>1, StoredTypes DEF HeaderOK
  <2>2. CASE i = p
    BY <1>2, <2>2 DEF HeaderOK
  <2> QED BY <1>2, <2>1, <2>2
<1>5. ASSUME NEW j \in Conns, j # k PROVE OpenOK(j)' /\ \A i \in 1..Len(down'[j]) : HeaderOK(j, i)'
  BY <1>1, <1>5, ConnKept DEF WholeInv, KeptConn, lines
<1>6. ASSUME NEW h \in Threads PROVE ReadOK(h)'
  <2> SUFFICES ASSUME cli[h].st = "body" PROVE ReadOK(h)'
    BY DEF ReadOK, clients
  <2>1. cli[h].on \in Conns /\ Len(cli[h].body) \in Nat /\ cli' = cli
    BY ThreadTypes DEF clients
  <2>2. CASE cli[h].on = k
    <3>1. PICK c \in committed : Reads(h, c.body)
      BY DEF WholeInv, ReadOK
    <3>2. Rest(k, 0, Len(cli[h].body), c.body)'
      BY <1>3, <2>1, <2>2, <3>1, StoredTypes DEF Reads
    <3>3. Reads(h, c.body)'
      BY <2>1, <2>2, <3>1, <3>2 DEF Reads
    <3> QED BY <1>1, <3>3 DEF ReadOK
  <2>3. CASE cli[h].on # k
    BY <1>1, <2>1, <2>3, ReadKept DEF WholeInv, KeptConn, KeptRead, lines
  <2> QED BY <2>2, <2>3
<1> QED BY <1>1, <1>4, <1>5, <1>6 DEF WholeInv

\* The header is of the file that the handler has opened.
LEMMA WholeTakeRequest == \A k \in Conns : TypeParts /\ WholeInv /\ TakeRequest(k) => WholeInv'
<1> SUFFICES ASSUME NEW k \in Conns, TypeParts, WholeInv, TakeRequest(k) PROVE WholeInv'
  OBVIOUS
<1> DEFINE m == Head(up[k])
<1>1. /\ srv[k].st = "idle" /\ m \in Message
      /\ \A j \in Conns : j # k => up'[j] = up[j] /\ down'[j] = down[j] /\ srv'[j] = srv[j]
      /\ UNCHANGED <<files, lines, clients>>
      /\ \/ down'[k] = down[k] /\ srv'[k].st # "send"
         \/ k \in alive /\ srv'[k].st = "idle" /\ down'[k] = Append(down[k], Msg("error", 0, m.req))
         \/ /\ k \in alive /\ theirs # Removed /\ theirs \in Parts
            /\ srv'[k].st = "send" /\ srv'[k].size = Len(theirs)
            /\ srv'[k].body = <<>> /\ srv'[k].open = theirs
            /\ down'[k] = Append(down[k], Msg("file", Len(theirs), m.req))
  BY TakeRequestEffect
<1>2. m.req \in 0..MaxRequests
  BY <1>1, MessageFields
<1> HIDE DEF m
<1>3. CASE down'[k] = down[k] /\ srv'[k].st # "send"
  <2>1. (\A j \in Conns : KeptConn(j)) /\ \A g \in Threads : KeptRead(g)
    BY <1>1, <1>3 DEF KeptConn, KeptRead, clients, lines
  <2> QED BY <1>1, <2>1, WholeKept DEF files
<1>4. CASE k \in alive /\ srv'[k].st = "idle" /\ down'[k] = Append(down[k], Msg("error", 0, m.req))
  <2>1. PICK a \in Message : a = Msg("error", 0, m.req)
    BY <1>2, Messages
  <2>2. a.type # "file"
    BY <2>1, Messages
  <2>3. OpenOK(k)'
    BY <1>4 DEF OpenOK
  <2> QED BY <1>1, <1>4, <2>1, <2>2, <2>3, WholeSaid
<1>5. CASE /\ k \in alive /\ theirs # Removed /\ theirs \in Parts
           /\ srv'[k].st = "send" /\ srv'[k].size = Len(theirs)
           /\ srv'[k].body = <<>> /\ srv'[k].open = theirs
           /\ down'[k] = Append(down[k], Msg("file", Len(theirs), m.req))
  <2>1. Len(theirs) \in 0..MaxSize
    BY <1>5, PartsAreFiles, LenProperties, Bounds
  <2>2. PICK a \in Message : a = Msg("file", Len(theirs), m.req)
    BY <1>2, <2>1, Messages
  <2>3. a.type = "file" /\ a.val = Len(theirs)
    BY <2>2, Messages
  <2>4. PICK c \in committed : c.body = theirs
    BY <1>5 DEF WholeInv, ThereOK
  <2>5. c \in committed'
    BY <1>1, <2>4 DEF files
  <2>6. OpenOK(k)'
    BY <1>5, <2>4, <2>5 DEF OpenOK
  <2>7. PICK p : p = Len(down[k]) + 1
    OBVIOUS
  <2>8. HeaderOK(k, p)'
    <3>1. down[k] \in Seq(Message)
      BY WireTypes
    <3>2. Len(down[k]) \in Nat /\ Len(down'[k]) = p /\ down'[k][p] = a
      BY <1>5, <2>2, <2>7, <3>1, OneMore
    <3>3. Rest(k, p, 0, c.body)'
      <4>1. Len(srv'[k].body) = 0 + Len(down'[k]) - p
        BY <1>5, <2>7, <3>2, EmptyLen
      <4>2. \A j \in 1..Len(down'[k]) : ~(p < j)
        BY <2>7, <3>2
      <4> QED BY <1>5, <2>4, <4>1, <4>2 DEF Rest, Follows
    <3> QED BY <2>3, <2>4, <2>5, <3>2, <3>3 DEF HeaderOK
  <2> QED BY <1>1, <1>5, <2>2, <2>6, <2>7, <2>8, WholeSaid
<1> QED BY <1>1, <1>3, <1>4, <1>5

\* An answer to an upload ends no file, for none is being sent.
LEMMA WholeAnswerUpload == \A k \in Conns : TypeParts /\ WholeInv /\ AnswerUpload(k) => WholeInv'
<1> SUFFICES ASSUME NEW k \in Conns, TypeParts, WholeInv, AnswerUpload(k) PROVE WholeInv'
  OBVIOUS
<1> DEFINE m == Msg(srv[k].st, 0, srv[k].req)
<1>1. /\ srv[k].st \in {"ok", "error"} /\ UNCHANGED <<files, lines, up, clients>>
      /\ \A j \in Conns : j # k => srv'[j] = srv[j] /\ down'[j] = down[j]
      /\ k \in alive => srv'[k].st = "idle" /\ down'[k] = Append(down[k], m)
      /\ k \notin alive => srv'[k].st = "done" /\ down'[k] = down[k]
      /\ m \in Message
  BY AnswerUploadEffect
<1>2. m.type \in {"ok", "error"}
  BY <1>1, Messages
<1> HIDE DEF m
<1>3. CASE k \in alive
  <2>1. OpenOK(k)'
    BY <1>1, <1>3 DEF OpenOK
  <2> QED BY <1>1, <1>2, <1>3, <2>1, WholeSaid
<1>4. CASE k \notin alive
  <2>1. (\A j \in Conns : KeptConn(j)) /\ \A g \in Threads : KeptRead(g)
    BY <1>1, <1>4 DEF KeptConn, KeptRead, clients, lines
  <2> QED BY <1>1, <2>1, WholeKept DEF files
<1> QED BY <1>3, <1>4

\* The next chunk is that of the open file, and the end comes after the last one.
LEMMA WholeServerSends == \A k \in Conns : TypeParts /\ WholeInv /\ ServerSends(k) => WholeInv'
<1> SUFFICES ASSUME NEW k \in Conns, TypeParts, WholeInv, ServerSends(k) PROVE WholeInv'
  OBVIOUS
<1> DEFINE m == NextPart(srv[k], srv[k].open)
<1>1. /\ srv[k].st = "send" /\ UNCHANGED <<files, lines, up, clients>> /\ m \in Message
      /\ \A j \in Conns : j # k => srv'[j] = srv[j] /\ down'[j] = down[j]
      /\ k \in alive => down'[k] = Append(down[k], m)
      /\ k \in alive /\ m.type = "data" =>
            /\ srv'[k].st = "send" /\ srv'[k].body = Append(srv[k].body, m.val)
            /\ srv'[k].open = srv[k].open /\ srv'[k].size = srv[k].size
      /\ k \in alive /\ m.type # "data" => srv'[k].st = "idle"
      /\ k \notin alive => srv'[k].st = "done" /\ down'[k] = down[k]
  BY ServerSendsEffect
<1>2. /\ srv[k] \in Sides /\ srv[k].open \in Parts /\ Len(srv[k].body) <= srv[k].size /\ Len(srv[k].open) \in Nat
      /\ Len(srv[k].body) \in Nat /\ srv[k].body \in Seq(Chunks)
  BY WireTypes, PartsAreFiles
<1>3. srv[k].size = Len(srv[k].open) /\ \E c \in committed : c.body = srv[k].open
  BY <1>1 DEF WholeInv, OpenOK
<1>4. /\ m.type \in {"data", "end", "abort"}
      /\ m.type = "data" =>
            /\ Len(srv[k].body) < Len(srv[k].open)
            /\ m.val = srv[k].open[Len(srv[k].body) + 1] /\ m.val \in Chunks
      /\ m.type = "end" => Len(srv[k].body) = srv[k].size
      /\ m.type = "abort" => Len(srv[k].body) < srv[k].size /\ Len(srv[k].open) <= Len(srv[k].body)
  BY <1>2, PartFacts
<1> HIDE DEF m
<1>5. m.type # "data" => Len(srv[k].body) = Len(srv[k].open)
  BY <1>2, <1>3, <1>4
<1>6. CASE k \in alive
  <2>1. OpenOK(k)'
    BY <1>1, <1>3, <1>6 DEF OpenOK, files
  <2>2. m.type = "data" => Len(srv'[k].body) = Len(srv[k].body) + 1
    BY <1>1, <1>2, <1>4, <1>6, OneMore
  <2>3. m.type # "file"
    BY <1>4
  <2> QED BY <1>1, <1>4, <1>5, <1>6, <2>1, <2>2, <2>3, WholeSaid
<1>7. CASE k \notin alive
  <2>1. OpenOK(k)' /\ \A i \in 1..Len(down'[k]) : HeaderOK(k, i)'
    <3>1. \A i \in 1..Len(down[k]) : HeaderOK(k, i)
      BY DEF WholeInv
    <3>2. \A i, b : Rest(k, i, 0, b) => Rest(k, i, 0, b)'
      BY <1>1, <1>7 DEF Rest, lines
    <3> QED BY <1>1, <1>7, <3>1, <3>2 DEF OpenOK, HeaderOK, files
  <2>2. ASSUME NEW j \in Conns, j # k PROVE OpenOK(j)' /\ \A i \in 1..Len(down'[j]) : HeaderOK(j, i)'
    BY <1>1, <2>2, ConnKept DEF WholeInv, KeptConn, lines, files
  <2>3. ASSUME NEW h \in Threads PROVE ReadOK(h)'
    <3>1. \A n, b : Rest(k, 0, n, b) => Rest(k, 0, n, b)'
      BY <1>1, <1>7 DEF Rest, lines
    <3>2. ASSUME cli[h].st = "body", cli[h].on # k PROVE ReadOK(h)'
      <4>1. cli[h].on \in Conns /\ KeptRead(h)
        BY <1>1, <3>2, ThreadTypes DEF KeptRead, clients
      <4>2. KeptConn(cli[h].on)
        BY <1>1, <3>2, <4>1 DEF KeptConn, lines
      <4> QED BY <1>1, <4>1, <4>2, ReadKept DEF WholeInv, files
    <3>3. ASSUME cli[h].st = "body", cli[h].on = k PROVE ReadOK(h)'
      <4>1. PICK c \in committed : Reads(h, c.body)
        BY <3>3 DEF WholeInv, ReadOK
      <4>2. Reads(h, c.body)'
        BY <1>1, <3>1, <3>3, <4>1 DEF Reads, clients
      <4> QED BY <1>1, <4>2 DEF ReadOK, files
    <3> QED BY <1>1, <3>2, <3>3 DEF ReadOK, clients
  <2>4. WholeFiles' /\ ThereOK'
    BY <1>1 DEF WholeInv, WholeFiles, ThereOK, files
  <2> QED BY <2>1, <2>2, <2>3, <2>4 DEF WholeInv
<1> QED BY <1>6, <1>7

\* Nothing comes on a connection that broke.
LEMMA WholeConnectionBreaks == \A k \in Conns : TypeParts /\ WholeInv /\ ConnectionBreaks(k) => WholeInv'
<1> SUFFICES ASSUME NEW k \in Conns, TypeParts, WholeInv, ConnectionBreaks(k) PROVE WholeInv'
  OBVIOUS
<1>1. /\ alive' = alive \ {k} /\ down'[k] = <<>>
      /\ \A j \in Conns : j # k => down'[j] = down[j]
      /\ UNCHANGED <<files, clients, srv>>
  BY ConnectionBreaksEffect
<1>2. WholeFiles' /\ ThereOK'
  BY <1>1 DEF WholeInv, WholeFiles, ThereOK, files
<1>3. Len(down'[k]) = 0 /\ 1..0 = {}
  BY <1>1, EmptyLen
<1>4. ASSUME NEW j \in Conns PROVE OpenOK(j)' /\ \A i \in 1..Len(down'[j]) : HeaderOK(j, i)'
  <2>1. CASE j = k
    BY <1>1, <1>3, <2>1 DEF WholeInv, OpenOK, files
  <2>2. CASE j # k
    BY <1>1, <2>2, ConnKept DEF WholeInv, KeptConn, files
  <2> QED BY <2>1, <2>2
<1>5. ASSUME NEW h \in Threads, cli[h].st = "body" PROVE ReadOK(h)'
  <2>1. CASE cli[h].on = k
    <3>1. PICK c \in committed : Reads(h, c.body)
      BY <1>5 DEF WholeInv, ReadOK
    <3>2. \A n, b : Rest(k, 0, n, b)'
      BY <1>1, <1>3 DEF Rest, Follows
    <3>3. Reads(h, c.body)'
      BY <1>1, <2>1, <3>1, <3>2 DEF Reads, clients
    <3> QED BY <1>1, <3>3 DEF ReadOK, files
  <2>2. CASE cli[h].on # k
    <3>1. cli[h].on \in Conns /\ KeptRead(h)
      BY <1>1, <1>5, ThreadTypes DEF KeptRead, clients
    <3>2. KeptConn(cli[h].on)
      BY <1>1, <2>2, <3>1 DEF KeptConn
    <3> QED BY <1>1, <3>1, <3>2, ReadKept DEF WholeInv, files
  <2> QED BY <2>1, <2>2
<1>6. \A h \in Threads : ReadOK(h)'
  BY <1>1, <1>5 DEF ReadOK, clients
<1> QED BY <1>2, <1>4, <1>6 DEF WholeInv

\* The file in the beginning was stored whole.
LEMMA WholeInit == TransferInit => WholeInv
<1> SUFFICES ASSUME TransferInit PROVE WholeInv
  OBVIOUS
<1>1. theirs = received /\ committed = {[req |-> 0, body |-> theirs]}
      /\ (\A k \in Conns : down[k] = <<>> /\ srv[k] = Nothing) /\ \A h \in Threads : cli[h] = Nothing
  BY DEF TransferInit
<1>2. WholeFiles /\ ThereOK
  BY <1>1 DEF WholeFiles, ThereOK
<1>3. 1..Len(<<>>) = {}
  BY EmptyLen
<1> QED BY <1>1, <1>2, <1>3, NothingType DEF WholeInv, OpenOK, ReadOK

\* Every step keeps the second invariant.
LEMMA WholeNext == TypeParts /\ WholeInv /\ [TransferNext]_transferVars => WholeInv'
<1> SUFFICES ASSUME TypeParts, WholeInv, [TransferNext]_transferVars PROVE WholeInv'
  OBVIOUS
<1>1. ASSUME NEW h \in Threads, BeginUpload(h) PROVE WholeInv'
  <2>1. PICK m \in Message, n \in 0..MaxSize : Begin(h, m, "send", n)
    BY <1>1, BeginUploadIs
  <2> QED BY <2>1, WholeBegin
<1>2. ASSUME NEW h \in Threads, BeginDownload(h) PROVE WholeInv'
  <2>1. PICK m \in Message, n \in 0..MaxSize : Begin(h, m, "answer", n)
    BY <1>2, BeginDownloadIs
  <2> QED BY <2>1, WholeBegin
<1>3. ASSUME NEW h \in Threads,
             \/ TakeConnection(h) \/ CannotBegin(h) \/ ClientSends(h) \/ ClientHears(h)
             \/ ClientReceives(h) \/ ExchangeLost(h) \/ MarkLost(h)
      PROVE  WholeInv'
  BY ONLY <1>3, TypeParts, WholeInv, h \in Threads, WholeTakeConnection, WholeCannotBegin, WholeClientSends,
          WholeClientHears, WholeClientReceives, WholeExchangeLost, WholeMarkLost, Zenon
<1>4. ASSUME NEW k \in Conns,
             \/ TakeRequest(k) \/ ServerReceives(k) \/ CommitUpload(k) \/ AnswerUpload(k)
             \/ ServerSends(k) \/ HandlerEnds(k) \/ ConnectionBreaks(k)
      PROVE  WholeInv'
  BY ONLY <1>4, TypeParts, WholeInv, k \in Conns, WholeTakeRequest, WholeServerReceives, WholeCommitUpload,
          WholeAnswerUpload, WholeServerSends, WholeHandlerEnds, WholeConnectionBreaks, Zenon
<1>5. CASE UNCHANGED transferVars
  <2>1. (\A k \in Conns : KeptConn(k)) /\ (\A g \in Threads : KeptRead(g))
        /\ committed' = committed /\ received' = received /\ theirs' = theirs
    BY <1>5 DEF transferVars, KeptConn, KeptRead
  <2> QED BY <2>1, WholeKept
<1> QED BY <1>1, <1>2, <1>3, <1>4, <1>5, WholeEnvironment, Zenon DEF TransferNext

\* The second invariant holds for ever.
LEMMA WholeAlways == TransferSpec => []WholeInv
BY WholeInit, TypeAlways, WholeNext, PTL DEF TransferSpec

\* A download never leaves the client with a mixture of two files, or a part of
\* one, while other sessions replace it: the handler sends the file it opened
\* (send_file, handle_download, recv_file_body).
THEOREM WholeCorrect == TransferSpec => []WholeFiles
<1>1. WholeInv => WholeFiles
  BY DEF WholeInv
<1> QED BY <1>1, WholeAlways, PTL

-----------------------------------------------------------------------------
(* What is on a connection on which no exchange began too early.              *)

\* Chunks, perhaps with an end or an abort after them.
IsBody(s, i) ==
    \A j \in 1..Len(s) : i < j =>
        /\ s[j].type \in {"data", "end", "abort"}
        /\ s[j].type # "data" => j = Len(s)

\* What is to come to a handler is what it expects.
HandlerOK(k) ==
    /\ srv[k].st = "idle" /\ up[k] # <<>> =>
          \/ up[k][1].type = "download" /\ Len(up[k]) = 1
          \/ up[k][1].type = "upload" /\ IsBody(up[k], 1)
    /\ srv[k].st = "body" => IsBody(up[k], 0)
    /\ srv[k].st \in {"commit", "ok", "error", "send"} => up[k] = <<>>

\* After place i of the wire comes what thread h has sent beyond n chunks.
Carries(h, k, i, n) ==
    LET last == i + Len(cli[h].body) - n IN
    /\ \A j \in 1..Len(up[k]) : i < j /\ j <= last =>
          up[k][j].type = "data" /\ up[k][j].val = cli[h].body[j - i + n]
    /\ cli[h].st = "send" => Len(up[k]) = last
    /\ cli[h].st = "reply" =>
          /\ Len(up[k]) = last + 1
          /\ \/ up[k][last + 1].type = "abort"
             \/ up[k][last + 1].type = "end" /\ Len(cli[h].body) = cli[h].size

\* The server has stored all that was announced, for this request.
Stored(h) ==
    /\ Len(cli[h].body) = cli[h].size
    /\ [req |-> cli[h].req, body |-> cli[h].body] \in committed

\* An upload on its way: not yet taken, being received, received, answered.
Asked(h, k) ==
    /\ srv[k].st = "idle" /\ down[k] = <<>> /\ Len(up[k]) >= 1
    /\ up[k][1].type = "upload" /\ up[k][1].val = cli[h].size /\ up[k][1].req = cli[h].req
    /\ Carries(h, k, 1, 0)

Taken(h, k) ==
    /\ srv[k].st = "body" /\ down[k] = <<>>
    /\ srv[k].req = cli[h].req /\ srv[k].size = cli[h].size
    /\ Len(srv[k].body) <= Len(cli[h].body)
    /\ \A j \in 1..Len(srv[k].body) : srv[k].body[j] = cli[h].body[j]
    /\ Carries(h, k, 0, Len(srv[k].body))

Complete(h, k) ==
    /\ cli[h].st = "reply" /\ down[k] = <<>> /\ srv[k].req = cli[h].req /\ up[k] = <<>>
    /\ \/ srv[k].st = "commit" /\ srv[k].body = cli[h].body /\ Len(cli[h].body) = cli[h].size
       \/ srv[k].st = "ok" /\ Stored(h)
       \/ srv[k].st = "error"

Answered(h, k) ==
    /\ cli[h].st = "reply" /\ srv[k].st = "idle" /\ up[k] = <<>>
    /\ Len(down[k]) = 1 /\ down[k][1].req = cli[h].req
    /\ down[k][1].type = "error" \/ (down[k][1].type = "ok" /\ Stored(h))

UploadOK(h, k) == Asked(h, k) \/ Taken(h, k) \/ Complete(h, k) \/ Answered(h, k)

\* A download on its way: not yet taken, or some of the answer sent.
Wanted(h, k) ==
    /\ cli[h].st = "answer" /\ srv[k].st = "idle" /\ down[k] = <<>> /\ Len(up[k]) = 1
    /\ up[k][1].type = "download" /\ up[k][1].req = cli[h].req

Coming(h, k) ==
    /\ srv[k].st \in {"idle", "send"} /\ up[k] = <<>>
    /\ srv[k].st = "send" => srv[k].req = cli[h].req
    /\ srv[k].st = "send" /\ cli[h].st = "answer" => down[k] # <<>>
    /\ \A j \in 1..Len(down[k]) :
          /\ down[k][j].req = cli[h].req
          /\ down[k][j].type \in IF cli[h].st = "answer" /\ j = 1 THEN {"file", "error"}
                                                                  ELSE {"data", "end", "abort"}
          /\ down[k][j].type \in {"end", "abort", "error"} => j = Len(down[k]) /\ srv[k].st = "idle"

\* A thread that is in an exchange on a connection, and one that has failed on it
\* and is about to close it.
Holds(h, k) == locked = h /\ cli[h].on = k
Marks(h, k) == cli[h].st = "mark" /\ cli[h].on = k

HeldOK(h, k) ==
    IF k \in alive
      THEN /\ IF cli[h].st \in {"send", "reply"} THEN UploadOK(h, k) ELSE Wanted(h, k) \/ Coming(h, k)
           /\ \A g \in Threads : ~Marks(g, k)
      ELSE down[k] = <<>>

\* Nothing is left of earlier exchanges.
Clean(k) == up[k] = <<>> /\ down[k] = <<>> /\ srv[k].st = "idle"

\* The exchange in hand is all there is on the connection, and between two of them
\* there is nothing; what is left of one that failed is there until the connection
\* is closed.
ExchangeOK(k) ==
    /\ HandlerOK(k)
    /\ \A h \in Threads : Holds(h, k) => HeldOK(h, k)
    /\ \/ \E h \in Threads : Holds(h, k) \/ Marks(h, k)
       \/ k \notin alive
       \/ Clean(k)

ExchangeInv == \A k \in Conns \ late : ExchangeOK(k)

\* A connection that a step leaves alone, with the threads on it.
Untouched(k) ==
    /\ up'[k] = up[k] /\ down'[k] = down[k] /\ Alike(srv'[k], srv[k])
    /\ k \in alive' <=> k \in alive
    /\ committed \subseteq committed'
    /\ \A h \in Threads :
          /\ (locked' = h /\ cli'[h].on = k) <=> Holds(h, k)
          /\ Holds(h, k) => Alike(cli'[h], cli[h])
          /\ (cli'[h].st = "mark" /\ cli'[h].on = k) <=> Marks(h, k)

\* What a connection carries is the same when a step leaves it alone;
LEMMA CarriesKept ==
  ASSUME NEW h, NEW k, NEW i, NEW n, up'[k] = up[k], Alike(cli'[h], cli[h]), Carries(h, k, i, n)
  PROVE  Carries(h, k, i, n)'
BY DEF Carries, Alike

\* what was stored stays stored;
LEMMA StoredKept ==
  ASSUME NEW h, committed \subseteq committed', Alike(cli'[h], cli[h]), Stored(h)
  PROVE  Stored(h)'
BY DEF Stored, Alike

\* so the exchange on it is as far as it was,
LEMMA HeldKept ==
  ASSUME NEW k, NEW h \in Threads, Untouched(k), Holds(h, k), HeldOK(h, k)
  PROVE  HeldOK(h, k)'
<1>1. /\ up'[k] = up[k] /\ down'[k] = down[k] /\ Alike(srv'[k], srv[k]) /\ Alike(cli'[h], cli[h])
      /\ k \in alive' <=> k \in alive
      /\ committed \subseteq committed'
      /\ \A g \in Threads : (cli'[g].st = "mark" /\ cli'[g].on = k) <=> Marks(g, k)
  BY DEF Untouched
<1>2. /\ srv'[k].st = srv[k].st /\ srv'[k].req = srv[k].req /\ srv'[k].size = srv[k].size
      /\ srv'[k].body = srv[k].body
      /\ cli'[h].st = cli[h].st /\ cli'[h].req = cli[h].req /\ cli'[h].size = cli[h].size
      /\ cli'[h].body = cli[h].body
  BY <1>1 DEF Alike
<1>3. Asked(h, k) => Asked(h, k)'
  BY <1>1, <1>2, CarriesKept DEF Asked
<1>4. Taken(h, k) => Taken(h, k)'
  <2>1. PICK n : n = Len(srv[k].body)
    OBVIOUS
  <2>2. Carries(h, k, 0, n) => Carries(h, k, 0, n)'
    BY <1>1, CarriesKept
  <2> QED BY <1>1, <1>2, <2>1, <2>2 DEF Taken
<1>5. Complete(h, k) => Complete(h, k)'
  BY <1>1, <1>2, StoredKept DEF Complete
<1>6. Answered(h, k) => Answered(h, k)'
  BY <1>1, <1>2, StoredKept DEF Answered
<1>7. (Wanted(h, k) => Wanted(h, k)') /\ (Coming(h, k) => Coming(h, k)')
  BY <1>1, <1>2 DEF Wanted, Coming
<1>8. (UploadOK(h, k) => UploadOK(h, k)')
  BY <1>3, <1>4, <1>5, <1>6 DEF UploadOK
<1>9. \A g \in Threads : Marks(g, k)' <=> Marks(g, k)
  BY <1>1 DEF Marks
<1> QED BY <1>1, <1>2, <1>7, <1>8, <1>9 DEF HeldOK

\* and the connection in order.
LEMMA ExchangeKept ==
  ASSUME NEW k, Untouched(k), ExchangeOK(k)
  PROVE  ExchangeOK(k)'
<1>1. HandlerOK(k)'
  BY DEF ExchangeOK, HandlerOK, Untouched, Alike
<1>2. \A h \in Threads : (Holds(h, k)' <=> Holds(h, k)) /\ (Marks(h, k)' <=> Marks(h, k))
  BY DEF Untouched, Holds, Marks
<1>3. ASSUME NEW h \in Threads, Holds(h, k)' PROVE HeldOK(h, k)'
  BY <1>2, <1>3, HeldKept DEF ExchangeOK
<1>4. Clean(k) => Clean(k)'
  BY DEF Clean, Untouched, Alike
<1> QED BY <1>1, <1>2, <1>3, <1>4 DEF ExchangeOK, Untouched

\* Only one thread holds cmd_mutex_, and it has failed in nothing yet.
LEMMA OneHolds ==
  ASSUME TypeParts, NEW h \in Threads, locked = h
  PROVE  /\ cli[h].st \in {"send", "reply", "answer", "body"} /\ cli[h].on \in Conns
         /\ \A g \in Threads, k \in Conns : Holds(g, k) <=> (g = h /\ k = cli[h].on)
BY ThreadTypes DEF TypeParts, LockOK, Holds

\* The thread sends m, which is a chunk, or the end of its file.
Sent(h, m) ==
    \/ /\ m.type = "data" /\ m.val \in Chunks /\ cli'[h].st = "send"
       /\ cli'[h].body = Append(cli[h].body, m.val)
    \/ /\ m.type = "abort" \/ (m.type = "end" /\ Len(cli[h].body) = cli[h].size)
       /\ cli'[h].st = "reply" /\ cli'[h].body = cli[h].body

\* The connection then carries one message more.
LEMMA CarriesSent ==
  ASSUME TypeParts, NEW h \in Threads, NEW k \in Conns, NEW i \in Nat, NEW n \in Nat, n <= Len(cli[h].body),
         NEW m \in Message, cli[h].st = "send", Carries(h, k, i, n), up'[k] = Append(up[k], m), Sent(h, m),
         cli'[h].size = cli[h].size
  PROVE  /\ Carries(h, k, i, n)' /\ Len(up'[k]) = Len(up[k]) + 1 /\ Len(up[k]) \in Nat
         /\ Len(up[k]) = i + Len(cli[h].body) - n
         /\ \A j \in 1..Len(up[k]) : up'[k][j] = up[k][j] /\ (i < j => up[k][j].type = "data")
         /\ \A j \in 1..Len(cli[h].body) : cli'[h].body[j] = cli[h].body[j]
         /\ Len(cli'[h].body) >= Len(cli[h].body) /\ up'[k][Len(up[k]) + 1] = m
<1> DEFINE L == Len(cli[h].body)
           U == Len(up[k])
<1>1. up[k] \in Seq(Message) /\ cli[h].body \in Seq(Chunks)
  BY WireTypes, ThreadTypes, PartsAreFiles
<1>2. /\ U \in Nat /\ Len(up'[k]) = U + 1 /\ up'[k][U + 1] = m
      /\ \A j \in 1..U : up'[k][j] = up[k][j]
  BY <1>1, OneMore
<1>3. L \in Nat
  BY <1>1, LenProperties
<1> HIDE DEF L, U
<1>4. /\ \A j \in 1..U : i < j /\ j <= i + L - n =>
            up[k][j].type = "data" /\ up[k][j].val = cli[h].body[j - i + n]
      /\ U = i + L - n
  BY DEF Carries, L, U
<1>5. \A j \in 1..U : i < j => up[k][j].type = "data"
  <2>1. \A j \in 1..U : j <= i + L - n
    BY <1>2, <1>3, <1>4
  <2> QED BY <1>4, <2>1
<1>6. CASE /\ m.type = "data" /\ m.val \in Chunks /\ cli'[h].st = "send"
           /\ cli'[h].body = Append(cli[h].body, m.val)
  <2>1. /\ Len(cli'[h].body) = L + 1 /\ cli'[h].body[L + 1] = m.val
        /\ \A j \in 1..L : cli'[h].body[j] = cli[h].body[j]
    BY <1>1, <1>6, OneMore DEF L
  <2>2. Len(up'[k]) = i + Len(cli'[h].body) - n
    BY <1>2, <1>3, <1>4, <2>1
  <2>3. ASSUME NEW j \in 1..Len(up'[k]), i < j
        PROVE  up'[k][j].type = "data" /\ up'[k][j].val = cli'[h].body[j - i + n]
    <3>1. CASE j \in 1..U
      <4>1. j - i + n \in 1..L /\ j <= i + L - n
        BY ONLY <1>2, <1>3, <1>4, <2>3, <3>1, i \in Nat, n \in Nat
      <4> QED BY <1>2, <1>4, <2>1, <2>3, <3>1, <4>1
    <3>2. CASE j = U + 1
      <4>1. j - i + n = L + 1
        BY <1>2, <1>3, <1>4, <3>2
      <4> QED BY <1>2, <1>6, <2>1, <3>2, <4>1
    <3> QED BY <1>2, <3>1, <3>2
  <2>4. Carries(h, k, i, n)'
    BY <1>6, <2>2, <2>3 DEF Carries, L, U
  <2>5. L + 1 >= L
    BY <1>3
  <2> QED BY <1>2, <1>3, <1>4, <1>5, <2>1, <2>4, <2>5 DEF L, U
<1>7. CASE /\ m.type = "abort" \/ (m.type = "end" /\ L = cli[h].size)
           /\ cli'[h].st = "reply" /\ cli'[h].body = cli[h].body
  <2>1. ASSUME NEW j \in 1..Len(up'[k]), i < j, j <= i + L - n
        PROVE  up'[k][j].type = "data" /\ up'[k][j].val = cli[h].body[j - i + n]
    <3>1. j \in 1..U
      BY <1>2, <1>3, <1>4, <2>1
    <3> QED BY <1>2, <1>4, <2>1, <3>1
  <2>2. /\ Len(up'[k]) = i + L - n + 1
        /\ up'[k][i + L - n + 1] = m
    BY <1>2, <1>3, <1>4
  <2>3. Carries(h, k, i, n)'
    BY <1>7, <2>1, <2>2 DEF Carries, L, U
  <2>4. L >= L
    BY <1>3
  <2> QED BY <1>2, <1>3, <1>4, <1>5, <1>7, <2>3, <2>4 DEF L, U
<1> QED BY <1>6, <1>7 DEF Sent, L, U

\* The handler takes the header of an upload, or a chunk of it.
LEMMA CarriesTaken ==
  ASSUME TypeParts, NEW h \in Threads, NEW k \in Conns, NEW i \in Nat, NEW n \in Nat, n <= Len(cli[h].body),
         Carries(h, k, i, n), up[k] # <<>>, up'[k] = Tail(up[k]), Alike(cli'[h], cli[h])
  PROVE  /\ i > 0 => Carries(h, k, i - 1, n)'
         /\ i = 0 /\ n < Len(cli[h].body) =>
               up[k][1].type = "data" /\ up[k][1].val = cli[h].body[n + 1] /\ Carries(h, k, 0, n + 1)'
<1> DEFINE L == Len(cli[h].body)
           U == Len(up[k])
<1>1. up[k] \in Seq(Message) /\ cli[h].body \in Seq(Chunks)
  BY WireTypes, ThreadTypes, PartsAreFiles
<1>2. /\ U \in Nat \ {0} /\ Len(up'[k]) = U - 1
      /\ \A j \in 1..(U - 1) : up'[k][j] = up[k][j + 1]
  BY <1>1, OneLess
<1>3. L \in Nat
  BY <1>1, LenProperties
<1>4. cli'[h].body = cli[h].body /\ cli'[h].st = cli[h].st /\ cli'[h].size = cli[h].size
  BY DEF Alike
<1> HIDE DEF L, U
<1>5. ASSUME NEW x \in Int, NEW y \in Nat, (x = i - 1 /\ y = n) \/ (i = 0 /\ x = 0 /\ y = n + 1),
             x >= 0, x + L - y >= 0
      PROVE  Carries(h, k, x, y)'
  <2> DEFINE last == i + L - n
             less == x + L - y
  <2>1. less = last - 1 /\ less \in Nat /\ last \in Nat
    BY <1>3, <1>5
  <2>2. ASSUME NEW j \in 1..Len(up'[k]), x < j, j <= less
        PROVE  up'[k][j].type = "data" /\ up'[k][j].val = cli[h].body[j - x + y]
    <3>1. j + 1 \in 1..U /\ i < j + 1 /\ j + 1 <= last /\ (j + 1) - i + n = j - x + y
          /\ j \in 1..(U - 1)
      <4>1. j \in Nat /\ 1 <= j /\ j <= U - 1 /\ U \in Nat
        BY <1>2
      <4> HIDE DEF last, less
      <4> QED BY ONLY <1>3, <1>5, <2>1, <2>2, <4>1, i \in Nat, n \in Nat
    <3>2. up[k][j + 1].type = "data" /\ up[k][j + 1].val = cli[h].body[(j + 1) - i + n]
      BY <3>1 DEF Carries, L, U
    <3> QED BY <1>2, <3>1, <3>2
  <2>3. cli[h].st = "send" => Len(up'[k]) = less
    BY <1>2, <2>1 DEF Carries, L, U
  <2>4. cli[h].st = "reply" =>
          /\ Len(up'[k]) = less + 1
          /\ \/ up'[k][less + 1].type = "abort"
             \/ up'[k][less + 1].type = "end" /\ L = cli[h].size
    <3> SUFFICES ASSUME cli[h].st = "reply"
                 PROVE  /\ Len(up'[k]) = less + 1
                        /\ \/ up'[k][less + 1].type = "abort"
                           \/ up'[k][less + 1].type = "end" /\ L = cli[h].size
      OBVIOUS
    <3>1. /\ U = last + 1
          /\ \/ up[k][last + 1].type = "abort"
             \/ up[k][last + 1].type = "end" /\ L = cli[h].size
      BY DEF Carries, L, U
    <3> HIDE DEF last, less
    <3>2. less + 1 = last /\ less + 1 \in 1..(U - 1) /\ up'[k][less + 1] = up[k][last + 1]
      BY <1>2, <2>1, <3>1
    <3> QED BY <1>2, <3>1, <3>2
  <2> QED BY <1>4, <2>2, <2>3, <2>4 DEF Carries, L, U
<1>6. ASSUME i > 0 PROVE Carries(h, k, i - 1, n)'
  <2>1. i - 1 \in Int /\ i - 1 >= 0 /\ (i - 1) + L - n >= 0
    <3>1. n <= L
      BY DEF L
    <3> QED BY ONLY <1>3, <1>6, <3>1, i \in Nat, n \in Nat
  <2> QED BY <1>5, <2>1
<1>7. ASSUME i = 0, n < L
      PROVE  up[k][1].type = "data" /\ up[k][1].val = cli[h].body[n + 1] /\ Carries(h, k, 0, n + 1)'
  <2>1. 1 \in 1..U /\ 0 < 1 /\ 1 <= 0 + L - n /\ 1 - 0 + n = n + 1
    BY <1>2, <1>3, <1>7
  <2>2. up[k][1].type = "data" /\ up[k][1].val = cli[h].body[n + 1]
    BY <1>7, <2>1 DEF Carries, L, U
  <2>3. Carries(h, k, 0, n + 1)'
    <3>1. n + 1 \in Nat /\ 0 + L - (n + 1) >= 0
      BY <1>3, <1>7
    <3> QED BY <1>5, <1>7, <3>1
  <2> QED BY <2>2, <2>3
<1> QED BY <1>6, <1>7 DEF L

-----------------------------------------------------------------------------
(* The steps of a client thread keep the exchange in hand in order.          *)

\* It is enough to look at the connections that a step touches.
LEMMA ExchangeStep ==
  ASSUME ExchangeInv, late \subseteq late', NEW k,
         \A j \in Conns : j # k => Untouched(j),
         k \in Conns /\ k \notin late' /\ ExchangeOK(k) => ExchangeOK(k)'
  PROVE  ExchangeInv'
<1> SUFFICES ASSUME NEW j \in Conns, j \notin late' PROVE ExchangeOK(j)'
  BY DEF ExchangeInv
<1>1. ExchangeOK(j)
  BY DEF ExchangeInv
<1>2. CASE j = k
  BY <1>1, <1>2
<1>3. CASE j # k
  BY <1>1, <1>3, ExchangeKept
<1> QED BY <1>2, <1>3

\* A thread without cmd_mutex_ changes what it does on one connection.
LEMMA ElsewhereOutside ==
  ASSUME TypeParts, NEW h \in Threads, locked # h, locked' = locked, NEW j \in Conns,
         \A g \in Threads : g # h => cli'[g] = cli[g],
         Marks(h, j)' <=> Marks(h, j), UNCHANGED <<up, down, srv, committed>>, j \in alive' <=> j \in alive
  PROVE  Untouched(j)
BY DEF Untouched, Alike, Holds, Marks

\* A thread that takes or has cmd_mutex_ changes what is on its connection.
LEMMA ElsewhereInside ==
  ASSUME TypeParts, NEW h \in Threads, locked \in {h, None}, locked' \in {h, None}, NEW j \in Conns,
         cli[h].on # j, cli'[h].on # j \/ (locked' = None /\ cli'[h].st = "idle"),
         \A g \in Threads : g # h => cli'[g] = cli[g],
         up'[j] = up[j], down'[j] = down[j], srv'[j] = srv[j], committed' = committed, j \in alive' <=> j \in alive
  PROVE  Untouched(j)
BY Bounds DEF Untouched, Alike, Holds, Marks

\* A thread that waits for cmd_mutex_ has not begun; a new connection is empty.
LEMMA ExchangeTakeConnection == \A h \in Threads : TypeParts /\ ExchangeInv /\ TakeConnection(h) => ExchangeInv'
<1> SUFFICES ASSUME NEW h \in Threads, TypeParts, ExchangeInv, TakeConnection(h) PROVE ExchangeInv'
  OBVIOUS
<1>1. /\ cli'[h].st = "wait" /\ \A g \in Threads : g # h => cli'[g] = cli[g]
      /\ UNCHANGED <<files, locked, up, down, srv, late>>
      /\ \/ alive' = alive
         \/ alive' = alive \cup {cmd'} /\ cmd' > dialled /\ cmd' \in Conns
  BY TakeConnectionEffect
<1>2. cli[h].st = "idle" /\ locked # h
  BY DEF TakeConnection, TypeParts, LockOK
<1>3. ASSUME NEW j \in Conns, j \in alive' <=> j \in alive PROVE Untouched(j)
  BY <1>1, <1>2, <1>3, ElsewhereOutside DEF Marks, files
<1>4. ASSUME NEW k \in Conns, k > dialled PROVE ExchangeOK(k)'
  <2>2. up[k] = <<>> /\ down[k] = <<>> /\ srv[k].st = "idle"
    BY <1>4 DEF TypeParts, ConnOK
  <2>3. \A g \in Threads : ~Holds(g, k)'
    <3> SUFFICES ASSUME NEW g \in Threads, locked = g PROVE cli'[g].on # k
      BY <1>1 DEF Holds
    <3>1. g # h /\ cli[g].on \in 1..dialled /\ cli'[g] = cli[g]
      BY <1>1, <1>2 DEF TypeParts, LockOK
    <3> QED BY <1>4, <3>1, Bounds DEF TypeParts, LinesOK
  <2>4. HandlerOK(k)' /\ Clean(k)'
    BY <1>1, <2>2 DEF HandlerOK, Clean
  <2> QED BY <2>3, <2>4 DEF ExchangeOK
<1>5. CASE alive' = alive
  <2>1. \A j \in Conns : Untouched(j)
    BY <1>3, <1>5
  <2> QED BY <1>1, <2>1, ExchangeKept DEF ExchangeInv
<1>6. CASE alive' = alive \cup {cmd'} /\ cmd' > dialled /\ cmd' \in Conns
  <2>1. PICK k \in Conns : k = cmd'
    BY <1>6
  <2>2. \A j \in Conns : j # k => Untouched(j)
    BY <1>3, <1>6, <2>1
  <2>3. ExchangeOK(k)'
    BY <1>4, <1>6, <2>1
  <2> QED BY <1>1, <2>2, <2>3, ExchangeStep
<1> QED BY <1>1, <1>5, <1>6

\* A thread that fails before it begins marks a connection that is closed.
LEMMA ExchangeCannotBegin == \A h \in Threads : TypeParts /\ ExchangeInv /\ CannotBegin(h) => ExchangeInv'
<1> SUFFICES ASSUME NEW h \in Threads, TypeParts, ExchangeInv, CannotBegin(h) PROVE ExchangeInv'
  OBVIOUS
<1>1. /\ UNCHANGED <<files, lines, locked, up, down, srv>> /\ cli' = [cli EXCEPT ![h].st = "mark"]
      /\ cli \in [Threads -> Sides] /\ cli[h].st = "wait" /\ cli[h].on \notin alive /\ locked = None
  BY DEF CannotBegin, TypeParts, SidesOK
<1>2. cli'[h].st = "mark" /\ cli'[h].on = cli[h].on /\ \A g \in Threads : g # h => cli'[g] = cli[g]
  BY <1>1, NewSt DEF Steps
<1>3. PICK k : k = cli[h].on
  OBVIOUS
<1>4. ASSUME NEW j \in Conns, j # k PROVE Untouched(j)
  BY <1>1, <1>2, <1>3, <1>4, ElsewhereOutside, Bounds DEF Marks, files, lines
<1>5. ASSUME k \in Conns, ExchangeOK(k) PROVE ExchangeOK(k)'
  <2>1. HandlerOK(k)'
    BY <1>1, <1>5 DEF ExchangeOK, HandlerOK
  <2>2. \A g \in Threads : ~Holds(g, k)'
    BY <1>1, Bounds DEF Holds
  <2> QED BY <1>1, <1>3, <2>1, <2>2 DEF ExchangeOK, lines
<1> QED BY <1>1, <1>4, <1>5, ExchangeStep DEF lines

\* A message begins an exchange of its kind.
Begins(m, st, n) ==
    \/ st = "send" /\ m.type = "upload" /\ m.val = n
    \/ st = "answer" /\ m.type = "download"

\* An exchange begins on a connection on which nothing is left, unless it is late.
LEMMA ExchangeBegin ==
  ASSUME TypeParts, ExchangeInv, NEW h \in Threads, NEW m \in Message, NEW st \in {"send", "answer"},
         NEW n \in 0..MaxSize, Begin(h, m, st, n), Begins(m, st, n)
  PROVE  ExchangeInv'
<1>1. PICK k : k = cli[h].on
  OBVIOUS
<1>2. /\ cli[h].st = "wait" /\ locked = None /\ locked' = h /\ k \in alive /\ k \in Conns
      /\ cli'[h].st = st /\ cli'[h].size = n /\ cli'[h].req = m.req
      /\ cli'[h].body = <<>> /\ cli'[h].on = k
      /\ \A g \in Threads : g # h => cli'[g] = cli[g]
      /\ up'[k] = Append(up[k], m)
      /\ \A j \in Conns : j # k => up'[j] = up[j]
      /\ UNCHANGED <<files, cmd, dialled, alive, down, srv>>
      /\ late' = IF \E g \in Threads : cli[g].st = "mark" /\ cli[g].on = k
                   THEN late \cup {k} ELSE late
  BY <1>1, BeginEffect
<1>3. late \subseteq late' /\ (k \notin late' => \A g \in Threads : ~Marks(g, k))
  BY <1>2 DEF Marks
<1>4. ASSUME NEW j \in Conns, j # k PROVE Untouched(j)
  BY <1>1, <1>2, <1>4, ElsewhereInside DEF files
<1>5. ASSUME k \notin late', ExchangeOK(k) PROVE ExchangeOK(k)'
  <2>1. (\A g \in Threads : ~Marks(g, k)) /\ Clean(k)
    BY <1>2, <1>3, <1>5, Bounds DEF ExchangeOK, Holds
  <2>2. /\ up'[k] = Append(<<>>, m) /\ up'[k] # <<>> /\ Len(up'[k]) = 1 /\ up'[k][1] = m
        /\ down'[k] = <<>> /\ srv'[k].st = "idle"
    <3>1. Append(<<>>, m) # <<>> /\ Len(Append(<<>>, m)) = 1 /\ Append(<<>>, m)[1] = m
      OBVIOUS
    <3> QED BY <1>2, <2>1, <3>1 DEF Clean
  <2>3. HandlerOK(k)'
    <3>1. IsBody(up'[k], 1)
      BY <2>2 DEF IsBody
    <3> QED BY <2>2, <3>1 DEF HandlerOK, Begins
  <2>4. HeldOK(h, k)'
    <3>1. \A g \in Threads : ~Marks(g, k)'
      BY <1>2, <2>1 DEF Marks
    <3>2. CASE st = "send"
      <4>1. Len(cli'[h].body) = 0 /\ 1 + 0 - 0 = 1 /\ 1..1 = {1}
        BY <1>2, EmptyLen
      <4>2. Carries(h, k, 1, 0)'
        BY <1>2, <2>2, <3>2, <4>1 DEF Carries
      <4>3. Asked(h, k)'
        BY <1>2, <2>2, <3>2, <4>2 DEF Asked, Begins
      <4> QED BY <1>2, <3>1, <3>2, <4>3 DEF HeldOK, UploadOK
    <3>3. CASE st = "answer"
      <4>1. Wanted(h, k)'
        BY <1>2, <2>2, <3>3 DEF Wanted, Begins
      <4> QED BY <1>2, <3>1, <3>3, <4>1 DEF HeldOK
    <3> QED BY <3>2, <3>3
  <2>5. \A g \in Threads : Holds(g, k)' <=> g = h
    BY <1>2 DEF Holds
  <2> QED BY <2>3, <2>4, <2>5 DEF ExchangeOK
<1> QED BY <1>3, <1>4, <1>5, ExchangeStep

\* A sequence of length 0.
LEMMA NoneLeft == \A S : \A s \in Seq(S) : Len(s) = 0 => s = <<>>
<1> SUFFICES ASSUME NEW S, NEW s \in Seq(S), s # <<>> PROVE Len(s) # 0
  OBVIOUS
<1>1. Len(s) \in Nat \ {0}
  BY OneLess
<1> QED BY <1>1

\* Messages added to, or taken from, a part of a file.
LEMMA BodyLonger ==
  ASSUME NEW s, NEW t, NEW i \in Nat, NEW m, Len(s) \in Nat, Len(t) = Len(s) + 1, t[Len(s) + 1] = m,
         m.type \in {"data", "end", "abort"},
         \A j \in 1..Len(s) : t[j] = s[j] /\ (i < j => s[j].type = "data")
  PROVE  IsBody(t, i)
<1> SUFFICES ASSUME NEW j \in 1..Len(t), i < j
             PROVE  t[j].type \in {"data", "end", "abort"} /\ (t[j].type # "data" => j = Len(t))
  BY DEF IsBody
<1>1. j \in 1..Len(s) \/ j = Len(s) + 1
  OBVIOUS
<1> QED BY <1>1

\* What is left of a file is such a body, and nothing follows its end.
LEMMA BodyShorter ==
  ASSUME NEW s \in Seq(Message), s # <<>>, NEW i \in 0..1, IsBody(s, i)
  PROVE  /\ IsBody(Tail(s), 0)
         /\ i = 0 => Head(s).type \in {"data", "end", "abort"} /\ (Head(s).type # "data" => Tail(s) = <<>>)
<1>1. /\ Len(s) \in Nat \ {0} /\ Len(Tail(s)) = Len(s) - 1 /\ Head(s) = s[1] /\ Tail(s) \in Seq(Message)
      /\ \A j \in 1..(Len(s) - 1) : Tail(s)[j] = s[j + 1]
  BY OneLess
<1>2. ASSUME NEW j \in 1..Len(Tail(s))
      PROVE  Tail(s)[j].type \in {"data", "end", "abort"} /\ (Tail(s)[j].type # "data" => j = Len(Tail(s)))
  <2> DEFINE u == Len(s)
             v == Len(Tail(s))
  <2>1. u \in Nat \ {0} /\ v = u - 1 /\ j \in 1..v
    BY <1>1
  <2> HIDE DEF u, v
  <2>2. j + 1 \in 1..u /\ i < j + 1 /\ (j + 1 = u => j = v) /\ j \in 1..(u - 1)
    BY ONLY <2>1, i \in 0..1
  <2>3. j + 1 \in 1..Len(s) /\ i < j + 1 /\ Tail(s)[j] = s[j + 1] /\ (j + 1 = Len(s) => j = Len(Tail(s)))
    BY <1>1, <2>2 DEF u, v
  <2> QED BY <2>3 DEF IsBody
<1>3. ASSUME i = 0
      PROVE  Head(s).type \in {"data", "end", "abort"} /\ (Head(s).type # "data" => Tail(s) = <<>>)
  <2>1. 1 \in 1..Len(s) /\ 0 < 1
    BY <1>1
  <2>2. s[1].type \in {"data", "end", "abort"} /\ (s[1].type # "data" => Len(s) = 1)
    BY <1>3, <2>1 DEF IsBody
  <2>3. ASSUME Len(s) = 1 PROVE Tail(s) = <<>>
    <3>1. Tail(s) \in Seq(Message) /\ Len(Tail(s)) = 0
      BY <1>1, <2>3
    <3> QED BY ONLY <3>1, NoneLeft
  <2> QED BY <1>1, <2>2, <2>3
<1> QED BY <1>2, <1>3 DEF IsBody

\* send_file adds the next chunk, or the end, to what the connection carries.
LEMMA ExchangeClientSends == \A h \in Threads : TypeParts /\ ExchangeInv /\ ClientSends(h) => ExchangeInv'
<1> SUFFICES ASSUME NEW h \in Threads, TypeParts, ExchangeInv, ClientSends(h) PROVE ExchangeInv'
  OBVIOUS
<1>1. PICK k : k = cli[h].on
  OBVIOUS
<1>2. PICK m : m = NextPart(cli[h], mine)
  OBVIOUS
<1>3. /\ cli[h].st = "send" /\ k \in alive /\ k \in Conns /\ m \in Message
      /\ up'[k] = Append(up[k], m) /\ \A j \in Conns : j # k => up'[j] = up[j]
      /\ m.type = "data" => cli'[h].body = Append(cli[h].body, m.val) /\ cli'[h].st = "send"
      /\ m.type # "data" => cli'[h].body = cli[h].body /\ cli'[h].st = "reply"
      /\ cli'[h].size = cli[h].size /\ cli'[h].req = cli[h].req /\ cli'[h].on = k
      /\ \A g \in Threads : g # h => cli'[g] = cli[g]
      /\ UNCHANGED <<files, lines, locked, down, srv>>
  BY <1>1, <1>2, ClientSendsEffect
<1>4. locked = h
  BY <1>3 DEF TypeParts, LockOK
<1>5. ASSUME NEW j \in Conns, j # k PROVE Untouched(j)
  BY <1>1, <1>3, <1>4, <1>5, ElsewhereInside DEF files, lines
<1>6. /\ m.type \in {"data", "end", "abort"}
      /\ m.type = "data" => m.val \in Chunks
      /\ m.type = "end" => Len(cli[h].body) = cli[h].size
  <2>1. cli[h] \in Sides /\ Len(cli[h].body) <= cli[h].size /\ mine \in Parts
    BY ThreadTypes DEF TypeParts, FilesOK
  <2> QED BY <1>2, <2>1, PartFacts
<1>7. \/ m.type = "data" /\ m.val \in Chunks /\ cli'[h].st = "send" /\ cli'[h].body = Append(cli[h].body, m.val)
      \/ /\ m.type = "abort" \/ (m.type = "end" /\ Len(cli[h].body) = cli[h].size)
         /\ cli'[h].st = "reply" /\ cli'[h].body = cli[h].body
  BY <1>3, <1>6
<1>8. /\ k \in Conns /\ m \in Message /\ cli[h].st = "send" /\ up'[k] = Append(up[k], m)
      /\ cli'[h].size = cli[h].size /\ 0 \in Nat /\ 1 \in Nat
      /\ Sent(h, m)
  BY <1>3, <1>7 DEF Sent
<1>9. ASSUME k \notin late, ExchangeOK(k) PROVE ExchangeOK(k)'
  <2>1. UploadOK(h, k) /\ \A g \in Threads : ~Marks(g, k)
    BY <1>1, <1>3, <1>4, <1>9 DEF ExchangeOK, Holds, HeldOK
  <2>2. \A g \in Threads : Holds(g, k)' <=> g = h
    BY <1>3, <1>4 DEF Holds
  <2>3. \A g \in Threads : ~Marks(g, k)'
    BY <1>3, <1>7, <2>1 DEF Marks
  <2>4. cli'[h].st \in {"send", "reply"} /\ k \in alive'
    BY <1>3, <1>7 DEF lines
  <2>5. CASE Asked(h, k)
    <3>1. Carries(h, k, 1, 0) /\ Len(cli[h].body) \in Nat
      BY <2>5, ThreadTypes DEF Asked
    <3>2. /\ Carries(h, k, 1, 0)' /\ Len(up'[k]) = Len(up[k]) + 1 /\ Len(up[k]) \in Nat
          /\ \A j \in 1..Len(up[k]) : up'[k][j] = up[k][j] /\ (1 < j => up[k][j].type = "data")
          /\ up'[k][Len(up[k]) + 1] = m
      BY ONLY <1>8, <3>1, TypeParts, h \in Threads, CarriesSent
    <3>3. Len(up'[k]) >= 1 /\ 1 \in 1..Len(up[k])
      BY <2>5, <3>2 DEF Asked
    <3>4. Asked(h, k)'
      BY <1>3, <2>5, <3>2, <3>3 DEF Asked
    <3>5. IsBody(up'[k], 1)
      BY <1>6, <3>2, BodyLonger
    <3>6. HandlerOK(k)'
      BY <3>4, <3>5 DEF HandlerOK, Asked
    <3> QED BY <2>2, <2>3, <2>4, <3>4, <3>6 DEF ExchangeOK, HeldOK, UploadOK
  <2>6. CASE Taken(h, k)
    <3>1. PICK n : n = Len(srv[k].body)
      OBVIOUS
    <3>2. n \in Nat /\ n <= Len(cli[h].body) /\ Carries(h, k, 0, n) /\ Len(cli[h].body) \in Nat
      BY <1>3, <2>6, <3>1, WireTypes, ThreadTypes DEF Taken
    <3>3. /\ Carries(h, k, 0, n)' /\ Len(up'[k]) = Len(up[k]) + 1 /\ Len(up[k]) \in Nat
          /\ \A j \in 1..Len(up[k]) : up'[k][j] = up[k][j] /\ (0 < j => up[k][j].type = "data")
          /\ \A j \in 1..Len(cli[h].body) : cli'[h].body[j] = cli[h].body[j]
          /\ Len(cli'[h].body) >= Len(cli[h].body) /\ up'[k][Len(up[k]) + 1] = m
      <4>1. Carries(h, k, 0, n)' /\ Len(up'[k]) = Len(up[k]) + 1 /\ Len(up[k]) \in Nat
        BY ONLY <1>8, <3>2, TypeParts, h \in Threads, CarriesSent
      <4>2. /\ \A j \in 1..Len(up[k]) : up'[k][j] = up[k][j] /\ (0 < j => up[k][j].type = "data")
            /\ up'[k][Len(up[k]) + 1] = m
        BY ONLY <1>8, <3>2, TypeParts, h \in Threads, CarriesSent
      <4>3. /\ \A j \in 1..Len(cli[h].body) : cli'[h].body[j] = cli[h].body[j]
            /\ Len(cli'[h].body) >= Len(cli[h].body)
        BY ONLY <1>8, <3>2, TypeParts, h \in Threads, CarriesSent
      <4> QED BY ONLY <4>1, <4>2, <4>3
    <3>4. Len(cli'[h].body) \in Nat
      BY <1>3, TypeClientSends, ThreadTypes DEF TypeParts, SidesOK
    <3>5. Taken(h, k)'
      <4>1. n <= Len(cli'[h].body) /\ \A j \in 1..n : j \in 1..Len(cli[h].body)
        BY <3>2, <3>3, <3>4
      <4>2. \A j \in 1..n : srv[k].body[j] = cli'[h].body[j]
        BY <2>6, <3>1, <3>3, <4>1 DEF Taken
      <4> QED BY <1>3, <2>6, <3>1, <3>3, <4>1, <4>2 DEF Taken
    <3>6. IsBody(up'[k], 0)
      BY <1>6, <3>3, BodyLonger
    <3>7. HandlerOK(k)'
      BY <3>5, <3>6 DEF HandlerOK, Taken
    <3> QED BY <2>2, <2>3, <2>4, <3>5, <3>7 DEF ExchangeOK, HeldOK, UploadOK
  <2> QED BY <1>3, <2>1, <2>5, <2>6 DEF UploadOK, Complete, Answered
<1> QED BY <1>3, <1>5, <1>9, ExchangeStep DEF lines

\* The thread takes a message of the answer that is not the last.
LEMMA ComingTaken ==
  ASSUME TypeParts, NEW h \in Threads, NEW k \in Conns, Coming(h, k), down[k] # <<>>, down'[k] = Tail(down[k]),
         up'[k] = up[k], srv'[k] = srv[k], cli'[h].st = "body", cli'[h].req = cli[h].req
  PROVE  Coming(h, k)'
<1>1. down[k] \in Seq(Message)
  BY WireTypes
<1> DEFINE u == Len(down[k])
           v == Len(down'[k])
<1>2. u \in Nat \ {0} /\ v = u - 1 /\ \A j \in 1..(u - 1) : down'[k][j] = down[k][j + 1]
  BY <1>1, OneLess
<1> HIDE DEF u, v
<1>3. ASSUME NEW j \in 1..v
      PROVE  /\ down'[k][j].req = cli[h].req /\ down'[k][j].type \in {"data", "end", "abort"}
             /\ down'[k][j].type \in {"end", "abort", "error"} => j = v /\ srv[k].st = "idle"
  <2>1. j + 1 \in 1..u /\ (j + 1 = u => j = v) /\ j \in 1..(u - 1) /\ j + 1 # 1
    BY ONLY <1>2, <1>3
  <2>2. /\ down[k][j + 1].req = cli[h].req /\ down[k][j + 1].type \in {"data", "end", "abort"}
        /\ down[k][j + 1].type \in {"end", "abort", "error"} => j + 1 = u /\ srv[k].st = "idle"
    BY <2>1 DEF Coming, u
  <2> QED BY <1>2, <2>1, <2>2
<1> QED BY <1>3 DEF Coming, v

\* The first message of the answer; nothing follows the one that ends it.
LEMMA ComingFirst ==
  ASSUME TypeParts, NEW h, NEW k \in Conns, Coming(h, k), down[k] # <<>>
  PROVE  /\ down[k][1].req = cli[h].req
         /\ down[k][1].type \in IF cli[h].st = "answer" THEN {"file", "error"} ELSE {"data", "end", "abort"}
         /\ down[k][1].type \in {"end", "abort", "error"} => Tail(down[k]) = <<>> /\ srv[k].st = "idle"
<1>1. down[k] \in Seq(Message)
  BY WireTypes
<1>2. Len(down[k]) \in Nat \ {0} /\ Tail(down[k]) \in Seq(Message) /\ Len(Tail(down[k])) = Len(down[k]) - 1
  BY <1>1, OneLess
<1>3. 1 \in 1..Len(down[k])
  BY <1>2
<1>4. /\ down[k][1].req = cli[h].req
      /\ down[k][1].type \in IF cli[h].st = "answer" THEN {"file", "error"} ELSE {"data", "end", "abort"}
      /\ down[k][1].type \in {"end", "abort", "error"} => 1 = Len(down[k]) /\ srv[k].st = "idle"
  BY <1>3 DEF Coming
<1>5. ASSUME 1 = Len(down[k]) PROVE Tail(down[k]) = <<>>
  <2>1. Len(Tail(down[k])) = 0
    BY <1>2, <1>5
  <2> QED BY ONLY <1>2, <2>1, NoneLeft
<1> QED BY <1>4, <1>5

\* The answer is the last message of an upload; a header is the first of a download.
LEMMA ExchangeClientHears == \A h \in Threads : TypeParts /\ ExchangeInv /\ ClientHears(h) => ExchangeInv'
<1> SUFFICES ASSUME NEW h \in Threads, TypeParts, ExchangeInv, ClientHears(h) PROVE ExchangeInv'
  OBVIOUS
<1>1. PICK k : k = cli[h].on
  OBVIOUS
<1>2. PICK m : m = Head(down[k])
  OBVIOUS
<1>3. /\ cli[h].st \in {"reply", "answer"} /\ k \in Conns /\ down[k] # <<>> /\ locked = h
      /\ m \in Message /\ m = down[k][1]
      /\ down'[k] = Tail(down[k]) /\ \A j \in Conns : j # k => down'[j] = down[j]
      /\ \A g \in Threads : g # h => cli'[g] = cli[g]
      /\ UNCHANGED <<files, lines, up, srv>>
      /\ \/ /\ cli[h].st = "answer" /\ m.type = "file" /\ cli'[h].st = "body"
            /\ cli'[h].req = cli[h].req /\ cli'[h].on = k /\ locked' = locked
         \/ /\ locked' = None
            /\ (cli'[h].st = "mark" /\ cli'[h].on = k) \/ cli'[h].st = "idle"
            /\ cli'[h].st = "idle" => ~(cli[h].st = "answer" /\ m.type # "error")
  BY <1>1, <1>2, ClientHearsEffect
<1>4. ASSUME NEW j \in Conns, j # k PROVE Untouched(j)
  BY <1>1, <1>3, <1>4, ElsewhereInside DEF files, lines
<1>5. ASSUME k \notin late, ExchangeOK(k) PROVE ExchangeOK(k)'
  <2>1. HeldOK(h, k) /\ k \in alive
    BY <1>1, <1>3, <1>5 DEF ExchangeOK, Holds, HeldOK
  <2>2. HandlerOK(k)'
    BY <1>3, <1>5 DEF ExchangeOK, HandlerOK
  <2>3. CASE /\ cli[h].st = "answer" /\ m.type = "file" /\ cli'[h].st = "body"
             /\ cli'[h].req = cli[h].req /\ cli'[h].on = k /\ locked' = locked
    <3>1. Coming(h, k) /\ \A g \in Threads : ~Marks(g, k)
      BY <1>3, <2>1, <2>3 DEF HeldOK, Wanted
    <3>2. Coming(h, k)'
      BY <1>3, <2>3, <3>1, ComingTaken
    <3>3. \A g \in Threads : ~Marks(g, k)' /\ (Holds(g, k)' <=> g = h)
      BY <1>3, <2>3, <3>1 DEF Marks, Holds
    <3> QED BY <1>3, <2>1, <2>2, <2>3, <3>2, <3>3 DEF ExchangeOK, HeldOK, lines
  <2>4. CASE /\ locked' = None
             /\ (cli'[h].st = "mark" /\ cli'[h].on = k) \/ cli'[h].st = "idle"
             /\ cli'[h].st = "idle" => ~(cli[h].st = "answer" /\ m.type # "error")
    <3>1. \A g \in Threads : ~Holds(g, k)'
      BY <2>4, Bounds DEF Holds
    <3>2. CASE cli'[h].st = "mark" /\ cli'[h].on = k
      <4>1. Marks(h, k)'
        BY <3>2 DEF Marks
      <4> QED BY <2>2, <3>1, <4>1 DEF ExchangeOK
    <3>3. CASE cli[h].st = "reply"
      <4>1. Answered(h, k)
        BY <1>3, <2>1, <3>3 DEF HeldOK, UploadOK, Asked, Taken, Complete
      <4>2. Tail(down[k]) = <<>>
        <5>1. down[k] \in Seq(Message)
          BY <1>3, WireTypes
        <5>2. Tail(down[k]) \in Seq(Message) /\ Len(Tail(down[k])) = 0
          BY <1>3, <4>1, <5>1, OneLess DEF Answered
        <5> QED BY ONLY <5>2, NoneLeft
      <4>3. Clean(k)'
        BY <1>3, <4>1, <4>2 DEF Answered, Clean
      <4> QED BY <2>2, <3>1, <4>3 DEF ExchangeOK
    <3>4. CASE cli[h].st = "answer" /\ m.type = "error"
      <4>1. Coming(h, k)
        BY <1>3, <2>1, <3>4 DEF HeldOK, Wanted
      <4>2. Tail(down[k]) = <<>> /\ srv[k].st = "idle" /\ up[k] = <<>>
        BY <1>3, <3>4, <4>1, ComingFirst DEF Coming
      <4>3. Clean(k)'
        BY <1>3, <4>2 DEF Clean
      <4> QED BY <2>2, <3>1, <4>3 DEF ExchangeOK
    <3> QED BY <1>3, <2>4, <3>2, <3>3, <3>4
  <2> QED BY <1>3, <2>3, <2>4
<1> QED BY <1>3, <1>4, <1>5, ExchangeStep DEF lines

\* The end of a file is the last message of a download.
LEMMA ExchangeClientReceives == \A h \in Threads : TypeParts /\ ExchangeInv /\ ClientReceives(h) => ExchangeInv'
<1> SUFFICES ASSUME NEW h \in Threads, TypeParts, ExchangeInv, ClientReceives(h) PROVE ExchangeInv'
  OBVIOUS
<1>1. PICK k : k = cli[h].on
  OBVIOUS
<1>2. PICK m : m = Head(down[k])
  OBVIOUS
<1>3. PICK is : is = BodyState(cli[h], m)
  OBVIOUS
<1>4. /\ cli[h].st = "body" /\ k \in Conns /\ down[k] # <<>> /\ locked = h
      /\ m \in Message /\ m = down[k][1]
      /\ down'[k] = Tail(down[k]) /\ \A j \in Conns : j # k => down'[j] = down[j]
      /\ \A g \in Threads : g # h => cli'[g] = cli[g]
      /\ UNCHANGED <<mine, theirs, committed, lines, up, srv>>
      /\ \/ /\ is = "more"
            /\ cli'[h].st = "body" /\ cli'[h].req = cli[h].req /\ cli'[h].on = k /\ locked' = locked
         \/ /\ is # "more" /\ locked' = None
            /\ is = "broken" => cli'[h].st = "mark" /\ cli'[h].on = k
            /\ is # "broken" => cli'[h].st = "idle"
  BY <1>1, <1>2, <1>3, ClientReceivesEffect
<1>5. is \in {"more", "broken"} \/ m.type \in {"end", "abort"}
  BY <1>3 DEF BodyState
<1>6. ASSUME NEW j \in Conns, j # k PROVE Untouched(j)
  BY <1>1, <1>4, <1>6, ElsewhereInside DEF lines
<1>7. ASSUME k \notin late, ExchangeOK(k) PROVE ExchangeOK(k)'
  <2>1. k \in alive /\ Coming(h, k) /\ \A g \in Threads : ~Marks(g, k)
    BY <1>1, <1>4, <1>7 DEF ExchangeOK, Holds, HeldOK, Wanted
  <2>2. HandlerOK(k)'
    BY <1>4, <1>7 DEF ExchangeOK, HandlerOK
  <2>3. CASE is = "more"
    <3>1. Coming(h, k)'
      BY <1>4, <2>1, <2>3, ComingTaken
    <3>2. \A g \in Threads : ~Marks(g, k)' /\ (Holds(g, k)' <=> g = h)
      BY <1>4, <2>1, <2>3 DEF Marks, Holds
    <3> QED BY <1>4, <2>1, <2>2, <2>3, <3>1, <3>2 DEF ExchangeOK, HeldOK, lines
  <2>4. CASE is # "more"
    <3>1. \A g \in Threads : ~Holds(g, k)'
      BY <1>4, <2>4, Bounds DEF Holds
    <3>2. CASE is = "broken"
      <4>1. Marks(h, k)'
        BY <1>4, <3>2 DEF Marks
      <4> QED BY <2>2, <3>1, <4>1 DEF ExchangeOK
    <3>3. CASE is # "broken"
      <4>1. m.type \in {"end", "abort"}
        BY <1>5, <2>4, <3>3
      <4>2. Tail(down[k]) = <<>> /\ srv[k].st = "idle" /\ up[k] = <<>>
        BY <1>4, <2>1, <4>1, ComingFirst DEF Coming
      <4>3. Clean(k)'
        BY <1>4, <4>2 DEF Clean
      <4> QED BY <2>2, <3>1, <4>3 DEF ExchangeOK
    <3> QED BY <3>2, <3>3
  <2> QED BY <2>3, <2>4
<1> QED BY <1>4, <1>6, <1>7, ExchangeStep DEF lines

\* What is left of an exchange that fails is on a connection about to be closed.
LEMMA ExchangeExchangeLost == \A h \in Threads : TypeParts /\ ExchangeInv /\ ExchangeLost(h) => ExchangeInv'
<1> SUFFICES ASSUME NEW h \in Threads, TypeParts, ExchangeInv, ExchangeLost(h) PROVE ExchangeInv'
  OBVIOUS
<1>1. PICK k : k = cli[h].on
  OBVIOUS
<1>2. /\ locked = h /\ locked' = None /\ cli'[h].st = "mark" /\ cli'[h].on = k
      /\ \A g \in Threads : g # h => cli'[g] = cli[g]
      /\ UNCHANGED <<files, lines, up, down, srv>>
  BY <1>1, ExchangeLostEffect
<1>3. ASSUME NEW j \in Conns, j # k PROVE Untouched(j)
  BY <1>1, <1>2, <1>3, ElsewhereInside DEF files, lines
<1>4. ASSUME ExchangeOK(k) PROVE ExchangeOK(k)'
  <2>1. HandlerOK(k)'
    BY <1>2, <1>4 DEF ExchangeOK, HandlerOK
  <2>2. Marks(h, k)' /\ \A g \in Threads : ~Holds(g, k)'
    BY <1>2, Bounds DEF Marks, Holds
  <2> QED BY <2>1, <2>2 DEF ExchangeOK
<1> QED BY <1>2, <1>3, <1>4, ExchangeStep DEF lines

\* mark_disconnected closes it, or somebody else has.
LEMMA ExchangeMarkLost == \A h \in Threads : TypeParts /\ ExchangeInv /\ MarkLost(h) => ExchangeInv'
<1> SUFFICES ASSUME NEW h \in Threads, TypeParts, ExchangeInv, MarkLost(h) PROVE ExchangeInv'
  OBVIOUS
<1>1. PICK k : k = cli[h].on
  OBVIOUS
<1>2. /\ cli[h].st = "mark" /\ cli'[h].st = "idle" /\ \A g \in Threads : g # h => cli'[g] = cli[g]
      /\ UNCHANGED <<files, locked, up, down, srv, late>>
      /\ alive' = alive \/ alive' = alive \ {k}
      /\ k \notin alive'
  BY <1>1, MarkLostEffect
<1>3. locked # h
  BY <1>2 DEF TypeParts, LockOK
<1>4. ASSUME NEW j \in Conns, j # k PROVE Untouched(j)
  BY <1>1, <1>2, <1>3, <1>4, ElsewhereOutside DEF Marks, files
<1>5. ASSUME ExchangeOK(k) PROVE ExchangeOK(k)'
  <2>1. HandlerOK(k)'
    BY <1>2, <1>5 DEF ExchangeOK, HandlerOK
  <2>2. ASSUME NEW g \in Threads, Holds(g, k)' PROVE HeldOK(g, k)'
    <3>1. Holds(g, k)
      BY <1>2, <1>3, <2>2 DEF Holds
    <3>2. Marks(h, k) /\ HeldOK(g, k)
      BY <1>1, <1>2, <1>5, <3>1 DEF Marks, ExchangeOK
    <3>3. down[k] = <<>>
      BY <3>2 DEF HeldOK
    <3> QED BY <1>2, <3>3 DEF HeldOK
  <2> QED BY <1>2, <2>1, <2>2 DEF ExchangeOK
<1> QED BY <1>2, <1>4, <1>5, ExchangeStep

\* A step of a handler: the threads, and the other connections, stay as they are.
LEMMA HandlerStep ==
  ASSUME TypeParts, ExchangeInv, NEW k \in Conns, UNCHANGED <<clients, late>>, committed \subseteq committed',
         \A j \in Conns : j # k => /\ up'[j] = up[j] /\ down'[j] = down[j] /\ srv'[j] = srv[j]
                                   /\ j \in alive' <=> j \in alive,
         alive' \subseteq alive, ~Clean(k),
         k \notin late => HandlerOK(k)',
         k \notin alive => down'[k] = down[k],
         \A h \in Threads : k \notin late /\ k \in alive /\ Holds(h, k) /\ HeldOK(h, k) =>
            k \in alive' /\ IF cli[h].st \in {"send", "reply"} THEN UploadOK(h, k)'
                                                               ELSE Wanted(h, k)' \/ Coming(h, k)'
  PROVE  ExchangeInv'
<1>1. ASSUME NEW j \in Conns, j # k PROVE Untouched(j)
  BY <1>1 DEF Untouched, Alike, Holds, Marks, clients
<1>2. ASSUME k \notin late, ExchangeOK(k) PROVE ExchangeOK(k)'
  <2>1. \A h \in Threads : (Holds(h, k)' <=> Holds(h, k)) /\ (Marks(h, k)' <=> Marks(h, k))
    BY DEF Holds, Marks, clients
  <2>2. ASSUME NEW h \in Threads, Holds(h, k)' PROVE HeldOK(h, k)'
    <3>1. Holds(h, k) /\ HeldOK(h, k) /\ cli' = cli
      BY <1>2, <2>1, <2>2 DEF ExchangeOK, clients
    <3>2. CASE k \in alive
      BY <1>2, <2>1, <3>1, <3>2 DEF HeldOK
    <3>3. CASE k \notin alive
      BY <3>1, <3>3 DEF HeldOK
    <3> QED BY <3>2, <3>3
  <2> QED BY <1>2, <2>1, <2>2 DEF ExchangeOK
<1> QED BY <1>1, <1>2, ExchangeStep

\* The handler takes the first message of the exchange in hand.
LEMMA ExchangeTakeRequest == \A k \in Conns : TypeParts /\ ExchangeInv /\ TakeRequest(k) => ExchangeInv'
<1> SUFFICES ASSUME NEW k \in Conns, TypeParts, ExchangeInv, TakeRequest(k) PROVE ExchangeInv'
  OBVIOUS
<1>1. PICK m : m = Head(up[k])
  OBVIOUS
<1>2. /\ srv[k].st = "idle" /\ up[k] # <<>> /\ m \in Message /\ m = up[k][1] /\ up'[k] = Tail(up[k])
      /\ \A j \in Conns : j # k => up'[j] = up[j] /\ down'[j] = down[j] /\ srv'[j] = srv[j]
      /\ UNCHANGED <<files, lines, clients>>
      /\ \/ /\ m.type = "upload" /\ down'[k] = down[k]
            /\ srv'[k].st = "body" /\ srv'[k].req = m.req /\ srv'[k].size = m.val /\ srv'[k].body = <<>>
         \/ /\ m.type = "download" /\ k \in alive /\ srv'[k].st = "idle"
            /\ down'[k] = Append(down[k], Msg("error", 0, m.req))
         \/ /\ m.type = "download" /\ k \in alive
            /\ srv'[k].st = "send" /\ srv'[k].req = m.req
            /\ down'[k] = Append(down[k], Msg("file", Len(theirs), m.req))
         \/ /\ m.type = "download" /\ k \notin alive /\ srv'[k].st = "done" /\ down'[k] = down[k]
  BY <1>1, TakeRequestEffect
<1>3. up[k] \in Seq(Message) /\ UNCHANGED <<alive, late, cli, locked, committed>>
  BY <1>2, WireTypes DEF files, lines, clients
<1>4. Tail(up[k]) \in Seq(Message) /\ Len(Tail(up[k])) = Len(up[k]) - 1 /\ Len(up[k]) \in Nat \ {0}
  BY <1>2, <1>3, OneLess
<1>5. Len(up[k]) = 1 => Tail(up[k]) = <<>>
  <2>1. Len(up[k]) = 1 => Len(Tail(up[k])) = 0
    BY <1>4
  <2> QED BY ONLY <1>4, <2>1, NoneLeft
<1>6. ASSUME k \notin late PROVE HandlerOK(k)'
  <2>1. \/ m.type = "download" /\ Len(up[k]) = 1
        \/ m.type = "upload" /\ IsBody(up[k], 1)
    BY <1>2, <1>6 DEF ExchangeInv, ExchangeOK, HandlerOK
  <2>2. CASE m.type = "download" /\ Len(up[k]) = 1
    <3>1. up'[k] = <<>> /\ srv'[k].st \in {"idle", "send", "done"}
      BY <1>2, <1>5, <2>2
    <3> QED BY <3>1 DEF HandlerOK
  <2>3. CASE m.type = "upload" /\ IsBody(up[k], 1)
    <3>1. IsBody(up'[k], 0) /\ srv'[k].st = "body"
      BY <1>2, <1>3, <2>3, BodyShorter
    <3> QED BY <3>1 DEF HandlerOK
  <2> QED BY <2>1, <2>2, <2>3
<1>7. ASSUME NEW h \in Threads, k \in alive, Holds(h, k), HeldOK(h, k)
      PROVE  IF cli[h].st \in {"send", "reply"} THEN UploadOK(h, k)' ELSE Wanted(h, k)' \/ Coming(h, k)'
  <2>1. CASE cli[h].st \in {"send", "reply"}
    <3>1. Asked(h, k)
      BY <1>2, <1>7, <2>1 DEF HeldOK, UploadOK, Taken, Complete, Answered
    <3>2. Carries(h, k, 1 - 1, 0)'
      <4>1. 0 <= Len(cli[h].body) /\ Alike(cli'[h], cli[h])
        BY <1>3, ThreadTypes DEF Alike
      <4> QED BY <1>2, <3>1, <4>1, CarriesTaken DEF Asked
    <3>3. /\ srv'[k].st = "body" /\ srv'[k].req = cli[h].req /\ srv'[k].size = cli[h].size /\ down'[k] = <<>>
          /\ srv'[k].body = <<>>
      BY <1>2, <3>1 DEF Asked
    <3>4. Len(srv'[k].body) = 0 /\ 1 - 1 = 0 /\ 1..0 = {} /\ 0 <= Len(cli[h].body)
      BY <3>3, EmptyLen, ThreadTypes
    <3>5. Taken(h, k)'
      BY <1>3, <3>2, <3>3, <3>4 DEF Taken
    <3> QED BY <2>1, <3>5 DEF UploadOK
  <2>2. CASE cli[h].st \notin {"send", "reply"}
    <3>1. Wanted(h, k)
      BY <1>2, <1>7, <2>2 DEF HeldOK, Coming
    <3>2. up'[k] = <<>> /\ down[k] = <<>> /\ m.type = "download" /\ m.req = cli[h].req /\ cli[h].st = "answer"
      BY <1>2, <1>5, <3>1 DEF Wanted
    <3>3. PICK x \in {"file", "error"} :
            /\ \E v : down'[k] = Append(<<>>, Msg(x, v, m.req))
            /\ srv'[k].st \in {"idle", "send"} /\ (x = "error" => srv'[k].st = "idle")
            /\ srv'[k].st = "send" => srv'[k].req = m.req
      BY <1>2, <1>7, <3>2
    <3>4. PICK v : down'[k] = Append(<<>>, Msg(x, v, m.req))
      BY <3>3
    <3>5. PICK a : a = Msg(x, v, m.req)
      OBVIOUS
    <3>6. a.type = x /\ a.req = m.req
      BY <3>5, Messages
    <3>7. Len(down'[k]) = 1 /\ down'[k][1] = a /\ down'[k] # <<>> /\ 1..1 = {1}
      <4>1. Append(<<>>, a) # <<>> /\ Len(Append(<<>>, a)) = 1 /\ Append(<<>>, a)[1] = a
        OBVIOUS
      <4> QED BY <3>4, <3>5, <4>1
    <3>8. Coming(h, k)'
      BY <1>3, <3>2, <3>3, <3>6, <3>7 DEF Coming
    <3> QED BY <2>2, <3>8
  <2> QED BY <2>1, <2>2
<1>8. ~Clean(k)
  BY <1>2 DEF Clean
<1> QED BY <1>2, <1>3, <1>6, <1>7, <1>8, HandlerStep

-----------------------------------------------------------------------------
(* The steps of a handler, and of the environment, keep it in order.         *)

\* The server receives what the client has sent, in order and to the end.
LEMMA ExchangeServerReceives == \A k \in Conns : TypeParts /\ ExchangeInv /\ ServerReceives(k) => ExchangeInv'
<1> SUFFICES ASSUME NEW k \in Conns, TypeParts, ExchangeInv, ServerReceives(k) PROVE ExchangeInv'
  OBVIOUS
<1>1. PICK m : m = Head(up[k])
  OBVIOUS
<1>2. /\ srv[k].st = "body" /\ up[k] # <<>> /\ m \in Message /\ m = up[k][1] /\ up'[k] = Tail(up[k])
      /\ \A j \in Conns : j # k => up'[j] = up[j] /\ srv'[j] = srv[j]
      /\ UNCHANGED <<files, cmd, dialled, late, down, clients>>
      /\ \/ /\ m.type = "data" /\ srv'[k].st = "body" /\ srv'[k].req = srv[k].req
            /\ srv'[k].size = srv[k].size /\ srv'[k].body = Append(srv[k].body, m.val)
            /\ alive' = alive
         \/ /\ m.type = "end" /\ Len(srv[k].body) = srv[k].size /\ srv'[k].st = "commit"
            /\ srv'[k].req = srv[k].req /\ srv'[k].body = srv[k].body /\ alive' = alive
         \/ /\ m.type \in {"end", "abort"} /\ srv'[k].st = "error" /\ srv'[k].req = srv[k].req
            /\ alive' = alive
         \/ /\ \/ m.type \notin {"data", "end", "abort"}
               \/ m.type = "data" /\ ~(Len(srv[k].body) < srv[k].size)
               \/ m.type = "end" /\ Len(srv[k].body) # srv[k].size
            /\ srv'[k].st = "done" /\ alive' = alive \ {k}
  BY <1>1, ServerReceivesEffect
<1>3. up[k] \in Seq(Message) /\ UNCHANGED <<late, cli, locked, committed>>
  BY <1>2, WireTypes DEF files, clients
<1>4. ASSUME k \notin late
      PROVE  IsBody(up'[k], 0) /\ m.type \in {"data", "end", "abort"} /\ (m.type # "data" => up'[k] = <<>>)
  <2>1. IsBody(up[k], 0)
    BY <1>2, <1>4 DEF ExchangeInv, ExchangeOK, HandlerOK
  <2> QED BY <1>1, <1>2, <1>3, <2>1, BodyShorter
<1>5. ASSUME k \notin late PROVE HandlerOK(k)'
  BY <1>2, <1>4, <1>5 DEF HandlerOK
<1>6. ASSUME NEW h \in Threads, k \notin late, k \in alive, Holds(h, k), HeldOK(h, k)
      PROVE  k \in alive' /\ IF cli[h].st \in {"send", "reply"} THEN UploadOK(h, k)'
                                                                ELSE Wanted(h, k)' \/ Coming(h, k)'
  <2>1. cli[h].st \in {"send", "reply"} /\ Taken(h, k)
    BY <1>2, <1>6 DEF HeldOK, UploadOK, Asked, Complete, Answered, Wanted, Coming
  <2>2. PICK n : n = Len(srv[k].body)
    OBVIOUS
  <2>3. PICK l : l = Len(cli[h].body)
    OBVIOUS
  <2>4. /\ n \in Nat /\ l \in Nat /\ n <= l /\ l <= cli[h].size /\ cli[h].size \in Nat
        /\ srv[k].body \in Seq(Chunks) /\ cli[h].body \in Seq(Chunks)
    BY <2>1, <2>2, <2>3, WireTypes, ThreadTypes, PartsAreFiles DEF Taken
  <2>5. /\ srv[k].size = cli[h].size /\ srv[k].req = cli[h].req /\ down[k] = <<>> /\ Carries(h, k, 0, n)
        /\ \A j \in 1..n : srv[k].body[j] = cli[h].body[j]
    BY <2>1, <2>2 DEF Taken
  <2>6. n < l => m.type = "data" /\ m.val = cli[h].body[n + 1] /\ Carries(h, k, 0, n + 1)'
    <3>1. Alike(cli'[h], cli[h])
      BY <1>3 DEF Alike
    <3>2. 0 \in Nat /\ n <= Len(cli[h].body) /\ up[k] # <<>> /\ up'[k] = Tail(up[k])
      BY <1>2, <2>3, <2>4
    <3>3. n < Len(cli[h].body) =>
            up[k][1].type = "data" /\ up[k][1].val = cli[h].body[n + 1] /\ Carries(h, k, 0, n + 1)'
      BY <2>4, <2>5, <3>1, <3>2, CarriesTaken
    <3> QED BY <1>2, <2>3, <3>3
  <2>7. n = l => /\ m.type # "data" /\ cli[h].st = "reply"
                 /\ m.type = "end" => l = cli[h].size
    <3>1. ASSUME n = l
          PROVE  /\ cli[h].st = "send" => Len(up[k]) = 0
                 /\ cli[h].st = "reply" => \/ up[k][1].type = "abort"
                                           \/ up[k][1].type = "end" /\ l = cli[h].size
      <4>1. PICK last : last = 0 + Len(cli[h].body) - n
        OBVIOUS
      <4>2. last = 0 /\ last + 1 = 1
        BY <2>3, <2>4, <3>1, <4>1
      <4>3. /\ cli[h].st = "send" => Len(up[k]) = last
            /\ cli[h].st = "reply" => \/ up[k][last + 1].type = "abort"
                                      \/ up[k][last + 1].type = "end" /\ Len(cli[h].body) = cli[h].size
        BY <2>5, <4>1 DEF Carries
      <4> QED BY <2>3, <4>2, <4>3
    <3>2. Len(up[k]) # 0
      BY <1>2, <1>3, OneLess
    <3> QED BY <1>2, <2>1, <3>1, <3>2
  <2>8. CASE n < l
    <3>1. m.type = "data" /\ Len(srv[k].body) < srv[k].size
      BY <2>2, <2>4, <2>5, <2>6, <2>8
    <3>2. srv'[k].st = "body" /\ srv'[k].req = srv[k].req
          /\ srv'[k].size = srv[k].size /\ srv'[k].body = Append(srv[k].body, m.val)
          /\ alive' = alive
      BY <1>2, <3>1
    <3>3. PICK p : p = n + 1
      OBVIOUS
    <3>4. /\ Len(srv'[k].body) = p /\ srv'[k].body[p] = m.val
          /\ \A j \in 1..n : srv'[k].body[j] = srv[k].body[j]
      BY <1>2, <2>2, <2>4, <3>1, <3>2, <3>3, OneMore, MessageFields
    <3>5. p <= l /\ \A j \in 1..p : srv'[k].body[j] = cli[h].body[j]
      <4>1. \A j \in 1..p : j \in 1..n \/ j = p
        BY <2>4, <3>3
      <4>2. p <= l
        BY <2>4, <2>8, <3>3
      <4> QED BY <2>5, <2>6, <2>8, <3>3, <3>4, <4>1, <4>2
    <3>6. Carries(h, k, 0, p)'
      BY <2>6, <2>8, <3>3
    <3>7. Taken(h, k)'
      BY <1>2, <1>3, <2>3, <2>5, <3>2, <3>4, <3>5, <3>6 DEF Taken
    <3> QED BY <1>6, <2>1, <3>2, <3>7, <1>3 DEF UploadOK
  <2>9. CASE n = l
    <3>1. up'[k] = <<>> /\ cli[h].st = "reply" /\ m.type \in {"end", "abort"}
      BY <1>4, <1>6, <2>7, <2>9
    <3>2. /\ srv'[k].req = srv[k].req /\ alive' = alive
          /\ \/ m.type = "end" /\ srv'[k].st = "commit" /\ srv'[k].body = srv[k].body
             \/ srv'[k].st = "error"
      BY <1>2, <2>2, <2>5, <2>7, <2>9, <3>1
    <3>3. srv[k].body = cli[h].body
      BY <2>2, <2>3, <2>4, <2>5, <2>9, SeqEqual
    <3>4. Complete(h, k)'
      BY <1>2, <1>3, <2>3, <2>5, <2>7, <2>9, <3>1, <3>2, <3>3 DEF Complete
    <3> QED BY <1>3, <1>6, <2>1, <3>2, <3>4 DEF UploadOK
  <2> QED BY <2>4, <2>8, <2>9
<1>7. alive' \subseteq alive /\ (\A j \in Conns : j # k => (j \in alive' <=> j \in alive)) /\ ~Clean(k)
  BY <1>2 DEF Clean
<1> QED BY <1>2, <1>3, <1>5, <1>6, <1>7, HandlerStep

\* What it commits is all that the client read.
LEMMA ExchangeCommitUpload == \A k \in Conns : TypeParts /\ ExchangeInv /\ CommitUpload(k) => ExchangeInv'
<1> SUFFICES ASSUME NEW k \in Conns, TypeParts, ExchangeInv, CommitUpload(k) PROVE ExchangeInv'
  OBVIOUS
<1>1. /\ srv[k].st = "commit" /\ srv'[k].req = srv[k].req
      /\ \A j \in Conns : j # k => srv'[j] = srv[j]
      /\ UNCHANGED <<received, lines, up, down, clients>>
      /\ \/ /\ srv'[k].st = "ok"
            /\ committed' = committed \cup {[req |-> srv[k].req, body |-> srv[k].body]}
         \/ srv'[k].st = "error" /\ UNCHANGED <<theirs, committed>>
  BY CommitUploadEffect
<1>2. UNCHANGED <<alive, late, cli, locked, up, down>> /\ committed \subseteq committed'
  BY <1>1 DEF lines, clients
<1>3. ASSUME k \notin late PROVE HandlerOK(k)'
  BY <1>1, <1>3 DEF ExchangeInv, ExchangeOK, HandlerOK
<1>4. ASSUME NEW h \in Threads, k \in alive, Holds(h, k), HeldOK(h, k)
      PROVE  IF cli[h].st \in {"send", "reply"} THEN UploadOK(h, k)' ELSE Wanted(h, k)' \/ Coming(h, k)'
  <2>1. Complete(h, k) /\ cli[h].st = "reply"
    BY <1>1, <1>4 DEF HeldOK, UploadOK, Asked, Taken, Complete, Answered, Wanted, Coming
  <2>2. srv[k].body = cli[h].body /\ Len(cli[h].body) = cli[h].size /\ srv[k].req = cli[h].req
    BY <1>1, <2>1 DEF Complete
  <2>3. srv'[k].st = "ok" => Stored(h)'
    BY <1>1, <1>2, <2>2 DEF Stored
  <2>4. Complete(h, k)'
    BY <1>1, <1>2, <2>1, <2>3 DEF Complete
  <2> QED BY <2>1, <2>4 DEF UploadOK
<1>5. ~Clean(k)
  BY <1>1 DEF Clean
<1> QED BY <1>1, <1>2, <1>3, <1>4, <1>5, HandlerStep

\* The answer is to the request in hand, and Ok only after a commit.
LEMMA ExchangeAnswerUpload == \A k \in Conns : TypeParts /\ ExchangeInv /\ AnswerUpload(k) => ExchangeInv'
<1> SUFFICES ASSUME NEW k \in Conns, TypeParts, ExchangeInv, AnswerUpload(k) PROVE ExchangeInv'
  OBVIOUS
<1>1. PICK m : m = Msg(srv[k].st, 0, srv[k].req)
  OBVIOUS
<1>2. /\ srv[k].st \in {"ok", "error"} /\ UNCHANGED <<files, lines, up, clients>>
      /\ \A j \in Conns : j # k => srv'[j] = srv[j] /\ down'[j] = down[j]
      /\ k \in alive => srv'[k].st = "idle" /\ down'[k] = Append(down[k], m)
      /\ k \notin alive => srv'[k].st = "done" /\ down'[k] = down[k]
  BY <1>1, AnswerUploadEffect
<1>3. m.type = srv[k].st /\ m.req = srv[k].req
  BY <1>1, Messages
<1>4. UNCHANGED <<alive, late, cli, locked, up, committed>>
  BY <1>2 DEF lines, clients, files
<1>5. ASSUME k \notin late PROVE HandlerOK(k)'
  <2>1. up[k] = <<>>
    BY <1>2, <1>5 DEF ExchangeInv, ExchangeOK, HandlerOK
  <2> QED BY <1>2, <2>1 DEF HandlerOK
<1>6. ASSUME NEW h \in Threads, k \in alive, Holds(h, k), HeldOK(h, k)
      PROVE  IF cli[h].st \in {"send", "reply"} THEN UploadOK(h, k)' ELSE Wanted(h, k)' \/ Coming(h, k)'
  <2>1. Complete(h, k) /\ cli[h].st = "reply"
    BY <1>2, <1>6 DEF HeldOK, UploadOK, Asked, Taken, Complete, Answered, Wanted, Coming
  <2>2. down'[k] = Append(<<>>, m)
    BY <1>2, <1>6, <2>1 DEF Complete
  <2>3. Len(down'[k]) = 1 /\ down'[k][1] = m
    BY ONLY <2>2
  <2>4. m.req = cli[h].req /\ (m.type = "error" \/ (m.type = "ok" /\ Stored(h)))
    BY <1>2, <1>3, <2>1 DEF Complete
  <2>5. Stored(h) => Stored(h)'
    BY <1>4 DEF Stored
  <2>6. Answered(h, k)'
    BY <1>2, <1>4, <1>6, <2>1, <2>3, <2>4, <2>5 DEF Answered, Complete
  <2> QED BY <2>1, <2>6 DEF UploadOK
<1>7. ~Clean(k)
  BY <1>2 DEF Clean
<1> QED BY <1>2, <1>4, <1>5, <1>6, <1>7, HandlerStep

\* send_file ends the download with its last message.
LEMMA ExchangeServerSends == \A k \in Conns : TypeParts /\ ExchangeInv /\ ServerSends(k) => ExchangeInv'
<1> SUFFICES ASSUME NEW k \in Conns, TypeParts, ExchangeInv, ServerSends(k) PROVE ExchangeInv'
  OBVIOUS
<1>1. PICK m : m = NextPart(srv[k], srv[k].open)
  OBVIOUS
<1>2. /\ srv[k].st = "send" /\ UNCHANGED <<files, lines, up, clients>> /\ m \in Message
      /\ \A j \in Conns : j # k => srv'[j] = srv[j] /\ down'[j] = down[j]
      /\ k \in alive => down'[k] = Append(down[k], m)
      /\ k \in alive /\ m.type = "data" => srv'[k].st = "send" /\ srv'[k].req = srv[k].req
      /\ k \in alive /\ m.type # "data" => srv'[k].st = "idle"
      /\ k \notin alive => srv'[k].st = "done" /\ down'[k] = down[k]
  BY <1>1, ServerSendsEffect
<1>3. m.req = srv[k].req /\ m.type \in {"data", "end", "abort"}
  <2>1. srv[k] \in Sides /\ srv[k].open \in Parts /\ Len(srv[k].body) <= srv[k].size
    BY WireTypes
  <2> QED BY <1>1, <2>1, PartFacts
<1>4. UNCHANGED <<alive, late, cli, locked, up, committed>>
  BY <1>2 DEF lines, clients, files
<1>5. ASSUME k \notin late PROVE HandlerOK(k)'
  <2>1. up[k] = <<>>
    BY <1>2, <1>5 DEF ExchangeInv, ExchangeOK, HandlerOK
  <2>2. srv'[k].st \in {"idle", "send", "done"}
    BY <1>2
  <2> QED BY <1>2, <2>1, <2>2 DEF HandlerOK
<1>6. ASSUME NEW h \in Threads, k \in alive, Holds(h, k), HeldOK(h, k)
      PROVE  IF cli[h].st \in {"send", "reply"} THEN UploadOK(h, k)' ELSE Wanted(h, k)' \/ Coming(h, k)'
  <2>1. cli[h].st \notin {"send", "reply"} /\ Coming(h, k)
    BY <1>2, <1>6 DEF HeldOK, UploadOK, Asked, Taken, Complete, Answered, Wanted
  <2> DEFINE u == Len(down[k])
  <2>2. /\ u \in Nat /\ Len(down'[k]) = u + 1 /\ down'[k][u + 1] = m
        /\ \A j \in 1..u : down'[k][j] = down[k][j]
    BY <1>2, <1>6, WireTypes, OneMore
  <2>3. cli[h].st = "answer" => u # 0
    <3>1. down[k] \in Seq(Message)
      BY WireTypes
    <3> QED BY <1>2, <2>1, <3>1, OneLess DEF Coming
  <2>4. ASSUME NEW j \in 1..u
        PROVE  /\ down[k][j].req = cli[h].req
               /\ down[k][j].type \in IF cli[h].st = "answer" /\ j = 1 THEN {"file", "error"}
                                                                       ELSE {"data", "end", "abort"}
               /\ down[k][j].type \notin {"end", "abort", "error"}
    BY <1>2, <2>1 DEF Coming
  <2> HIDE DEF u
  <2>5. ASSUME NEW j \in 1..(u + 1)
        PROVE  /\ down'[k][j].req = cli[h].req
               /\ down'[k][j].type \in IF cli[h].st = "answer" /\ j = 1 THEN {"file", "error"}
                                                                        ELSE {"data", "end", "abort"}
               /\ down'[k][j].type \in {"end", "abort", "error"} => j = u + 1 /\ m.type # "data"
    <3>1. CASE j \in 1..u
      BY <2>2, <2>4, <3>1
    <3>2. CASE j = u + 1
      <4>1. cli[h].st = "answer" => j # 1
        BY <2>2, <2>3, <3>2
      <4>2. m.req = cli[h].req
        BY <1>2, <1>3, <2>1 DEF Coming
      <4> QED BY <1>3, <2>2, <3>2, <4>1, <4>2
    <3> QED BY <2>2, <3>1, <3>2
  <2>6. down'[k] # <<>>
    BY <2>2, EmptyLen
  <2>7. Coming(h, k)'
    BY <1>2, <1>4, <1>6, <2>1, <2>2, <2>5, <2>6 DEF Coming
  <2> QED BY <2>1, <2>7
<1>7. ~Clean(k)
  BY <1>2 DEF Clean
<1> QED BY <1>2, <1>4, <1>5, <1>6, <1>7, HandlerStep

\* A handler ends when its connection is closed.
LEMMA ExchangeHandlerEnds == \A k \in Conns : TypeParts /\ ExchangeInv /\ HandlerEnds(k) => ExchangeInv'
<1> SUFFICES ASSUME NEW k \in Conns, TypeParts, ExchangeInv, HandlerEnds(k) PROVE ExchangeInv'
  OBVIOUS
<1>1. /\ srv[k].st \in {"idle", "body"} /\ k \notin alive /\ srv'[k].st = "done"
      /\ \A j \in Conns : j # k => srv'[j] = srv[j]
      /\ UNCHANGED <<files, alive, late, up, down, cli, locked>>
  BY HandlerEndsEffect DEF lines, clients
<1>2. ASSUME NEW j \in Conns, j # k PROVE Untouched(j)
  BY <1>1, <1>2 DEF Untouched, Alike, Holds, Marks, files
<1>3. ASSUME ExchangeOK(k) PROVE ExchangeOK(k)'
  <2>1. HandlerOK(k)'
    BY <1>1 DEF HandlerOK
  <2>2. \A h \in Threads : (Holds(h, k)' <=> Holds(h, k)) /\ (HeldOK(h, k) => HeldOK(h, k)')
    BY <1>1 DEF Holds, HeldOK
  <2> QED BY <1>1, <1>3, <2>1, <2>2 DEF ExchangeOK
<1> QED BY <1>1, <1>2, <1>3, ExchangeStep

\* A connection that broke carries nothing.
LEMMA ExchangeConnectionBreaks == \A k \in Conns : TypeParts /\ ExchangeInv /\ ConnectionBreaks(k) => ExchangeInv'
<1> SUFFICES ASSUME NEW k \in Conns, TypeParts, ExchangeInv, ConnectionBreaks(k) PROVE ExchangeInv'
  OBVIOUS
<1>1. /\ alive' = alive \ {k} /\ up'[k] = <<>> /\ down'[k] = <<>>
      /\ \A j \in Conns : j # k => up'[j] = up[j] /\ down'[j] = down[j]
      /\ UNCHANGED <<files, late, cli, locked, srv>>
  BY ConnectionBreaksEffect DEF clients
<1>2. ASSUME NEW j \in Conns, j # k PROVE Untouched(j)
  BY <1>1, <1>2 DEF Untouched, Alike, Holds, Marks, files
<1>3. ExchangeOK(k)'
  <2>1. IsBody(up'[k], 0)
    BY <1>1, EmptyLen DEF IsBody
  <2>2. HandlerOK(k)'
    BY <1>1, <2>1 DEF HandlerOK
  <2>3. \A h \in Threads : HeldOK(h, k)'
    BY <1>1 DEF HeldOK
  <2> QED BY <1>1, <2>2, <2>3 DEF ExchangeOK
<1> QED BY <1>1, <1>2, <1>3, ExchangeStep

\* The files change, the connections do not.
LEMMA ExchangeEnvironment == TypeParts /\ ExchangeInv /\ (EditInPlace \/ ReplaceThere \/ DiskFails) => ExchangeInv'
<1> SUFFICES ASSUME TypeParts, ExchangeInv, EditInPlace \/ ReplaceThere \/ DiskFails PROVE ExchangeInv'
  OBVIOUS
<1>1. /\ UNCHANGED <<lines, locked, up, down>> /\ committed \subseteq committed'
      /\ \A h \in Threads : Alike(cli'[h], cli[h])
      /\ \A k \in Conns : Alike(srv'[k], srv[k])
  <2>1. CASE EditInPlace \/ ReplaceThere
    BY <2>1 DEF EditInPlace, ReplaceThere, clients, Alike
  <2>2. CASE DiskFails
    BY <2>2, DiskFailsEffect DEF files
  <2> QED BY <2>1, <2>2
<1>2. \A k \in Conns : Untouched(k)
  BY <1>1 DEF Untouched, Alike, Holds, Marks, lines
<1> QED BY <1>1, <1>2, ExchangeKept DEF ExchangeInv, lines

\* No exchange has begun in the beginning.
LEMMA ExchangeInit == TransferInit => ExchangeInv
<1> SUFFICES ASSUME TransferInit PROVE ExchangeInv
  OBVIOUS
<1>1. (\A k \in Conns : up[k] = <<>> /\ down[k] = <<>> /\ srv[k] = Nothing) /\ locked = None
  BY DEF TransferInit
<1>2. \A k \in Conns : Clean(k) /\ HandlerOK(k) /\ \A h \in Threads : ~Holds(h, k)
  BY <1>1, NothingType, Bounds DEF Clean, HandlerOK, Holds
<1> QED BY <1>2 DEF ExchangeInv, ExchangeOK

\* Every step keeps the third invariant.
LEMMA ExchangeNext == TypeParts /\ ExchangeInv /\ [TransferNext]_transferVars => ExchangeInv'
<1> SUFFICES ASSUME TypeParts, ExchangeInv, [TransferNext]_transferVars PROVE ExchangeInv'
  OBVIOUS
<1>1. ASSUME NEW h \in Threads, BeginUpload(h) PROVE ExchangeInv'
  <2>1. PICK m \in Message, n \in 0..MaxSize : Begin(h, m, "send", n) /\ m = Msg("upload", n, requests + 1)
    BY <1>1, BeginUploadIs
  <2>2. m.type = "upload" /\ m.val = n
    BY <2>1, Messages
  <2>3. Begins(m, "send", n)
    BY <2>2 DEF Begins
  <2> QED BY <2>1, <2>3, ExchangeBegin
<1>2. ASSUME NEW h \in Threads, BeginDownload(h) PROVE ExchangeInv'
  <2>1. PICK m \in Message, n \in 0..MaxSize : Begin(h, m, "answer", n) /\ m = Msg("download", 0, requests + 1)
    BY <1>2, BeginDownloadIs
  <2>2. m.type = "download" /\ m.val = 0
    BY <2>1, Messages
  <2>3. Begins(m, "answer", n)
    BY <2>2 DEF Begins
  <2> QED BY <2>1, <2>3, ExchangeBegin
<1>3. ASSUME NEW h \in Threads,
             \/ TakeConnection(h) \/ CannotBegin(h) \/ ClientSends(h) \/ ClientHears(h)
             \/ ClientReceives(h) \/ ExchangeLost(h) \/ MarkLost(h)
      PROVE  ExchangeInv'
  BY ONLY <1>3, TypeParts, ExchangeInv, h \in Threads, ExchangeTakeConnection, ExchangeCannotBegin,
          ExchangeClientSends, ExchangeClientHears, ExchangeClientReceives, ExchangeExchangeLost,
          ExchangeMarkLost, Zenon
<1>4. ASSUME NEW k \in Conns,
             \/ TakeRequest(k) \/ ServerReceives(k) \/ CommitUpload(k) \/ AnswerUpload(k)
             \/ ServerSends(k) \/ HandlerEnds(k) \/ ConnectionBreaks(k)
      PROVE  ExchangeInv'
  BY ONLY <1>4, TypeParts, ExchangeInv, k \in Conns, ExchangeTakeRequest, ExchangeServerReceives,
          ExchangeCommitUpload, ExchangeAnswerUpload, ExchangeServerSends, ExchangeHandlerEnds,
          ExchangeConnectionBreaks, Zenon
<1>5. CASE UNCHANGED transferVars
  <2>1. \A k \in Conns : Untouched(k)
    BY <1>5 DEF transferVars, Untouched, Alike, Holds, Marks
  <2> QED BY <1>5, <2>1, ExchangeKept DEF ExchangeInv, transferVars
<1> QED BY <1>1, <1>2, <1>3, <1>4, <1>5, ExchangeEnvironment, Zenon DEF TransferNext

\* The first and the third invariant hold for ever.
LEMMA ExchangeAlways == TransferSpec => [](TypeParts /\ ExchangeInv)
BY ExchangeInit, TypeAlways, ExchangeNext, PTL DEF TransferSpec

\* What has arrived for the thread that waits is the first message of its answer.
LEMMA ArrivedHeld ==
  ASSUME TypeParts, ExchangeInv, NEW h \in Threads, Arrived(h), NEW k, k = cli[h].on
  PROVE  /\ Head(down[k]) = down[k][1] /\ down[k] # <<>> /\ k \in Conns
         /\ \/ cli[h].st = "reply" /\ Answered(h, k)
            \/ cli[h].st \in {"answer", "body"} /\ Coming(h, k)
<1>1. k \in Conns /\ k \notin late /\ down[k] # <<>> /\ locked = h
      /\ cli[h].st \in {"send", "reply", "answer", "body"}
  BY OneHolds DEF Arrived
<1>2. down[k] \in Seq(Message)
  BY <1>1, WireTypes
<1>3. Head(down[k]) = down[k][1]
  BY <1>1, <1>2, OneLess
<1>4. HeldOK(h, k)
  BY <1>1 DEF ExchangeInv, ExchangeOK, Holds
<1> QED BY <1>1, <1>3, <1>4 DEF HeldOK, UploadOK, Asked, Taken, Complete, Answered, Wanted

\* No late answer passes for the answer to the next request, and no side takes a
\* part of a file for a request or an answer, whatever breaks or fills up (transact,
\* recv_file_body, handle_request), except on a connection that is late.
THEOREM StreamCorrect == TransferSpec => []StreamInSync
<1>1. ASSUME TypeParts, ExchangeInv PROVE StreamInSync
  <2>1. ASSUME NEW h \in Threads, Arrived(h)
        PROVE  /\ Head(down[cli[h].on]).req = cli[h].req
               /\ Head(down[cli[h].on]).type \in
                     CASE cli[h].st \in {"send", "reply"} -> {"ok", "error"}
                       [] cli[h].st = "answer" -> {"file", "error"}
                       [] cli[h].st = "body" -> {"data", "end", "abort"}
    <3>1. PICK k : k = cli[h].on
      OBVIOUS
    <3>2. /\ Head(down[k]) = down[k][1] /\ down[k] # <<>> /\ k \in Conns
          /\ \/ cli[h].st = "reply" /\ Answered(h, k)
             \/ cli[h].st \in {"answer", "body"} /\ Coming(h, k)
      BY <1>1, <2>1, <3>1, ArrivedHeld
    <3>3. CASE cli[h].st = "reply" /\ Answered(h, k)
      BY <3>1, <3>2, <3>3 DEF Answered
    <3>4. CASE cli[h].st \in {"answer", "body"} /\ Coming(h, k)
      <4>1. /\ down[k][1].req = cli[h].req
            /\ down[k][1].type \in IF cli[h].st = "answer" THEN {"file", "error"} ELSE {"data", "end", "abort"}
        BY <1>1, <3>2, <3>4, ComingFirst
      <4> QED BY <3>1, <3>2, <3>4, <4>1
    <3> QED BY <3>2, <3>3, <3>4
  <2>2. ASSUME NEW k \in Conns \ late, up[k] # <<>>
        PROVE  /\ srv[k].st = "idle" => Head(up[k]).type \in {"upload", "download"}
               /\ srv[k].st = "body" => Head(up[k]).type \in {"data", "end", "abort"}
    <3>1. up[k] \in Seq(Message) /\ HandlerOK(k)
      BY <1>1, WireTypes DEF ExchangeInv, ExchangeOK
    <3>2. Head(up[k]) = up[k][1]
      BY <2>2, <3>1, OneLess
    <3>3. srv[k].st = "body" => Head(up[k]).type \in {"data", "end", "abort"}
      BY <2>2, <3>1, BodyShorter DEF HandlerOK
    <3> QED BY <2>2, <3>1, <3>2, <3>3 DEF HandlerOK
  <2> QED BY <2>1, <2>2 DEF StreamInSync
<1> QED BY <1>1, ExchangeAlways, PTL

\* An Ok means that all that the client announced and read was stored, for this
\* very request (upload, handle_upload), except on a connection that is late.
THEOREM OkCorrect == TransferSpec => []OkIsStored
<1>1. ASSUME TypeParts, ExchangeInv PROVE OkIsStored
  <2> SUFFICES ASSUME NEW h \in Threads, Arrived(h), cli[h].st = "reply", Head(down[cli[h].on]).type = "ok"
               PROVE  Stored(h)
    BY DEF OkIsStored, Stored
  <2>1. PICK k : k = cli[h].on
    OBVIOUS
  <2>2. Head(down[k]) = down[k][1] /\ Answered(h, k)
    BY <1>1, <2>1, ArrivedHeld
  <2> QED BY <2>1, <2>2 DEF Answered
<1> QED BY <1>1, ExchangeAlways, PTL
=============================================================================
