--------------------------- MODULE ClusterProofs ---------------------------
(***************************************************************************)
(* Proofs about module Cluster, for every value of its constants.          *)
(*                                                                         *)
(* First what each action does to the memory of the servers (the lemmas    *)
(* ...Effect), and that it stays sane: types, ids and lowest ids.  Then    *)
(* Leads(L), inductive as long as the primary L lives and no Election      *)
(* message to a live server goes without an answer.  Then one crash: Calm  *)
(* holds before it, Orphaned between the crash of the first server and the *)
(* election of another, and Leads of that other server after it.           *)
(***************************************************************************)
EXTENDS Cluster, FiniteSetTheorems, WellFoundedInduction, TLAPS

-----------------------------------------------------------------------------
(* Numbers and finite sets.                                                 *)

\* A set of numbers that is not empty has a least element: lowest_id_ and the next id.
LEMMA MinOf ==
    ASSUME NEW S \in SUBSET Nat, S # {}
    PROVE  Min(S) \in S /\ \A x \in S : Min(S) <= x
<1>. DEFINE R == OpToRel(<, Nat)
<1>1. PICK m \in S : \A y \in S : ~(<<y, m>> \in R)
  BY WFMin, NatLessThanWellFounded
<1>. HIDE DEF R
<1>2. ASSUME NEW y \in S PROVE m <= y
  <2>1. <<y, m>> \in Nat \X Nat /\ <<y, m>>[1] = y /\ <<y, m>>[2] = m
    OBVIOUS
  <2>2. y < m => <<y, m>> \in R
    BY <2>1, Zenon DEF R, OpToRel
  <2>. QED  BY <1>1, <2>2
<1>. QED  BY <1>2 DEF Min

\* What a function takes on a finite set is finite.
LEMMA FiniteImage ==
    ASSUME NEW S, IsFiniteSet(S), NEW f, DOMAIN f = S
    PROVE  IsFiniteSet({f[x] : x \in S})
<1>. DEFINE T == {f[x] : x \in S}
           g == [x \in S |-> f[x]]
<1>1. g \in Surjection(S, T)
  BY DEF Surjection
<1>. QED  BY <1>1, FS_Surjection

\* A finite set of numbers leaves one up to its size free, the number of a new connection.
LEMMA OneMore ==
    ASSUME NEW S, IsFiniteSet(S), S \subseteq Nat
    PROVE  \E n \in 0..Cardinality(S) : n \notin S
<1>1. Cardinality(S) \in Nat
  BY FS_CardinalityType
<1>2. Cardinality(0..Cardinality(S)) = Cardinality(S) + 1
  BY <1>1, FS_Interval
<1>3. SUFFICES ASSUME 0..Cardinality(S) \subseteq S PROVE FALSE
  OBVIOUS
<1>4. Cardinality(0..Cardinality(S)) <= Cardinality(S)
  BY <1>3, FS_Subset
<1>. QED  BY <1>1, <1>2, <1>4

-----------------------------------------------------------------------------
(* What the handlers do to a server.                                        *)

\* Who a server is and whom it follows.
SameWho(r, n) == r.id = n.id /\ r.role = n.role /\ r.primaryId = n.primaryId
\* members_ and lowest_id_.
SameLists(r, n) == r.members = n.members /\ r.lowest = n.lowest
\* What a primary has in hand: links_, lists to send, an attach, threads, a client's request.
SameWork(r, n) ==
    r.links = n.links /\ r.owed = n.owed /\ r.att = n.att /\ r.calls = n.calls /\ r.request = n.request
\* What a broadcast owes.
Notes(links, list) == [link : links, list : {list}]

\* The backup's end of its link.
SameEnd(r, n) == r.primaryLink = n.primaryLink

\* upsert only adds the member it is given, and it is in the list then.
LEMMA UpsertTyped ==
    ASSUME NEW list, NEW T, list \subseteq T, NEW m \in T
    PROVE  Upsert(list, m) \subseteq T /\ m \in Upsert(list, m)
BY DEF Upsert

\* broadcast_membership owes the list to every link, and changes nothing else.
LEMMA BroadcastEffect ==
    ASSUME NEW n \in Nodes
    PROVE  /\ Broadcast(n) \in Nodes
           /\ SameWho(Broadcast(n), n) /\ SameLists(Broadcast(n), n) /\ SameEnd(Broadcast(n), n)
           /\ Broadcast(n).links = n.links /\ Broadcast(n).att = n.att
           /\ Broadcast(n).calls = n.calls /\ Broadcast(n).request = n.request
           /\ Broadcast(n).elect = n.elect
           /\ Broadcast(n).owed = n.owed \cup Notes(n.links, n.members)
BY DEF Broadcast, Notes, Nodes, SameWho, SameLists, SameEnd

\* start_election starts an election thread unless one runs, and changes nothing else.
LEMMA StartElectionEffect ==
    ASSUME NEW n \in Nodes
    PROVE  /\ StartElection(n) \in Nodes
           /\ SameWho(StartElection(n), n) /\ SameLists(StartElection(n), n)
           /\ SameWork(StartElection(n), n) /\ SameEnd(StartElection(n), n)
           /\ StartElection(n).elect.phase = IF n.elect.phase = "none" THEN "start" ELSE n.elect.phase
           /\ StartElection(n).elect.todo = n.elect.todo
           /\ StartElection(n).elect.others = n.elect.others
           /\ StartElection(n).elect.alive = n.elect.alive
BY DEF StartElection, Nodes, SameWho, SameLists, SameWork, SameEnd

\* A primary that steps down becomes a backup without links; nobody else loses any.
LEMMA StepDownEffect ==
    ASSUME NEW n \in Nodes
    PROVE  /\ StepDown(n) \in Nodes
           /\ StepDown(n).id = n.id /\ StepDown(n).role = "backup"
           /\ SameLists(StepDown(n), n) /\ SameEnd(StepDown(n), n)
           /\ StepDown(n).links = (IF n.role = "primary" THEN {} ELSE n.links)
           /\ StepDown(n).owed = n.owed /\ StepDown(n).att = n.att
           /\ StepDown(n).calls = n.calls /\ StepDown(n).request = n.request
           /\ StepDown(n).elect = n.elect
<1>. DEFINE left == IF n.role = "primary" THEN {} ELSE n.links
<1>1. StepDown(n) = [n EXCEPT !.role = "backup", !.links = left]
  BY DEF StepDown
<1>2. left \in SUBSET Links
  BY DEF Nodes
<1>. HIDE DEF left
<1>3. ASSUME NEW r, r = [n EXCEPT !.role = "backup", !.links = left]
      PROVE  /\ r \in Nodes /\ r.id = n.id /\ r.role = "backup"
             /\ SameLists(r, n) /\ SameEnd(r, n)
             /\ r.links = left /\ r.owed = n.owed /\ r.att = n.att
             /\ r.calls = n.calls /\ r.request = n.request /\ r.elect = n.elect
  BY ONLY <1>3, <1>2, n \in Nodes DEF Nodes, SameLists, SameEnd
<1>. QED  BY <1>1, <1>3 DEF left

\* A server that follows a leader is a backup under this leader's id.
LEMMA FollowEffect ==
    ASSUME NEW n \in Nodes, NEW leader \in Members
    PROVE  /\ Follow(n, leader) \in Nodes
           /\ Follow(n, leader).id = n.id /\ Follow(n, leader).role = "backup"
           /\ Follow(n, leader).primaryId = leader.id
           /\ SameLists(Follow(n, leader), n) /\ SameEnd(Follow(n, leader), n)
           /\ Follow(n, leader).links = (IF n.role = "primary" THEN {} ELSE n.links)
           /\ Follow(n, leader).owed = n.owed /\ Follow(n, leader).att = n.att
           /\ Follow(n, leader).calls = n.calls /\ Follow(n, leader).request = n.request
           /\ Follow(n, leader).elect = n.elect
<1>. DEFINE a == StepDown(n)
<1>1. Follow(n, leader) = [a EXCEPT !.primary = leader.srv, !.primaryId = leader.id,
                                    !.known = TRUE, !.seen = TRUE]
  BY DEF Follow
<1>2. leader.srv \in Servers \cup {None} /\ leader.id \in 0..FirstId
  BY ClusterAssumption DEF Members
<1>. HIDE DEF a
<1>3. LET r == Follow(n, leader) IN
      /\ r \in Nodes /\ r.id = a.id /\ r.role = a.role /\ r.primaryId = leader.id
      /\ SameLists(r, a) /\ SameEnd(r, a) /\ SameWork(r, a) /\ r.elect = a.elect
  <2>1. a \in Nodes
    BY StepDownEffect DEF a
  <2>. QED  BY ONLY <1>1, <1>2, <2>1 DEF Nodes, SameLists, SameEnd, SameWork
<1>. QED  BY <1>3, StepDownEffect DEF a, SameLists, SameEnd, SameWork

\* handle_coordinator answers a lower id with an election and follows any other.
LEMMA HandleCoordinatorEffect ==
    ASSUME NEW n \in Nodes, NEW leader \in Members
    PROVE  LET r == HandleCoordinator(n, leader) IN
           /\ r \in Nodes
           /\ leader.id < n.id => r = StartElection(n)
           /\ leader.id >= n.id =>
                 /\ r.id = n.id /\ r.role = "backup" /\ r.primaryId = leader.id
                 /\ r.members = Upsert(n.members, leader) /\ r.lowest = n.lowest
                 /\ SameEnd(r, n)
                 /\ r.links = (IF n.role = "primary" THEN {} ELSE n.links)
                 /\ r.owed = n.owed /\ r.att = n.att
                 /\ r.calls = n.calls /\ r.request = n.request /\ r.elect = n.elect
<1>. DEFINE a == Follow(n, leader)
<1>1. CASE leader.id < n.id
  BY <1>1, StartElectionEffect DEF HandleCoordinator, Members, Nodes
<1>2. CASE ~(leader.id < n.id)
  <2>1. HandleCoordinator(n, leader) = [a EXCEPT !.members = Upsert(a.members, leader)]
    BY <1>2 DEF HandleCoordinator
  <2>2. a \in Nodes
    BY FollowEffect
  <2>3. Upsert(a.members, leader) \in SUBSET Members
    BY <2>2, UpsertTyped DEF Nodes
  <2>4. SameLists(a, n)
    BY FollowEffect
  <2>. HIDE DEF a
  <2>5. LET r == HandleCoordinator(n, leader) IN
        /\ r \in Nodes /\ SameWho(r, a) /\ r.members = Upsert(a.members, leader)
        /\ r.lowest = a.lowest /\ SameEnd(r, a) /\ SameWork(r, a) /\ r.elect = a.elect
    BY ONLY <2>1, <2>2, <2>3 DEF Nodes, SameWho, SameEnd, SameWork
  <2>. QED  BY <1>2, <2>4, <2>5, FollowEffect DEF a, SameWho, SameLists, SameEnd, SameWork
<1>. QED  BY <1>1, <1>2

\* handle_replica_attach follows the sender, takes its list and the new link.
LEMMA HandleReplicaAttachEffect ==
    ASSUME NEW n \in Nodes, NEW leader \in Members, NEW list \in SUBSET Members,
           NEW me \in Members, NEW link \in [srv : Servers, no : Nat]
    PROVE  LET r == HandleReplicaAttach(n, leader, list, me, link) IN
           /\ r \in Nodes
           /\ r.id = n.id /\ r.role = "backup" /\ r.primaryId = leader.id
           /\ r.members = Upsert(list, me) /\ r.lowest = n.lowest /\ r.primaryLink = link
           /\ r.links = (IF n.role = "primary" THEN {} ELSE n.links)
           /\ r.owed = n.owed /\ r.att = n.att
           /\ r.calls = n.calls /\ r.request = n.request /\ r.elect = n.elect
<1>. DEFINE a == Follow(n, leader)
<1>1. HandleReplicaAttach(n, leader, list, me, link)
        = [a EXCEPT !.members = Upsert(list, me), !.primaryLink = link]
  BY DEF HandleReplicaAttach
<1>2. a \in Nodes
  BY FollowEffect
<1>3. Upsert(list, me) \in SUBSET Members
  BY UpsertTyped
<1>. HIDE DEF a
<1>4. ASSUME NEW r, r = [a EXCEPT !.members = Upsert(list, me), !.primaryLink = link]
      PROVE  /\ r \in Nodes /\ SameWho(r, a) /\ r.members = Upsert(list, me)
             /\ r.lowest = a.lowest /\ r.primaryLink = link
             /\ SameWork(r, a) /\ r.elect = a.elect
  <2>1. link \in [srv : Servers, no : Nat] \cup {None}
    OBVIOUS
  <2>. QED  BY ONLY <1>4, <1>2, <1>3, <2>1 DEF Nodes, SameWho, SameWork
<1>. QED  BY <1>1, <1>4, FollowEffect DEF a, SameWho, SameLists, SameWork

\* handle_election has a primary announce itself, and any other hold an election.
LEMMA HandleElectionEffect ==
    ASSUME NEW n \in Nodes, NEW candidate \in Members
    PROVE  LET r == HandleElection(n, candidate) IN
           /\ r \in Nodes
           /\ n.role # "primary" => r = StartElection(n)
           /\ n.role = "primary" =>
                 /\ SameWho(r, n) /\ SameLists(r, n) /\ SameEnd(r, n)
                 /\ r.links = n.links /\ r.owed = n.owed /\ r.att = n.att
                 /\ r.calls = n.calls \cup {[kind |-> "announce", m |-> candidate]}
                 /\ r.request = n.request /\ r.elect = n.elect
<1>1. CASE n.role # "primary"
  BY <1>1, StartElectionEffect DEF HandleElection
<1>2. CASE n.role = "primary"
  <2>1. HandleElection(n, candidate)
          = [n EXCEPT !.calls = n.calls \cup {[kind |-> "announce", m |-> candidate]}]
    BY <1>2 DEF HandleElection
  <2>2. [kind |-> "announce", m |-> candidate] \in Calls
    BY DEF Calls
  <2>. QED  BY <1>2, <2>1, <2>2 DEF Nodes, SameWho, SameLists, SameEnd
<1>. QED  BY <1>1, <1>2

\* add_member changes members_ and lowest_id_ only.
LEMMA AddMemberEffect ==
    ASSUME NEW n \in Nodes, NEW m \in Members
    PROVE  LET r == AddMember(n, m) IN
           /\ r \in Nodes /\ SameWho(r, n) /\ SameEnd(r, n) /\ SameWork(r, n) /\ r.elect = n.elect
           /\ r.members = Upsert(n.members, m)
           /\ r.lowest = IF n.lowest = 0 \/ m.id < n.lowest THEN m.id ELSE n.lowest
<1>. DEFINE low == IF n.lowest = 0 \/ m.id < n.lowest THEN m.id ELSE n.lowest
           list == Upsert(n.members, m)
<1>2. low \in 0..FirstId
  BY ClusterAssumption DEF Members, Nodes
<1>3. AddMember(n, m) = [n EXCEPT !.members = list, !.lowest = low]
  BY DEF AddMember
<1>5. list \in SUBSET Members
  BY UpsertTyped DEF Nodes
<1>. HIDE DEF low, list
<1>4. ASSUME NEW r, r = [n EXCEPT !.members = list, !.lowest = low]
      PROVE  /\ r \in Nodes /\ SameWho(r, n) /\ SameEnd(r, n) /\ SameWork(r, n)
             /\ r.elect = n.elect /\ r.members = list /\ r.lowest = low
  BY ONLY n \in Nodes, <1>2, <1>4, <1>5 DEF Nodes, SameWho, SameEnd, SameWork
<1>. QED  BY <1>3, <1>4 DEF low, list

\* Of a link and of a member that go: what is left of both lists.
LEMMA DropLinkEffect ==
    ASSUME NEW n \in Nodes, NEW i
    PROVE  LET r == DropLink(n, i) IN
           /\ r \in Nodes /\ SameWho(r, n) /\ r.lowest = n.lowest /\ SameEnd(r, n)
           /\ r.att = n.att /\ r.calls = n.calls /\ r.request = n.request /\ r.elect = n.elect
           /\ IF i \in Ids(n.links)
                THEN /\ r.links = Without(n.links, i) /\ r.members = Without(n.members, i)
                     /\ r.owed = n.owed \cup Notes(r.links, r.members)
                ELSE r = n
<1>1. CASE i \in Ids(n.links)
  <2>. DEFINE a == [n EXCEPT !.links = Without(n.links, i), !.members = Without(n.members, i)]
  <2>1. DropLink(n, i) = Broadcast(a)
    BY <1>1 DEF DropLink
  <2>2. Without(n.links, i) \in SUBSET Links /\ Without(n.members, i) \in SUBSET Members
    BY DEF Without, Nodes
  <2>3. /\ a \in Nodes /\ SameWho(a, n) /\ a.lowest = n.lowest /\ SameEnd(a, n)
        /\ a.att = n.att /\ a.calls = n.calls /\ a.request = n.request /\ a.elect = n.elect
        /\ a.links = Without(n.links, i) /\ a.members = Without(n.members, i) /\ a.owed = n.owed
    BY <2>2 DEF Nodes, SameWho, SameEnd
  <2>. HIDE DEF a
  <2>. QED  BY <1>1, <2>1, <2>3, BroadcastEffect DEF SameWho, SameLists, SameEnd
<1>2. CASE i \notin Ids(n.links)
  BY <1>2 DEF DropLink, SameWho, SameEnd
<1>. QED  BY <1>1, <1>2

\* What NextLoop may do.
GoesOn(r, n) ==
    \/ /\ r.elect.phase = n.elect.phase /\ r.elect.others = n.elect.others
       /\ r.elect.todo \subseteq n.elect.todo
    \/ /\ n.elect.phase = "announce" /\ r.elect.phase = "attach"
       /\ r.elect.others = n.elect.others /\ r.elect.todo = n.elect.others
    \/ /\ n.elect.phase \in {"announce", "attach"} /\ r.elect.phase = "broadcast"
       /\ r.elect.others = r.members /\ r.elect.todo = r.links
    \/ r.elect = NotElecting

\* The phases of the election thread.
Phases == {"none", "start", "ask", "announce", "attach", "broadcast"}
\* What an election thread keeps.
Elects == [phase : Phases, todo : SUBSET (Members \cup Links), others : SUBSET Members,
           alive : BOOLEAN]

\* A server whose election thread has gone on.
WithElect(n, phase, todo, others) ==
    [n EXCEPT !.elect = [n.elect EXCEPT !.phase = phase, !.todo = todo, !.others = others]]

\* What an election thread keeps is a record of these fields.
LEMMA ElectTyped == \A n \in Nodes : n.elect \in Elects
BY DEF Nodes, Elects, Phases

\* A server whose election thread goes on is a server, else as it was.
LEMMA ElectChange ==
    ASSUME NEW n \in Nodes, NEW phase \in Phases,
           NEW todo \in SUBSET (Members \cup Links), NEW others \in SUBSET Members
    PROVE  LET r == WithElect(n, phase, todo, others) IN
           /\ r \in Nodes /\ SameWho(r, n) /\ SameLists(r, n) /\ SameWork(r, n) /\ SameEnd(r, n)
           /\ r.elect.phase = phase /\ r.elect.todo = todo /\ r.elect.others = others
           /\ r.elect.alive = n.elect.alive
<1>. DEFINE e == [n.elect EXCEPT !.phase = phase, !.todo = todo, !.others = others]
<1>1. /\ e \in Elects
      /\ e.phase = phase /\ e.todo = todo /\ e.others = others /\ e.alive = n.elect.alive
  BY ElectTyped DEF Elects
<1>2. WithElect(n, phase, todo, others) = [n EXCEPT !.elect = e]
  BY DEF WithElect
<1>. HIDE DEF e
<1>3. ASSUME NEW r, r = [n EXCEPT !.elect = e]
      PROVE  /\ r \in Nodes /\ SameWho(r, n) /\ SameLists(r, n) /\ SameWork(r, n)
             /\ SameEnd(r, n) /\ r.elect = e
  BY ONLY n \in Nodes, <1>1, <1>3
     DEF Nodes, Elects, Phases, SameWho, SameLists, SameWork, SameEnd
<1>. QED  BY <1>1, <1>2, <1>3

\* A server whose election ends is a server, else as it was.
LEMMA NoElection ==
    ASSUME NEW n \in Nodes, NEW r, r = [n EXCEPT !.elect = NotElecting]
    PROVE  /\ r \in Nodes /\ SameWho(r, n) /\ SameLists(r, n) /\ SameWork(r, n) /\ SameEnd(r, n)
           /\ r.elect = NotElecting
<1>1. NotElecting \in Elects
  BY DEF NotElecting, Elects, Phases
<1>. QED  BY ONLY n \in Nodes, r = [n EXCEPT !.elect = NotElecting], <1>1
          DEF Nodes, Elects, Phases, SameWho, SameLists, SameWork, SameEnd

\* become_primary goes on to its next loop, or stays where it is, and changes nothing else.
LEMMA NextLoopEffect ==
    ASSUME NEW n \in Nodes
    PROVE  LET r == NextLoop(n) IN
           /\ r \in Nodes /\ SameWho(r, n) /\ SameLists(r, n) /\ SameWork(r, n) /\ SameEnd(r, n)
           /\ GoesOn(r, n)
<1>. DEFINE a == IF n.elect.phase = "announce" /\ n.elect.todo = {}
                   THEN [n EXCEPT !.elect.phase = "attach", !.elect.todo = n.elect.others] ELSE n
            b == IF a.elect.phase = "attach" /\ a.elect.todo = {}
                   THEN [a EXCEPT !.elect.phase = "broadcast", !.elect.todo = a.links,
                                  !.elect.others = a.members] ELSE a
            c == IF b.elect.phase = "broadcast" /\ b.elect.todo = {}
                   THEN [b EXCEPT !.elect = NotElecting] ELSE b
<1>1. /\ a \in Nodes /\ SameWho(a, n) /\ SameLists(a, n) /\ SameWork(a, n) /\ SameEnd(a, n)
      /\ a = n \/ /\ n.elect.phase = "announce" /\ a.elect.phase = "attach"
                  /\ a.elect.todo = n.elect.others /\ a.elect.others = n.elect.others
  <2>1. CASE a = n
    BY <2>1 DEF SameWho, SameLists, SameWork, SameEnd
  <2>2. CASE /\ n.elect.phase = "announce"
             /\ a = [n EXCEPT !.elect.phase = "attach", !.elect.todo = n.elect.others]
    <3>1. n.elect \in Elects
      BY ElectTyped
    <3>2. a = WithElect(n, "attach", n.elect.others, n.elect.others)
      BY ONLY <2>2, <3>1, n \in Nodes DEF WithElect, Elects, Nodes
    <3>3. "attach" \in Phases /\ n.elect.others \in SUBSET (Members \cup Links)
          /\ n.elect.others \in SUBSET Members
      BY <3>1 DEF Elects, Phases
    <3>. QED  BY <2>2, <3>2, <3>3, ElectChange
  <2>. QED  BY <2>1, <2>2
<1>. HIDE DEF a
<1>2. /\ b \in Nodes /\ SameWho(b, a) /\ SameLists(b, a) /\ SameWork(b, a) /\ SameEnd(b, a)
      /\ b = a \/ /\ a.elect.phase = "attach" /\ b.elect.phase = "broadcast"
                  /\ b.elect.todo = a.links /\ b.elect.others = a.members
  <2>1. CASE b = a
    BY <1>1, <2>1 DEF SameWho, SameLists, SameWork, SameEnd
  <2>2. CASE /\ a.elect.phase = "attach"
             /\ b = [a EXCEPT !.elect.phase = "broadcast", !.elect.todo = a.links,
                              !.elect.others = a.members]
    <3>1. /\ a.links \in SUBSET (Members \cup Links) /\ a.members \in SUBSET Members
          /\ a.elect \in Elects /\ "broadcast" \in Phases /\ a \in Nodes
      BY <1>1, ElectTyped DEF Nodes, Phases
    <3>2. b = WithElect(a, "broadcast", a.links, a.members)
      BY ONLY <2>2, <3>1 DEF WithElect, Elects, Nodes
    <3>. QED  BY <1>1, <2>2, <3>1, <3>2, ElectChange
  <2>. QED  BY <2>1, <2>2
<1>. HIDE DEF b
<1>3. /\ c \in Nodes /\ SameWho(c, b) /\ SameLists(c, b) /\ SameWork(c, b) /\ SameEnd(c, b)
      /\ c = b \/ c.elect = NotElecting
  BY <1>2, NoElection DEF SameWho, SameLists, SameWork, SameEnd
<1>4. NextLoop(n) = c
  BY DEF NextLoop, a, b
<1>. HIDE DEF c
<1>5. SameWho(c, n) /\ SameLists(c, n) /\ SameWork(c, n) /\ SameEnd(c, n)
  BY <1>1, <1>2, <1>3 DEF SameWho, SameLists, SameWork, SameEnd
<1>6. GoesOn(c, n)
  BY <1>1, <1>2, <1>3 DEF GoesOn, SameLists, SameWork
<1>. QED  BY <1>3, <1>4, <1>5, <1>6

\* After a member was called, become_primary goes on with the others.
LEMMA CalledEffect ==
    ASSUME NEW n \in Nodes, NEW m
    PROVE  LET r == Called(n, m) IN
           /\ r \in Nodes /\ SameWho(r, n) /\ SameLists(r, n) /\ SameWork(r, n) /\ SameEnd(r, n)
           /\ GoesOn(r, n)
<1>. DEFINE a == [n EXCEPT !.elect.todo = n.elect.todo \ {m}]
<1>1. n.elect \in Elects
  BY ElectTyped
<1>2. a = WithElect(n, n.elect.phase, n.elect.todo \ {m}, n.elect.others)
  BY ONLY <1>1, n \in Nodes DEF WithElect, Elects, Nodes
<1>7. n.elect.phase \in Phases /\ n.elect.todo \ {m} \in SUBSET (Members \cup Links)
      /\ n.elect.others \in SUBSET Members
  BY <1>1 DEF Elects
<1>4. Called(n, m) = NextLoop(a)
  BY DEF Called
<1>. HIDE DEF a
<1>3. /\ a \in Nodes /\ SameWho(a, n) /\ SameLists(a, n) /\ SameWork(a, n) /\ SameEnd(a, n)
      /\ a.elect.phase = n.elect.phase /\ a.elect.todo = n.elect.todo \ {m}
      /\ a.elect.others = n.elect.others
  BY <1>2, <1>7, ElectChange
<1>5. LET r == NextLoop(a) IN
      /\ r \in Nodes /\ SameWho(r, a) /\ SameLists(r, a) /\ SameWork(r, a) /\ SameEnd(r, a)
      /\ GoesOn(r, a)
  BY <1>3, NextLoopEffect
<1>6. GoesOn(NextLoop(a), n)
  BY <1>3, <1>5 DEF GoesOn
<1>. QED  BY <1>3, <1>4, <1>5, <1>6 DEF SameWho, SameLists, SameWork, SameEnd

-----------------------------------------------------------------------------
(* What the handlers keep.                                                  *)

\* An attach that succeeded leaves one link to the backup's id, and its caller is done.
LEMMA AttachSucceededEffect ==
    ASSUME NEW n \in Nodes, NEW m \in Members, NEW no \in Nat, NEW by
    PROVE  LET r == AttachSucceeded(n, m, no, by)
               l == [id |-> m.id, srv |-> m.srv, no |-> no] IN
           /\ r \in Nodes /\ SameWho(r, n) /\ SameLists(r, n) /\ SameEnd(r, n)
           /\ r.att = None /\ r.calls = n.calls \ {by} /\ r.request = n.request
           /\ r.links = Upsert(n.links, l)
           /\ by = None => GoesOn(r, n) /\ r.owed = n.owed
           /\ by # None => /\ r.elect = n.elect
                           /\ r.owed = n.owed \cup Notes(r.links, n.members)
<1>. DEFINE l == [id |-> m.id, srv |-> m.srv, no |-> no]
            links == Upsert(n.links, l)
            left == n.calls \ {by}
            a == [n EXCEPT !.att = None, !.calls = left, !.links = links]
<1>1. AttachSucceeded(n, m, no, by) = IF by = None THEN Called(a, m) ELSE Broadcast(a)
  BY DEF AttachSucceeded
<1>2. links \in SUBSET Links
  <2>1. l \in Links
    BY DEF Links, Members
  <2>. QED  BY <2>1, UpsertTyped DEF Nodes
<1>3. left \in SUBSET Calls
  BY DEF Nodes
<1>. HIDE DEF links, left
<1>4. /\ a \in Nodes /\ SameWho(a, n) /\ SameLists(a, n) /\ SameEnd(a, n)
      /\ a.att = None /\ a.calls = left /\ a.request = n.request
      /\ a.links = links /\ a.owed = n.owed /\ a.elect = n.elect
  BY ONLY <1>2, <1>3, n \in Nodes DEF Nodes, SameWho, SameLists, SameEnd
<1>. HIDE DEF a
<1>5. CASE by = None
  <2>1. LET r == Called(a, m) IN
        /\ r \in Nodes /\ SameWho(r, a) /\ SameLists(r, a) /\ SameWork(r, a) /\ SameEnd(r, a)
        /\ GoesOn(r, a)
    BY <1>4, CalledEffect
  <2>2. GoesOn(Called(a, m), n)
    BY <1>4, <2>1 DEF GoesOn
  <2>. QED  BY <1>1, <1>4, <1>5, <2>1, <2>2
            DEF SameWho, SameLists, SameWork, SameEnd, links, left
<1>6. CASE by # None
  BY <1>1, <1>4, <1>6, BroadcastEffect DEF SameWho, SameLists, SameEnd, links, left
<1>. QED  BY <1>5, <1>6

\* handle_join's call of attach_replica.
IsJoin(by) == by # None /\ by.kind = "join"

\* An attach that failed takes the member from the list, and its caller is done.
LEMMA AttachFailedEffect ==
    ASSUME NEW n \in Nodes, NEW m \in Members, NEW by
    PROVE  LET r == AttachFailed(n, m, by) IN
           /\ r \in Nodes /\ SameWho(r, n) /\ SameEnd(r, n)
           /\ r.members = Without(n.members, m.id) /\ r.lowest = n.lowest
           /\ r.att = None /\ r.calls = n.calls \ {by} /\ r.request = n.request
           /\ r.links = n.links
           /\ by = None => GoesOn(r, n)
           /\ by # None => r.elect = n.elect
           /\ IsJoin(by) => r.owed = n.owed \cup Notes(r.links, r.members)
           /\ ~IsJoin(by) => r.owed = n.owed
<1>. DEFINE list == Without(n.members, m.id)
            left == n.calls \ {by}
            a == [n EXCEPT !.att = None, !.calls = left, !.members = list]
<1>1. AttachFailed(n, m, by)
        = CASE by = None -> Called(a, m)
            [] by # None /\ by.kind = "join" -> Broadcast(a)
            [] OTHER -> a
  BY DEF AttachFailed
<1>2. list \in SUBSET Members
  BY DEF Without, Nodes
<1>3. left \in SUBSET Calls
  BY DEF Nodes
<1>. HIDE DEF list, left
<1>4. /\ a \in Nodes /\ SameWho(a, n) /\ a.members = list /\ a.lowest = n.lowest /\ SameEnd(a, n)
      /\ a.att = None /\ a.calls = left /\ a.request = n.request
      /\ a.links = n.links /\ a.owed = n.owed /\ a.elect = n.elect
  BY ONLY <1>2, <1>3, n \in Nodes DEF Nodes, SameWho, SameLists, SameEnd
<1>. HIDE DEF a
<1>5. CASE by = None
  <2>1. LET r == Called(a, m) IN
        /\ r \in Nodes /\ SameWho(r, a) /\ SameLists(r, a) /\ SameWork(r, a) /\ SameEnd(r, a)
        /\ GoesOn(r, a)
    BY <1>4, CalledEffect
  <2>2. GoesOn(Called(a, m), n)
    BY <1>4, <2>1 DEF GoesOn
  <2>. QED  BY <1>1, <1>4, <1>5, <2>1, <2>2
            DEF SameWho, SameLists, SameWork, SameEnd, list, left, IsJoin
<1>6. CASE by # None /\ by.kind = "join"
  BY <1>1, <1>4, <1>6, BroadcastEffect DEF SameWho, SameLists, SameEnd, list, left, IsJoin
<1>7. CASE by # None /\ by.kind # "join"
  BY <1>1, <1>4, <1>7 DEF list, left, IsJoin
<1>. QED  BY <1>5, <1>6, <1>7

-----------------------------------------------------------------------------
(* What holds of every process.                                             *)

\* Whom a new primary attaches are members, whom it tells are links.
TodoFits(e) ==
    /\ e.phase = "attach" => e.todo \subseteq Members
    /\ e.phase = "broadcast" => e.todo \subseteq Links

\* What holds of the memory of one server whatever the others do: before it joins it has
\* nothing, then it has an id, and a primary knows the lowest id given.
Sane(n) ==
    /\ n.role = "joining" => n = Fresh
    /\ n.role # "joining" => n.id # 0
    /\ n.role = "primary" => n.lowest # 0
    /\ IsFiniteSet(n.links) /\ IsFiniteSet(n.owed)
    /\ TodoFits(n.elect)

\* upsert keeps a list finite.
LEMMA FiniteUpsert ==
    ASSUME NEW list, IsFiniteSet(list), NEW m
    PROVE  IsFiniteSet(Upsert(list, m))
<1>1. IsFiniteSet({x \in list : x.id # m.id})
  BY FS_Subset
<1>. QED  BY <1>1, FS_AddElement DEF Upsert

\* remove_member keeps a list finite.
LEMMA FiniteWithout ==
    ASSUME NEW list, IsFiniteSet(list), NEW i
    PROVE  IsFiniteSet(Without(list, i))
BY FS_Subset DEF Without

\* A broadcast owes finitely many lists.
LEMMA FiniteOwed ==
    ASSUME NEW links, IsFiniteSet(links), NEW list
    PROVE  IsFiniteSet(Notes(links, list))
<1>. DEFINE f == [l \in links |-> [link |-> l, list |-> list]]
<1>1. IsFiniteSet({f[l] : l \in links})
  <2>1. DOMAIN f = links
    OBVIOUS
  <2>. HIDE DEF f
  <2>. QED  BY <2>1, FiniteImage
<1>2. ASSUME NEW x \in Notes(links, list) PROVE x \in {f[l] : l \in links}
  <2>1. x.link \in links /\ x = [link |-> x.link, list |-> list]
    BY DEF Notes
  <2>. QED  BY <2>1
<1>. QED  BY <1>1, <1>2, FS_Subset

\* With what a broadcast adds, finitely many lists are owed.
LEMMA FiniteBroadcast ==
    ASSUME NEW owed, IsFiniteSet(owed), NEW links, IsFiniteSet(links), NEW list
    PROVE  IsFiniteSet(owed \cup Notes(links, list))
BY FiniteOwed, FS_Union

\* Wherever become_primary goes on, it has members to attach or links to tell.
LEMMA GoesOnSane ==
    ASSUME NEW n \in Nodes, NEW r \in Nodes, Sane(n), GoesOn(r, n)
    PROVE  TodoFits(r.elect)
<1>1. n.elect \in Elects /\ r.links \subseteq Links
  BY ElectTyped DEF Nodes
<1>. QED  BY <1>1 DEF Sane, TodoFits, GoesOn, NotElecting, Elects

\* The handlers of a server that has joined keep its memory sane.
LEMMA SaneHandlers ==
    ASSUME NEW n \in Nodes, Sane(n), n.role # "joining"
    PROVE  /\ StartElection(n) \in Nodes /\ Sane(StartElection(n))
           /\ \A m \in Members :
                 /\ HandleCoordinator(n, m) \in Nodes /\ Sane(HandleCoordinator(n, m))
                 /\ HandleElection(n, m) \in Nodes /\ Sane(HandleElection(n, m))
                 /\ AddMember(n, m) \in Nodes /\ Sane(AddMember(n, m))
           /\ \A i : DropLink(n, i) \in Nodes /\ Sane(DropLink(n, i))
           /\ \A m : Called(n, m) \in Nodes /\ Sane(Called(n, m))
<1>1. StartElection(n) \in Nodes /\ Sane(StartElection(n))
  BY StartElectionEffect DEF Sane, TodoFits, SameWho, SameLists, SameWork
<1>2. ASSUME NEW m \in Members
      PROVE  HandleCoordinator(n, m) \in Nodes /\ Sane(HandleCoordinator(n, m))
  <2>1. CASE m.id < n.id
    BY <1>1, <2>1, HandleCoordinatorEffect
  <2>2. CASE m.id >= n.id
    BY <2>2, HandleCoordinatorEffect, FS_EmptySet DEF Sane
  <2>. QED  BY <2>1, <2>2 DEF Members, Nodes
<1>3. ASSUME NEW m \in Members
      PROVE  HandleElection(n, m) \in Nodes /\ Sane(HandleElection(n, m))
  <2>1. CASE n.role = "primary"
    BY <2>1, HandleElectionEffect DEF Sane, SameWho, SameLists
  <2>2. CASE n.role # "primary"
    BY <1>1, <2>2, HandleElectionEffect
  <2>. QED  BY <2>1, <2>2
<1>4. ASSUME NEW m \in Members
      PROVE  AddMember(n, m) \in Nodes /\ Sane(AddMember(n, m))
  <2>1. m.id # 0
    BY ClusterAssumption DEF Members
  <2>. QED  BY <2>1, AddMemberEffect DEF Sane, SameWho, SameWork
<1>5. ASSUME NEW i PROVE DropLink(n, i) \in Nodes /\ Sane(DropLink(n, i))
  <2>1. CASE i \in Ids(n.links)
    BY <2>1, DropLinkEffect, FiniteWithout, FiniteBroadcast DEF Sane, SameWho
  <2>2. CASE i \notin Ids(n.links)
    BY <2>2, DropLinkEffect
  <2>. QED  BY <2>1, <2>2
<1>6. ASSUME NEW m PROVE Called(n, m) \in Nodes /\ Sane(Called(n, m))
  <2>1. GoesOn(Called(n, m), n) /\ Called(n, m) \in Nodes
    BY CalledEffect
  <2>2. TodoFits(Called(n, m).elect)
    BY <2>1, GoesOnSane
  <2>. QED  BY <2>1, <2>2, CalledEffect DEF Sane, SameWho, SameLists, SameWork
<1>. QED  BY <1>1, <1>2, <1>3, <1>4, <1>5, <1>6

\* So do both ends of an attach.
LEMMA SaneAttach ==
    ASSUME NEW n \in Nodes, Sane(n), n.role # "joining", NEW m \in Members, NEW by
    PROVE  /\ AttachFailed(n, m, by) \in Nodes /\ Sane(AttachFailed(n, m, by))
           /\ \A no \in Nat : /\ AttachSucceeded(n, m, no, by) \in Nodes
                              /\ Sane(AttachSucceeded(n, m, no, by))
           /\ \A leader \in Members, list \in SUBSET Members, me \in Members,
                 link \in [srv : Servers, no : Nat] :
                 /\ HandleReplicaAttach(n, leader, list, me, link) \in Nodes
                 /\ Sane(HandleReplicaAttach(n, leader, list, me, link))
<1>1. AttachFailed(n, m, by) \in Nodes /\ Sane(AttachFailed(n, m, by))
  <2>. DEFINE r == AttachFailed(n, m, by)
  <2>1. /\ r \in Nodes /\ SameWho(r, n) /\ r.lowest = n.lowest /\ r.links = n.links
        /\ by = None => GoesOn(r, n)
        /\ by # None => r.elect = n.elect
        /\ IsJoin(by) => r.owed = n.owed \cup Notes(r.links, r.members)
        /\ ~IsJoin(by) => r.owed = n.owed
    BY AttachFailedEffect
  <2>. HIDE DEF r
  <2>2. IsFiniteSet(r.owed)
    BY <2>1, FiniteBroadcast DEF Sane
  <2>3. TodoFits(r.elect)
    BY <2>1, GoesOnSane DEF Sane
  <2>4. Sane(r)
    BY <2>1, <2>2, <2>3 DEF Sane, SameWho
  <2>. QED  BY <2>1, <2>4 DEF r
<1>2. ASSUME NEW no \in Nat
      PROVE  AttachSucceeded(n, m, no, by) \in Nodes /\ Sane(AttachSucceeded(n, m, no, by))
  <2>. DEFINE r == AttachSucceeded(n, m, no, by)
              l == [id |-> m.id, srv |-> m.srv, no |-> no]
  <2>1. /\ r \in Nodes /\ SameWho(r, n) /\ SameLists(r, n) /\ r.links = Upsert(n.links, l)
        /\ by = None => GoesOn(r, n) /\ r.owed = n.owed
        /\ by # None => /\ r.elect = n.elect
                        /\ r.owed = n.owed \cup Notes(r.links, n.members)
    BY AttachSucceededEffect
  <2>. HIDE DEF r, l
  <2>2. IsFiniteSet(r.links)
    BY <2>1, FiniteUpsert DEF Sane
  <2>3. IsFiniteSet(r.owed)
    BY <2>1, <2>2, FiniteBroadcast DEF Sane
  <2>4. TodoFits(r.elect)
    BY <2>1, GoesOnSane DEF Sane
  <2>5. Sane(r)
    BY <2>1, <2>2, <2>3, <2>4 DEF Sane, SameWho, SameLists
  <2>. QED  BY <2>1, <2>5 DEF r
<1>3. ASSUME NEW leader \in Members, NEW list \in SUBSET Members, NEW me \in Members,
             NEW link \in [srv : Servers, no : Nat]
      PROVE  /\ HandleReplicaAttach(n, leader, list, me, link) \in Nodes
             /\ Sane(HandleReplicaAttach(n, leader, list, me, link))
  <2>. DEFINE r == HandleReplicaAttach(n, leader, list, me, link)
  <2>1. /\ r \in Nodes /\ r.id = n.id /\ r.role = "backup" /\ r.lowest = n.lowest
        /\ r.links = (IF n.role = "primary" THEN {} ELSE n.links)
        /\ r.owed = n.owed /\ r.elect = n.elect
    BY HandleReplicaAttachEffect
  <2>. HIDE DEF r
  <2>2. Sane(r)
    BY <2>1, FS_EmptySet DEF Sane
  <2>. QED  BY <2>1, <2>2 DEF r
<1>. QED  BY <1>1, <1>2, <1>3

\* Every server is.
AllSane(f) == f \in [Servers -> Nodes] /\ \A s \in Servers : Sane(f[s])

\* The servers stay sane when one gets another sane memory.
LEMMA SetNode ==
    ASSUME NEW f, AllSane(f), NEW p \in Servers, NEW a \in Nodes, Sane(a)
    PROVE  LET g == [f EXCEPT ![p] = a] IN
           /\ AllSane(g) /\ g[p] = a
           /\ \A s \in Servers \ {p} : g[s] = f[s]
<1>. DEFINE g == [f EXCEPT ![p] = a]
<1>1. g \in [Servers -> Nodes] /\ g[p] = a /\ \A s \in Servers \ {p} : g[s] = f[s]
  BY DEF AllSane
<1>2. \A s \in Servers : Sane(g[s])
  BY <1>1 DEF AllSane
<1>. QED  BY <1>1, <1>2 DEF AllSane

\* A server that has joined is a member, with an id from 1 to FIRST_ID.
LEMMA SelfTyped ==
    ASSUME AllSane(node), NEW s \in Servers, node[s].role # "joining"
    PROVE  Self(s) \in Members
<1>1. node[s] \in Nodes /\ Sane(node[s])
  BY DEF AllSane
<1>2. node[s].id \in 0..FirstId /\ node[s].id # 0
  BY <1>1 DEF Nodes, Sane
<1>. QED  BY <1>2, ClusterAssumption DEF Self, Members

\* A process that just started is sane.
LEMMA FreshSane == Fresh \in Nodes /\ Sane(Fresh)
<1>1. NotElecting \in Elects
  BY DEF NotElecting, Elects, Phases
<1>2. Fresh \in Nodes
  BY <1>1, ClusterAssumption DEF Fresh, Nodes, Elects, Phases
<1>3. Fresh.role = "joining" /\ Fresh.links = {} /\ Fresh.owed = {} /\ Fresh.elect = NotElecting
  BY DEF Fresh
<1>. QED  BY <1>2, <1>3, FS_EmptySet DEF Sane, TodoFits, NotElecting

\* So is the one that start_as_primary starts.
LEMMA FounderSane == Founder \in Nodes /\ Sane(Founder)
<1>. DEFINE list == {[id |-> FirstId, srv |-> First]}
<1>1. list \in SUBSET Members
  BY ClusterAssumption DEF Members
<1>2. FirstId \in 0..FirstId /\ FirstId # 0 /\ First \in Servers \cup {None}
  BY ClusterAssumption
<1>3. Founder = [Fresh EXCEPT !.id = FirstId, !.role = "primary", !.primary = First,
                  !.primaryId = FirstId, !.known = TRUE, !.lowest = FirstId,
                  !.members = list]
  BY DEF Founder
<1>. HIDE DEF list
<1>4. ASSUME NEW r, r = [Fresh EXCEPT !.id = FirstId, !.role = "primary", !.primary = First,
                  !.primaryId = FirstId, !.known = TRUE, !.lowest = FirstId,
                  !.members = list]
      PROVE  /\ r \in Nodes /\ r.id = FirstId /\ r.role = "primary" /\ r.lowest = FirstId
             /\ r.links = Fresh.links /\ r.owed = Fresh.owed /\ r.elect = Fresh.elect
  BY ONLY <1>1, <1>2, <1>4, FreshSane DEF Nodes
<1>5. Fresh.links = {} /\ Fresh.owed = {} /\ Fresh.elect = NotElecting
  BY DEF Fresh
<1>. QED  BY <1>2, <1>3, <1>4, <1>5, FS_EmptySet DEF Sane, TodoFits, NotElecting

\* The lowest of lowest_id_ and the ids of a list is an id, and 0 only if lowest_id_ is.
LEMMA MinTyped ==
    ASSUME NEW i \in 0..FirstId, NEW list \in SUBSET Members
    PROVE  LET low == Min({i} \cup Ids(list)) IN
           /\ low \in 0..FirstId /\ low <= i /\ \A m \in list : low <= m.id
           /\ i # 0 => low # 0
<1>. DEFINE S == {i} \cup Ids(list)
<1>1. S \subseteq 0..FirstId /\ S # {} /\ i \in S /\ \A m \in list : m.id \in S
  BY ClusterAssumption DEF Ids, Members
<1>2. i # 0 => 0 \notin S
  BY DEF Ids, Members
<1>. HIDE DEF S
<1>3. S \in SUBSET Nat
  BY <1>1, ClusterAssumption
<1>4. Min(S) \in S /\ \A x \in S : Min(S) <= x
  BY <1>1, <1>3, MinOf
<1>. QED  BY <1>1, <1>2, <1>4 DEF S

\* handle_join gives an id from 1 to FIRST_ID: one the server had, or the next one down.
LEMMA IdsForTyped ==
    ASSUME NEW n \in Nodes, Sane(n), n.role = "primary", NEW j, NEW i \in IdsFor(n, j)
    PROVE  /\ i \in 1..FirstId
           /\ \/ \E m \in n.members : m.srv = j /\ m.id = i
              \/ /\ i = Min({n.lowest} \cup Ids(n.members)) - 1
                 /\ \A m \in n.members : m.srv # j
<1>. DEFINE known == Ids({x \in n.members : x.srv = j})
            low == Min({n.lowest} \cup Ids(n.members))
<1>1. low \in 0..FirstId /\ low # 0
  BY MinTyped DEF Sane, Nodes
<1>2. CASE known # {}
  <2>1. i \in known
    BY <1>2 DEF IdsFor
  <2>. QED  BY <2>1 DEF Ids, Nodes, Members
<1>3. CASE known = {}
  <2>1. i = low - 1 /\ i # 0
    BY <1>3 DEF IdsFor
  <2>2. \A m \in n.members : m.srv # j
    BY <1>3 DEF Ids
  <2>. QED  BY <1>1, <2>1, <2>2, ClusterAssumption
<1>. QED  BY <1>2, <1>3

\* A new connection is none of those that exist.
LEMMA NewLinkToFresh ==
    ASSUME AllSane(node), NEW b \in Servers
    PROVE  /\ NewLinkTo(b) \in Nat
           /\ \A s \in Servers : \A l \in node[s].links : l.srv = b => l.no # NewLinkTo(b)
<1>. DEFINE links == {x \in UNION {node[s].links : s \in Servers} : x.srv = b}
            atts == {x \in Servers : node[x].att # None}
            owed == {y \in UNION {node[s].owed : s \in Servers} : y.link.srv = b}
            A == {l.no : l \in links}
            B == {node[s].att.no : s \in atts}
            C == {l.no : l \in {x.link : x \in owed}}
            D == IF node[b].primaryLink = None THEN {} ELSE {node[b].primaryLink.no}
            used == A \cup B \cup C \cup D
<1>0. \A s \in Servers : node[s] \in Nodes /\ IsFiniteSet(node[s].links) /\ IsFiniteSet(node[s].owed)
  BY DEF AllSane, Sane
<1>s. IsFiniteSet(Servers)
  BY ClusterAssumption
<1>1. IsFiniteSet(A) /\ A \subseteq Nat
  <2>. DEFINE f == [s \in Servers |-> node[s].links]
              g == [l \in links |-> l.no]
  <2>1. IsFiniteSet({f[s] : s \in Servers})
    <3>1. DOMAIN f = Servers
      OBVIOUS
    <3>. HIDE DEF f
    <3>. QED  BY <3>1, <1>s, FiniteImage
  <2>2. {f[s] : s \in Servers} = {node[s].links : s \in Servers}
    OBVIOUS
  <2>3. IsFiniteSet(UNION {node[s].links : s \in Servers})
    BY <1>0, <2>1, <2>2, FS_UNION
  <2>4. IsFiniteSet(links)
    BY <2>3, FS_Subset
  <2>5. IsFiniteSet({g[l] : l \in links})
    <3>1. DOMAIN g = links
      OBVIOUS
    <3>. HIDE DEF g, links
    <3>. QED  BY <3>1, <2>4, FiniteImage
  <2>6. {g[l] : l \in links} = A
    OBVIOUS
  <2>7. A \subseteq Nat
    BY <1>0 DEF Nodes, Links
  <2>. QED  BY <2>5, <2>6, <2>7
<1>2. IsFiniteSet(B) /\ B \subseteq Nat
  <2>. DEFINE f == [s \in atts |-> node[s].att.no]
  <2>1. IsFiniteSet(atts)
    BY <1>s, FS_Subset
  <2>2. IsFiniteSet({f[s] : s \in atts})
    <3>1. DOMAIN f = atts
      OBVIOUS
    <3>. HIDE DEF f, atts
    <3>. QED  BY <3>1, <2>1, FiniteImage
  <2>3. {f[s] : s \in atts} = B
    OBVIOUS
  <2>4. B \subseteq Nat
    BY <1>0 DEF Nodes
  <2>. QED  BY <2>2, <2>3, <2>4
<1>3. IsFiniteSet(C) /\ C \subseteq Nat
  <2>. DEFINE f == [s \in Servers |-> node[s].owed]
              g == [o \in owed |-> o.link.no]
  <2>1. IsFiniteSet({f[s] : s \in Servers})
    <3>1. DOMAIN f = Servers
      OBVIOUS
    <3>. HIDE DEF f
    <3>. QED  BY <3>1, <1>s, FiniteImage
  <2>2. {f[s] : s \in Servers} = {node[s].owed : s \in Servers}
    OBVIOUS
  <2>3. IsFiniteSet(UNION {node[s].owed : s \in Servers})
    BY <1>0, <2>1, <2>2, FS_UNION
  <2>4. IsFiniteSet(owed)
    BY <2>3, FS_Subset
  <2>5. IsFiniteSet({g[o] : o \in owed})
    <3>1. DOMAIN g = owed
      OBVIOUS
    <3>. HIDE DEF g, owed
    <3>. QED  BY <3>1, <2>4, FiniteImage
  <2>6. {g[o] : o \in owed} = C
    OBVIOUS
  <2>7. C \subseteq Nat
    BY <1>0 DEF Nodes, Links
  <2>. QED  BY <2>5, <2>6, <2>7
<1>4. IsFiniteSet(D) /\ D \subseteq Nat
  <2>1. CASE node[b].primaryLink = None
    BY <2>1, FS_EmptySet
  <2>2. CASE node[b].primaryLink # None
    <3>1. node[b].primaryLink.no \in Nat
      BY <1>0, <2>2 DEF Nodes
    <3>2. D = {node[b].primaryLink.no}
      BY <2>2
    <3>. QED  BY <3>1, <3>2, FS_Singleton
  <2>. QED  BY <2>1, <2>2
<1>5. NewLinkTo(b) = CHOOSE n \in 0..Cardinality(used) : n \notin used
  BY DEF NewLinkTo
<1>6. \A s \in Servers : \A l \in node[s].links : l.srv = b => l.no \in used
  OBVIOUS
<1>. HIDE DEF A, B, C, D
<1>7. IsFiniteSet(used) /\ used \subseteq Nat
  <2>1. IsFiniteSet(A \cup B)
    BY <1>1, <1>2, FS_Union
  <2>2. IsFiniteSet((A \cup B) \cup C)
    BY <2>1, <1>3, FS_Union
  <2>. QED  BY <2>2, <1>1, <1>2, <1>3, <1>4, FS_Union
<1>. HIDE DEF used
<1>8. NewLinkTo(b) \in Nat /\ NewLinkTo(b) \notin used
  <2>1. Cardinality(used) \in Nat
    BY <1>7, FS_CardinalityType
  <2>2. \E n \in 0..Cardinality(used) : n \notin used
    BY <1>7, OneMore
  <2>3. NewLinkTo(b) \in 0..Cardinality(used) /\ NewLinkTo(b) \notin used
    BY <1>5, <2>2, Zenon
  <2>. QED  BY <2>1, <2>3
<1>. QED  BY <1>6, <1>8

-----------------------------------------------------------------------------
(* What the actions do.                                                     *)

\* A server with work of any kind has joined.
LEMMA Busy ==
    ASSUME NEW n, Sane(n),
           \/ n.calls # {} \/ n.links # {} \/ n.owed # {} \/ n.att # None
           \/ n.primaryLink # None \/ n.elect.phase # "none" \/ n.request # FALSE
    PROVE  n.role # "joining"
<1>1. /\ Fresh.calls = {} /\ Fresh.links = {} /\ Fresh.owed = {} /\ Fresh.att = None
      /\ Fresh.primaryLink = None /\ Fresh.elect = NotElecting /\ Fresh.request = FALSE
  BY DEF Fresh
<1>2. NotElecting.phase = "none"
  BY DEF NotElecting
<1>3. SUFFICES ASSUME n.role = "joining" PROVE FALSE
  OBVIOUS
<1>4. n = Fresh
  BY <1>3 DEF Sane
<1>. QED  BY <1>1, <1>2, <1>4

\* A link works only to a running server that has joined.
LEMMA LiveTyped ==
    ASSUME AllSane(node), NEW p \in Servers, NEW l, l.srv \in Servers, l.no \in Nat, Live(p, l)
    PROVE  l.srv \in up /\ node[l.srv].role # "joining"
<1>1. node[l.srv].primaryLink # None
  BY NoneAssumption DEF Live
<1>. QED  BY <1>1, Busy DEF AllSane, Live

\* One server changes and stays sane, the others are as they were.
LEMMA Become ==
    ASSUME NEW f, AllSane(f), NEW p \in Servers, NEW a \in Nodes, Sane(a),
           node' = [f EXCEPT ![p] = a]
    PROVE  AllSane(node') /\ node'[p] = a /\ \A s \in Servers \ {p} : node'[s] = f[s]
<1>1. node' \in [Servers -> Nodes]
  BY DEF AllSane
<1>2. node'[p] = a
  BY DEF AllSane
<1>3. \A s \in Servers \ {p} : node'[s] = f[s]
  BY DEF AllSane
<1>4. \A s \in Servers : Sane(node'[s])
  BY <1>2, <1>3 DEF AllSane
<1>. QED  BY <1>1, <1>2, <1>3, <1>4 DEF AllSane

\* handle_join picks an id, and adds a thread's work to the primary.
LEMMA JoinReadEffect ==
    ASSUME AllSane(node), NEW p \in Servers, NEW j \in Servers, JoinRead(p, j)
    PROVE  /\ AllSane(node')
           /\ \A s \in Servers \ {p} : node'[s] = node[s]
           /\ SameWho(node'[p], node[p]) /\ SameEnd(node'[p], node[p])
           /\ node'[p].members = node[p].members
           /\ node'[p].lowest = IF \E x \in node[p].members : x.srv = j THEN node[p].lowest
                                ELSE Min({node[p].lowest} \cup Ids(node[p].members))
           /\ node'[p].links = node[p].links /\ node'[p].owed = node[p].owed
           /\ node'[p].att = node[p].att /\ node'[p].request = node[p].request
           /\ node'[p].elect = node[p].elect
           /\ \E i \in IdsFor(node[p], j) :
                 node'[p].calls = node[p].calls
                                  \cup {[kind |-> "admit", m |-> [id |-> i, srv |-> j]]}
<1>. DEFINE n == node[p]
            low == IF j \in {x.srv : x \in node[p].members} THEN n.lowest
                   ELSE Min({n.lowest} \cup Ids(node[p].members))
<1>1. n \in Nodes /\ Sane(n) /\ n.role = "primary"
  BY DEF AllSane, JoinRead
<1>2. PICK i \in IdsFor(n, j) :
         node' = [node EXCEPT ![p].lowest = low,
                     ![p].calls = @ \cup {[kind |-> "admit", m |-> [id |-> i, srv |-> j]]}]
  BY DEF JoinRead
<1>. DEFINE calls == n.calls \cup {[kind |-> "admit", m |-> [id |-> i, srv |-> j]]}
            a == [n EXCEPT !.lowest = low, !.calls = calls]
<1>3. node' = [node EXCEPT ![p] = a]
  BY <1>2 DEF AllSane
<1>4. calls \in SUBSET Calls
  <2>1. i \in 1..FirstId
    BY <1>1, <1>2, IdsForTyped
  <2>. QED  BY <1>1, <2>1 DEF Calls, Members, Nodes
<1>5. low \in 0..FirstId /\ low # 0
  <2>1. n.lowest \in 0..FirstId /\ n.lowest # 0 /\ n.members \in SUBSET Members
    BY <1>1 DEF Sane, Nodes
  <2>. QED  BY <2>1, MinTyped
<1>. HIDE DEF calls, low, n
<1>6. ASSUME NEW r, r = a
      PROVE  /\ r \in Nodes /\ SameWho(r, n) /\ SameEnd(r, n) /\ r.lowest = low
             /\ r.members = n.members /\ r.links = n.links /\ r.owed = n.owed /\ r.att = n.att
             /\ r.request = n.request /\ r.elect = n.elect /\ r.calls = calls
  BY ONLY <1>1, <1>4, <1>5, <1>6 DEF Nodes, SameWho, SameEnd
<1>. HIDE DEF a
<1>7. Sane(a) /\ a \in Nodes
  BY <1>1, <1>5, <1>6 DEF Sane, SameWho
<1>8. AllSane(node') /\ node'[p] = a /\ \A s \in Servers \ {p} : node'[s] = node[s]
  BY <1>3, <1>7, Become
<1>9. low = IF \E x \in node[p].members : x.srv = j THEN node[p].lowest
            ELSE Min({node[p].lowest} \cup Ids(node[p].members))
  BY DEF low, n
<1>. QED  BY <1>2, <1>6, <1>8, <1>9 DEF n, calls

\* A server that does nothing for others.
Idle(n) ==
    /\ n.links = {} /\ n.calls = {} /\ n.owed = {} /\ n.att = None /\ n.request = FALSE

\* The thread goes on to attach.
Onward(t, kind) == [t EXCEPT !.kind = kind]

\* The server that joins still waits for its JoinOk.
Admits(t) == t.m.srv \in up /\ node[t.m.srv].role = "joining"

\* add_member and JoinOk change the primary and the server that joins, which is a
\* backup then that knows the two of them.
LEMMA JoinAdmitEffect ==
    ASSUME AllSane(node), NEW p \in Servers, NEW t \in node[p].calls, JoinAdmit(p, t)
    PROVE  LET j == t.m.srv
               a == node'[p]
               b == node'[j] IN
           /\ AllSane(node')
           /\ t \in Calls /\ t.m \in Members /\ j \in Servers
           /\ SameWho(a, node[p]) /\ SameEnd(a, node[p])
           /\ a.members = Upsert(node[p].members, t.m)
           /\ a.lowest = (IF node[p].lowest = 0 \/ t.m.id < node[p].lowest THEN t.m.id
                          ELSE node[p].lowest)
           /\ a.links = node[p].links /\ a.owed = node[p].owed /\ a.att = node[p].att
           /\ a.request = node[p].request /\ a.elect = node[p].elect
           /\ a.calls = (node[p].calls \ {t}) \cup {Onward(t, "join")}
           /\ Admits(t) =>
                 /\ j # p
                 /\ b.id = t.m.id /\ b.role = "backup" /\ b.primaryId = node[p].id
                 /\ b.members = {Self(p), t.m} /\ Idle(b) /\ b.primaryLink = None
                 /\ b.elect = NotElecting
           /\ \A s \in Servers \ {p} :
                 (s # j \/ ~Admits(t)) => node'[s] = node[s]
<1>. DEFINE m == AddMember(node[p], t.m)
            calls == (m.calls \ {t}) \cup {Onward(t, "join")}
            n == [m EXCEPT !.calls = calls]
            j == t.m.srv
            list == {Self(p), t.m}
            b == [Fresh EXCEPT !.id = t.m.id, !.role = "backup", !.primary = p,
                               !.primaryId = n.id, !.known = TRUE, !.members = list]
<1>1. node[p] \in Nodes /\ Sane(node[p]) /\ node[p].role # "joining"
  BY Busy DEF AllSane
<1>2. t \in Calls /\ t.m \in Members /\ j \in Servers
  BY <1>1 DEF Nodes, Calls, Members
<1>3. m \in Nodes /\ Sane(m) /\ m.role # "joining"
  BY <1>1, <1>2, SaneHandlers, AddMemberEffect DEF SameWho
<1>4. node' = IF j \in up /\ node[j].role = "joining"
                THEN [[node EXCEPT ![p] = n] EXCEPT ![j] = b]
                ELSE [node EXCEPT ![p] = n]
  BY DEF JoinAdmit, Onward
<1>5. Onward(t, "join") \in Calls
  BY <1>2 DEF Calls, Onward
<1>6. calls \in SUBSET Calls
  BY <1>3, <1>5 DEF Nodes
<1>7. list \in SUBSET Members
  BY <1>1, <1>2, SelfTyped
<1>. HIDE DEF m, calls, list
<1>8. ASSUME NEW r, r = n
      PROVE  /\ r \in Nodes /\ SameWho(r, m) /\ SameLists(r, m) /\ SameEnd(r, m)
             /\ r.links = m.links /\ r.owed = m.owed /\ r.att = m.att /\ r.request = m.request
             /\ r.elect = m.elect /\ r.calls = calls
  BY ONLY <1>3, <1>6, <1>8 DEF Nodes, SameWho, SameLists, SameEnd
<1>. HIDE DEF n
<1>9. Sane(n) /\ n \in Nodes
  BY <1>3, <1>8 DEF Sane, SameWho, SameLists
<1>10. /\ b \in Nodes /\ Sane(b)
       /\ b.id = t.m.id /\ b.role = "backup" /\ b.primaryId = n.id
       /\ b.members = list /\ b.links = {} /\ b.owed = {} /\ b.calls = {}
       /\ b.att = None /\ b.primaryLink = None /\ b.request = FALSE
       /\ b.elect = NotElecting
  <2>1. t.m.id \in 0..FirstId /\ t.m.id # 0 /\ p \in Servers \cup {None} /\ n.id \in 0..FirstId
    BY <1>2, <1>9, ClusterAssumption DEF Members, Nodes
  <2>2. ASSUME NEW r, r = b
        PROVE  /\ r \in Nodes /\ r.id = t.m.id /\ r.role = "backup" /\ r.primaryId = n.id
               /\ r.members = list
               /\ r.links = Fresh.links /\ r.owed = Fresh.owed /\ r.elect = Fresh.elect
               /\ r.calls = Fresh.calls /\ r.att = Fresh.att /\ r.request = Fresh.request
               /\ r.primaryLink = Fresh.primaryLink
    BY ONLY <1>7, <2>1, <2>2, FreshSane DEF Nodes
  <2>3. /\ Fresh.links = {} /\ Fresh.owed = {} /\ Fresh.elect = NotElecting
        /\ Fresh.calls = {} /\ Fresh.att = None /\ Fresh.request = FALSE
        /\ Fresh.primaryLink = None
    BY DEF Fresh
  <2>. HIDE DEF b
  <2>4. /\ b \in Nodes /\ b.id = t.m.id /\ b.role = "backup" /\ b.primaryId = n.id
        /\ b.members = list /\ b.links = {} /\ b.owed = {} /\ b.calls = {}
        /\ b.att = None /\ b.primaryLink = None /\ b.request = FALSE
        /\ b.elect = NotElecting
    BY <2>2, <2>3
  <2>5. Sane(b)
    BY <2>1, <2>4, FS_EmptySet DEF Sane, TodoFits, NotElecting
  <2>. QED  BY <2>4, <2>5
<1>. HIDE DEF b
<1>. DEFINE f == [node EXCEPT ![p] = n]
<1>11. AllSane(f) /\ f[p] = n /\ \A s \in Servers \ {p} : f[s] = node[s]
  BY <1>9, SetNode
<1>12. SameWho(n, node[p]) /\ SameEnd(n, node[p])
       /\ n.members = Upsert(node[p].members, t.m)
       /\ n.lowest = (IF node[p].lowest = 0 \/ t.m.id < node[p].lowest THEN t.m.id
                      ELSE node[p].lowest)
       /\ n.links = node[p].links /\ n.owed = node[p].owed /\ n.att = node[p].att
       /\ n.request = node[p].request /\ n.elect = node[p].elect
       /\ n.calls = (node[p].calls \ {t}) \cup {Onward(t, "join")}
  <2>1. LET r == AddMember(node[p], t.m) IN
        /\ SameWho(r, node[p]) /\ SameEnd(r, node[p]) /\ SameWork(r, node[p])
        /\ r.elect = node[p].elect
        /\ r.members = Upsert(node[p].members, t.m)
        /\ r.lowest = IF node[p].lowest = 0 \/ t.m.id < node[p].lowest THEN t.m.id
                      ELSE node[p].lowest
    BY <1>1, <1>2, AddMemberEffect
  <2>. QED  BY <1>8, <2>1 DEF m, calls, SameWho, SameLists, SameEnd, SameWork
<1>. HIDE DEF f
<1>13. CASE Admits(t)
  <2>1. AllSane([f EXCEPT ![j] = b]) /\ [f EXCEPT ![j] = b][j] = b
        /\ \A s \in Servers \ {j} : [f EXCEPT ![j] = b][s] = f[s]
    BY <1>2, <1>10, <1>11, SetNode
  <2>2. node' = [f EXCEPT ![j] = b] /\ j # p
    BY <1>1, <1>4, <1>13 DEF f, Admits
  <2>3. n.id = node[p].id /\ list = {Self(p), t.m}
    BY <1>12 DEF list, SameWho
  <2>4. node'[p] = n /\ node'[j] = b /\ AllSane(node')
        /\ \A s \in Servers \ {p} : s # j => node'[s] = node[s]
    BY <1>11, <2>1, <2>2
  <2>5. Idle(b)
    BY <1>10 DEF Idle
  <2>. HIDE DEF j
  <2>. QED  BY ONLY <1>2, <1>10, <2>5, <1>12, <1>13, <2>2, <2>3, <2>4, Zenon DEF j
<1>14. CASE ~Admits(t)
  <2>1. node' = f
    BY <1>4, <1>14 DEF f, Admits
  <2>. QED  BY <1>2, <1>11, <1>12, <1>14, <2>1
<1>. QED  BY <1>13, <1>14

\* ReplicaAttach changes the two ends of the new link, or fails at the sender only.
LEMMA BeginAttachEffect ==
    ASSUME AllSane(node), NEW p \in Servers, node[p].role # "joining", NEW m \in Members,
           NEW by \in Calls \cup {None}, BeginAttach(p, m, by)
    PROVE  LET q == m.srv
               no == NewLinkTo(q) IN
           /\ AllSane(node')
           /\ Reachable(q) /\ q # p =>
                 /\ \A s \in Servers \ {p, q} : node'[s] = node[s]
                 /\ SameWho(node'[p], node[p]) /\ SameLists(node'[p], node[p])
                 /\ SameEnd(node'[p], node[p])
                 /\ node'[p].links = node[p].links /\ node'[p].owed = node[p].owed
                 /\ node'[p].calls = node[p].calls /\ node'[p].request = node[p].request
                 /\ node'[p].elect = node[p].elect
                 /\ node'[p].att = [m |-> m, no |-> no, by |-> by]
                 /\ no \in Nat
                 /\ node'[q] = HandleReplicaAttach(node[q], Self(p), node[p].members, Self(q),
                                                   [srv |-> p, no |-> no])
           /\ ~Reachable(q) =>
                 /\ \A s \in Servers \ {p} : node'[s] = node[s]
                 /\ node'[p] = AttachFailed(node[p], m, by)
<1>1. node[p] \in Nodes /\ Sane(node[p]) /\ m.srv \in Servers
  BY DEF AllSane, Members
<1>2. CASE Reachable(m.srv)
  <2>. DEFINE no == NewLinkTo(m.srv)
              att == [m |-> m, no |-> no, by |-> by]
              a == [node[p] EXCEPT !.att = att]
              f == [node EXCEPT ![p] = a]
              g == HandleReplicaAttach(f[m.srv], Self(p), node[p].members, Self(m.srv),
                                                [srv |-> p, no |-> no])
  <2>1. no \in Nat
    BY <1>1, NewLinkToFresh
  <2>2. att \in [m : Members, no : Nat, by : Calls \cup {None}] \cup {None}
    BY <2>1
  <2>3. node' = [f EXCEPT ![m.srv] = g]
    <3>1. f = [node EXCEPT ![p].att = att]
      BY DEF AllSane
    <3>. QED  BY <1>2, <3>1 DEF BeginAttach
  <2>4. [srv |-> p, no |-> no] \in [srv : Servers, no : Nat]
    BY <2>1
  <2>5. Self(p) \in Members /\ Self(m.srv) \in Members /\ node[p].members \in SUBSET Members
    BY <1>1, <1>2, SelfTyped DEF Reachable, Nodes
  <2>. HIDE DEF att, no
  <2>6. ASSUME NEW r, r = a
        PROVE  /\ r \in Nodes /\ SameWho(r, node[p]) /\ SameLists(r, node[p])
               /\ SameEnd(r, node[p])
               /\ r.links = node[p].links /\ r.owed = node[p].owed /\ r.elect = node[p].elect
               /\ r.calls = node[p].calls /\ r.request = node[p].request /\ r.att = att
    BY ONLY <1>1, <2>2, <2>6 DEF Nodes, SameWho, SameLists, SameEnd
  <2>. HIDE DEF a
  <2>7. Sane(a) /\ a \in Nodes /\ a.role # "joining"
    BY <1>1, <2>6 DEF Sane, SameWho, SameLists
  <2>8. AllSane(f) /\ f[p] = a /\ \A s \in Servers \ {p} : f[s] = node[s]
    BY <2>7, SetNode
  <2>. HIDE DEF f
  <2>9. f[m.srv] \in Nodes /\ Sane(f[m.srv]) /\ f[m.srv].role # "joining"
    BY <1>1, <1>2, <2>7, <2>8 DEF AllSane, Reachable
  <2>10. g \in Nodes /\ Sane(g)
    BY <2>4, <2>5, <2>9, SaneAttach
  <2>. HIDE DEF g
  <2>11. /\ AllSane(node') /\ node'[m.srv] = g
         /\ \A s \in Servers \ {m.srv} : node'[s] = f[s]
    BY <1>1, <2>3, <2>8, <2>10, Become
  <2>12. CASE m.srv # p
    <3>1. node'[p] = a /\ \A s \in Servers \ {p, m.srv} : node'[s] = node[s]
      BY <1>1, <2>8, <2>11, <2>12
    <3>2. node'[m.srv] = HandleReplicaAttach(node[m.srv], Self(p), node[p].members,
                                             Self(m.srv), [srv |-> p, no |-> no])
      BY <1>1, <2>8, <2>11, <2>12 DEF g
    <3>. QED  BY <1>2, <2>1, <2>6, <2>11, <3>1, <3>2 DEF att, no
  <2>. QED  BY <1>2, <2>11, <2>12
<1>3. CASE ~Reachable(m.srv)
  <2>1. node' = [node EXCEPT ![p] = AttachFailed(node[p], m, by)]
    BY <1>3 DEF BeginAttach, AllSane
  <2>2. AttachFailed(node[p], m, by) \in Nodes /\ Sane(AttachFailed(node[p], m, by))
    BY <1>1, SaneAttach
  <2>3. /\ AllSane(node') /\ node'[p] = AttachFailed(node[p], m, by)
        /\ \A s \in Servers \ {p} : node'[s] = node[s]
    BY <2>1, <2>2, Become
  <2>. QED  BY <1>3, <2>3
<1>. QED  BY <1>2, <1>3

\* The end of an attach changes the primary only.
LEMMA EndAttachEffect ==
    ASSUME AllSane(node), NEW p \in Servers, EndAttach(p)
    PROVE  LET a == node[p].att IN
           /\ AllSane(node')
           /\ \A s \in Servers \ {p} : node'[s] = node[s]
           /\ a \in [m : Members, no : Nat, by : Calls \cup {None}]
           /\ node'[p] = IF Live(p, [srv |-> a.m.srv, no |-> a.no])
                           THEN AttachSucceeded(node[p], a.m, a.no, a.by)
                           ELSE AttachFailed(node[p], a.m, a.by)
<1>. DEFINE a == node[p].att
<1>1. node[p] \in Nodes /\ Sane(node[p]) /\ node[p].role # "joining" /\ a # None
  BY Busy DEF AllSane, EndAttach
<1>2. a \in [m : Members, no : Nat, by : Calls \cup {None}]
  BY <1>1 DEF Nodes
<1>3. a.m \in Members /\ a.no \in Nat
  BY <1>2
<1>. DEFINE n == IF Live(p, [srv |-> a.m.srv, no |-> a.no])
                   THEN AttachSucceeded(node[p], a.m, a.no, a.by)
                   ELSE AttachFailed(node[p], a.m, a.by)
<1>4. node' = [node EXCEPT ![p] = n]
  BY DEF EndAttach
<1>5. n \in Nodes /\ Sane(n)
  BY <1>1, <1>3, SaneAttach
<1>6. n = IF Live(p, [srv |-> a.m.srv, no |-> a.no])
            THEN AttachSucceeded(node[p], a.m, a.no, a.by)
            ELSE AttachFailed(node[p], a.m, a.by)
  OBVIOUS
<1>. HIDE DEF n
<1>7. AllSane(node') /\ node'[p] = n /\ \A s \in Servers \ {p} : node'[s] = node[s]
  BY <1>4, <1>5, Become
<1>. QED  BY <1>2, <1>6, <1>7

\* A list sent on a link changes the server at its end, or the link is dropped.
LEMMA TellEffect ==
    ASSUME AllSane(node), NEW p \in Servers, node[p].role # "joining", NEW l \in Links,
           NEW list \in SUBSET Members, NEW n \in Nodes, Sane(n), n.role # "joining",
           Tell(p, l, list, n)
    PROVE  LET q == l.srv IN
           /\ AllSane(node')
           /\ Live(p, l) /\ q # p =>
                 /\ \A s \in Servers \ {p, q} : node'[s] = node[s]
                 /\ node'[p] = n
                 /\ SameWho(node'[q], node[q]) /\ SameWork(node'[q], node[q])
                 /\ SameEnd(node'[q], node[q]) /\ node'[q].elect = node[q].elect
                 /\ node'[q].members = Upsert(list, Self(q))
           /\ ~Live(p, l) =>
                 /\ \A s \in Servers \ {p} : node'[s] = node[s]
                 /\ node'[p] = DropLink(n, l.id)
<1>1. node[p] \in Nodes /\ Sane(node[p]) /\ l.srv \in Servers /\ l.no \in Nat
  BY DEF AllSane, Links
<1>2. CASE Live(p, l)
  <2>. DEFINE f == [node EXCEPT ![p] = n]
              told == Upsert(list, Self(l.srv))
              b == [f[l.srv] EXCEPT !.members = told]
  <2>1. node' = [f EXCEPT ![l.srv].members = told]
    BY <1>2 DEF Tell
  <2>2. node[l.srv].role # "joining"
    BY <1>1, <1>2, LiveTyped
  <2>3. told \in SUBSET Members
    BY <1>1, <2>2, SelfTyped, UpsertTyped
  <2>4. AllSane(f) /\ f[p] = n /\ \A s \in Servers \ {p} : f[s] = node[s]
    BY SetNode
  <2>. HIDE DEF f, told
  <2>5. node' = [f EXCEPT ![l.srv] = b]
    BY <1>1, <2>1, <2>4 DEF AllSane
  <2>6. f[l.srv] \in Nodes /\ Sane(f[l.srv]) /\ f[l.srv].role # "joining"
    BY <1>1, <2>2, <2>4 DEF AllSane
  <2>7. ASSUME NEW r, r = b
        PROVE  /\ r \in Nodes /\ SameWho(r, f[l.srv]) /\ SameWork(r, f[l.srv])
               /\ SameEnd(r, f[l.srv]) /\ r.members = told
               /\ r.lowest = f[l.srv].lowest /\ r.elect = f[l.srv].elect
    BY ONLY <2>3, <2>6, <2>7 DEF Nodes, SameWho, SameWork, SameEnd
  <2>. HIDE DEF b
  <2>8. b \in Nodes /\ Sane(b)
    BY <2>6, <2>7 DEF Sane, SameWho, SameWork
  <2>9. AllSane(node') /\ node'[l.srv] = b /\ \A s \in Servers \ {l.srv} : node'[s] = f[s]
    <3>. DEFINE q == l.srv
    <3>. HIDE DEF q
    <3>1. node' = [f EXCEPT ![q] = b] /\ q \in Servers
      BY <1>1, <2>5 DEF q
    <3>2. AllSane(node') /\ node'[q] = b /\ \A s \in Servers \ {q} : node'[s] = f[s]
      BY ONLY <3>1, <2>4, <2>8, Become
    <3>. QED  BY <3>2 DEF q
  <2>10. CASE l.srv # p
    <3>1. /\ node'[p] = n /\ f[l.srv] = node[l.srv]
          /\ \A s \in Servers \ {p, l.srv} : node'[s] = node[s]
      BY <1>1, <2>4, <2>9, <2>10
    <3>. QED  BY <1>2, <2>7, <2>9, <3>1 DEF told
  <2>. QED  BY <1>2, <2>9, <2>10
<1>3. CASE ~Live(p, l)
  <2>1. node' = [node EXCEPT ![p] = DropLink(n, l.id)]
    BY <1>3 DEF Tell
  <2>2. DropLink(n, l.id) \in Nodes /\ Sane(DropLink(n, l.id))
    BY SaneHandlers
  <2>3. /\ AllSane(node') /\ node'[p] = DropLink(n, l.id)
        /\ \A s \in Servers \ {p} : node'[s] = node[s]
    BY <2>1, <2>2, Become
  <2>. QED  BY <1>3, <2>3
<1>. QED  BY <1>2, <1>3

\* broadcast_membership sends the list it owes to one link.
LEMMA TellMembersEffect ==
    ASSUME AllSane(node), NEW p \in Servers, NEW o \in node[p].owed, TellMembers(p, o)
    PROVE  LET q == o.link.srv IN
           /\ AllSane(node') /\ o.link \in Links
           /\ \E n \in Nodes :
                 /\ SameWho(n, node[p]) /\ SameLists(n, node[p]) /\ SameEnd(n, node[p])
                 /\ n.links = node[p].links /\ n.owed = node[p].owed \ {o}
                 /\ n.att = node[p].att /\ n.calls = node[p].calls
                 /\ n.request = node[p].request /\ n.elect = node[p].elect
                 /\ Live(p, o.link) /\ q # p =>
                       /\ \A s \in Servers \ {p, q} : node'[s] = node[s]
                       /\ node'[p] = n
                       /\ SameWho(node'[q], node[q]) /\ SameWork(node'[q], node[q])
                       /\ SameEnd(node'[q], node[q]) /\ node'[q].elect = node[q].elect
                       /\ node'[q].members = Upsert(o.list, Self(q))
                 /\ ~Live(p, o.link) =>
                       /\ \A s \in Servers \ {p} : node'[s] = node[s]
                       /\ node'[p] = DropLink(n, o.link.id)
<1>. DEFINE left == node[p].owed \ {o}
            n == [node[p] EXCEPT !.owed = left]
<1>1. node[p] \in Nodes /\ Sane(node[p]) /\ node[p].role # "joining"
  BY Busy DEF AllSane
<1>2. o.link \in Links /\ o.list \in SUBSET Members
  BY <1>1 DEF Nodes
<1>3. left \in SUBSET [link : Links, list : SUBSET Members] /\ IsFiniteSet(left)
  BY <1>1, FS_RemoveElement DEF Nodes, Sane
<1>4. Tell(p, o.link, o.list, n)
  BY DEF TellMembers
<1>. HIDE DEF left
<1>5. ASSUME NEW r, r = n
      PROVE  /\ r \in Nodes /\ SameWho(r, node[p]) /\ SameLists(r, node[p])
             /\ SameEnd(r, node[p]) /\ r.calls = node[p].calls /\ r.att = node[p].att
             /\ r.request = node[p].request
             /\ r.links = node[p].links /\ r.owed = left /\ r.elect = node[p].elect
  BY ONLY <1>1, <1>3, <1>5 DEF Nodes, SameWho, SameLists, SameEnd
<1>. HIDE DEF n
<1>6. n \in Nodes /\ Sane(n) /\ n.role # "joining"
  BY <1>1, <1>3, <1>5 DEF Sane, SameWho, SameLists
<1>7. /\ AllSane(node')
      /\ Live(p, o.link) /\ o.link.srv # p =>
            /\ \A s \in Servers \ {p, o.link.srv} : node'[s] = node[s]
            /\ node'[p] = n
            /\ SameWho(node'[o.link.srv], node[o.link.srv])
            /\ SameWork(node'[o.link.srv], node[o.link.srv])
            /\ SameEnd(node'[o.link.srv], node[o.link.srv])
            /\ node'[o.link.srv].elect = node[o.link.srv].elect
            /\ node'[o.link.srv].members = Upsert(o.list, Self(o.link.srv))
      /\ ~Live(p, o.link) =>
            /\ \A s \in Servers \ {p} : node'[s] = node[s]
            /\ node'[p] = DropLink(n, o.link.id)
  <2>. DEFINE l == o.link
              list == o.list
  <2>. HIDE DEF l, list
  <2>1. l \in Links /\ list \in SUBSET Members /\ Tell(p, l, list, n)
    BY <1>2, <1>4 DEF l, list
  <2>2. /\ AllSane(node')
        /\ Live(p, l) /\ l.srv # p =>
              /\ \A s \in Servers \ {p, l.srv} : node'[s] = node[s]
              /\ node'[p] = n
              /\ SameWho(node'[l.srv], node[l.srv]) /\ SameWork(node'[l.srv], node[l.srv])
              /\ SameEnd(node'[l.srv], node[l.srv]) /\ node'[l.srv].elect = node[l.srv].elect
              /\ node'[l.srv].members = Upsert(list, Self(l.srv))
        /\ ~Live(p, l) =>
              /\ \A s \in Servers \ {p} : node'[s] = node[s]
              /\ node'[p] = DropLink(n, l.id)
    BY <1>1, <1>6, <2>1, TellEffect
  <2>. QED  BY <2>2 DEF l, list
<1>. QED  BY <1>2, <1>5, <1>6, <1>7 DEF left

\* The same when the server may be the first one itself.
LEMMA TwoSane ==
    ASSUME NEW f, AllSane(f), NEW q \in Servers, f[q].role # "joining", NEW m \in Members
    PROVE  /\ AllSane([f EXCEPT ![q] = HandleCoordinator(f[q], m)])
           /\ AllSane([f EXCEPT ![q] = HandleElection(f[q], m)])
<1>1. f[q] \in Nodes /\ Sane(f[q])
  BY DEF AllSane
<1>. DEFINE c == HandleCoordinator(f[q], m)
            e == HandleElection(f[q], m)
<1>2. c \in Nodes /\ Sane(c) /\ e \in Nodes /\ Sane(e)
  BY <1>1, SaneHandlers
<1>. HIDE DEF c, e
<1>3. AllSane([f EXCEPT ![q] = c])
  BY <1>2, SetNode
<1>4. AllSane([f EXCEPT ![q] = e])
  BY <1>2, SetNode
<1>. QED  BY <1>3, <1>4 DEF c, e

\* The answer to a suspicion has the primary forget the thread or attach the candidate,
\* which handles the Coordinator.
LEMMA ReassureEffect ==
    ASSUME AllSane(node), NEW p \in Servers, NEW t \in node[p].calls, Reassure(p, t)
    PROVE  LET q == t.m.srv IN
           /\ AllSane(node') /\ t \in Calls /\ t.m \in Members
           /\ \E n \in Nodes :
                 /\ SameWho(n, node[p]) /\ SameEnd(n, node[p])
                 /\ n.links = node[p].links /\ n.owed = node[p].owed /\ n.att = node[p].att
                 /\ n.request = node[p].request /\ n.elect = node[p].elect
                 /\ \/ /\ SameLists(n, node[p]) /\ n.calls = node[p].calls \ {t}
                    \/ /\ n.members = Upsert(node[p].members, t.m)
                       /\ n.lowest = (IF node[p].lowest = 0 \/ t.m.id < node[p].lowest THEN t.m.id
                                     ELSE node[p].lowest)
                       /\ n.calls = (node[p].calls \ {t}) \cup {[t EXCEPT !.kind = "reassure"]}
                 /\ Reachable(q) /\ q # p =>
                       /\ \A s \in Servers \ {p, q} : node'[s] = node[s]
                       /\ node'[p] = n
                       /\ node'[q] = HandleCoordinator(node[q], Self(p))
                 /\ ~Reachable(q) =>
                       /\ \A s \in Servers \ {p} : node'[s] = node[s]
                       /\ node'[p] = n
<1>. DEFINE m == t.m
            q == m.srv
            left == node[p].calls \ {t}
            r == [node[p] EXCEPT !.calls = left]
            more == left \cup {[t EXCEPT !.kind = "reassure"]}
            n == IF LinkedTo(r, m.id) THEN r
                 ELSE [AddMember(r, m) EXCEPT !.calls = more]
<1>1. node[p] \in Nodes /\ Sane(node[p]) /\ node[p].role # "joining"
  BY Busy DEF AllSane
<1>2. t \in Calls /\ m \in Members /\ q \in Servers
  BY <1>1 DEF Nodes, Calls, Members
<1>3. left \in SUBSET Calls /\ more \in SUBSET Calls
  BY <1>1, <1>2 DEF Nodes, Calls
<1>4. AddMember(r, m).calls = r.calls /\ r.calls = left
      /\ node' = (IF Reachable(q)
                    THEN [[node EXCEPT ![p] = IF LinkedTo(r, m.id) THEN r
                                              ELSE [AddMember(r, m) EXCEPT !.calls = AddMember(r, m).calls
                                                     \cup {[t EXCEPT !.kind = "reassure"]}]]
                             EXCEPT ![q] = HandleCoordinator(@, Self(p))]
                    ELSE [node EXCEPT ![p] = IF LinkedTo(r, m.id) THEN r
                                              ELSE [AddMember(r, m) EXCEPT !.calls = AddMember(r, m).calls
                                                     \cup {[t EXCEPT !.kind = "reassure"]}]])
  <2>1. r.calls = left
    BY <1>1 DEF Nodes
  <2>2. AddMember(r, m).calls = r.calls
    BY <1>1 DEF AddMember, Nodes
  <2>. QED  BY <2>1, <2>2 DEF Reassure
<1>. HIDE DEF left
<1>5. ASSUME NEW x, x = r
      PROVE  /\ x \in Nodes /\ SameWho(x, node[p]) /\ SameLists(x, node[p]) /\ SameEnd(x, node[p])
             /\ x.links = node[p].links /\ x.owed = node[p].owed /\ x.att = node[p].att
             /\ x.request = node[p].request /\ x.elect = node[p].elect /\ x.calls = left
  BY ONLY <1>1, <1>3, <1>5 DEF Nodes, SameWho, SameLists, SameEnd
<1>. HIDE DEF r
<1>6. r \in Nodes /\ Sane(r) /\ r.role # "joining"
  BY <1>1, <1>5 DEF Sane, SameWho, SameLists
<1>. DEFINE d == AddMember(r, m)
<1>7. /\ d \in Nodes /\ Sane(d) /\ d.role # "joining"
      /\ SameWho(d, r) /\ SameEnd(d, r) /\ SameWork(d, r) /\ d.elect = r.elect
      /\ d.members = Upsert(r.members, m)
      /\ d.lowest = IF r.lowest = 0 \/ m.id < r.lowest THEN m.id ELSE r.lowest
  BY <1>2, <1>6, AddMemberEffect, SaneHandlers DEF SameWho
<1>8. node' = IF Reachable(q) THEN [[node EXCEPT ![p] = n] EXCEPT ![q] = HandleCoordinator(@, Self(p))]
              ELSE [node EXCEPT ![p] = n]
  BY <1>4, <1>5
<1>. HIDE DEF more, d
<1>9. ASSUME NEW x, x = [d EXCEPT !.calls = more]
      PROVE  /\ x \in Nodes /\ SameWho(x, d) /\ SameLists(x, d) /\ SameEnd(x, d)
             /\ x.links = d.links /\ x.owed = d.owed /\ x.att = d.att
             /\ x.request = d.request /\ x.elect = d.elect /\ x.calls = more
  BY ONLY <1>7, <1>3, <1>9 DEF Nodes, SameWho, SameLists, SameEnd
<1>10. /\ n \in Nodes /\ Sane(n) /\ n.role # "joining"
       /\ SameWho(n, node[p]) /\ SameEnd(n, node[p])
       /\ n.links = node[p].links /\ n.owed = node[p].owed /\ n.att = node[p].att
       /\ n.request = node[p].request /\ n.elect = node[p].elect
       /\ \/ /\ SameLists(n, node[p]) /\ n.calls = node[p].calls \ {t}
          \/ /\ n.members = Upsert(node[p].members, m)
             /\ n.lowest = (IF node[p].lowest = 0 \/ m.id < node[p].lowest THEN m.id
                           ELSE node[p].lowest)
             /\ n.calls = (node[p].calls \ {t}) \cup {[t EXCEPT !.kind = "reassure"]}
  <2>1. CASE LinkedTo(r, m.id)
    <3>1. n = r
      BY <2>1
    <3>. HIDE DEF n
    <3>. QED  BY <1>5, <1>6, <3>1 DEF left
  <2>2. CASE ~LinkedTo(r, m.id)
    <3>1. n = [d EXCEPT !.calls = more]
      BY <2>2 DEF d
    <3>. HIDE DEF n
    <3>2. /\ n \in Nodes /\ SameWho(n, d) /\ SameLists(n, d) /\ SameEnd(n, d)
          /\ n.links = d.links /\ n.owed = d.owed /\ n.att = d.att
          /\ n.request = d.request /\ n.elect = d.elect /\ n.calls = more
      BY <1>9, <3>1
    <3>3. Sane(n)
      BY <1>7, <3>2 DEF Sane, SameWho, SameLists
    <3>. QED  BY <1>5, <1>7, <3>2, <3>3 DEF SameWho, SameLists, SameEnd, SameWork, left, more
  <2>. QED  BY <2>1, <2>2
<1>. HIDE DEF n
<1>. DEFINE f == [node EXCEPT ![p] = n]
<1>11. AllSane(f) /\ f[p] = n /\ \A s \in Servers \ {p} : f[s] = node[s]
  BY <1>10, SetNode
<1>12. Self(p) \in Members
  BY <1>1, SelfTyped
<1>. HIDE DEF f, m, q
<1>13. CASE Reachable(q)
  <2>1. node' = [f EXCEPT ![q] = HandleCoordinator(f[q], Self(p))]
    BY <1>8, <1>13 DEF f
  <2>2. f[q].role # "joining" /\ f[q] \in Nodes
    BY <1>2, <1>10, <1>11, <1>13 DEF Reachable, AllSane
  <2>3. AllSane(node')
    BY <1>2, <1>11, <1>12, <2>1, <2>2, TwoSane
  <2>4. q # p => /\ \A s \in Servers \ {p, q} : node'[s] = node[s]
                 /\ node'[p] = n /\ node'[q] = HandleCoordinator(node[q], Self(p))
    <3>1. f \in [Servers -> Nodes]
      BY <1>11 DEF AllSane
    <3>. QED  BY <1>2, <1>11, <2>1, <3>1
  <2>. QED  BY <1>2, <1>10, <1>13, <2>3, <2>4 DEF m, q
<1>14. CASE ~Reachable(q)
  <2>1. node' = f
    BY <1>8, <1>14 DEF f
  <2>. QED  BY <1>2, <1>10, <1>11, <1>14, <2>1 DEF m, q
<1>. QED  BY <1>13, <1>14

\* A heartbeat that fails drops the link.
LEMMA DetectDeadLinkEffect ==
    ASSUME AllSane(node), NEW p \in Servers, NEW l \in node[p].links, DetectDeadLink(p, l)
    PROVE  /\ AllSane(node') /\ l \in Links
           /\ \A s \in Servers \ {p} : node'[s] = node[s]
           /\ node'[p] = DropLink(node[p], l.id)
<1>. DEFINE a == DropLink(node[p], l.id)
<1>1. node[p] \in Nodes /\ Sane(node[p]) /\ node[p].role # "joining"
  BY Busy DEF AllSane
<1>2. a \in Nodes /\ Sane(a)
  BY <1>1, SaneHandlers
<1>3. node' = [node EXCEPT ![p] = a]
  BY DEF DetectDeadLink
<1>. HIDE DEF a
<1>4. AllSane(node') /\ node'[p] = a /\ \A s \in Servers \ {p} : node'[s] = node[s]
  BY <1>2, <1>3, Become
<1>. QED  BY <1>1, <1>4 DEF a, Nodes

\* A backup whose link is gone holds an election.
LEMMA LinkLostEffect ==
    ASSUME AllSane(node), NEW b \in Servers, LinkLost(b)
    PROVE  /\ AllSane(node')
           /\ \A s \in Servers \ {b} : node'[s] = node[s]
           /\ \E n \in Nodes :
                 /\ SameWho(n, node[b]) /\ SameLists(n, node[b]) /\ SameWork(n, node[b])
                 /\ n.primaryLink = None /\ n.elect = node[b].elect
                 /\ node'[b] = StartElection(n)
<1>. DEFINE n == [node[b] EXCEPT !.primaryLink = None]
            a == StartElection(n)
<1>1. node[b] \in Nodes /\ Sane(node[b]) /\ node[b].role # "joining"
  BY Busy DEF AllSane, LinkLost
<1>2. node' = [node EXCEPT ![b] = a]
  BY DEF LinkLost
<1>3. ASSUME NEW r, r = n
      PROVE  /\ r \in Nodes /\ SameWho(r, node[b]) /\ SameLists(r, node[b])
             /\ SameWork(r, node[b]) /\ r.primaryLink = None /\ r.elect = node[b].elect
  BY ONLY <1>1, <1>3 DEF Nodes, SameWho, SameLists, SameWork
<1>. HIDE DEF n
<1>4. Sane(n) /\ n \in Nodes /\ n.role # "joining"
  BY <1>1, <1>3 DEF Sane, SameWho, SameLists, SameWork
<1>5. a \in Nodes /\ Sane(a)
  BY <1>4, SaneHandlers
<1>. HIDE DEF a
<1>6. AllSane(node') /\ node'[b] = a /\ \A s \in Servers \ {b} : node'[s] = node[s]
  BY <1>2, <1>5, Become
<1>. QED  BY <1>3, <1>6 DEF a

\* A backup that has heard nothing holds an election.
LEMMA SuspectEffect ==
    ASSUME AllSane(node), NEW b \in Servers, Suspect(b)
    PROVE  /\ AllSane(node')
           /\ \A s \in Servers \ {b} : node'[s] = node[s]
           /\ node'[b] = StartElection(node[b])
<1>. DEFINE a == StartElection(node[b])
<1>1. node[b] \in Nodes /\ Sane(node[b]) /\ node[b].role # "joining"
  BY DEF AllSane, Suspect
<1>2. node' = [node EXCEPT ![b] = a]
  BY DEF Suspect
<1>3. a \in Nodes /\ Sane(a)
  BY <1>1, SaneHandlers
<1>. HIDE DEF a
<1>4. AllSane(node') /\ node'[b] = a /\ \A s \in Servers \ {b} : node'[s] = node[s]
  BY <1>2, <1>3, Become
<1>. QED  BY <1>4 DEF a

\* Everything but the election thread and what a Coordinator says.
SameButElection(r, n) == SameWho(r, n) /\ SameLists(r, n) /\ SameWork(r, n) /\ SameEnd(r, n)

\* run_election asks the members with higher ids; on a primary it ends at once.
LEMMA ElectStartEffect ==
    ASSUME AllSane(node), NEW s \in Servers, ElectStart(s)
    PROVE  /\ AllSane(node')
           /\ \A x \in Servers \ {s} : node'[x] = node[x]
           /\ SameButElection(node'[s], node[s])
           /\ node[s].role = "primary" => node'[s].elect = NotElecting
           /\ node[s].role # "primary" =>
                 /\ node'[s].elect.phase = "ask" /\ node'[s].elect.todo = Higher(node[s])
                 /\ node'[s].elect.alive = FALSE
<1>1. node[s] \in Nodes /\ Sane(node[s]) /\ node[s].role # "joining"
  BY Busy DEF AllSane, ElectStart
<1>2. CASE node[s].role = "primary"
  <2>. DEFINE a == [node[s] EXCEPT !.elect = NotElecting]
  <2>1. node' = [node EXCEPT ![s] = a]
    BY <1>2 DEF ElectStart, AllSane
  <2>2. ASSUME NEW r, r = a
        PROVE  r \in Nodes /\ SameButElection(r, node[s]) /\ r.elect = NotElecting
    BY <1>1, <2>2, NoElection DEF SameButElection
  <2>. HIDE DEF a
  <2>3. a \in Nodes /\ Sane(a)
    BY <1>1, <2>2 DEF Sane, TodoFits, SameButElection, SameWho, SameLists, SameWork, NotElecting
  <2>4. AllSane(node') /\ node'[s] = a /\ \A x \in Servers \ {s} : node'[x] = node[x]
    BY <2>1, <2>3, Become
  <2>. QED  BY <1>2, <2>2, <2>4
<1>3. CASE node[s].role # "primary"
  <2>. DEFINE todo == Higher(node[s])
              e == [NotElecting EXCEPT !.phase = "ask", !.todo = todo]
              a == [node[s] EXCEPT !.known = FALSE, !.seen = FALSE, !.elect = e]
  <2>1. node' = [node EXCEPT ![s] = a]
    BY <1>3 DEF ElectStart, AllSane
  <2>2. todo \in SUBSET Members
    BY <1>1 DEF Higher, Nodes
  <2>. HIDE DEF todo
  <2>3. e \in Elects /\ e.phase = "ask" /\ e.todo = todo /\ e.alive = FALSE
    BY <2>2 DEF NotElecting, Elects, Phases
  <2>. HIDE DEF e
  <2>4. ASSUME NEW r, r = a
        PROVE  r \in Nodes /\ SameButElection(r, node[s]) /\ r.elect = e
    BY ONLY <1>1, <2>3, <2>4
       DEF Nodes, Elects, Phases, SameButElection, SameWho, SameLists, SameWork, SameEnd
  <2>. HIDE DEF a
  <2>5. a \in Nodes /\ Sane(a)
    BY <1>1, <2>3, <2>4 DEF Sane, TodoFits, SameButElection, SameWho, SameLists, SameWork
  <2>6. AllSane(node') /\ node'[s] = a /\ \A x \in Servers \ {s} : node'[x] = node[x]
    BY <2>1, <2>5, Become
  <2>. QED  BY <1>3, <2>3, <2>4, <2>6 DEF todo
<1>. QED  BY <1>2, <1>3

\* An Election message changes the asker's thread, and the server asked handles it.
LEMMA AskEffect ==
    ASSUME AllSane(node), NEW s \in Servers, NEW m \in node[s].elect.todo,
           NEW answered \in BOOLEAN, Ask(s, m, answered)
    PROVE  LET q == m.srv IN
           /\ AllSane(node') /\ q \in Servers
           /\ \E n \in Nodes :
                 /\ SameButElection(n, node[s]) /\ n.elect.phase = "ask"
                 /\ n.elect.todo = node[s].elect.todo \ {m}
                 /\ n.elect.alive = (node[s].elect.alive \/ answered)
                 /\ Reachable(q) /\ q # s =>
                       /\ \A x \in Servers \ {s, q} : node'[x] = node[x]
                       /\ node'[s] = n
                       /\ node'[q] = HandleElection(node[q], Self(s))
                 /\ Reachable(q) /\ q = s =>
                       /\ \A x \in Servers \ {s} : node'[x] = node[x]
                       /\ node'[s] = HandleElection(n, Self(s))
                 /\ ~Reachable(q) =>
                       /\ \A x \in Servers \ {s} : node'[x] = node[x]
                       /\ node'[s] = n
<1>1. node[s] \in Nodes /\ Sane(node[s]) /\ node[s].role # "joining" /\ node[s].elect.phase = "ask"
  BY Busy DEF AllSane, Ask
<1>. DEFINE q == m.srv
            left == node[s].elect.todo \ {m}
            heard == node[s].elect.alive \/ answered
            e == [node[s].elect EXCEPT !.todo = left, !.alive = heard]
            n == [node[s] EXCEPT !.elect = e]
            f == [node EXCEPT ![s] = n]
<1>2. node[s].elect \in Elects
  BY <1>1, ElectTyped
<1>3. q \in Servers
  BY <1>2 DEF Elects, Members, Links
<1>4. f = [node EXCEPT ![s].elect.todo = @ \ {m}, ![s].elect.alive = HigherAlive(@, answered)]
  BY <1>2 DEF AllSane, HigherAlive
<1>5. node' = IF Reachable(q) THEN [f EXCEPT ![q] = HandleElection(f[q], Self(s))] ELSE f
  <2>. HIDE DEF f
  <2>. QED  BY <1>4 DEF Ask
<1>6. left \in SUBSET (Members \cup Links) /\ heard \in BOOLEAN
  BY <1>2 DEF Elects
<1>. HIDE DEF left, heard
<1>7. e \in Elects /\ e.phase = node[s].elect.phase /\ e.todo = left /\ e.alive = heard
  BY <1>2, <1>6 DEF Elects
<1>. HIDE DEF e
<1>8. ASSUME NEW r, r = n
      PROVE  r \in Nodes /\ SameButElection(r, node[s]) /\ r.elect = e
  BY ONLY <1>1, <1>7, <1>8
     DEF Nodes, Elects, Phases, SameButElection, SameWho, SameLists, SameWork, SameEnd
<1>. HIDE DEF n
<1>9. n \in Nodes /\ Sane(n) /\ n.role # "joining"
  BY <1>1, <1>7, <1>8 DEF Sane, TodoFits, SameButElection, SameWho, SameLists, SameWork
<1>10. AllSane(f) /\ f[s] = n /\ \A x \in Servers \ {s} : f[x] = node[x]
  BY <1>9, SetNode
<1>11. Self(s) \in Members
  BY <1>1, SelfTyped
<1>12. SameButElection(n, node[s]) /\ n.elect.phase = "ask" /\ n.elect.todo = node[s].elect.todo \ {m}
       /\ n.elect.alive = (node[s].elect.alive \/ answered)
  BY <1>1, <1>7, <1>8 DEF left, heard
<1>. HIDE DEF f, q
<1>13. CASE Reachable(q)
  <2>1. f[q].role # "joining" /\ f[q] \in Nodes
    BY <1>3, <1>9, <1>10, <1>13 DEF Reachable, AllSane
  <2>2. node' = [f EXCEPT ![q] = HandleElection(f[q], Self(s))]
    BY <1>5, <1>13
  <2>3. AllSane(node')
    BY <1>3, <1>10, <1>11, <2>1, <2>2, TwoSane
  <2>4. f \in [Servers -> Nodes]
    BY <1>10 DEF AllSane
  <2>5. q # s => /\ \A x \in Servers \ {s, q} : node'[x] = node[x]
                 /\ node'[s] = n /\ node'[q] = HandleElection(node[q], Self(s))
    BY <1>3, <1>10, <2>2, <2>4
  <2>6. q = s => /\ \A x \in Servers \ {s} : node'[x] = node[x]
                 /\ node'[s] = HandleElection(n, Self(s))
    BY <1>3, <1>10, <2>2, <2>4
  <2>. QED  BY <1>3, <1>9, <1>12, <1>13, <2>3, <2>5, <2>6 DEF q
<1>14. CASE ~Reachable(q)
  <2>1. node' = f
    BY <1>5, <1>14
  <2>. QED  BY <1>3, <1>9, <1>10, <1>12, <1>14, <2>1 DEF q
<1>. QED  BY <1>13, <1>14

\* A Coordinator ends the wait of an election.
LEMMA AnnouncedEffect ==
    ASSUME AllSane(node), NEW s \in Servers, Announced(s)
    PROVE  /\ AllSane(node')
           /\ \A x \in Servers \ {s} : node'[x] = node[x]
           /\ SameButElection(node'[s], node[s]) /\ node'[s].elect = NotElecting
<1>1. node[s] \in Nodes /\ Sane(node[s]) /\ node[s].role # "joining"
  BY Busy DEF AllSane, Announced
<1>. DEFINE a == [node[s] EXCEPT !.elect = NotElecting]
<1>2. node' = [node EXCEPT ![s] = a]
  BY DEF Announced, AllSane
<1>3. ASSUME NEW r, r = a
      PROVE  r \in Nodes /\ SameButElection(r, node[s]) /\ r.elect = NotElecting
  BY <1>1, <1>3, NoElection DEF SameButElection
<1>. HIDE DEF a
<1>4. a \in Nodes /\ Sane(a)
  BY <1>1, <1>3 DEF Sane, TodoFits, SameButElection, SameWho, SameLists, SameWork, NotElecting
<1>5. AllSane(node') /\ node'[s] = a /\ \A x \in Servers \ {s} : node'[x] = node[x]
  BY <1>2, <1>4, Become
<1>. QED  BY <1>3, <1>5

\* Without a Coordinator the election starts over.
LEMMA WaitTimeoutEffect ==
    ASSUME AllSane(node), NEW s \in Servers, WaitTimeout(s)
    PROVE  /\ AllSane(node')
           /\ \A x \in Servers \ {s} : node'[x] = node[x]
           /\ SameButElection(node'[s], node[s]) /\ node'[s].elect.phase = "start"
<1>1. node[s] \in Nodes /\ Sane(node[s]) /\ node[s].role # "joining"
  BY Busy DEF AllSane, WaitTimeout
<1>2. node[s].elect \in Elects
  BY <1>1, ElectTyped
<1>. DEFINE e == node[s].elect
            a == WithElect(node[s], "start", e.todo, e.others)
<1>3. node' = [node EXCEPT ![s] = a]
  BY <1>2 DEF WaitTimeout, AllSane, WithElect, Elects, Nodes
<1>4. e.todo \in SUBSET (Members \cup Links) /\ e.others \in SUBSET Members /\ "start" \in Phases
  BY <1>2 DEF Elects, Phases
<1>. HIDE DEF e
<1>5. a \in Nodes /\ SameButElection(a, node[s]) /\ a.elect.phase = "start"
  BY <1>1, <1>4, ElectChange DEF SameButElection
<1>. HIDE DEF a
<1>6. Sane(a)
  BY <1>1, <1>5 DEF Sane, TodoFits, SameButElection, SameWho, SameLists, SameWork
<1>7. AllSane(node') /\ node'[s] = a /\ \A x \in Servers \ {s} : node'[x] = node[x]
  BY <1>3, <1>5, <1>6, Become
<1>. QED  BY <1>5, <1>7

\* become_primary keeps its server sane.
LEMMA NextLoopSane ==
    ASSUME NEW n \in Nodes, Sane(n), n.role # "joining"
    PROVE  NextLoop(n) \in Nodes /\ Sane(NextLoop(n))
<1>. DEFINE r == NextLoop(n)
<1>1. /\ r \in Nodes /\ SameWho(r, n) /\ SameLists(r, n) /\ SameWork(r, n) /\ SameEnd(r, n)
      /\ GoesOn(r, n)
  BY NextLoopEffect
<1>. HIDE DEF r
<1>2. TodoFits(r.elect)
  BY <1>1, GoesOnSane
<1>3. Sane(r)
  BY <1>1, <1>2 DEF Sane, SameWho, SameLists, SameWork
<1>. QED  BY <1>1, <1>3 DEF r

\* The members become_primary keeps.
Kept(n) == IF n.primaryId # n.id THEN Without(n.members, n.primaryId) ELSE n.members

\* become_primary drops the old primary from the list and announces itself to the rest.
LEMMA BecomePrimaryEffect ==
    ASSUME AllSane(node), NEW s \in Servers, BecomePrimary(s)
    PROVE  /\ AllSane(node')
           /\ \A x \in Servers \ {s} : node'[x] = node[x]
           /\ \E n \in Nodes :
                 /\ n.id = node[s].id /\ n.role = "primary" /\ n.primaryId = node[s].id
                 /\ n.members = Kept(node[s]) /\ n.primaryLink = None
                 /\ n.lowest = Min({node[s].id} \cup Ids(Kept(node[s])))
                 /\ SameWork(n, node[s])
                 /\ n.elect.phase = "announce"
                 /\ n.elect.todo = Without(Kept(node[s]), node[s].id)
                 /\ n.elect.others = Without(Kept(node[s]), node[s].id)
                 /\ node'[s] = NextLoop(n)
<1>1. node[s] \in Nodes /\ Sane(node[s]) /\ node[s].role # "joining" /\ node[s].id # 0
  BY Busy DEF AllSane, BecomePrimary, Sane
<1>. DEFINE n == node[s]
            list == Kept(n)
            others == Without(list, n.id)
            low == Min({n.id} \cup Ids(list))
            e == [NotElecting EXCEPT !.phase = "announce", !.todo = others, !.others = others]
            a == [n EXCEPT !.role = "primary", !.primary = s, !.primaryId = n.id,
                        !.known = TRUE, !.members = list, !.primaryLink = None,
                        !.lowest = low, !.elect = e]
            z == NextLoop(a)
<1>2. node' = [node EXCEPT ![s] = z]
  BY DEF BecomePrimary, Kept
<1>3. list \in SUBSET Members /\ others \in SUBSET Members
  BY <1>1 DEF Kept, Without, Nodes
<1>4. n.id \in 0..FirstId /\ s \in Servers \cup {None}
  BY <1>1 DEF Nodes
<1>5. low \in 0..FirstId /\ low # 0
  <2>. HIDE DEF list
  <2>. QED  BY <1>1, <1>3, <1>4, MinTyped
<1>. HIDE DEF list, others, low
<1>6. e \in Elects /\ e.phase = "announce" /\ e.todo = others /\ e.others = others
  BY <1>3 DEF NotElecting, Elects, Phases
<1>. HIDE DEF e, n
<1>7. ASSUME NEW r, r = a
      PROVE  /\ r \in Nodes /\ r.id = n.id /\ r.role = "primary" /\ r.primaryId = n.id
             /\ r.members = list /\ r.primaryLink = None /\ r.lowest = low
             /\ SameWork(r, n) /\ r.elect = e
  <2>1. n \in Nodes
    BY <1>1 DEF n
  <2>. QED  BY ONLY <2>1, <1>3, <1>4, <1>5, <1>6, <1>7 DEF Nodes, Elects, Phases, SameWork
<1>. HIDE DEF a
<1>8. a \in Nodes /\ Sane(a) /\ a.role # "joining"
  BY <1>1, <1>5, <1>6, <1>7 DEF Sane, TodoFits, SameWork, n
<1>9. z \in Nodes /\ Sane(z)
  BY <1>8, NextLoopSane
<1>10. z = NextLoop(a)
  OBVIOUS
<1>. HIDE DEF z
<1>11. AllSane(node') /\ node'[s] = z /\ \A x \in Servers \ {s} : node'[x] = node[x]
  BY <1>2, <1>9, Become
<1>. QED  BY <1>6, <1>7, <1>8, <1>10, <1>11 DEF n, list, others, low

\* announce_to has the other server handle a Coordinator.
LEMMA AnnounceEffect ==
    ASSUME AllSane(node), NEW s \in Servers, NEW m \in node[s].elect.todo, Announce(s, m)
    PROVE  LET q == m.srv
               a == Called(node[s], m) IN
           /\ AllSane(node') /\ q \in Servers
           /\ Reachable(q) /\ q # s =>
                 /\ \A x \in Servers \ {s, q} : node'[x] = node[x]
                 /\ node'[s] = a
                 /\ node'[q] = HandleCoordinator(node[q], Self(s))
           /\ ~Reachable(q) =>
                 /\ \A x \in Servers \ {s} : node'[x] = node[x]
                 /\ node'[s] = a
<1>1. node[s] \in Nodes /\ Sane(node[s]) /\ node[s].role # "joining"
  BY Busy DEF AllSane, Announce
<1>. DEFINE q == m.srv
            a == Called(node[s], m)
            f == [node EXCEPT ![s] = a]
<1>2. q \in Servers
  BY <1>1, ElectTyped DEF Elects, Members, Links
<1>3. node' = IF Reachable(q) THEN [f EXCEPT ![q] = HandleCoordinator(f[q], Self(s))] ELSE f
  BY DEF Announce
<1>4. a \in Nodes /\ Sane(a) /\ SameWho(a, node[s])
  BY <1>1, SaneHandlers, CalledEffect
<1>5. Self(s) \in Members
  BY <1>1, SelfTyped
<1>. HIDE DEF a
<1>6. AllSane(f) /\ f[s] = a /\ \A x \in Servers \ {s} : f[x] = node[x]
  <2>1. AllSane(f)
    BY <1>4, SetNode
  <2>. QED  BY <2>1 DEF AllSane
<1>. HIDE DEF f, q
<1>7. CASE Reachable(q)
  <2>1. f[q].role # "joining" /\ f[q] \in Nodes
    BY <1>1, <1>2, <1>4, <1>6, <1>7 DEF Reachable, AllSane, SameWho
  <2>2. node' = [f EXCEPT ![q] = HandleCoordinator(f[q], Self(s))]
    BY <1>3, <1>7
  <2>3. AllSane(node')
    BY <1>2, <1>5, <1>6, <2>1, <2>2, TwoSane
  <2>4. f \in [Servers -> Nodes]
    BY <1>6 DEF AllSane
  <2>5. q # s => /\ \A x \in Servers \ {s, q} : node'[x] = node[x]
                 /\ node'[s] = a /\ node'[q] = HandleCoordinator(node[q], Self(s))
    BY <1>2, <1>6, <2>2, <2>4
  <2>. QED  BY <1>2, <1>7, <2>3, <2>5 DEF q, a
<1>8. CASE ~Reachable(q)
  <2>1. node' = f
    BY <1>3, <1>8
  <2>. QED  BY <1>2, <1>6, <1>8, <2>1 DEF q, a
<1>. QED  BY <1>7, <1>8

\* become_primary attaches the members it has announced itself to.
LEMMA ElectAttachEffect ==
    ASSUME AllSane(node), NEW s \in Servers, NEW m \in node[s].elect.todo, ElectAttach(s, m)
    PROVE  node[s].role # "joining" /\ m \in Members /\ BeginAttach(s, m, None)
<1>1. node[s].role # "joining"
  BY Busy DEF AllSane, ElectAttach
<1>2. m \in Members
  BY DEF AllSane, Sane, TodoFits, ElectAttach
<1>. QED  BY <1>1, <1>2 DEF ElectAttach

\* A thread of handle_join or handle_election attaches its member.
LEMMA CallAttachEffect ==
    ASSUME AllSane(node), NEW p \in Servers, NEW t \in node[p].calls, CallAttach(p, t)
    PROVE  node[p].role # "joining" /\ t \in Calls /\ t.m \in Members /\ BeginAttach(p, t.m, t)
<1>1. node[p].role # "joining" /\ node[p] \in Nodes
  BY Busy DEF AllSane
<1>2. t \in Calls /\ t.m \in Members
  BY <1>1 DEF Nodes, Calls
<1>. QED  BY <1>1, <1>2 DEF CallAttach

\* become_primary sends the list to one link, or drops it.
LEMMA ElectBroadcastEffect ==
    ASSUME AllSane(node), NEW s \in Servers, NEW l \in node[s].elect.todo, ElectBroadcast(s, l)
    PROVE  LET q == l.srv
               n == Called(node[s], l) IN
           /\ AllSane(node') /\ l \in Links
           /\ Live(s, l) /\ q # s =>
                 /\ \A x \in Servers \ {s, q} : node'[x] = node[x]
                 /\ node'[s] = n
                 /\ SameWho(node'[q], node[q]) /\ SameWork(node'[q], node[q])
                 /\ SameEnd(node'[q], node[q]) /\ node'[q].elect = node[q].elect
                 /\ node'[q].members = Upsert(node[s].elect.others, Self(q))
           /\ ~Live(s, l) =>
                 /\ \A x \in Servers \ {s} : node'[x] = node[x]
                 /\ node'[s] = DropLink(n, l.id)
<1>1. node[s] \in Nodes /\ Sane(node[s]) /\ node[s].role # "joining"
  BY Busy DEF AllSane, ElectBroadcast
<1>2. l \in Links
  BY <1>1 DEF Sane, TodoFits, ElectBroadcast
<1>. DEFINE n == Called(node[s], l)
            list == node[s].elect.others
<1>3. n \in Nodes /\ Sane(n) /\ SameWho(n, node[s])
  BY <1>1, SaneHandlers, CalledEffect
<1>4. list \in SUBSET Members
  BY <1>1, ElectTyped DEF Elects
<1>5. Tell(s, l, list, n)
  BY DEF ElectBroadcast
<1>6. n.role # "joining"
  BY <1>1, <1>3 DEF SameWho
<1>. HIDE DEF n, list
<1>7. /\ AllSane(node')
      /\ Live(s, l) /\ l.srv # s =>
            /\ \A x \in Servers \ {s, l.srv} : node'[x] = node[x]
            /\ node'[s] = n
            /\ SameWho(node'[l.srv], node[l.srv]) /\ SameWork(node'[l.srv], node[l.srv])
            /\ SameEnd(node'[l.srv], node[l.srv]) /\ node'[l.srv].elect = node[l.srv].elect
            /\ node'[l.srv].members = Upsert(list, Self(l.srv))
      /\ ~Live(s, l) =>
            /\ \A x \in Servers \ {s} : node'[x] = node[x]
            /\ node'[s] = DropLink(n, l.id)
  BY <1>1, <1>2, <1>3, <1>4, <1>5, <1>6, TellEffect
<1>. QED  BY <1>2, <1>7 DEF n, list

\* A request of a client is all that Accept adds.
LEMMA AcceptEffect ==
    ASSUME AllSane(node), NEW s \in Servers, Accept(s)
    PROVE  /\ AllSane(node')
           /\ \A x \in Servers \ {s} : node'[x] = node[x]
           /\ SameWho(node'[s], node[s]) /\ SameLists(node'[s], node[s])
           /\ SameEnd(node'[s], node[s]) /\ node'[s].elect = node[s].elect
           /\ node'[s].links = node[s].links /\ node'[s].owed = node[s].owed
           /\ node'[s].att = node[s].att /\ node'[s].calls = node[s].calls
<1>1. node[s] \in Nodes /\ Sane(node[s]) /\ node[s].role = "primary"
  BY DEF AllSane, Accept
<1>. DEFINE a == [node[s] EXCEPT !.request = TRUE]
<1>2. node' = [node EXCEPT ![s] = a]
  BY DEF Accept, AllSane
<1>3. ASSUME NEW r, r = a
      PROVE  /\ r \in Nodes /\ SameWho(r, node[s]) /\ SameLists(r, node[s])
             /\ SameEnd(r, node[s]) /\ r.elect = node[s].elect
             /\ r.links = node[s].links /\ r.owed = node[s].owed
             /\ r.att = node[s].att /\ r.calls = node[s].calls
  BY ONLY <1>1, <1>3 DEF Nodes, SameWho, SameLists, SameEnd
<1>. HIDE DEF a
<1>4. Sane(a) /\ a \in Nodes
  BY <1>1, <1>3 DEF Sane, SameWho, SameLists
<1>5. AllSane(node') /\ node'[s] = a /\ \A x \in Servers \ {s} : node'[x] = node[x]
  BY <1>2, <1>4, Become
<1>. QED  BY <1>3, <1>5

\* The links a change does not reach.
Dead(s) == {l \in node[s].links : ~Live(s, l)}
\* The members that remain when the ids of these links are removed.
Spared(list, gone) == {m \in list : m.id \notin Ids(gone)}

\* A change drops the links that do not work, with their members, and no others.
LEMMA CommitEffect ==
    ASSUME AllSane(node), NEW s \in Servers, NEW v, Commit(s, v)
    PROVE  /\ AllSane(node')
           /\ \A x \in Servers \ {s} : node'[x] = node[x]
           /\ SameWho(node'[s], node[s]) /\ node'[s].lowest = node[s].lowest
           /\ SameEnd(node'[s], node[s]) /\ node'[s].elect = node[s].elect
           /\ node'[s].att = node[s].att /\ node'[s].calls = node[s].calls
           /\ node'[s].links = node[s].links \ Dead(s)
           /\ node'[s].members = Spared(node[s].members, Dead(s))
           /\ node'[s].owed = node[s].owed
              \/ node'[s].owed = node[s].owed \cup Notes(node'[s].links, node'[s].members)
           /\ Dead(s) = {} => node'[s].owed = node[s].owed
<1>1. node[s] \in Nodes /\ Sane(node[s]) /\ node[s].role # "joining"
  BY Busy DEF AllSane, Commit
<1>. DEFINE n == node[s]
            dead == Dead(s)
            links == n.links \ dead
            list == Spared(n.members, dead)
            r == [n EXCEPT !.request = FALSE, !.links = links, !.members = list]
            a == IF dead = {} THEN r ELSE Broadcast(r)
<1>2. node' = [node EXCEPT ![s] = a]
  BY DEF Commit, Dead, Spared
<1>3. links \in SUBSET Links /\ list \in SUBSET Members /\ IsFiniteSet(links)
  BY <1>1, FS_Subset DEF Nodes, Spared, Sane
<1>. HIDE DEF links, list
<1>4. ASSUME NEW x, x = r
      PROVE  /\ x \in Nodes /\ SameWho(x, n) /\ x.lowest = n.lowest /\ SameEnd(x, n)
             /\ x.elect = n.elect /\ x.att = n.att /\ x.calls = n.calls /\ x.links = links
             /\ x.members = list /\ x.owed = n.owed /\ x.request = FALSE
  BY ONLY <1>1, <1>3, <1>4 DEF Nodes, SameWho, SameEnd
<1>. HIDE DEF r, dead
<1>5. /\ a \in Nodes /\ SameWho(a, n) /\ a.lowest = n.lowest /\ SameEnd(a, n)
      /\ a.elect = n.elect /\ a.att = n.att /\ a.calls = n.calls /\ a.links = links
      /\ a.members = list /\ a.request = FALSE
      /\ \/ a.owed = n.owed
         \/ a.owed = n.owed \cup Notes(links, list)
      /\ dead = {} => a.owed = n.owed
  <2>1. CASE dead = {}
    BY <1>4, <2>1
  <2>2. CASE dead # {}
    <3>1. /\ r \in Nodes /\ SameWho(r, n) /\ r.lowest = n.lowest /\ SameEnd(r, n)
          /\ r.elect = n.elect /\ r.att = n.att /\ r.calls = n.calls /\ r.links = links
          /\ r.members = list /\ r.owed = n.owed /\ r.request = FALSE
      BY <1>4
    <3>2. a = Broadcast(r)
      BY <2>2
    <3>. HIDE DEF a
    <3>. QED  BY <3>1, <3>2, <2>2, BroadcastEffect DEF SameWho, SameLists, SameEnd
  <2>. QED  BY <2>1, <2>2
<1>. HIDE DEF a, n
<1>6. Sane(a)
  <2>1. IsFiniteSet(a.owed)
    BY <1>1, <1>3, <1>5, FiniteBroadcast DEF Sane, n
  <2>. QED  BY <1>1, <1>3, <1>5, <2>1 DEF Sane, SameWho, n
<1>7. a \in Nodes
  BY <1>5
<1>8. AllSane(node') /\ node'[s] = a /\ \A x \in Servers \ {s} : node'[x] = node[x]
  BY <1>2, <1>6, <1>7, Become
<1>. QED  BY <1>5, <1>8 DEF links, list, dead, n

\* A crash leaves a server with nothing in memory.
LEMMA CrashEffect ==
    ASSUME AllSane(node), NEW s \in Servers, Crash(s)
    PROVE  /\ AllSane(node') /\ node'[s] = Fresh
           /\ \A x \in Servers \ {s} : node'[x] = node[x]
BY FreshSane, Become DEF Crash

-----------------------------------------------------------------------------
(* Types.                                                                   *)

\* An attach keeps every server sane.
LEMMA AttachSane ==
    ASSUME AllSane(node), NEW p \in Servers, node[p].role # "joining", NEW m \in Members,
           NEW by \in Calls \cup {None}, BeginAttach(p, m, by)
    PROVE  AllSane(node')
BY BeginAttachEffect

\* So does every thread of a primary.
LEMMA PrimaryStepSane ==
    ASSUME AllSane(node), NEW p \in Servers, PrimaryStep(p)
    PROVE  AllSane(node')
<1>1. ASSUME NEW t \in node[p].calls, JoinAdmit(p, t) PROVE AllSane(node')
  BY <1>1, JoinAdmitEffect
<1>2. ASSUME NEW t \in node[p].calls, CallAttach(p, t) PROVE AllSane(node')
  BY <1>2, CallAttachEffect, AttachSane
<1>3. ASSUME NEW t \in node[p].calls, Reassure(p, t) PROVE AllSane(node')
  BY <1>3, ReassureEffect
<1>4. CASE EndAttach(p)
  BY <1>4, EndAttachEffect
<1>5. ASSUME NEW o \in node[p].owed, TellMembers(p, o) PROVE AllSane(node')
  BY <1>5, TellMembersEffect
<1>6. ASSUME NEW l \in node[p].links, DetectDeadLink(p, l) PROVE AllSane(node')
  BY <1>6, DetectDeadLinkEffect
<1>. QED  BY <1>1, <1>2, <1>3, <1>4, <1>5, <1>6 DEF PrimaryStep

\* So does every step of an election.
LEMMA ElectionStepSane ==
    ASSUME AllSane(node), NEW s \in Servers, ElectionStep(s)
    PROVE  AllSane(node')
<1>1. CASE ElectStart(s)
  BY <1>1, ElectStartEffect
<1>2. CASE Announced(s)
  BY <1>2, AnnouncedEffect
<1>3. CASE WaitTimeout(s)
  BY <1>3, WaitTimeoutEffect
<1>4. CASE BecomePrimary(s)
  BY <1>4, BecomePrimaryEffect
<1>5. ASSUME NEW m \in node[s].elect.todo, NEW answered \in BOOLEAN, Ask(s, m, answered)
      PROVE  AllSane(node')
  BY <1>5, AskEffect
<1>6. ASSUME NEW m \in node[s].elect.todo, Announce(s, m) PROVE AllSane(node')
  BY <1>6, AnnounceEffect
<1>7. ASSUME NEW m \in node[s].elect.todo, ElectAttach(s, m) PROVE AllSane(node')
  BY <1>7, ElectAttachEffect, AttachSane
<1>8. ASSUME NEW m \in node[s].elect.todo, ElectBroadcast(s, m) PROVE AllSane(node')
  BY <1>8, ElectBroadcastEffect
<1>. QED  BY <1>1, <1>2, <1>3, <1>4, <1>5, <1>6, <1>7, <1>8 DEF ElectionStep

\* So does every step: no handler writes a value that does not fit, and no id is 0.
LEMMA NextSane ==
    ASSUME AllSane(node), Next
    PROVE  AllSane(node')
<1>1. PICK s \in Servers :
         \/ \E j \in Servers : JoinRead(s, j)
         \/ PrimaryStep(s) \/ BackupStep(s) \/ ElectionStep(s)
         \/ Accept(s) \/ \E v \in Changes : Commit(s, v)
         \/ Crash(s) \/ Start(s)
  BY DEF Next
<1>2. ASSUME NEW j \in Servers, JoinRead(s, j) PROVE AllSane(node')
  BY <1>2, JoinReadEffect
<1>3. CASE PrimaryStep(s)
  BY <1>3, PrimaryStepSane
<1>4. CASE BackupStep(s)
  BY <1>4, LinkLostEffect, SuspectEffect DEF BackupStep
<1>5. CASE ElectionStep(s)
  BY <1>5, ElectionStepSane
<1>6. CASE Accept(s)
  BY <1>6, AcceptEffect
<1>7. ASSUME NEW v \in Changes, Commit(s, v) PROVE AllSane(node')
  BY <1>7, CommitEffect
<1>8. CASE Crash(s)
  BY <1>8, CrashEffect
<1>9. CASE Start(s)
  BY <1>9 DEF Start, AllSane
<1>. QED  BY <1>1, <1>2, <1>3, <1>4, <1>5, <1>6, <1>7, <1>8, <1>9

\* The other variables.
Bounded ==
    /\ up \subseteq Servers
    /\ has \in [Servers -> SUBSET Changes]
    /\ acked \subseteq Changes
    /\ spent \in [crashes : 0..MaxCrashes, starts : 0..MaxStarts, doubts : 0..MaxDoubts]

\* A doubt stays within its bound.
LEMMA DoubtBounded ==
    ASSUME spent \in [crashes : 0..MaxCrashes, starts : 0..MaxStarts, doubts : 0..MaxDoubts],
           Doubt \/ Sure
    PROVE  spent' \in [crashes : 0..MaxCrashes, starts : 0..MaxStarts, doubts : 0..MaxDoubts]
BY ClusterAssumption DEF Doubt, Sure

\* What is not in a server's memory keeps its type.
LEMMA NextBounded ==
    ASSUME Bounded, [Next]_vars
    PROVE  Bounded'
<1>. USE DEF Bounded
<1>0. CASE UNCHANGED vars
  BY <1>0 DEF vars
<1>1. ASSUME NEW p \in Servers, EndAttach(p) PROVE Bounded'
  BY <1>1 DEF EndAttach, CopyTo
<1>2. ASSUME NEW s \in Servers, NEW v \in Changes, Commit(s, v) PROVE Bounded'
  BY <1>2 DEF Commit
<1>3. ASSUME NEW s \in Servers, Crash(s) PROVE Bounded'
  BY <1>3, ClusterAssumption DEF Crash
<1>4. ASSUME NEW s \in Servers, Start(s) PROVE Bounded'
  BY <1>4, ClusterAssumption DEF Start
<1>5. ASSUME UNCHANGED <<up, has, acked>>, UNCHANGED spent \/ Doubt \/ Sure
      PROVE  Bounded'
  BY <1>5, DoubtBounded
<1>6. ASSUME NEW s \in Servers, PrimaryStep(s) PROVE Bounded'
  <2>1. ASSUME NEW t \in node[s].calls, JoinAdmit(s, t) PROVE Bounded'
    BY <1>5, <2>1 DEF JoinAdmit
  <2>2. ASSUME NEW t \in node[s].calls, CallAttach(s, t) PROVE Bounded'
    BY <1>5, <2>2 DEF CallAttach, BeginAttach
  <2>3. ASSUME NEW t \in node[s].calls, Reassure(s, t) PROVE Bounded'
    BY <1>5, <2>3 DEF Reassure
  <2>4. ASSUME NEW o \in node[s].owed, TellMembers(s, o) PROVE Bounded'
    BY <1>5, <2>4 DEF TellMembers
  <2>5. ASSUME NEW l \in node[s].links, DetectDeadLink(s, l) PROVE Bounded'
    BY <1>5, <2>5 DEF DetectDeadLink
  <2>. QED  BY <1>1, <1>6, <2>1, <2>2, <2>3, <2>4, <2>5 DEF PrimaryStep
<1>7. ASSUME NEW s \in Servers, ElectionStep(s) PROVE Bounded'
  <2>1. ASSUME NEW m \in node[s].elect.todo, NEW answered \in BOOLEAN, Ask(s, m, answered)
        PROVE  Bounded'
    BY <1>5, <2>1 DEF Ask
  <2>2. ASSUME NEW m \in node[s].elect.todo, ElectAttach(s, m) PROVE Bounded'
    BY <1>5, <2>2 DEF ElectAttach, BeginAttach
  <2>3. ASSUME NEW m \in node[s].elect.todo, Announce(s, m) \/ ElectBroadcast(s, m)
        PROVE  Bounded'
    BY <1>5, <2>3 DEF Announce, ElectBroadcast
  <2>4. CASE ElectStart(s) \/ Announced(s) \/ BecomePrimary(s)
    BY <1>5, <2>4 DEF ElectStart, Announced, BecomePrimary
  <2>5. CASE WaitTimeout(s)
    BY <1>5, <2>5 DEF WaitTimeout
  <2>. QED  BY <1>7, <2>1, <2>2, <2>3, <2>4, <2>5 DEF ElectionStep
<1>8. ASSUME NEW s \in Servers,
             (\E j \in Servers : JoinRead(s, j)) \/ BackupStep(s) \/ Accept(s)
      PROVE  Bounded'
  BY <1>5, <1>8 DEF JoinRead, BackupStep, LinkLost, Suspect, Accept
<1>. QED  BY <1>0, <1>1, <1>2, <1>3, <1>4, <1>6, <1>7, <1>8 DEF Next

\* The cluster starts sane.
LEMMA InitSane == Init => Bounded /\ AllSane(node)
<1>1. Init => AllSane(node)
  BY FreshSane, FounderSane DEF Init, AllSane
<1>2. Init => Bounded
  BY ClusterAssumption DEF Init, Bounded
<1>. QED  BY <1>1, <1>2

\* Membership and election keep their types, ids included.
THEOREM ClusterSane == Spec => [](Bounded /\ AllSane(node))
<1>1. Bounded /\ AllSane(node) /\ [Next]_vars => (Bounded /\ AllSane(node))'
  <2>. SUFFICES ASSUME Bounded, AllSane(node), [Next]_vars PROVE Bounded' /\ AllSane(node)'
    OBVIOUS
  <2>1. Bounded'
    BY NextBounded
  <2>2. CASE UNCHANGED vars
    BY <2>1, <2>2 DEF vars, AllSane
  <2>. QED  BY <2>1, <2>2, NextSane
<1>. QED  BY InitSane, <1>1, PTL DEF Spec

\* Every variable keeps its type: in particular handle_join, which subtracts 1 from the
\* unsigned lowest_id_, never gives out 0 or an id above FIRST_ID.
THEOREM ClusterTypeCorrect == Spec => []TypeOK
<1>1. Bounded /\ AllSane(node) => TypeOK
  BY DEF Bounded, AllSane, TypeOK
<1>. QED  BY ClusterSane, <1>1, PTL

-----------------------------------------------------------------------------
(* A leader and its followers.                                              *)

\* A member that leader L outranks.
Under(m, L) == m.id < L.id /\ m.srv # L.srv

\* An election that cannot make its server the primary while L answers.
Harmless(e, L) ==
    /\ e.phase \in {"none", "start", "ask"}
    /\ e.phase = "ask" => e.alive \/ L \in e.todo

\* A backup of leader L: it knows L, has a lower id, no work of a primary, and no election
\* that could succeed.
Follower(n, L) ==
    /\ n.role = "backup" /\ 0 < n.id /\ n.id < L.id /\ Idle(n)
    /\ L \in n.members /\ Harmless(n.elect, L)

\* The election that made L the primary.
Won(e, L) ==
    /\ e.phase \in {"none", "announce", "attach", "broadcast"}
    /\ e.phase # "none" => \A m \in e.todo : Under(m, L)
    /\ e.phase \in {"announce", "attach"} => \A m \in e.others : Under(m, L)
    /\ e.phase = "broadcast" => L \in e.others

\* A list with L at its top.
Ranked(list, L) == L \in list /\ \A m \in list : m = L \/ Under(m, L)
\* These links all lead to servers that L outranks.
AllUnder(links, L) == \A l \in links : Under(l, L)
\* The lists owed name L, and go to servers that L outranks.
AllTell(owed, L) == \A o \in owed : Under(o.link, L) /\ L \in o.list
\* The threads are all about servers that L outranks.
AllCall(calls, L) == \A c \in calls : Under(c.m, L)

\* A primary L whose lists, links and threads are all about servers that it outranks.
Leader(n, L) ==
    /\ n.role = "primary" /\ n.id = L.id /\ n.lowest \in 1..L.id
    /\ Ranked(n.members, L) /\ AllCall(n.calls, L) /\ AllUnder(n.links, L)
    /\ AllTell(n.owed, L)
    /\ n.att # None => Under(n.att.m, L)
    /\ n.primaryLink = None
    /\ Won(n.elect, L)

\* Who can be reached on a link has all that p has.
Linked(p) == \A l \in node[p].links : Live(p, l) => has[p] \subseteq has[l.srv]

\* L leads: it is a primary that has every acknowledged change, and the other servers are its
\* backups or have not joined.
Leads(L) ==
    /\ L.srv \in up /\ Leader(node[L.srv], L)
    /\ \A s \in Servers \ {L.srv} : node[s] = Fresh \/ (s \in up /\ Follower(node[s], L))
    /\ acked \subseteq has[L.srv]
    /\ Linked(L.srv)

\* become_primary goes on to servers that L outranks.
LEMMA WonGoesOn ==
    ASSUME NEW L, NEW n \in Nodes, NEW r \in Nodes, GoesOn(r, n), Won(n.elect, L),
           Ranked(r.members, L), AllUnder(r.links, L)
    PROVE  Won(r.elect, L)
BY DEF GoesOn, Won, Ranked, AllUnder, NotElecting

\* A member that L outranks leaves it at the top of the list.
LEMMA RankedUpsert ==
    ASSUME NEW L \in Members, NEW list, Ranked(list, L), NEW m \in Members, Under(m, L)
    PROVE  Ranked(Upsert(list, m), L)
BY DEF Ranked, Upsert, Under, Members

\* So does the removal of another member.
LEMMA RankedWithout ==
    ASSUME NEW L \in Members, NEW list, Ranked(list, L), NEW i, i # L.id
    PROVE  Ranked(Without(list, i), L)
BY DEF Ranked, Without

\* A broadcast of a list that names L owes such lists.
LEMMA AllTellNotes ==
    ASSUME NEW L, NEW links, AllUnder(links, L), NEW list, L \in list, NEW owed, AllTell(owed, L)
    PROVE  AllTell(owed \cup Notes(links, list), L)
BY DEF AllTell, AllUnder, Notes

\* A leader that drops a link to another id still leads.
LEMMA LeaderDrops ==
    ASSUME NEW L \in Members, NEW n \in Nodes, Leader(n, L), NEW i, i # L.id
    PROVE  Leader(DropLink(n, i), L)
<1>. DEFINE r == DropLink(n, i)
<1>1. /\ r \in Nodes /\ SameWho(r, n) /\ r.lowest = n.lowest /\ SameEnd(r, n)
      /\ r.att = n.att /\ r.calls = n.calls /\ r.elect = n.elect
      /\ IF i \in Ids(n.links)
           THEN /\ r.links = Without(n.links, i) /\ r.members = Without(n.members, i)
                /\ r.owed = n.owed \cup Notes(r.links, r.members)
           ELSE r = n
  BY DropLinkEffect
<1>. HIDE DEF r
<1>2. CASE i \in Ids(n.links)
  <2>1. Ranked(r.members, L)
    BY <1>1, <1>2, RankedWithout DEF Leader
  <2>2. AllUnder(r.links, L)
    BY <1>1, <1>2 DEF Leader, AllUnder, Without
  <2>3. AllTell(r.owed, L)
    BY <1>1, <1>2, <2>1, <2>2, AllTellNotes DEF Leader, Ranked
  <2>. QED  BY <1>1, <2>1, <2>2, <2>3 DEF Leader, SameWho, SameEnd, r
<1>3. CASE i \notin Ids(n.links)
  BY <1>1, <1>3 DEF r
<1>. QED  BY <1>2, <1>3

\* So does one that has called a member.
LEMMA LeaderCalled ==
    ASSUME NEW L \in Members, NEW n \in Nodes, Leader(n, L), NEW m
    PROVE  Leader(Called(n, m), L)
<1>. DEFINE r == Called(n, m)
<1>1. /\ r \in Nodes /\ SameWho(r, n) /\ SameLists(r, n) /\ SameWork(r, n) /\ SameEnd(r, n)
      /\ GoesOn(r, n)
  BY CalledEffect
<1>. HIDE DEF r
<1>2. Won(r.elect, L)
  BY <1>1, WonGoesOn DEF Leader, SameLists, SameWork
<1>. QED  BY <1>1, <1>2 DEF Leader, SameWho, SameEnd, SameLists, SameWork, r

\* So does one that has attached a backup.
LEMMA LeaderAttached ==
    ASSUME NEW L \in Members, NEW n \in Nodes, Leader(n, L), NEW m \in Members, Under(m, L),
           NEW no \in Nat, NEW by
    PROVE  Leader(AttachSucceeded(n, m, no, by), L)
<1>. DEFINE r == AttachSucceeded(n, m, no, by)
            l == [id |-> m.id, srv |-> m.srv, no |-> no]
<1>1. /\ r \in Nodes /\ SameWho(r, n) /\ SameLists(r, n) /\ SameEnd(r, n)
      /\ r.att = None /\ r.calls = n.calls \ {by} /\ r.links = Upsert(n.links, l)
      /\ by = None => GoesOn(r, n) /\ r.owed = n.owed
      /\ by # None => /\ r.elect = n.elect
                      /\ r.owed = n.owed \cup Notes(r.links, n.members)
  BY AttachSucceededEffect
<1>2. Under(l, L)
  BY DEF Under
<1>. HIDE DEF r, l
<1>3. AllUnder(r.links, L)
  BY <1>1, <1>2 DEF Leader, AllUnder, Upsert
<1>4. Ranked(r.members, L) /\ AllCall(r.calls, L)
  BY <1>1 DEF Leader, SameLists, AllCall
<1>5. AllTell(r.owed, L)
  BY <1>1, <1>3, AllTellNotes DEF Leader, Ranked
<1>6. Won(r.elect, L)
  BY <1>1, <1>3, <1>4, WonGoesOn DEF Leader
<1>. QED  BY <1>1, <1>3, <1>4, <1>5, <1>6 DEF Leader, SameWho, SameEnd, SameLists, r

\* So does one that has failed to.
LEMMA LeaderUnattached ==
    ASSUME NEW L \in Members, NEW n \in Nodes, Leader(n, L), NEW m \in Members, Under(m, L),
           NEW by
    PROVE  Leader(AttachFailed(n, m, by), L)
<1>. DEFINE r == AttachFailed(n, m, by)
<1>1. /\ r \in Nodes /\ SameWho(r, n) /\ SameEnd(r, n)
      /\ r.members = Without(n.members, m.id) /\ r.lowest = n.lowest
      /\ r.att = None /\ r.calls = n.calls \ {by} /\ r.links = n.links
      /\ by = None => GoesOn(r, n)
      /\ by # None => r.elect = n.elect
      /\ IsJoin(by) => r.owed = n.owed \cup Notes(r.links, r.members)
      /\ ~IsJoin(by) => r.owed = n.owed
  BY AttachFailedEffect
<1>. HIDE DEF r
<1>2. m.id # L.id
  BY DEF Under, Members
<1>3. Ranked(r.members, L)
  BY <1>1, <1>2, RankedWithout DEF Leader
<1>4. AllUnder(r.links, L) /\ AllCall(r.calls, L)
  BY <1>1 DEF Leader, AllCall
<1>5. AllTell(r.owed, L)
  BY <1>1, <1>3, <1>4, AllTellNotes DEF Leader, Ranked
<1>6. Won(r.elect, L)
  BY <1>1, <1>3, <1>4, WonGoesOn DEF Leader
<1>. QED  BY <1>1, <1>3, <1>4, <1>5, <1>6 DEF Leader, SameWho, SameEnd, r

\* A backup that starts an election is still a follower: it has asked nobody yet.
LEMMA FollowerStarts ==
    ASSUME NEW L, NEW n \in Nodes, Follower(n, L)
    PROVE  Follower(StartElection(n), L)
<1>. DEFINE r == StartElection(n)
<1>1. /\ SameWho(r, n) /\ SameLists(r, n) /\ SameWork(r, n)
      /\ r.elect.phase = IF n.elect.phase = "none" THEN "start" ELSE n.elect.phase
      /\ r.elect.todo = n.elect.todo /\ r.elect.alive = n.elect.alive
  BY StartElectionEffect
<1>. HIDE DEF r
<1>2. Harmless(r.elect, L)
  BY <1>1 DEF Follower, Harmless
<1>. QED  BY <1>1, <1>2 DEF Follower, Idle, SameWho, SameLists, SameWork, r

\* So is one that hears the Coordinator of its leader.
LEMMA FollowerHears ==
    ASSUME NEW L \in Members, NEW n \in Nodes, Follower(n, L)
    PROVE  Follower(HandleCoordinator(n, L), L)
<1>. DEFINE r == HandleCoordinator(n, L)
<1>1. L.id >= n.id
  BY DEF Follower, Members, Nodes
<1>2. /\ r.id = n.id /\ r.role = "backup" /\ r.members = Upsert(n.members, L)
      /\ r.links = (IF n.role = "primary" THEN {} ELSE n.links)
      /\ r.owed = n.owed /\ r.att = n.att
      /\ r.calls = n.calls /\ r.request = n.request /\ r.elect = n.elect
  BY <1>1, HandleCoordinatorEffect
<1>3. L \in Upsert(n.members, L)
  BY DEF Upsert
<1>. HIDE DEF r
<1>. QED  BY <1>2, <1>3 DEF Follower, Idle, r

\* So is one that its leader attaches.
LEMMA FollowerAttached ==
    ASSUME NEW L \in Members, NEW n \in Nodes, Follower(n, L), NEW list \in SUBSET Members,
           L \in list, NEW me \in Members, me.id = n.id, NEW link \in [srv : Servers, no : Nat]
    PROVE  Follower(HandleReplicaAttach(n, L, list, me, link), L)
<1>. DEFINE r == HandleReplicaAttach(n, L, list, me, link)
<1>2. /\ r.id = n.id /\ r.role = "backup" /\ r.members = Upsert(list, me)
      /\ r.links = (IF n.role = "primary" THEN {} ELSE n.links)
      /\ r.owed = n.owed /\ r.att = n.att
      /\ r.calls = n.calls /\ r.request = n.request /\ r.elect = n.elect
  BY HandleReplicaAttachEffect
<1>3. L \in Upsert(list, me)
  BY DEF Upsert, Follower, Members
<1>. HIDE DEF r
<1>. QED  BY <1>2, <1>3 DEF Follower, Idle, r

\* So is one that gets its leader's list.
LEMMA FollowerTold ==
    ASSUME NEW L \in Members, NEW n \in Nodes, Follower(n, L), NEW r \in Nodes,
           NEW list \in SUBSET Members, L \in list, NEW me \in Members, me.id = n.id,
           SameWho(r, n), SameWork(r, n), r.elect = n.elect, r.members = Upsert(list, me)
    PROVE  Follower(r, L)
<1>1. L \in Upsert(list, me)
  BY DEF Upsert, Follower, Members
<1>. QED  BY <1>1 DEF Follower, Idle, SameWho, SameWork

-----------------------------------------------------------------------------
(* Every action keeps a leader that lives.                                  *)

\* What a leader is.
LEMMA LeadsFacts ==
    ASSUME AllSane(node), NEW L \in Members, Leads(L)
    PROVE  LET h == L.srv IN
           /\ h \in Servers /\ h \in up /\ Self(h) = L
           /\ node[h] \in Nodes /\ Sane(node[h]) /\ Leader(node[h], L) /\ node[h] # Fresh
           /\ node[h].role = "primary"
<1>1. Leader(node[L.srv], L) /\ L.srv \in up /\ L.srv \in Servers
  BY DEF Leads, Members
<1>2. Self(L.srv) = L
  BY <1>1 DEF Leader, Self, Members
<1>3. Fresh.role = "joining"
  BY DEF Fresh
<1>. QED  BY <1>1, <1>2, <1>3 DEF AllSane, Leader

\* What the others are.
LEMMA OthersFollow ==
    ASSUME AllSane(node), NEW L \in Members, Leads(L), NEW s \in Servers \ {L.srv}
    PROVE  /\ Idle(node[s]) /\ node[s].role # "primary"
           /\ node[s].elect.phase \in {"none", "start", "ask"}
           /\ node[s] \in Nodes /\ Sane(node[s])
           /\ node[s].role # "joining" =>
                 /\ s \in up /\ Follower(node[s], L)
                 /\ Self(s) \in Members /\ Under(Self(s), L) /\ Self(s).id = node[s].id
<1>1. node[s] = Fresh \/ (s \in up /\ Follower(node[s], L))
  BY DEF Leads
<1>2. node[s] \in Nodes /\ Sane(node[s])
  BY DEF AllSane
<1>3. CASE node[s] = Fresh
  BY <1>2, <1>3 DEF Fresh, Idle, NotElecting
<1>4. CASE s \in up /\ Follower(node[s], L)
  <2>1. node[s].role # "joining"
    BY <1>4 DEF Follower
  <2>2. Self(s) \in Members
    BY <2>1, SelfTyped
  <2>3. Under(Self(s), L)
    BY <1>4 DEF Under, Self, Follower
  <2>. QED  BY <1>2, <1>4, <2>2, <2>3 DEF Follower, Harmless, Self
<1>. QED  BY <1>1, <1>3, <1>4

\* Links neither get a new end nor lose their data when none is added.
LEMMA LinkedStays ==
    ASSUME AllSane(node), NEW h \in Servers, Linked(h),
           has' = has, node'[h].links \subseteq node[h].links,
           \A s \in Servers : \/ node'[s].primaryLink = None
                              \/ /\ node'[s].primaryLink = node[s].primaryLink
                                 /\ s \in up' => s \in up
    PROVE  Linked(h)'
<1>1. SUFFICES ASSUME NEW l \in node'[h].links, Live(h, l)' PROVE Live(h, l)
  BY DEF Linked
<1>2. l \in Links
  BY DEF AllSane, Nodes
<1>3. [srv |-> h, no |-> l.no] # None /\ l.srv \in Servers
  BY <1>2, NoneAssumption DEF Links
<1>. QED  BY <1>1, <1>3 DEF Live

\* L still leads when it is a leader, the others follow, and it has what was acknowledged.
LEMMA StillLeads ==
    ASSUME NEW L \in Members, Leads(L), L.srv \in up', Leader(node'[L.srv], L),
           \A s \in Servers \ {L.srv} : node'[s] = Fresh \/ (s \in up' /\ Follower(node'[s], L)),
           acked' \subseteq has'[L.srv], Linked(L.srv)'
    PROVE  Leads(L)'
BY DEF Leads

\* When only the node of one follower, or only that of the leader, changes, and no link
LEMMA OneFollows ==
    ASSUME AllSane(node), NEW L \in Members, Leads(L), NEW s \in Servers \ {L.srv},
           UNCHANGED <<up, has, acked>>, s \in up,
           \A x \in Servers \ {s} : node'[x] = node[x], Follower(node'[s], L),
           node'[s].primaryLink \in {None, node[s].primaryLink}
    PROVE  Leads(L)'
<1>1. L.srv \in Servers /\ node'[L.srv] = node[L.srv]
  BY LeadsFacts
<1>2. Linked(L.srv)'
  BY <1>1, LinkedStays DEF Leads
<1>3. Leader(node'[L.srv], L) /\ L.srv \in up' /\ acked' \subseteq has'[L.srv]
  BY <1>1 DEF Leads
<1>4. \A x \in Servers \ {L.srv} : node'[x] = Fresh \/ (x \in up' /\ Follower(node'[x], L))
  BY DEF Leads
<1>. QED  BY <1>2, <1>3, <1>4, StillLeads

\* Only the leader changes, and it is still one.
LEMMA LeaderMoves ==
    ASSUME AllSane(node), NEW L \in Members, Leads(L),
           UNCHANGED <<up, has, acked>>,
           \A x \in Servers \ {L.srv} : node'[x] = node[x], Leader(node'[L.srv], L),
           node'[L.srv].links \subseteq node[L.srv].links,
           SameEnd(node'[L.srv], node[L.srv])
    PROVE  Leads(L)'
<1>1. L.srv \in Servers
  BY LeadsFacts
<1>2. Linked(L.srv)'
  BY <1>1, LinkedStays DEF Leads, SameEnd
<1>3. L.srv \in up' /\ acked' \subseteq has'[L.srv]
  BY <1>1 DEF Leads
<1>4. \A x \in Servers \ {L.srv} : node'[x] = Fresh \/ (x \in up' /\ Follower(node'[x], L))
  BY DEF Leads
<1>. QED  BY <1>2, <1>3, <1>4, StillLeads

\* The leader and one follower change, and are still such.
LEMMA BothMove ==
    ASSUME AllSane(node), NEW L \in Members, Leads(L), NEW s \in Servers \ {L.srv},
           UNCHANGED <<up, has, acked>>, s \in up,
           \A x \in Servers \ {L.srv, s} : node'[x] = node[x],
           Leader(node'[L.srv], L), Follower(node'[s], L),
           node'[L.srv].links \subseteq node[L.srv].links,
           SameEnd(node'[L.srv], node[L.srv]),
           node'[s].primaryLink \in {None, node[s].primaryLink}
    PROVE  Leads(L)'
<1>1. L.srv \in Servers
  BY LeadsFacts
<1>2. Linked(L.srv)'
  BY <1>1, LinkedStays DEF Leads, SameEnd
<1>3. L.srv \in up' /\ acked' \subseteq has'[L.srv]
  BY <1>1 DEF Leads
<1>4. \A x \in Servers \ {L.srv} : node'[x] = Fresh \/ (x \in up' /\ Follower(node'[x], L))
  BY DEF Leads
<1>. QED  BY <1>2, <1>3, <1>4, StillLeads

-----------------------------------------------------------------------------

\* An id given by handle_join is lower than the leader's.
LEMMA LedJoinRead ==
    ASSUME AllSane(node), NEW L \in Members, Leads(L), NEW p \in Servers, NEW j \in Servers,
           JoinRead(p, j)
    PROVE  Leads(L)'
<1>. DEFINE h == L.srv
<1>1. p = h
  BY OthersFollow DEF JoinRead
<1>2. /\ node[h] \in Nodes /\ Sane(node[h]) /\ Leader(node[h], L) /\ h \in Servers
      /\ node[h].role = "primary"
  BY LeadsFacts
<1>3. j # h
  BY <1>2 DEF JoinRead
<1>4. /\ \A s \in Servers \ {h} : node'[s] = node[s]
      /\ SameWho(node'[h], node[h]) /\ SameEnd(node'[h], node[h])
      /\ node'[h].members = node[h].members
      /\ node'[h].lowest = IF \E x \in node[h].members : x.srv = j THEN node[h].lowest
                           ELSE Min({node[h].lowest} \cup Ids(node[h].members))
      /\ node'[h].links = node[h].links /\ node'[h].owed = node[h].owed
      /\ node'[h].att = node[h].att /\ node'[h].request = node[h].request
      /\ node'[h].elect = node[h].elect
      /\ \E i \in IdsFor(node[h], j) :
            node'[h].calls = node[h].calls
                             \cup {[kind |-> "admit", m |-> [id |-> i, srv |-> j]]}
  <2>. HIDE DEF h
  <2>1. h \in Servers /\ JoinRead(h, j)
    BY <1>1, <1>2
  <2>. QED  BY <2>1, JoinReadEffect
<1>5. PICK i \in IdsFor(node[h], j) :
         node'[h].calls = node[h].calls \cup {[kind |-> "admit", m |-> [id |-> i, srv |-> j]]}
  BY <1>4
<1>6. node[h].lowest \in 0..FirstId /\ node[h].lowest \in 1..L.id
      /\ node[h].members \in SUBSET Members /\ L.id \in 1..FirstId
  BY <1>2 DEF Nodes, Leader, Members
<1>. DEFINE low == Min({node[h].lowest} \cup Ids(node[h].members))
<1>7. low \in 1..L.id
  <2>1. low \in 0..FirstId /\ low <= node[h].lowest /\ low # 0
    <3>. DEFINE lowest == node[h].lowest
                list == node[h].members
    <3>1. lowest \in 0..FirstId /\ lowest # 0 /\ list \in SUBSET Members
      BY <1>6, ClusterAssumption
    <3>2. low = Min({lowest} \cup Ids(list))
      OBVIOUS
    <3>. HIDE DEF lowest, list, low
    <3>3. low \in 0..FirstId /\ low <= lowest /\ low # 0
      BY <3>1, <3>2, MinTyped
    <3>. QED  BY <3>3 DEF lowest
  <2>. HIDE DEF low
  <2>. QED  BY <1>6, <2>1, ClusterAssumption
<1>8. i \in 1..FirstId
      /\ \/ \E m \in node[h].members : m.srv = j /\ m.id = i
         \/ i = low - 1
  BY <1>2, <1>5, IdsForTyped
<1>9. i < L.id
  <2>1. CASE \E m \in node[h].members : m.srv = j /\ m.id = i
    BY <1>2, <1>3, <2>1 DEF Leader, Ranked, Under
  <2>2. CASE i = low - 1
    <3>. HIDE DEF low
    <3>. QED  BY <1>6, <1>7, <2>2, ClusterAssumption
  <2>. QED  BY <1>8, <2>1, <2>2
<1>10. node'[h].lowest \in 1..L.id
  <2>1. node'[h].lowest = node[h].lowest \/ node'[h].lowest = low
    BY <1>4
  <2>. QED  BY <1>6, <1>7, <2>1
<1>11. AllCall(node'[h].calls, L)
  BY <1>2, <1>3, <1>5, <1>9 DEF Leader, AllCall, Under
<1>12. Leader(node'[h], L)
  BY <1>2, <1>4, <1>10, <1>11 DEF Leader, SameEnd, SameWho
<1>13. UNCHANGED <<up, has, acked>>
  BY DEF JoinRead
<1>. QED  BY <1>4, <1>12, <1>13, LeaderMoves

\* A server that joins is a follower from then on.
LEMMA LedJoinAdmit ==
    ASSUME AllSane(node), NEW L \in Members, Leads(L), NEW p \in Servers,
           NEW t \in node[p].calls, JoinAdmit(p, t)
    PROVE  Leads(L)'
<1>. DEFINE h == L.srv
            j == t.m.srv
<1>1. p = h
  BY OthersFollow DEF Idle
<1>2. /\ node[h] \in Nodes /\ Leader(node[h], L) /\ h \in Servers /\ Self(h) = L /\ h \in up
  BY LeadsFacts
<1>3. Under(t.m, L)
  BY <1>1, <1>2 DEF Leader, AllCall
<1>4. /\ t \in Calls /\ t.m \in Members /\ j \in Servers
      /\ SameWho(node'[h], node[h]) /\ SameEnd(node'[h], node[h])
      /\ node'[h].members = Upsert(node[h].members, t.m)
      /\ node'[h].lowest = (IF node[h].lowest = 0 \/ t.m.id < node[h].lowest THEN t.m.id
                          ELSE node[h].lowest)
      /\ node'[h].links = node[h].links /\ node'[h].owed = node[h].owed
      /\ node'[h].att = node[h].att
      /\ node'[h].elect = node[h].elect
      /\ node'[h].calls = (node[h].calls \ {t}) \cup {Onward(t, "join")}
      /\ \A s \in Servers \ {h} : (s # j \/ ~Admits(t)) => node'[s] = node[s]
  <2>. HIDE DEF h
  <2>1. h \in Servers /\ t \in node[h].calls /\ JoinAdmit(h, t)
    BY <1>1, <1>2
  <2>2. /\ t \in Calls /\ t.m \in Members /\ t.m.srv \in Servers
        /\ SameWho(node'[h], node[h]) /\ SameEnd(node'[h], node[h])
        /\ node'[h].members = Upsert(node[h].members, t.m)
        /\ node'[h].lowest = (IF node[h].lowest = 0 \/ t.m.id < node[h].lowest THEN t.m.id
                            ELSE node[h].lowest)
        /\ node'[h].links = node[h].links /\ node'[h].owed = node[h].owed
        /\ node'[h].att = node[h].att
        /\ node'[h].elect = node[h].elect
        /\ node'[h].calls = (node[h].calls \ {t}) \cup {Onward(t, "join")}
        /\ \A s \in Servers \ {h} : (s # t.m.srv \/ ~Admits(t)) => node'[s] = node[s]
    BY <2>1, JoinAdmitEffect
  <2>. QED  BY <2>2
<1>5. Leader(node'[h], L)
  <2>1. Ranked(node'[h].members, L)
    BY <1>2, <1>3, <1>4, RankedUpsert DEF Leader
  <2>2. Onward(t, "join").m = t.m
    BY <1>4 DEF Calls, Onward
  <2>3. AllCall(node'[h].calls, L)
    BY <1>2, <1>3, <1>4, <2>2 DEF Leader, AllCall
  <2>4. node'[h].lowest \in 1..L.id
    BY <1>2, <1>3, <1>4 DEF Leader, Under, Members
  <2>. QED  BY <1>2, <1>4, <2>1, <2>3, <2>4 DEF Leader, SameEnd, SameWho
<1>6. UNCHANGED <<up, has, acked>>
  BY DEF JoinAdmit
<1>7. CASE ~Admits(t)
  BY <1>4, <1>5, <1>6, <1>7, LeaderMoves
<1>8. CASE Admits(t)
  <2>1. /\ node'[j].id = t.m.id /\ node'[j].role = "backup"
        /\ node'[j].members = {L, t.m} /\ Idle(node'[j]) /\ node'[j].primaryLink = None
        /\ node'[j].elect = NotElecting
    <3>. HIDE DEF h
    <3>1. h \in Servers /\ t \in node[h].calls /\ JoinAdmit(h, t) /\ Self(h) = L
      BY <1>1, <1>2
    <3>2. LET b == node'[t.m.srv] IN
          /\ b.id = t.m.id /\ b.role = "backup"
          /\ b.members = {Self(h), t.m} /\ Idle(b) /\ b.primaryLink = None
          /\ b.elect = NotElecting
      BY <1>8, <3>1, JoinAdmitEffect
    <3>. QED  BY <3>1, <3>2
  <2>2. Follower(node'[j], L)
    BY <1>3, <1>4, <2>1 DEF Follower, Harmless, NotElecting, Under, Members
  <2>3. j \in up /\ j # h
    BY <1>3, <1>8 DEF Admits, Under
  <2>. QED  BY <1>4, <1>5, <1>6, <2>1, <2>2, <2>3, BothMove
<1>. QED  BY <1>7, <1>8

\* A ReplicaAttach finds a follower, and the link is not used before its data is there.
LEMMA LedAttach ==
    ASSUME AllSane(node), NEW L \in Members, Leads(L), NEW m \in Members, Under(m, L),
           NEW by \in Calls \cup {None}, BeginAttach(L.srv, m, by)
    PROVE  Leads(L)'
<1>. DEFINE h == L.srv
            q == m.srv
            no == NewLinkTo(q)
            link == [srv |-> h, no |-> no]
<1>1. /\ node[h] \in Nodes /\ Leader(node[h], L) /\ h \in Servers /\ Self(h) = L
      /\ node[h].role # "joining" /\ h \in up
  BY LeadsFacts
<1>2. UNCHANGED <<up, has, acked>>
  BY DEF BeginAttach
<1>3. q # h /\ q \in Servers
  BY DEF Under, Members
<1>4. CASE Reachable(q)
  <2>1. /\ \A s \in Servers \ {h, q} : node'[s] = node[s]
        /\ SameWho(node'[h], node[h]) /\ SameLists(node'[h], node[h])
        /\ SameEnd(node'[h], node[h])
        /\ node'[h].links = node[h].links /\ node'[h].owed = node[h].owed
        /\ node'[h].calls = node[h].calls
        /\ node'[h].elect = node[h].elect
        /\ node'[h].att = [m |-> m, no |-> no, by |-> by]
        /\ no \in Nat
        /\ node'[q] = HandleReplicaAttach(node[q], L, node[h].members, Self(q), link)
    BY <1>1, <1>3, <1>4, BeginAttachEffect
  <2>2. Leader(node'[h], L)
    BY <1>1, <2>1 DEF Leader, SameEnd, SameWho, SameLists
  <2>3. /\ q \in up /\ node[q] \in Nodes /\ Follower(node[q], L)
        /\ Self(q) \in Members /\ Self(q).id = node[q].id
    BY <1>3, <1>4, OthersFollow DEF Reachable
  <2>4. node[h].members \in SUBSET Members /\ L \in node[h].members
        /\ link \in [srv : Servers, no : Nat]
    BY <1>1, <2>1 DEF Nodes, Leader, Ranked
  <2>. HIDE DEF link
  <2>5. Follower(node'[q], L) /\ node'[q].primaryLink = link
    BY <2>1, <2>3, <2>4, FollowerAttached, HandleReplicaAttachEffect
  <2>6. Linked(h)'
    <3>1. SUFFICES ASSUME NEW l \in node'[h].links, Live(h, l)' PROVE Live(h, l)
      BY <1>1, <1>2, <2>1 DEF Linked, Leads
    <3>2. l \in node[h].links /\ l \in Links
      BY <1>1, <2>1 DEF Nodes
    <3>3. l.srv # q
      <4>1. SUFFICES ASSUME l.srv = q PROVE FALSE
        OBVIOUS
      <4>2. [srv |-> h, no |-> l.no] = link
        BY <2>5, <3>1, <4>1 DEF Live
      <4>3. l.no = no
        BY <4>2 DEF link
      <4>. QED  BY <1>1, <1>3, <3>2, <4>1, <4>3, NewLinkToFresh
    <3>4. CASE l.srv = h
      <4>1. Under(l, L)
        BY <1>1, <3>2 DEF Leader, AllUnder
      <4>. QED  BY <3>4, <4>1 DEF Under
    <3>5. CASE l.srv # h
      <4>1. node'[l.srv] = node[l.srv]
        BY <2>1, <3>2, <3>3, <3>5 DEF Links
      <4>. QED  BY <1>2, <3>1, <4>1 DEF Live
    <3>. QED  BY <3>4, <3>5
  <2>7. \A s \in Servers \ {h} : node'[s] = Fresh \/ (s \in up' /\ Follower(node'[s], L))
    BY <1>2, <2>1, <2>3, <2>5 DEF Leads
  <2>8. h \in up' /\ acked' \subseteq has'[h]
    BY <1>1, <1>2 DEF Leads
  <2>. QED  BY <2>2, <2>6, <2>7, <2>8, StillLeads
<1>5. CASE ~Reachable(q)
  <2>1. /\ \A s \in Servers \ {h} : node'[s] = node[s]
        /\ node'[h] = AttachFailed(node[h], m, by)
    BY <1>1, <1>5, BeginAttachEffect
  <2>2. Leader(node'[h], L)
    BY <1>1, <2>1, LeaderUnattached
  <2>3. node'[h].links = node[h].links /\ SameEnd(node'[h], node[h])
    BY <1>1, <2>1, AttachFailedEffect
  <2>. QED  BY <1>2, <2>1, <2>2, <2>3, LeaderMoves
<1>. QED  BY <1>4, <1>5

\* The leader's own Coordinator keeps a candidate a follower.
LEMMA LedReassure ==
    ASSUME AllSane(node), NEW L \in Members, Leads(L), NEW p \in Servers,
           NEW t \in node[p].calls, Reassure(p, t)
    PROVE  Leads(L)'
<1>. DEFINE h == L.srv
            q == t.m.srv
<1>1. p = h
  BY OthersFollow DEF Idle
<1>2. /\ node[h] \in Nodes /\ Leader(node[h], L) /\ h \in Servers /\ Self(h) = L
      /\ node[h].role = "primary"
  BY LeadsFacts
<1>3. Under(t.m, L)
  BY <1>1, <1>2 DEF Leader, AllCall
<1>4. t \in Calls /\ t.m \in Members /\ q \in Servers /\ q # h
  BY <1>1, <1>2, <1>3 DEF Nodes, Calls, Members, Under
<1>5. UNCHANGED <<up, has, acked>>
  BY DEF Reassure
<1>6. PICK n \in Nodes :
         /\ SameWho(n, node[h]) /\ SameEnd(n, node[h])
         /\ n.links = node[h].links /\ n.owed = node[h].owed /\ n.att = node[h].att
         /\ n.elect = node[h].elect
         /\ \/ /\ SameLists(n, node[h]) /\ n.calls = node[h].calls \ {t}
            \/ /\ n.members = Upsert(node[h].members, t.m)
               /\ n.lowest = (IF node[h].lowest = 0 \/ t.m.id < node[h].lowest THEN t.m.id
                             ELSE node[h].lowest)
               /\ n.calls = (node[h].calls \ {t}) \cup {[t EXCEPT !.kind = "reassure"]}
         /\ Reachable(q) /\ q # h =>
               /\ \A s \in Servers \ {h, q} : node'[s] = node[s]
               /\ node'[h] = n
               /\ node'[q] = HandleCoordinator(node[q], Self(h))
         /\ ~Reachable(q) =>
               /\ \A s \in Servers \ {h} : node'[s] = node[s]
               /\ node'[h] = n
  <2>. HIDE DEF h
  <2>1. h \in Servers /\ t \in node[h].calls /\ Reassure(h, t)
    BY <1>1, <1>2
  <2>. QED  BY <2>1, ReassureEffect
<1>7. Leader(n, L)
  <2>1. CASE SameLists(n, node[h]) /\ n.calls = node[h].calls \ {t}
    <3>1. AllCall(n.calls, L)
      BY <1>2, <2>1 DEF Leader, AllCall
    <3>. QED  BY <1>2, <1>6, <2>1, <3>1 DEF Leader, SameEnd, SameWho, SameLists
  <2>2. CASE /\ n.members = Upsert(node[h].members, t.m)
             /\ n.lowest = (IF node[h].lowest = 0 \/ t.m.id < node[h].lowest THEN t.m.id
                           ELSE node[h].lowest)
             /\ n.calls = (node[h].calls \ {t}) \cup {[t EXCEPT !.kind = "reassure"]}
    <3>1. Ranked(n.members, L)
      BY <1>2, <1>3, <1>4, <2>2, RankedUpsert DEF Leader
    <3>2. [t EXCEPT !.kind = "reassure"].m = t.m
      BY <1>4 DEF Calls
    <3>3. AllCall(n.calls, L)
      BY <1>2, <1>3, <2>2, <3>2 DEF Leader, AllCall
    <3>4. n.lowest \in 1..L.id
      BY <1>2, <1>3, <1>4, <2>2 DEF Leader, Under, Members
    <3>. QED  BY <1>2, <1>6, <3>1, <3>3, <3>4 DEF Leader, SameEnd, SameWho
  <2>. QED  BY <1>6, <2>1, <2>2
<1>8. CASE Reachable(q)
  <2>1. q \in up /\ node[q] \in Nodes /\ Follower(node[q], L)
    BY <1>4, <1>8, OthersFollow DEF Reachable
  <2>2. Follower(node'[q], L)
    BY <1>2, <1>4, <1>6, <1>8, <2>1, FollowerHears
  <2>3. node'[q].primaryLink = node[q].primaryLink
    <3>1. L.id >= node[q].id
      BY <2>1 DEF Follower, Members, Nodes
    <3>2. SameEnd(HandleCoordinator(node[q], L), node[q])
      BY <2>1, <3>1, HandleCoordinatorEffect
    <3>. QED  BY <1>2, <1>4, <1>6, <1>8, <3>2 DEF SameEnd
  <2>. QED  BY <1>4, <1>5, <1>6, <1>7, <1>8, <2>1, <2>2, <2>3, BothMove
<1>9. CASE ~Reachable(q)
  BY <1>5, <1>6, <1>7, <1>9, LeaderMoves
<1>. QED  BY <1>8, <1>9

\* At the end of an attach the backup has all that the leader has.
LEMMA LedEndAttach ==
    ASSUME AllSane(node), Bounded, NEW L \in Members, Leads(L), NEW p \in Servers, EndAttach(p)
    PROVE  Leads(L)'
<1>. DEFINE h == L.srv
            a == node[h].att
            link == [id |-> a.m.id, srv |-> a.m.srv, no |-> a.no]
<1>1. p = h
  BY OthersFollow DEF Idle, EndAttach
<1>2. node[h] \in Nodes /\ Leader(node[h], L) /\ h \in Servers /\ h \in up
  BY LeadsFacts
<1>3. /\ \A s \in Servers \ {h} : node'[s] = node[s]
      /\ a \in [m : Members, no : Nat, by : Calls \cup {None}]
      /\ node'[h] = IF Live(h, [srv |-> a.m.srv, no |-> a.no])
                      THEN AttachSucceeded(node[h], a.m, a.no, a.by)
                      ELSE AttachFailed(node[h], a.m, a.by)
  BY <1>1, EndAttachEffect
<1>4. Under(a.m, L) /\ a.m \in Members /\ a.no \in Nat
  BY <1>1, <1>2, <1>3 DEF EndAttach, Leader
<1>5. UNCHANGED <<up, acked>>
  BY DEF EndAttach
<1>6. CASE Live(h, [srv |-> a.m.srv, no |-> a.no])
  <2>1. node'[h] = AttachSucceeded(node[h], a.m, a.no, a.by)
    BY <1>3, <1>6
  <2>2. Leader(node'[h], L)
    BY <1>2, <1>4, <2>1, LeaderAttached
  <2>3. node'[h].links = Upsert(node[h].links, link) /\ SameEnd(node'[h], node[h])
    BY <1>2, <1>4, <2>1, AttachSucceededEffect
  <2>4. has' = [has EXCEPT ![a.m.srv] = has[h]]
    BY <1>1, <1>6 DEF EndAttach, CopyTo
  <2>5. a.m.srv # h /\ a.m.srv \in Servers
    BY <1>4 DEF Under, Members
  <2>6. has \in [Servers -> SUBSET Changes]
    BY DEF Bounded
  <2>7. has'[h] = has[h] /\ has'[a.m.srv] = has[h]
        /\ \A s \in Servers \ {a.m.srv} : has'[s] = has[s]
    BY <1>2, <2>4, <2>5, <2>6
  <2>8. Linked(h)'
    <3>1. SUFFICES ASSUME NEW l \in node'[h].links, Live(h, l)' PROVE has[h] \subseteq has'[l.srv]
      BY <2>7 DEF Linked
    <3>2. CASE l.srv = a.m.srv
      BY <2>7, <3>2
    <3>3. CASE l.srv # a.m.srv
      <4>1. l \in node[h].links
        BY <2>3, <3>1, <3>3 DEF Upsert
      <4>2. l.srv \in Servers
        BY <1>2, <4>1 DEF Nodes, Links
      <4>3. SameEnd(node'[l.srv], node[l.srv])
        BY <1>3, <2>3, <4>2 DEF SameEnd
      <4>4. Live(h, l)
        BY <1>5, <3>1, <4>3 DEF Live, SameEnd
      <4>. QED  BY <2>7, <3>3, <4>1, <4>2, <4>4 DEF Leads, Linked
    <3>. QED  BY <3>2, <3>3
  <2>9. acked' \subseteq has'[h] /\ h \in up'
    BY <1>2, <1>5, <2>7 DEF Leads
  <2>10. \A s \in Servers \ {h} : node'[s] = Fresh \/ (s \in up' /\ Follower(node'[s], L))
    BY <1>3, <1>5 DEF Leads
  <2>. QED  BY <2>2, <2>8, <2>9, <2>10, StillLeads
<1>7. CASE ~Live(h, [srv |-> a.m.srv, no |-> a.no])
  <2>1. node'[h] = AttachFailed(node[h], a.m, a.by)
    BY <1>3, <1>7
  <2>2. Leader(node'[h], L)
    BY <1>2, <1>4, <2>1, LeaderUnattached
  <2>3. node'[h].links = node[h].links /\ SameEnd(node'[h], node[h])
    BY <1>2, <1>4, <2>1, AttachFailedEffect
  <2>4. has' = has
    BY <1>1, <1>7 DEF EndAttach
  <2>. QED  BY <1>3, <1>5, <2>2, <2>3, <2>4, LeaderMoves
<1>. QED  BY <1>6, <1>7

\* What the two ways to tell a list have in common.
LEMMA LedTell ==
    ASSUME AllSane(node), NEW L \in Members, Leads(L), UNCHANGED <<up, has, acked>>,
           NEW l \in Links, Under(l, L), NEW list \in SUBSET Members, L \in list,
           NEW n \in Nodes, Leader(n, L), n.links = node[L.srv].links,
           SameEnd(n, node[L.srv]), AllSane(node'),
           Live(L.srv, l) =>
              /\ \A s \in Servers \ {L.srv, l.srv} : node'[s] = node[s]
              /\ node'[L.srv] = n
              /\ SameWho(node'[l.srv], node[l.srv]) /\ SameWork(node'[l.srv], node[l.srv])
              /\ SameEnd(node'[l.srv], node[l.srv]) /\ node'[l.srv].elect = node[l.srv].elect
              /\ node'[l.srv].members = Upsert(list, Self(l.srv)),
           ~Live(L.srv, l) =>
              /\ \A s \in Servers \ {L.srv} : node'[s] = node[s]
              /\ node'[L.srv] = DropLink(n, l.id)
    PROVE  Leads(L)'
<1>. DEFINE h == L.srv
            q == l.srv
<1>1. q \in Servers /\ l.no \in Nat /\ q # h /\ l.id # L.id /\ h \in Servers
  BY LeadsFacts DEF Links, Under, Members
<1>2. CASE Live(h, l)
  <2>1. q \in up /\ node[q].role # "joining"
    BY <1>1, <1>2, LiveTyped
  <2>2. /\ node[q] \in Nodes /\ Follower(node[q], L)
        /\ Self(q) \in Members /\ Self(q).id = node[q].id
    BY <1>1, <2>1, OthersFollow
  <2>3. node'[q] \in Nodes
    BY <1>1 DEF AllSane
  <2>4. Follower(node'[q], L)
    BY <1>2, <2>2, <2>3, FollowerTold
  <2>5. node'[q].primaryLink = node[q].primaryLink
    BY <1>2 DEF SameEnd
  <2>. QED  BY <1>1, <1>2, <2>1, <2>4, <2>5, BothMove
<1>3. CASE ~Live(h, l)
  <2>1. Leader(node'[h], L)
    BY <1>1, <1>3, LeaderDrops
  <2>2. SameEnd(node'[h], n) /\ node'[h].links \subseteq n.links
    BY <1>3, DropLinkEffect DEF Without
  <2>. QED  BY <1>3, <2>1, <2>2, LeaderMoves DEF SameEnd
<1>. QED  BY <1>2, <1>3

\* A list owed by the leader names it.
LEMMA LedTellMembers ==
    ASSUME AllSane(node), NEW L \in Members, Leads(L), NEW p \in Servers,
           NEW o \in node[p].owed, TellMembers(p, o)
    PROVE  Leads(L)'
<1>. DEFINE h == L.srv
            l == o.link
            list == o.list
<1>1. p = h
  BY OthersFollow DEF Idle
<1>2. node[h] \in Nodes /\ Leader(node[h], L) /\ h \in Servers
  BY LeadsFacts
<1>3. Under(l, L) /\ L \in list /\ list \in SUBSET Members /\ l \in Links
  BY <1>1, <1>2 DEF Leader, AllTell, Nodes
<1>4. AllSane(node')
  BY TellMembersEffect
<1>5. PICK n \in Nodes :
         /\ SameWho(n, node[h]) /\ SameLists(n, node[h]) /\ SameEnd(n, node[h])
         /\ n.links = node[h].links /\ n.owed = node[h].owed \ {o}
         /\ n.att = node[h].att /\ n.calls = node[h].calls
         /\ n.elect = node[h].elect
         /\ Live(h, o.link) /\ l.srv # h =>
               /\ \A s \in Servers \ {h, l.srv} : node'[s] = node[s]
               /\ node'[h] = n
               /\ SameWho(node'[l.srv], node[l.srv]) /\ SameWork(node'[l.srv], node[l.srv])
               /\ SameEnd(node'[l.srv], node[l.srv]) /\ node'[l.srv].elect = node[l.srv].elect
               /\ node'[l.srv].members = Upsert(o.list, Self(l.srv))
         /\ ~Live(h, o.link) =>
               /\ \A s \in Servers \ {h} : node'[s] = node[s]
               /\ node'[h] = DropLink(n, o.link.id)
  <2>. HIDE DEF h
  <2>1. h \in Servers /\ o \in node[h].owed /\ TellMembers(h, o)
    BY <1>1, <1>2
  <2>. QED  BY <2>1, TellMembersEffect
<1>6. Leader(n, L)
  <2>1. AllTell(n.owed, L)
    BY <1>2, <1>5 DEF Leader, AllTell
  <2>. QED  BY <1>2, <1>5, <2>1 DEF Leader, SameEnd, SameWho, SameLists
<1>7. UNCHANGED <<up, has, acked>> /\ l.srv # h
  BY <1>3 DEF TellMembers, Under
<1>. HIDE DEF l, list
<1>8. /\ Live(h, l) =>
            /\ \A s \in Servers \ {h, l.srv} : node'[s] = node[s]
            /\ node'[h] = n
            /\ SameWho(node'[l.srv], node[l.srv]) /\ SameWork(node'[l.srv], node[l.srv])
            /\ SameEnd(node'[l.srv], node[l.srv]) /\ node'[l.srv].elect = node[l.srv].elect
            /\ node'[l.srv].members = Upsert(list, Self(l.srv))
      /\ ~Live(h, l) =>
            /\ \A s \in Servers \ {h} : node'[s] = node[s]
            /\ node'[h] = DropLink(n, l.id)
  BY <1>5, <1>7 DEF l, list
<1>. QED  BY <1>3, <1>4, <1>5, <1>6, <1>7, <1>8, LedTell

\* So does the list of become_primary.
LEMMA LedElectBroadcast ==
    ASSUME AllSane(node), NEW L \in Members, Leads(L), NEW s \in Servers,
           NEW l \in node[s].elect.todo, ElectBroadcast(s, l)
    PROVE  Leads(L)'
<1>. DEFINE h == L.srv
            list == node[h].elect.others
            n == Called(node[h], l)
<1>1. s = h
  BY OthersFollow DEF ElectBroadcast
<1>2. node[h] \in Nodes /\ Leader(node[h], L) /\ h \in Servers
  BY LeadsFacts
<1>3. Under(l, L) /\ L \in list
  BY <1>1, <1>2 DEF Leader, Won, ElectBroadcast
<1>4. list \in SUBSET Members
  BY <1>2, ElectTyped DEF Elects
<1>5. n \in Nodes /\ SameWork(n, node[h]) /\ SameEnd(n, node[h]) /\ Leader(n, L)
  BY <1>2, CalledEffect, LeaderCalled
<1>6. UNCHANGED <<up, has, acked>> /\ l.srv # h
  BY <1>3 DEF ElectBroadcast, Under
<1>7. /\ AllSane(node') /\ l \in Links
      /\ Live(h, l) /\ l.srv # h =>
            /\ \A x \in Servers \ {h, l.srv} : node'[x] = node[x]
            /\ node'[h] = n
            /\ SameWho(node'[l.srv], node[l.srv]) /\ SameWork(node'[l.srv], node[l.srv])
            /\ SameEnd(node'[l.srv], node[l.srv]) /\ node'[l.srv].elect = node[l.srv].elect
            /\ node'[l.srv].members = Upsert(list, Self(l.srv))
      /\ ~Live(h, l) =>
            /\ \A x \in Servers \ {h} : node'[x] = node[x]
            /\ node'[h] = DropLink(n, l.id)
  <2>. HIDE DEF h
  <2>1. h \in Servers /\ l \in node[h].elect.todo /\ ElectBroadcast(h, l)
    BY <1>1, <1>2
  <2>. QED  BY <2>1, ElectBroadcastEffect
<1>. HIDE DEF n, list
<1>. QED  BY <1>3, <1>4, <1>5, <1>6, <1>7, LedTell DEF SameWork

\* A link taken for dead costs a backup, not the leader.
LEMMA LedDetectDeadLink ==
    ASSUME AllSane(node), NEW L \in Members, Leads(L), NEW p \in Servers,
           NEW l \in node[p].links, DetectDeadLink(p, l)
    PROVE  Leads(L)'
<1>. DEFINE h == L.srv
<1>1. p = h
  BY OthersFollow DEF Idle
<1>2. node[h] \in Nodes /\ Leader(node[h], L) /\ h \in Servers
  BY LeadsFacts
<1>3. l.id # L.id
  BY <1>1, <1>2 DEF Leader, AllUnder, Under, Members, Nodes, Links
<1>4. /\ \A s \in Servers \ {h} : node'[s] = node[s]
      /\ node'[h] = DropLink(node[h], l.id)
  BY <1>1, DetectDeadLinkEffect
<1>5. Leader(node'[h], L)
  BY <1>2, <1>3, <1>4, LeaderDrops
<1>6. SameEnd(node'[h], node[h]) /\ node'[h].links \subseteq node[h].links
  BY <1>2, <1>4, DropLinkEffect DEF Without
<1>7. UNCHANGED <<up, has, acked>>
  BY DEF DetectDeadLink
<1>. QED  BY <1>4, <1>5, <1>6, <1>7, LeaderMoves

\* A backup that loses its link only starts an election.
LEMMA LedLinkLost ==
    ASSUME AllSane(node), NEW L \in Members, Leads(L), NEW b \in Servers, LinkLost(b)
    PROVE  Leads(L)'
<1>1. UNCHANGED <<up, has, acked>> /\ node[b].primaryLink # None /\ b \in up
  BY DEF LinkLost
<1>2. b # L.srv
  BY <1>1, LeadsFacts DEF Leader
<1>3. PICK n \in Nodes :
         /\ SameWho(n, node[b]) /\ SameLists(n, node[b]) /\ SameWork(n, node[b])
         /\ n.primaryLink = None /\ n.elect = node[b].elect
         /\ node'[b] = StartElection(n)
  BY LinkLostEffect
<1>4. \A s \in Servers \ {b} : node'[s] = node[s]
  BY LinkLostEffect
<1>5. node'[b].primaryLink = None
  BY <1>3, StartElectionEffect DEF SameEnd
<1>6. node[b].role # "joining"
  BY <1>1, Busy DEF AllSane
<1>7. Follower(node[b], L)
  BY <1>2, <1>6, OthersFollow
<1>8. Follower(n, L)
  BY <1>3, <1>7 DEF Follower, Idle, SameWho, SameLists, SameWork
<1>9. Follower(node'[b], L)
  BY <1>3, <1>8, FollowerStarts
<1>. QED  BY <1>1, <1>2, <1>4, <1>5, <1>9, OneFollows

\* So does one that has heard nothing.
LEMMA LedSuspect ==
    ASSUME AllSane(node), NEW L \in Members, Leads(L), NEW b \in Servers, Suspect(b)
    PROVE  Leads(L)'
<1>1. UNCHANGED <<up, has, acked>> /\ b \in up /\ node[b].role = "backup"
  BY DEF Suspect
<1>2. b # L.srv
  BY <1>1, LeadsFacts
<1>3. node[b] \in Nodes /\ Follower(node[b], L)
  BY <1>1, <1>2, OthersFollow
<1>4. /\ node'[b] = StartElection(node[b])
      /\ \A s \in Servers \ {b} : node'[s] = node[s]
  BY SuspectEffect
<1>5. Follower(node'[b], L) /\ node'[b].primaryLink = node[b].primaryLink
  BY <1>3, <1>4, FollowerStarts, StartElectionEffect DEF SameEnd
<1>. QED  BY <1>1, <1>2, <1>4, <1>5, OneFollows

\* An election phase that the leader does not go through is that of a follower.
LEMMA Elector ==
    ASSUME AllSane(node), NEW L \in Members, Leads(L), NEW s \in Servers, s \in up,
           node[s].elect.phase \in {"start", "ask"}
    PROVE  s # L.srv /\ node[s] \in Nodes /\ Follower(node[s], L)
<1>1. s # L.srv
  BY LeadsFacts DEF Leader, Won
<1>2. node[s].role # "joining"
  BY Busy DEF AllSane
<1>. QED  BY <1>1, <1>2, OthersFollow

\* An election first asks the leader, which outranks whoever holds it.
LEMMA LedElectStart ==
    ASSUME AllSane(node), NEW L \in Members, Leads(L), NEW s \in Servers, ElectStart(s)
    PROVE  Leads(L)'
<1>1. UNCHANGED <<up, has, acked>> /\ s \in up /\ node[s].elect.phase = "start"
  BY DEF ElectStart
<1>2. s # L.srv /\ node[s] \in Nodes /\ Follower(node[s], L)
  BY <1>1, Elector
<1>3. node[s].role # "primary"
  BY <1>2 DEF Follower
<1>4. /\ \A x \in Servers \ {s} : node'[x] = node[x]
      /\ SameButElection(node'[s], node[s])
      /\ node'[s].elect.phase = "ask" /\ node'[s].elect.todo = Higher(node[s])
  BY <1>3, ElectStartEffect
<1>5. L \in Higher(node[s])
  BY <1>2 DEF Follower, Higher, Members, Nodes
<1>6. Follower(node'[s], L)
  BY <1>2, <1>4, <1>5
     DEF Follower, Harmless, Idle, SameButElection, SameWho, SameLists, SameWork
<1>7. node'[s].primaryLink = node[s].primaryLink
  BY <1>4 DEF SameButElection, SameEnd
<1>. QED  BY <1>1, <1>2, <1>4, <1>6, <1>7, OneFollows

\* An election that ends harms nobody.
LEMMA LedAnnounced ==
    ASSUME AllSane(node), NEW L \in Members, Leads(L), NEW s \in Servers, Announced(s)
    PROVE  Leads(L)'
<1>1. UNCHANGED <<up, has, acked>> /\ s \in up /\ node[s].elect.phase = "ask"
  BY DEF Announced
<1>2. s # L.srv /\ node[s] \in Nodes /\ Follower(node[s], L)
  BY <1>1, Elector
<1>3. /\ \A x \in Servers \ {s} : node'[x] = node[x]
      /\ SameButElection(node'[s], node[s]) /\ node'[s].elect = NotElecting
  BY AnnouncedEffect
<1>4. Follower(node'[s], L)
  BY <1>2, <1>3
     DEF Follower, Harmless, NotElecting, Idle, SameButElection, SameWho, SameLists, SameWork
<1>5. node'[s].primaryLink = node[s].primaryLink
  BY <1>3 DEF SameButElection, SameEnd
<1>. QED  BY <1>1, <1>2, <1>3, <1>4, <1>5, OneFollows

\* Nor does one that starts over.
LEMMA LedWaitTimeout ==
    ASSUME AllSane(node), NEW L \in Members, Leads(L), NEW s \in Servers, WaitTimeout(s)
    PROVE  Leads(L)'
<1>1. UNCHANGED <<up, has, acked>> /\ s \in up /\ node[s].elect.phase = "ask"
  BY DEF WaitTimeout
<1>2. s # L.srv /\ node[s] \in Nodes /\ Follower(node[s], L)
  BY <1>1, Elector
<1>3. /\ \A x \in Servers \ {s} : node'[x] = node[x]
      /\ SameButElection(node'[s], node[s]) /\ node'[s].elect.phase = "start"
  BY WaitTimeoutEffect
<1>4. Follower(node'[s], L)
  BY <1>2, <1>3
     DEF Follower, Harmless, Idle, SameButElection, SameWho, SameLists, SameWork
<1>5. node'[s].primaryLink = node[s].primaryLink
  BY <1>3 DEF SameButElection, SameEnd
<1>. QED  BY <1>1, <1>2, <1>3, <1>4, <1>5, OneFollows

\* No backup gets through an election: the leader has answered, or is still to be asked.
LEMMA NoSecond ==
    ASSUME AllSane(node), NEW L \in Members, Leads(L), NEW s \in Servers
    PROVE  ~BecomePrimary(s)
<1>1. SUFFICES ASSUME BecomePrimary(s) PROVE FALSE
  OBVIOUS
<1>2. s \in up /\ node[s].elect.phase = "ask"
  BY <1>1 DEF BecomePrimary
<1>3. Follower(node[s], L)
  BY <1>2, Elector
<1>4. node[s].elect.todo = {} /\ ~node[s].elect.alive
  BY <1>1 DEF BecomePrimary
<1>. QED  BY <1>2, <1>3, <1>4 DEF Follower, Harmless

\* Every server that can be reached answers an election in time.
Timely == \A s \in Servers : \A m \in node[s].elect.todo : Ask(s, m, FALSE) => ~Reachable(m.srv)

\* The leader answers the Election message it gets, and the asker knows it then.
LEMMA LedAsk ==
    ASSUME AllSane(node), NEW L \in Members, Leads(L), NEW s \in Servers,
           NEW m \in node[s].elect.todo, NEW answered \in BOOLEAN, Ask(s, m, answered), Timely
    PROVE  Leads(L)'
<1>. DEFINE h == L.srv
            q == m.srv
<1>1. UNCHANGED <<up, has, acked>> /\ s \in up /\ node[s].elect.phase = "ask"
  BY DEF Ask
<1>2. s # h /\ node[s] \in Nodes /\ Follower(node[s], L)
  BY <1>1, Elector
<1>3. /\ node[h] \in Nodes /\ Leader(node[h], L) /\ h \in Servers /\ Self(h) = L
      /\ node[h].role = "primary" /\ h \in up
  BY LeadsFacts
<1>4. /\ AllSane(node') /\ q \in Servers
  BY AskEffect
<1>5. PICK n \in Nodes :
         /\ SameButElection(n, node[s]) /\ n.elect.phase = "ask"
         /\ n.elect.todo = node[s].elect.todo \ {m}
         /\ n.elect.alive = (node[s].elect.alive \/ answered)
         /\ Reachable(q) /\ q # s =>
               /\ \A x \in Servers \ {s, q} : node'[x] = node[x]
               /\ node'[s] = n
               /\ node'[q] = HandleElection(node[q], Self(s))
         /\ Reachable(q) /\ q = s =>
               /\ \A x \in Servers \ {s} : node'[x] = node[x]
               /\ node'[s] = HandleElection(n, Self(s))
         /\ ~Reachable(q) =>
               /\ \A x \in Servers \ {s} : node'[x] = node[x]
               /\ node'[s] = n
  BY AskEffect
<1>6. Reachable(h)
  BY <1>3 DEF Reachable
<1>7. answered \/ m # L
  BY <1>6 DEF Timely
<1>8. n.elect.alive \/ L \in n.elect.todo
  BY <1>1, <1>2, <1>5, <1>7 DEF Follower, Harmless
<1>9. Follower(n, L)
  BY <1>2, <1>5, <1>8
     DEF Follower, Harmless, Idle, SameButElection, SameWho, SameLists, SameWork
<1>10. n.primaryLink = node[s].primaryLink
  BY <1>5 DEF SameButElection, SameEnd
<1>11. Self(s) \in Members /\ Under(Self(s), L)
  BY <1>2, OthersFollow DEF Follower
<1>12. CASE ~Reachable(q)
  BY <1>1, <1>2, <1>5, <1>9, <1>10, <1>12, OneFollows
<1>13. CASE Reachable(q) /\ q = s
  <2>1. n.role # "primary"
    BY <1>9 DEF Follower
  <2>2. node'[s] = StartElection(n)
    BY <1>5, <1>11, <1>13, <2>1, HandleElectionEffect
  <2>3. Follower(node'[s], L) /\ node'[s].primaryLink = node[s].primaryLink
    BY <1>9, <1>10, <2>2, FollowerStarts, StartElectionEffect DEF SameEnd
  <2>. QED  BY <1>1, <1>2, <1>5, <1>13, <2>3, OneFollows
<1>14. CASE Reachable(q) /\ q = h
  <2>1. /\ SameWho(node'[h], node[h]) /\ SameLists(node'[h], node[h])
        /\ SameEnd(node'[h], node[h])
        /\ node'[h].links = node[h].links /\ node'[h].owed = node[h].owed
        /\ node'[h].att = node[h].att /\ node'[h].elect = node[h].elect
        /\ node'[h].calls = node[h].calls \cup {[kind |-> "announce", m |-> Self(s)]}
    BY <1>2, <1>3, <1>5, <1>11, <1>14, HandleElectionEffect
  <2>2. AllCall(node'[h].calls, L)
    BY <1>3, <1>11, <2>1 DEF Leader, AllCall
  <2>3. Leader(node'[h], L)
    BY <1>3, <2>1, <2>2 DEF Leader, SameWho, SameLists, SameEnd
  <2>4. /\ node'[s] = n /\ \A x \in Servers \ {h, s} : node'[x] = node[x]
    BY <1>2, <1>5, <1>14
  <2>. QED  BY <1>1, <1>2, <1>9, <1>10, <2>1, <2>3, <2>4, BothMove
<1>15. CASE Reachable(q) /\ q # h /\ q # s
  <2>1. q \in up /\ node[q] \in Nodes /\ Follower(node[q], L)
    BY <1>4, <1>15, OthersFollow DEF Reachable
  <2>2. node'[q] = StartElection(node[q])
    <3>1. node[q].role # "primary"
      BY <2>1 DEF Follower
    <3>. QED  BY <1>5, <1>11, <1>15, <2>1, <3>1, HandleElectionEffect
  <2>3. Follower(node'[q], L) /\ node'[q].primaryLink = node[q].primaryLink
    BY <2>1, <2>2, FollowerStarts, StartElectionEffect DEF SameEnd
  <2>4. node'[s] = n /\ \A x \in Servers \ {s, q} : node'[x] = node[x]
    BY <1>5, <1>15
  <2>5. Linked(h)'
    BY <1>1, <1>2, <1>3, <1>4, <1>10, <1>15, <2>3, <2>4, LinkedStays DEF Leads
  <2>6. Leader(node'[h], L) /\ h \in up' /\ acked' \subseteq has'[h]
    BY <1>1, <1>2, <1>3, <1>15, <2>4 DEF Leads
  <2>7. \A x \in Servers \ {h} : node'[x] = Fresh \/ (x \in up' /\ Follower(node'[x], L))
    BY <1>1, <1>9, <2>1, <2>3, <2>4 DEF Leads
  <2>. QED  BY <2>5, <2>6, <2>7, StillLeads
<1>. QED  BY <1>12, <1>13, <1>14, <1>15

\* The leader's own announcement reaches followers only.
LEMMA LedAnnounce ==
    ASSUME AllSane(node), NEW L \in Members, Leads(L), NEW s \in Servers,
           NEW m \in node[s].elect.todo, Announce(s, m)
    PROVE  Leads(L)'
<1>. DEFINE h == L.srv
            q == m.srv
            a == Called(node[h], m)
<1>1. s = h
  BY OthersFollow DEF Announce
<1>2. node[h] \in Nodes /\ Leader(node[h], L) /\ h \in Servers /\ Self(h) = L
  BY LeadsFacts
<1>3. Under(m, L)
  BY <1>1, <1>2 DEF Leader, Won, Announce
<1>4. UNCHANGED <<up, has, acked>> /\ q # h
  BY <1>3 DEF Announce, Under
<1>5. /\ AllSane(node') /\ q \in Servers
      /\ Reachable(q) /\ q # h =>
            /\ \A x \in Servers \ {h, q} : node'[x] = node[x]
            /\ node'[h] = a
            /\ node'[q] = HandleCoordinator(node[q], Self(h))
      /\ ~Reachable(q) =>
            /\ \A x \in Servers \ {h} : node'[x] = node[x]
            /\ node'[h] = a
  <2>. HIDE DEF h
  <2>1. h \in Servers /\ m \in node[h].elect.todo /\ Announce(h, m)
    BY <1>1, <1>2
  <2>. QED  BY <2>1, AnnounceEffect
<1>6. Leader(a, L) /\ SameWork(a, node[h]) /\ SameEnd(a, node[h])
  BY <1>2, CalledEffect, LeaderCalled
<1>7. a.links = node[h].links
  BY <1>6 DEF SameWork
<1>. HIDE DEF a
<1>8. CASE Reachable(q)
  <2>1. q \in up /\ node[q] \in Nodes /\ Follower(node[q], L)
    BY <1>4, <1>5, <1>8, OthersFollow DEF Reachable
  <2>2. node'[q] = HandleCoordinator(node[q], L)
    BY <1>2, <1>4, <1>5, <1>8
  <2>3. L.id >= node[q].id
    BY <2>1 DEF Follower, Members, Nodes
  <2>4. Follower(node'[q], L)
    BY <2>1, <2>2, FollowerHears
  <2>5. node'[q].primaryLink = node[q].primaryLink
    BY <2>1, <2>2, <2>3, HandleCoordinatorEffect DEF SameEnd
  <2>. QED  BY <1>4, <1>5, <1>6, <1>7, <1>8, <2>1, <2>4, <2>5, BothMove
<1>9. CASE ~Reachable(q)
  BY <1>4, <1>5, <1>6, <1>7, <1>9, LeaderMoves
<1>. QED  BY <1>8, <1>9

\* become_primary attaches followers only.
LEMMA LedElectAttach ==
    ASSUME AllSane(node), NEW L \in Members, Leads(L), NEW s \in Servers,
           NEW m \in node[s].elect.todo, ElectAttach(s, m)
    PROVE  Leads(L)'
<1>1. s = L.srv
  BY OthersFollow DEF ElectAttach
<1>2. Under(m, L)
  BY <1>1, LeadsFacts DEF Leader, Won, ElectAttach
<1>3. m \in Members /\ BeginAttach(L.srv, m, None)
  BY <1>1, ElectAttachEffect
<1>. QED  BY <1>2, <1>3, LedAttach

\* The leader's other threads attach followers only.
LEMMA LedCallAttach ==
    ASSUME AllSane(node), NEW L \in Members, Leads(L), NEW p \in Servers,
           NEW t \in node[p].calls, CallAttach(p, t)
    PROVE  Leads(L)'
<1>1. p = L.srv
  BY OthersFollow DEF Idle
<1>2. Under(t.m, L)
  BY <1>1, LeadsFacts DEF Leader, AllCall
<1>3. t \in Calls /\ t.m \in Members /\ BeginAttach(L.srv, t.m, t)
  BY <1>1, CallAttachEffect
<1>. QED  BY <1>2, <1>3, LedAttach

\* A request changes no one's place.
LEMMA LedAccept ==
    ASSUME AllSane(node), NEW L \in Members, Leads(L), NEW s \in Servers, Accept(s)
    PROVE  Leads(L)'
<1>. DEFINE h == L.srv
<1>1. s = h
  BY OthersFollow DEF Accept
<1>2. Leader(node[h], L)
  BY LeadsFacts
<1>3. /\ \A x \in Servers \ {h} : node'[x] = node[x]
      /\ SameWho(node'[h], node[h]) /\ SameLists(node'[h], node[h])
      /\ SameEnd(node'[h], node[h]) /\ node'[h].elect = node[h].elect
      /\ node'[h].links = node[h].links /\ node'[h].owed = node[h].owed
      /\ node'[h].att = node[h].att /\ node'[h].calls = node[h].calls
  BY <1>1, AcceptEffect
<1>4. Leader(node'[h], L)
  BY <1>2, <1>3 DEF Leader, SameWho, SameLists, SameEnd
<1>5. UNCHANGED <<up, has, acked>>
  BY DEF Accept
<1>. QED  BY <1>3, <1>4, <1>5, LeaderMoves

\* A change reaches every link that works before its client is told.
LEMMA LedCommit ==
    ASSUME AllSane(node), Bounded, NEW L \in Members, Leads(L), NEW s \in Servers,
           NEW v \in Changes, Commit(s, v)
    PROVE  Leads(L)'
<1>. DEFINE h == L.srv
<1>1. s = h
  BY OthersFollow DEF Idle, Commit
<1>2. node[h] \in Nodes /\ Leader(node[h], L) /\ h \in Servers /\ h \in up
  BY LeadsFacts
<1>3. /\ AllSane(node')
      /\ \A x \in Servers \ {h} : node'[x] = node[x]
      /\ SameWho(node'[h], node[h]) /\ node'[h].lowest = node[h].lowest
      /\ SameEnd(node'[h], node[h]) /\ node'[h].elect = node[h].elect
      /\ node'[h].att = node[h].att /\ node'[h].calls = node[h].calls
      /\ node'[h].links = node[h].links \ Dead(h)
      /\ node'[h].members = Spared(node[h].members, Dead(h))
      /\ \/ node'[h].owed = node[h].owed
         \/ node'[h].owed = node[h].owed \cup Notes(node'[h].links, node'[h].members)
  BY <1>1, CommitEffect
<1>4. Leader(node'[h], L)
  <2>1. AllUnder(node'[h].links, L)
    BY <1>2, <1>3 DEF Leader, AllUnder
  <2>2. L.id \notin Ids(Dead(h))
    BY <1>2 DEF Leader, AllUnder, Under, Ids, Dead, Members, Nodes, Links
  <2>3. Ranked(node'[h].members, L)
    BY <1>2, <1>3, <2>2 DEF Leader, Ranked, Spared
  <2>4. AllTell(node'[h].owed, L)
    BY <1>2, <1>3, <2>1, <2>3, AllTellNotes DEF Leader, Ranked
  <2>. QED  BY <1>2, <1>3, <2>1, <2>3, <2>4 DEF Leader, SameWho, SameEnd
<1>5. up' = up /\ acked' = acked \cup {v}
      /\ has' = [x \in Servers |-> IF x = h \/ x \in {l.srv : l \in Receivers(h)}
                                     THEN has[x] \cup {v} ELSE has[x]]
  BY <1>1 DEF Commit
<1>6. has'[h] = has[h] \cup {v}
  BY <1>2, <1>5
<1>7. Linked(h)'
  <2>1. SUFFICES ASSUME NEW l \in node'[h].links PROVE has'[h] \subseteq has'[l.srv]
    BY DEF Linked
  <2>2. l \in node[h].links /\ Live(h, l) /\ l.srv \in Servers
    BY <1>2, <1>3 DEF Dead, Nodes, Links
  <2>3. has[h] \subseteq has[l.srv]
    BY <2>2 DEF Leads, Linked
  <2>4. l.srv \in {x.srv : x \in Receivers(h)}
    BY <2>2 DEF Receivers
  <2>5. has'[l.srv] = has[l.srv] \cup {v}
    BY <1>5, <2>2, <2>4
  <2>. QED  BY <1>6, <2>3, <2>5
<1>8. acked' \subseteq has'[h] /\ h \in up'
  BY <1>2, <1>5, <1>6 DEF Leads
<1>9. \A x \in Servers \ {h} : node'[x] = Fresh \/ (x \in up' /\ Follower(node'[x], L))
  BY <1>3, <1>5 DEF Leads
<1>. QED  BY <1>4, <1>7, <1>8, <1>9, StillLeads

\* The crash of a backup costs no acknowledged change and no leader.
LEMMA LedCrash ==
    ASSUME AllSane(node), NEW L \in Members, Leads(L), NEW s \in Servers, Crash(s), s # L.srv
    PROVE  Leads(L)'
<1>. DEFINE h == L.srv
<1>1. node'[s] = Fresh /\ \A x \in Servers \ {s} : node'[x] = node[x]
  BY CrashEffect
<1>2. up' = up \ {s} /\ has' = has /\ acked' = acked
  BY DEF Crash
<1>3. h \in Servers /\ h \in up /\ Leader(node[h], L)
  BY LeadsFacts
<1>4. node'[s].primaryLink = None
  BY <1>1 DEF Fresh
<1>5. Linked(h)'
  BY <1>1, <1>2, <1>3, <1>4, LinkedStays DEF Leads
<1>6. \A x \in Servers \ {h} : node'[x] = Fresh \/ (x \in up' /\ Follower(node'[x], L))
  BY <1>1, <1>2 DEF Leads
<1>7. Leader(node'[h], L) /\ h \in up' /\ acked' \subseteq has'[h]
  BY <1>1, <1>2, <1>3 DEF Leads
<1>. QED  BY <1>5, <1>6, <1>7, StillLeads

\* A server that comes back has not joined yet.
LEMMA LedStart ==
    ASSUME AllSane(node), NEW L \in Members, Leads(L), NEW s \in Servers, Start(s)
    PROVE  Leads(L)'
<1>. DEFINE h == L.srv
<1>1. up' = up \cup {s} /\ UNCHANGED <<node, has, acked>> /\ s \notin up
  BY DEF Start
<1>2. h \in Servers /\ h \in up /\ Leader(node[h], L)
  BY LeadsFacts
<1>3. node[s] = Fresh
  BY <1>1, <1>2 DEF Leads
<1>4. node[s].primaryLink = None
  BY <1>3 DEF Fresh
<1>5. Linked(h)'
  BY <1>1, <1>2, <1>4, LinkedStays DEF Leads
<1>6. \A x \in Servers \ {h} : node'[x] = Fresh \/ (x \in up' /\ Follower(node'[x], L))
  BY <1>1 DEF Leads
<1>7. Leader(node'[h], L) /\ h \in up' /\ acked' \subseteq has'[h]
  BY <1>1, <1>2 DEF Leads
<1>. QED  BY <1>5, <1>6, <1>7, StillLeads

\* No thread of the leader ends its lead.
LEMMA LedPrimaryStep ==
    ASSUME AllSane(node), Bounded, NEW L \in Members, Leads(L), NEW s \in Servers,
           PrimaryStep(s)
    PROVE  Leads(L)'
<1>1. ASSUME NEW t \in node[s].calls, JoinAdmit(s, t) PROVE Leads(L)'
  BY <1>1, LedJoinAdmit
<1>2. ASSUME NEW t \in node[s].calls, CallAttach(s, t) PROVE Leads(L)'
  BY <1>2, LedCallAttach
<1>3. ASSUME NEW t \in node[s].calls, Reassure(s, t) PROVE Leads(L)'
  BY <1>3, LedReassure
<1>4. CASE EndAttach(s)
  BY <1>4, LedEndAttach
<1>5. ASSUME NEW o \in node[s].owed, TellMembers(s, o) PROVE Leads(L)'
  BY <1>5, LedTellMembers
<1>6. ASSUME NEW l \in node[s].links, DetectDeadLink(s, l) PROVE Leads(L)'
  BY <1>6, LedDetectDeadLink
<1>. QED  BY <1>1, <1>2, <1>3, <1>4, <1>5, <1>6 DEF PrimaryStep

\* No election does, when timeouts expire only on servers that are gone.
LEMMA LedElectionStep ==
    ASSUME AllSane(node), NEW L \in Members, Leads(L), NEW s \in Servers, ElectionStep(s), Timely
    PROVE  Leads(L)'
<1>1. CASE ElectStart(s)
  BY <1>1, LedElectStart
<1>2. CASE Announced(s)
  BY <1>2, LedAnnounced
<1>3. CASE WaitTimeout(s)
  BY <1>3, LedWaitTimeout
<1>4. CASE BecomePrimary(s)
  BY <1>4, NoSecond
<1>5. ASSUME NEW m \in node[s].elect.todo, NEW answered \in BOOLEAN, Ask(s, m, answered)
      PROVE  Leads(L)'
  BY <1>5, LedAsk
<1>6. ASSUME NEW m \in node[s].elect.todo, Announce(s, m) PROVE Leads(L)'
  BY <1>6, LedAnnounce
<1>7. ASSUME NEW m \in node[s].elect.todo, ElectAttach(s, m) PROVE Leads(L)'
  BY <1>7, LedElectAttach
<1>8. ASSUME NEW m \in node[s].elect.todo, ElectBroadcast(s, m) PROVE Leads(L)'
  BY <1>8, LedElectBroadcast
<1>. QED  BY <1>1, <1>2, <1>3, <1>4, <1>5, <1>6, <1>7, <1>8 DEF ElectionStep

\* Nothing does while the leader runs, with such timeouts.
LEMMA KeepsLeading ==
    ASSUME AllSane(node), Bounded, NEW L \in Members, Leads(L), Next, Timely, L.srv \in up'
    PROVE  Leads(L)'
<1>1. PICK s \in Servers :
         \/ \E j \in Servers : JoinRead(s, j)
         \/ PrimaryStep(s) \/ BackupStep(s) \/ ElectionStep(s)
         \/ Accept(s) \/ \E v \in Changes : Commit(s, v)
         \/ Crash(s) \/ Start(s)
  BY DEF Next
<1>2. ASSUME NEW j \in Servers, JoinRead(s, j) PROVE Leads(L)'
  BY <1>2, LedJoinRead
<1>3. CASE PrimaryStep(s)
  BY <1>3, LedPrimaryStep
<1>4. CASE BackupStep(s)
  BY <1>4, LedLinkLost, LedSuspect DEF BackupStep
<1>5. CASE ElectionStep(s)
  BY <1>5, LedElectionStep
<1>6. CASE Accept(s)
  BY <1>6, LedAccept
<1>7. ASSUME NEW v \in Changes, Commit(s, v) PROVE Leads(L)'
  BY <1>7, LedCommit
<1>8. CASE Crash(s)
  <2>1. s # L.srv
    BY <1>8 DEF Crash
  <2>. QED  BY <1>8, <2>1, LedCrash
<1>9. CASE Start(s)
  BY <1>9, LedStart
<1>. QED  BY <1>1, <1>2, <1>3, <1>4, <1>5, <1>6, <1>7, <1>8, <1>9

\* What it means that one server leads.
LEMMA LedMeans ==
    ASSUME AllSane(node), Bounded, NEW L \in Members, Leads(L)
    PROVE  /\ OnePrimary /\ HighestLeads /\ AckedKept /\ LinkedHasAll
           /\ Primaries = {L.srv}
<1>. DEFINE h == L.srv
<1>1. h \in Servers /\ h \in up /\ node[h].role = "primary" /\ Leader(node[h], L)
  BY LeadsFacts
<1>2. Primaries = {h}
  BY <1>1, OthersFollow DEF Primaries, Bounded
<1>3. OnePrimary
  <2>1. Cardinality({h}) = 1
    BY FS_Singleton
  <2>. QED  BY <1>2, <2>1 DEF OnePrimary
<1>4. HighestLeads
  <2>1. SUFFICES ASSUME NEW s \in Joined, s # h PROVE node[s].id < node[h].id
    BY <1>2 DEF HighestLeads
  <2>2. s \in Servers /\ node[s].role # "joining"
    BY DEF Joined, Bounded
  <2>3. Follower(node[s], L)
    BY <2>1, <2>2, OthersFollow
  <2>. QED  BY <1>1, <2>3 DEF Follower, Leader
<1>5. AckedKept
  BY <1>2 DEF AckedKept, Leads
<1>6. LinkedHasAll
  BY <1>2 DEF LinkedHasAll, Leads, Linked
<1>. QED  BY <1>2, <1>3, <1>4, <1>5, <1>6

\* The member that the founder is.
TheFirst == [id |-> FirstId, srv |-> First]

\* The server started without --join leads at the start.
LEMMA FirstLeadsAtStart == Init => Leads(TheFirst)
<1>. SUFFICES ASSUME Init PROVE Leads(TheFirst)
  OBVIOUS
<1>1. TheFirst \in Members
  BY ClusterAssumption DEF TheFirst, Members
<1>2. node[First] = Founder /\ \A s \in Servers \ {First} : node[s] = Fresh
  BY ClusterAssumption DEF Init
<1>3. /\ Fresh.links = {} /\ Fresh.owed = {} /\ Fresh.calls = {} /\ Fresh.att = None
      /\ Fresh.primaryLink = None /\ Fresh.elect = NotElecting
  BY DEF Fresh
<1>4. /\ Founder.id = FirstId /\ Founder.role = "primary" /\ Founder.lowest = FirstId
      /\ Founder.members = {TheFirst}
      /\ Founder.links = {} /\ Founder.owed = {} /\ Founder.calls = {} /\ Founder.att = None
      /\ Founder.primaryLink = None /\ Founder.elect = NotElecting
  BY DEF Founder, Fresh, TheFirst
<1>5. Leader(Founder, TheFirst)
  BY <1>4, ClusterAssumption
     DEF Leader, Ranked, AllCall, AllUnder, AllTell, Won, NotElecting, TheFirst
<1>6. Linked(First)
  BY <1>2, <1>4 DEF Linked
<1>. QED  BY <1>2, <1>5, <1>6, ClusterAssumption DEF Leads, TheFirst, Init

\* "A backup that wrongly suspects a live primary always asks it during the
\* election, so a second primary isn't elected" (README).  As long as the first server runs, and
\* an Election message to a server that can be reached is answered in time, however often
\* monitor_loop, heartbeats and COORDINATOR_WAIT expire without cause, whatever backups crash and
\* come back: it stays the one primary, with the highest id and every acknowledged change, and
\* every backup it has a working link to has all that it has.
THEOREM WrongSuspicionElectsNobody ==
    Spec /\ [](First \in up) /\ [][Timely]_vars
      => [](OnePrimary /\ HighestLeads /\ AckedKept /\ LinkedHasAll)
<1>. DEFINE Inv == Bounded /\ AllSane(node) /\ Leads(TheFirst)
<1>0. TheFirst \in Members /\ TheFirst.srv = First
  BY ClusterAssumption DEF TheFirst, Members
<1>1. Init => Inv
  BY InitSane, FirstLeadsAtStart
<1>2. Inv /\ (First \in up)' /\ [Next]_vars /\ [Timely]_vars => Inv'
  <2>. SUFFICES ASSUME Inv, (First \in up)', [Next]_vars, [Timely]_vars PROVE Inv'
    OBVIOUS
  <2>1. CASE UNCHANGED vars
    BY <2>1 DEF vars, Bounded, AllSane, Leads, Linked, Live
  <2>2. CASE Next /\ Timely
    <3>1. Bounded' /\ AllSane(node)'
      BY <2>2, NextBounded, NextSane
    <3>2. Leads(TheFirst)'
      BY <1>0, <2>2, KeepsLeading
    <3>. QED  BY <3>1, <3>2
  <2>. QED  BY <2>1, <2>2
<1>3. Inv => OnePrimary /\ HighestLeads /\ AckedKept /\ LinkedHasAll
  BY <1>0, LedMeans
<1>. HIDE DEF Inv
<1>4. Spec /\ [](First \in up) /\ [][Timely]_vars => []Inv
  BY <1>1, <1>2, PTL DEF Spec
<1>. QED  BY <1>3, <1>4, PTL

-----------------------------------------------------------------------------
(* Before the first crash.                                                  *)

\* Nobody is taken for dead, and a join is not disturbed.
Mild == MaxDoubts = 0 /\ Faults \subseteq {"quick_restart"}

\* The servers that have joined.
In == {s \in Servers : node[s].role # "joining"}
\* The same, as members.
All == {Self(s) : s \in In}

\* The list names only servers that have joined, and all that outrank id i.
Covers(list, i) == list \subseteq All /\ \A s \in In : node[s].id > i => Self(s) \in list

\* No id is used twice.
Distinct == \A s, t \in In : node[s].id = node[t].id => s = t

\* A join under way: the id chosen is lower than those in use.
Joiner(c) == c.kind = "admit" /\ c.m.srv \notin In /\ \A s \in In : c.m.id < node[s].id
\* A join whose server is in the list and has no link yet.
Attachee(c) ==
    /\ c.kind = "join" /\ c.m.srv \in In \ {First} /\ c.m = Self(c.m.srv)
    /\ \A l \in node[First].links : l.srv # c.m.srv
\* One join at a time, see JoinRead.
OneJoiner == \A c, d \in node[First].calls : c.kind = "admit" /\ d.kind = "admit" => c = d

\* The attach of a joining server, whose link is still there.
Attaching(a) ==
    /\ a.by \in node[First].calls /\ a.by.kind = "join" /\ a.m = a.by.m
    /\ Live(First, [srv |-> a.m.srv, no |-> a.no])

\* A link that works, to the server whose id it has.
Good(l) == l.srv \in In /\ l.id = node[l.srv].id /\ Live(First, l)

\* A backup whose link is one the first server uses.
Hears(s) ==
    LET c == node[s].primaryLink IN
    /\ c.srv = First
    /\ \/ /\ node[First].att # None
          /\ node[First].att.m.srv = s /\ node[First].att.no = c.no
       \/ \E l \in node[First].links : l.srv = s /\ l.no = c.no

\* A backup that knows itself, and with its link whoever outranks it.
Listed(s) ==
    /\ node[s].primaryId = FirstId
    /\ Self(s) \in node[s].members /\ node[s].members \subseteq All
    /\ node[s].primaryLink # None => Covers(node[s].members, node[s].id)

\* A backup that has a link or is about to.
Served(s) ==
    /\ \/ \E c \in node[First].calls : c.kind = "join" /\ c.m.srv = s
       \/ \E l \in node[First].links : l.srv = s
    /\ node[s].primaryLink # None => Hears(s)

\* No election.
Quiet == \A s \in Servers : node[s].elect.phase = "none"

\* The cluster before any crash: the first server has everyone in its list, and a working
\* link to everyone whose join is over.
Calm ==
    /\ up = Servers /\ Quiet /\ node[First].members = All
    /\ Distinct /\ OneJoiner
    /\ \A c \in node[First].calls : Joiner(c) \/ Attachee(c)
    /\ node[First].att # None => Attaching(node[First].att)
    /\ \A l \in node[First].links : Good(l)
    /\ \A o \in node[First].owed : o.link \in node[First].links /\ Covers(o.list, o.link.id)
    /\ \A s \in In \ {First} : Listed(s)
    /\ \A s \in In \ {First} : Served(s)

\* The first server is a member, with id FIRST_ID.
LEMMA FirstIsMember == TheFirst \in Members /\ TheFirst.srv = First /\ TheFirst.id = FirstId
BY ClusterAssumption DEF TheFirst, Members

\* With MaxDoubts = 0 no timeout expires without cause.
LEMMA NoDoubt ==
    ASSUME Mild, Bounded
    PROVE  ~Doubt
BY DEF Mild, Bounded, Doubt

\* What Calm and Leads(TheFirst) say of the roles.
LEMMA CalmFacts ==
    ASSUME AllSane(node), Leads(TheFirst), Calm
    PROVE  /\ First \in Servers /\ First \in In /\ Self(First) = TheFirst
           /\ node[First] \in Nodes /\ Leader(node[First], TheFirst)
           /\ node[First].role = "primary" /\ node[First].id = FirstId
           /\ \A s \in In : Self(s) \in Members /\ s \in Servers
           /\ \A s \in Servers \ {First} :
                 /\ Idle(node[s]) /\ node[s].role # "primary" /\ node[s] \in Nodes
                 /\ s \in In => Follower(node[s], TheFirst)
           /\ \A s \in Servers \ In : node[s] = Fresh
<1>1. /\ First \in Servers /\ Self(First) = TheFirst /\ node[First] \in Nodes
      /\ Leader(node[First], TheFirst) /\ node[First].role = "primary"
  BY FirstIsMember, LeadsFacts
<1>2. First \in In /\ node[First].id = FirstId
  BY <1>1, FirstIsMember DEF In, Leader
<1>3. \A s \in In : Self(s) \in Members /\ s \in Servers
  BY SelfTyped DEF In
<1>4. ASSUME NEW s \in Servers \ {First}
      PROVE  /\ Idle(node[s]) /\ node[s].role # "primary" /\ node[s] \in Nodes
             /\ s \in In => Follower(node[s], TheFirst)
  BY <1>4, FirstIsMember, OthersFollow DEF In
<1>5. \A s \in Servers \ In : node[s] = Fresh
  BY DEF AllSane, Sane, In
<1>. QED  BY <1>1, <1>2, <1>3, <1>4, <1>5

\* Nothing of what Calm says of the cast changes when nobody changes role or id.
SameCast == \A s \in Servers : node'[s].id = node[s].id /\ (node'[s].role = "joining" <=> node[s].role = "joining")

\* Then lists that name who they should do so afterwards.
LEMMA CastStays ==
    ASSUME SameCast
    PROVE  /\ In' = In /\ All' = All /\ \A s \in Servers : Self(s)' = Self(s)
           /\ \A s \in In : node'[s].id = node[s].id
           /\ Distinct => Distinct'
           /\ \A list, i : Covers(list, i) => Covers(list, i)'
<1>1. In' = In
  BY DEF SameCast, In
<1>2. \A s \in Servers : Self(s)' = Self(s)
  BY DEF SameCast, Self
<1>3. In \subseteq Servers
  BY DEF In
<1>4. All' = All
  BY <1>1, <1>2, <1>3 DEF All
<1>5. \A s \in In : node'[s].id = node[s].id
  BY <1>3 DEF SameCast
<1>6. Distinct => Distinct'
  BY <1>1, <1>5 DEF Distinct
<1>7. ASSUME NEW list, NEW i, Covers(list, i) PROVE Covers(list, i)'
  BY <1>1, <1>2, <1>3, <1>4, <1>5, <1>7 DEF Covers
<1>. QED  BY <1>1, <1>2, <1>4, <1>5, <1>6, <1>7

\* So do links that work, when no backup's end changes.
LEMMA ConnectionsStay ==
    ASSUME SameCast, up' = up, \A s \in Servers : SameEnd(node'[s], node[s])
    PROVE  \A l : Good(l) => Good(l)'
<1>1. ASSUME NEW l, Good(l) PROVE Good(l)'
  <2>1. l.srv \in Servers /\ l.srv \in In
    BY <1>1 DEF Good, In
  <2>2. node'[l.srv].id = node[l.srv].id /\ In' = In
    BY <2>1, CastStays DEF SameCast
  <2>3. Live(First, l)'
    BY <1>1, <2>1 DEF Good, Live, SameEnd
  <2>. QED  BY <1>1, <2>1, <2>2, <2>3 DEF Good
<1>. QED  BY <1>1

\* handle_join gives an id lower than all in use, since members_ names everyone.
LEMMA CalmJoinRead ==
    ASSUME Mild, AllSane(node), Bounded, Leads(TheFirst), Calm,
           NEW p \in Servers, NEW j \in Servers, JoinRead(p, j)
    PROVE  Calm'
<1>1. p = First
  BY CalmFacts DEF JoinRead
<1>. USE CalmFacts
<1>. DEFINE n == node[First]
<1>2. /\ \A s \in Servers \ {First} : node'[s] = node[s]
      /\ SameWho(node'[First], n) /\ SameEnd(node'[First], n)
      /\ node'[First].members = n.members
      /\ node'[First].links = n.links /\ node'[First].owed = n.owed
      /\ node'[First].att = n.att /\ node'[First].elect = n.elect
  BY <1>1, JoinReadEffect
<1>3. PICK i \in IdsFor(n, j) :
         node'[First].calls = n.calls \cup {[kind |-> "admit", m |-> [id |-> i, srv |-> j]]}
  BY <1>1, JoinReadEffect
<1>. DEFINE c == [kind |-> "admit", m |-> [id |-> i, srv |-> j]]
<1>4. SameCast /\ \A s \in Servers : SameEnd(node'[s], node[s])
  BY <1>2 DEF SameCast, SameWho, SameEnd
<1>5. up' = up
  BY DEF JoinRead
<1>6. j \notin In
  BY DEF JoinRead, In
<1>7. \A s \in In : i < node[s].id
  <2>1. Sane(n) /\ n.role = "primary" /\ n \in Nodes
    BY DEF AllSane
  <2>2. \A m \in n.members : m.srv # j
    BY <1>6 DEF Calm, All, Self
  <2>3. i = Min({n.lowest} \cup Ids(n.members)) - 1 /\ i \in 1..FirstId
    BY <1>3, <2>1, <2>2, IdsForTyped
  <2>4. n.lowest \in 0..FirstId /\ n.members \in SUBSET Members
    BY <2>1 DEF Nodes
  <2>5. \A m \in n.members : i < m.id
    <3>. DEFINE lowest == n.lowest
                list == n.members
                low == Min({lowest} \cup Ids(list))
    <3>1. lowest \in 0..FirstId /\ list \in SUBSET Members /\ i = low - 1
      BY <2>3, <2>4
    <3>. HIDE DEF lowest, list
    <3>2. low \in 0..FirstId /\ \A m \in list : low <= m.id
      BY ONLY <3>1, MinTyped
    <3>. HIDE DEF low
    <3>3. \A m \in list : i < m.id
      BY ONLY <3>1, <3>2, ClusterAssumption DEF Members
    <3>. QED  BY <3>3 DEF list
  <2>6. ASSUME NEW s \in In PROVE i < node[s].id
    <3>1. Self(s) \in n.members
      BY DEF Calm, All
    <3>. QED  BY <2>5, <3>1 DEF Self
  <2>. QED  BY <2>6
<1>8. \A d \in n.calls : d.kind # "admit"
  <2>1. First \in up /\ "joins_at_once" \notin Faults
    BY DEF Mild, Calm
  <2>. QED  BY <2>1 DEF JoinRead
<1>9. c.kind = "admit" /\ c.m.srv = j /\ c.m.id = i
  OBVIOUS
<1>. HIDE DEF c
<1>10. /\ In' = In /\ All' = All /\ \A s \in Servers : Self(s)' = Self(s)
       /\ \A s \in In : node'[s].id = node[s].id
       /\ Distinct' /\ \A list, k : Covers(list, k) => Covers(list, k)'
  BY <1>4, CastStays DEF Calm
<1>11. \A l : Good(l) => Good(l)'
  BY <1>4, <1>5, ConnectionsStay
<1>12. OneJoiner'
  BY <1>3, <1>8 DEF OneJoiner, c
<1>13. ASSUME NEW d \in node'[First].calls PROVE Joiner(d)' \/ Attachee(d)'
  <2>1. CASE d = c
    BY <1>6, <1>7, <1>9, <1>10, <2>1 DEF Joiner
  <2>2. CASE d \in n.calls /\ Joiner(d)
    BY <1>8, <2>2 DEF Joiner
  <2>3. CASE d \in n.calls /\ Attachee(d)
    <3>1. d.m.srv \in Servers
      BY <2>3 DEF Attachee, In
    <3>. QED  BY <1>2, <1>10, <2>3, <3>1 DEF Attachee
  <2>. QED  BY <1>3, <1>13, <2>1, <2>2, <2>3 DEF Calm, c
<1>14. ASSUME NEW a, a = node'[First].att, a # None PROVE Attaching(a)'
  <2>1. a = n.att /\ Attaching(a)
    BY <1>2, <1>14 DEF Calm
  <2>2. a.m.srv \in Servers
    BY <1>14, <2>1 DEF Nodes, Members
  <2>3. node'[a.m.srv].primaryLink = node[a.m.srv].primaryLink
    BY <1>4, <2>2 DEF SameEnd
  <2>4. a.by \in node'[First].calls
    BY <1>3, <2>1 DEF Attaching
  <2>. QED  BY <1>5, <2>1, <2>3, <2>4 DEF Attaching, Live
<1>15. \A l \in node'[First].links : Good(l)'
  BY <1>2, <1>11 DEF Calm
<1>16. \A o \in node'[First].owed :
          o.link \in node'[First].links /\ Covers(o.list, o.link.id)'
  BY <1>2, <1>10 DEF Calm
<1>17. Quiet' /\ node'[First].members = All' /\ up' = Servers
  BY <1>2, <1>5, <1>10 DEF Calm, Quiet
<1>18. ASSUME NEW s \in In \ {First} PROVE Listed(s)' /\ Served(s)'
  <2>1. node'[s] = node[s] /\ Listed(s) /\ Served(s) /\ s \in Servers
    BY <1>2 DEF Calm, In
  <2>2. Listed(s)'
    BY <1>10, <2>1 DEF Listed
  <2>3. Hears(s) => Hears(s)'
    BY <1>2, <2>1 DEF Hears
  <2>4. n.calls \subseteq node'[First].calls /\ n.links = node'[First].links
    BY <1>2, <1>3
  <2>5. Served(s)'
    BY <2>1, <2>3, <2>4 DEF Served
  <2>. QED  BY <2>2, <2>5
<1>. QED  BY <1>10, <1>12, <1>13, <1>14, <1>15, <1>16, <1>17, <1>18 DEF Calm

\* Calm lasts when nobody's links, lists of threads or place change.
LEMMA CalmStill ==
    ASSUME AllSane(node), Leads(TheFirst), Calm, SameCast, up' = up, Quiet',
           \A s \in Servers : SameEnd(node'[s], node[s]),
           node'[First].members = node[First].members, node'[First].links = node[First].links,
           node'[First].att = node[First].att, node'[First].calls = node[First].calls,
           node'[First].owed \subseteq node[First].owed,
           \A s \in In \ {First} : Listed(s)'
    PROVE  Calm'
<1>. USE CalmFacts
<1>1. /\ In' = In /\ All' = All /\ \A s \in Servers : Self(s)' = Self(s)
      /\ \A s \in In : node'[s].id = node[s].id
      /\ Distinct' /\ \A list, k : Covers(list, k) => Covers(list, k)'
  BY CastStays DEF Calm
<1>2. \A l : Good(l) => Good(l)'
  BY ConnectionsStay
<1>3. OneJoiner'
  BY DEF OneJoiner, Calm
<1>4. ASSUME NEW d \in node'[First].calls PROVE Joiner(d)' \/ Attachee(d)'
  <2>1. CASE Joiner(d)
    BY <1>1, <2>1 DEF Joiner
  <2>2. CASE Attachee(d)
    <3>1. d.m.srv \in Servers
      BY <2>2 DEF Attachee, In
    <3>. QED  BY <1>1, <2>2, <3>1 DEF Attachee
  <2>. QED  BY <1>4, <2>1, <2>2 DEF Calm
<1>5. ASSUME NEW a, a = node'[First].att, a # None PROVE Attaching(a)'
  <2>1. a = node[First].att /\ Attaching(a)
    BY <1>5 DEF Calm
  <2>2. a.m.srv \in Servers
    BY <1>5, <2>1 DEF Nodes, Members
  <2>3. node'[a.m.srv].primaryLink = node[a.m.srv].primaryLink
    BY <2>2 DEF SameEnd
  <2>. QED  BY <2>1, <2>3 DEF Attaching, Live
<1>6. \A l \in node'[First].links : Good(l)'
  BY <1>2 DEF Calm
<1>7. \A o \in node'[First].owed :
          o.link \in node'[First].links /\ Covers(o.list, o.link.id)'
  BY <1>1 DEF Calm
<1>8. node'[First].members = All' /\ up' = Servers
  BY <1>1 DEF Calm
<1>9. ASSUME NEW s \in In \ {First} PROVE Served(s)'
  <2>1. Served(s) /\ node'[s].primaryLink = node[s].primaryLink
    BY DEF Calm, SameEnd
  <2>2. Hears(s) => Hears(s)'
    BY <2>1 DEF Hears
  <2>. QED  BY <2>1, <2>2 DEF Served
<1>. QED  BY <1>1, <1>3, <1>4, <1>5, <1>6, <1>7, <1>8, <1>9 DEF Calm

\* A backup that nothing happens to knows whom it knew.
LEMMA ListedStays ==
    ASSUME SameCast, NEW s \in Servers, Listed(s), node'[s].primaryId = node[s].primaryId,
           node'[s].members = node[s].members, SameEnd(node'[s], node[s])
    PROVE  Listed(s)'
<1>1. Self(s)' = Self(s) /\ All' = All /\ node'[s].id = node[s].id
  BY CastStays DEF SameCast
<1>2. ASSUME NEW list, list = node[s].members, NEW i, i = node[s].id, Covers(list, i)
      PROVE  Covers(node[s].members, node[s].id)'
  <2>1. Covers(list, i)'
    BY <1>2, CastStays
  <2>2. node'[s].members = list /\ node'[s].id = i
    BY <1>1, <1>2
  <2>. QED  BY <2>1, <2>2
<1>. QED  BY <1>1, <1>2 DEF Listed, SameEnd

\* A request does not disturb.
LEMMA CalmAccept ==
    ASSUME AllSane(node), Leads(TheFirst), Calm, NEW s \in Servers, Accept(s)
    PROVE  Calm'
<1>. USE CalmFacts
<1>1. s = First /\ up' = up
  BY DEF Accept
<1>2. /\ \A x \in Servers \ {First} : node'[x] = node[x]
      /\ SameWho(node'[First], node[First]) /\ SameLists(node'[First], node[First])
      /\ SameEnd(node'[First], node[First]) /\ node'[First].elect = node[First].elect
      /\ node'[First].links = node[First].links /\ node'[First].owed = node[First].owed
      /\ node'[First].att = node[First].att /\ node'[First].calls = node[First].calls
  BY <1>1, AcceptEffect
<1>3. SameCast /\ \A x \in Servers : SameEnd(node'[x], node[x])
  BY <1>2 DEF SameCast, SameWho, SameEnd
<1>4. Quiet'
  BY <1>2 DEF Calm, Quiet
<1>5. ASSUME NEW x \in In \ {First} PROVE Listed(x)'
  BY <1>2, <1>3, ListedStays DEF Calm
<1>. QED  BY <1>1, <1>2, <1>3, <1>4, <1>5, CalmStill DEF SameLists

\* A change finds every link working.
LEMMA CalmCommit ==
    ASSUME AllSane(node), Leads(TheFirst), Calm, NEW s \in Servers, NEW v, Commit(s, v)
    PROVE  Calm'
<1>. USE CalmFacts
<1>1. s = First /\ up' = up
  BY DEF Commit, Idle
<1>2. /\ \A x \in Servers \ {First} : node'[x] = node[x]
      /\ SameWho(node'[First], node[First])
      /\ SameEnd(node'[First], node[First]) /\ node'[First].elect = node[First].elect
      /\ node'[First].att = node[First].att /\ node'[First].calls = node[First].calls
      /\ node'[First].links = node[First].links \ Dead(First)
      /\ node'[First].members = Spared(node[First].members, Dead(First))
      /\ Dead(First) = {} => node'[First].owed = node[First].owed
  BY <1>1, CommitEffect
<1>3. Dead(First) = {}
  BY DEF Calm, Good, Dead
<1>4. /\ node'[First].owed = node[First].owed /\ node'[First].links = node[First].links
      /\ node'[First].members = node[First].members
  BY <1>2, <1>3 DEF Spared, Ids
<1>5. SameCast /\ \A x \in Servers : SameEnd(node'[x], node[x])
  BY <1>2 DEF SameCast, SameWho, SameEnd
<1>6. Quiet'
  BY <1>2 DEF Calm, Quiet
<1>7. ASSUME NEW x \in In \ {First} PROVE Listed(x)'
  BY <1>2, <1>5, ListedStays DEF Calm
<1>. QED  BY <1>1, <1>2, <1>4, <1>5, <1>6, <1>7, CalmStill

\* A list sent names everyone who outranks the receiver: who joined since has a lower id.
LEMMA CalmTellMembers ==
    ASSUME AllSane(node), Leads(TheFirst), Calm, NEW p \in Servers, NEW o \in node[p].owed,
           TellMembers(p, o)
    PROVE  Calm'
<1>. USE CalmFacts
<1>1. p = First /\ up' = up
  BY DEF TellMembers, Idle
<1>. DEFINE q == o.link.srv
<1>2. o.link \in node[First].links /\ Covers(o.list, o.link.id) /\ Good(o.link)
  BY <1>1 DEF Calm
<1>3. q \in In /\ q # First /\ o.link.id = node[q].id /\ q \in Servers
  <2>1. Under(o.link, TheFirst)
    BY <1>2 DEF Leader, AllUnder
  <2>. QED  BY <1>2, <2>1, FirstIsMember DEF Good, Under
<1>4. Live(First, o.link)
  BY <1>2 DEF Good
<1>5. PICK n \in Nodes :
         /\ SameWho(n, node[First]) /\ SameLists(n, node[First]) /\ SameEnd(n, node[First])
         /\ n.links = node[First].links /\ n.owed = node[First].owed \ {o}
         /\ n.att = node[First].att /\ n.calls = node[First].calls
         /\ n.elect = node[First].elect
         /\ Live(First, o.link) /\ q # First =>
               /\ \A s \in Servers \ {First, q} : node'[s] = node[s]
               /\ node'[First] = n
               /\ SameWho(node'[q], node[q]) /\ SameWork(node'[q], node[q])
               /\ SameEnd(node'[q], node[q]) /\ node'[q].elect = node[q].elect
               /\ node'[q].members = Upsert(o.list, Self(q))
  <2>1. o \in node[First].owed /\ TellMembers(First, o)
    BY <1>1
  <2>. QED  BY <2>1, TellMembersEffect
<1>6. /\ \A s \in Servers \ {First, q} : node'[s] = node[s]
      /\ node'[First] = n
      /\ SameWho(node'[q], node[q])
      /\ SameEnd(node'[q], node[q]) /\ node'[q].elect = node[q].elect
      /\ node'[q].members = Upsert(o.list, Self(q))
  BY <1>3, <1>4, <1>5
<1>7. SameCast /\ \A x \in Servers : SameEnd(node'[x], node[x])
  BY <1>3, <1>5, <1>6 DEF SameCast, SameWho, SameEnd
<1>8. Quiet'
  BY <1>3, <1>5, <1>6 DEF Calm, Quiet
<1>9. Listed(q)'
  <2>. DEFINE list == Upsert(o.list, Self(q))
  <2>1. Self(q)' = Self(q) /\ All' = All /\ node'[q].id = node[q].id
    BY <1>3, <1>7, CastStays DEF SameCast
  <2>2. Self(q) \in All
    BY <1>3 DEF All
  <2>3. Self(q) \in list /\ list \subseteq All
    BY <1>2, <2>2 DEF Covers, Upsert
  <2>4. ASSUME NEW s \in In, node[s].id > node[q].id PROVE Self(s) \in list
    <3>1. Self(s) \in o.list /\ Self(s).id # Self(q).id
      <4>1. node[s].id \in Nat /\ node[q].id \in Nat
        BY <1>3 DEF AllSane, Nodes
      <4>2. Self(s) \in o.list
        BY <1>2, <1>3, <2>4 DEF Covers
      <4>. QED  BY <2>4, <4>1, <4>2 DEF Self
    <3>. QED  BY <3>1 DEF Upsert
  <2>5. Covers(list, node[q].id)
    BY <2>3, <2>4 DEF Covers
  <2>6. ASSUME NEW k, k = node[q].id, NEW told, told = list PROVE Covers(told, k)'
    BY <1>7, <2>5, <2>6, CastStays
  <2>7. Covers(node[q].members, node[q].id)'
    BY <1>6, <2>1, <2>6
  <2>. QED  BY <1>3, <1>6, <2>1, <2>3, <2>7 DEF Listed, SameWho, Calm
<1>10. ASSUME NEW x \in In \ {First} PROVE Listed(x)'
  <2>1. CASE x = q
    BY <1>9, <2>1
  <2>2. CASE x # q
    BY <1>6, <1>7, <2>2, ListedStays DEF Calm
  <2>. QED  BY <2>1, <2>2
<1>. QED  BY <1>1, <1>5, <1>6, <1>7, <1>8, <1>10, CalmStill DEF SameLists

\* An attach gives a new backup the whole list.
LEMMA CalmCallAttach ==
    ASSUME AllSane(node), Leads(TheFirst), Calm, NEW p \in Servers, NEW t \in node[p].calls,
           CallAttach(p, t)
    PROVE  Calm'
<1>. USE CalmFacts
<1>1. p = First
  BY DEF Idle
<1>. DEFINE q == t.m.srv
            no == NewLinkTo(q)
            link == [srv |-> First, no |-> no]
<1>2. Attachee(t) /\ t \in Calls /\ t.m \in Members /\ BeginAttach(First, t.m, t)
  <2>1. t.kind # "admit"
    BY DEF CallAttach
  <2>2. Attachee(t)
    BY <1>1, <2>1 DEF Calm, Joiner
  <2>. QED  BY <1>1, <2>2, CallAttachEffect
<1>3. q \in In /\ q # First /\ q \in Servers /\ t.m = Self(q) /\ t.kind = "join"
  BY <1>2 DEF Attachee
<1>4. Reachable(q)
  BY <1>3 DEF Reachable, Calm, In
<1>5. node[First].att = None /\ up' = up
  BY <1>2 DEF BeginAttach
<1>6. /\ \A s \in Servers \ {First, q} : node'[s] = node[s]
      /\ SameWho(node'[First], node[First]) /\ SameLists(node'[First], node[First])
      /\ SameEnd(node'[First], node[First])
      /\ node'[First].links = node[First].links /\ node'[First].owed = node[First].owed
      /\ node'[First].calls = node[First].calls
      /\ node'[First].elect = node[First].elect
      /\ node'[First].att = [m |-> t.m, no |-> no, by |-> t]
      /\ no \in Nat
      /\ node'[q] = HandleReplicaAttach(node[q], TheFirst, node[First].members, Self(q), link)
  <2>1. t \in Calls \cup {None} /\ node[First].role # "joining" /\ Self(First) = TheFirst
    BY <1>2
  <2>. QED  BY <1>2, <1>3, <1>4, <2>1, BeginAttachEffect
<1>. HIDE DEF no
<1>7. /\ node'[q].id = node[q].id /\ node'[q].role = "backup" /\ node'[q].primaryId = FirstId
      /\ node'[q].members = Upsert(node[First].members, Self(q))
      /\ node'[q].primaryLink = link /\ node'[q].elect = node[q].elect
  <2>1. /\ node[q] \in Nodes /\ Self(q) \in Members /\ link \in [srv : Servers, no : Nat]
        /\ node[First].members \in SUBSET Members
    BY <1>3, <1>6 DEF Nodes
  <2>. HIDE DEF link, q
  <2>. QED  BY <1>6, <2>1, FirstIsMember, HandleReplicaAttachEffect
<1>8. SameCast
  <2>1. node[q].role # "joining"
    BY <1>3 DEF In
  <2>. QED  BY <1>3, <1>6, <1>7, <2>1 DEF SameCast, SameWho
<1>9. /\ In' = In /\ All' = All /\ \A s \in Servers : Self(s)' = Self(s)
      /\ \A s \in In : node'[s].id = node[s].id
      /\ Distinct' /\ \A list, k : Covers(list, k) => Covers(list, k)'
  BY <1>8, CastStays DEF Calm
<1>10. \A s \in Servers \ {q} : SameEnd(node'[s], node[s])
  BY <1>6 DEF SameEnd
<1>11. ASSUME NEW l \in node'[First].links PROVE Good(l)'
  <2>1. Good(l) /\ l.srv # q
    BY <1>2, <1>6 DEF Calm, Attachee
  <2>2. l.srv \in Servers /\ l.srv \in In
    BY <2>1 DEF Good
  <2>3. node'[l.srv].primaryLink = node[l.srv].primaryLink
    BY <1>10, <2>1, <2>2 DEF SameEnd
  <2>. QED  BY <1>5, <1>9, <2>1, <2>2, <2>3 DEF Good, Live
<1>12. OneJoiner'
  BY <1>6 DEF OneJoiner, Calm
<1>13. ASSUME NEW d \in node'[First].calls PROVE Joiner(d)' \/ Attachee(d)'
  <2>1. CASE Joiner(d)
    BY <1>9, <2>1 DEF Joiner
  <2>2. CASE Attachee(d)
    <3>1. d.m.srv \in Servers
      BY <2>2 DEF Attachee
    <3>. QED  BY <1>6, <1>9, <2>2, <3>1 DEF Attachee
  <2>. QED  BY <1>6, <1>13, <2>1, <2>2 DEF Calm
<1>14. ASSUME NEW a, a = node'[First].att PROVE Attaching(a)'
  <2>1. a.m = t.m /\ a.no = no /\ a.by = t
    BY <1>6, <1>14
  <2>2. node'[a.m.srv].primaryLink = [srv |-> First, no |-> a.no] /\ a.m.srv \in up'
    BY <1>3, <1>5, <1>7, <2>1 DEF Calm
  <2>3. t \in node'[First].calls
    BY <1>1, <1>6
  <2>. HIDE DEF q, no, link
  <2>. QED  BY <1>3, <2>1, <2>2, <2>3 DEF Attaching, Live
<1>15. \A o \in node'[First].owed :
          o.link \in node'[First].links /\ Covers(o.list, o.link.id)'
  BY <1>6, <1>9 DEF Calm
<1>16. Quiet' /\ node'[First].members = All' /\ up' = Servers
  BY <1>3, <1>5, <1>6, <1>7, <1>9 DEF Calm, Quiet, SameLists
<1>17. Listed(q)' /\ Served(q)'
  <2>1. node[First].members = All /\ Self(q) \in All
    BY <1>3 DEF Calm, All
  <2>2. node'[q].members = All
    <3>1. Upsert(All, Self(q)) = All
      <4>1. ASSUME NEW x \in All PROVE x \in Upsert(All, Self(q))
        <5>1. PICK s \in In : x = Self(s)
          BY DEF All
        <5>2. CASE node[s].id = node[q].id
          BY <1>3, <5>1, <5>2 DEF Calm, Distinct, Upsert
        <5>3. CASE node[s].id # node[q].id
          BY <5>1, <5>3 DEF Self, Upsert
        <5>. QED  BY <5>2, <5>3
      <4>. QED  BY <2>1, <4>1 DEF Upsert
    <3>. QED  BY <1>7, <2>1, <3>1
  <2>3. Covers(node[q].members, node[q].id)'
    BY <1>9, <2>2 DEF Covers, All
  <2>4. Listed(q)'
    BY <1>3, <1>7, <1>9, <2>1, <2>2, <2>3 DEF Listed
  <2>5. Hears(q)'
    <3>1. node'[q].primaryLink.srv = First /\ node'[q].primaryLink.no = no
      BY <1>7
    <3>2. node'[First].att # None /\ node'[First].att.m.srv = q /\ node'[First].att.no = no
      <4>1. [m |-> t.m, no |-> no, by |-> t] \in [m : Members, no : Nat, by : Calls \cup {None}]
        BY <1>2, <1>6
      <4>2. [m |-> t.m, no |-> no, by |-> t] # None
        BY <4>1, NoneAssumption
      <4>. QED  BY <1>6, <4>2
    <3>. QED  BY <3>1, <3>2 DEF Hears
  <2>6. t \in node'[First].calls
    BY <1>1, <1>6
  <2>. QED  BY <1>3, <2>4, <2>5, <2>6 DEF Served
<1>18. ASSUME NEW s \in In \ {First}, s # q PROVE Listed(s)' /\ Served(s)'
  <2>1. node'[s] = node[s] /\ Listed(s) /\ Served(s) /\ s \in Servers
    BY <1>6, <1>18 DEF Calm
  <2>2. Listed(s)'
    BY <1>8, <2>1, ListedStays DEF SameEnd
  <2>3. Hears(s) => Hears(s)'
    BY <1>5, <1>6, <2>1 DEF Hears
  <2>4. Served(s)'
    BY <1>6, <2>1, <2>3 DEF Served
  <2>. QED  BY <2>2, <2>4
<1>. QED  BY <1>9, <1>11, <1>12, <1>13, <1>14, <1>15, <1>16, <1>17, <1>18 DEF Calm

\* After it the thread's work is done, and the link is there.
LEMMA CalmEndAttach ==
    ASSUME AllSane(node), Leads(TheFirst), Calm, NEW p \in Servers, EndAttach(p)
    PROVE  Calm'
<1>. USE CalmFacts
<1>1. p = First /\ up' = up /\ node[First].att # None
  <2>1. p = First
    BY DEF Idle, EndAttach
  <2>. QED  BY <2>1 DEF EndAttach
<1>. DEFINE a == node[First].att
            q == a.m.srv
            by == a.by
            l == [id |-> a.m.id, srv |-> q, no |-> a.no]
<1>2. Attaching(a)
  BY <1>1 DEF Calm
<1>3. /\ by \in node[First].calls /\ by.kind = "join" /\ a.m = by.m
      /\ node[q].primaryLink = [srv |-> First, no |-> a.no]
      /\ Live(First, [srv |-> a.m.srv, no |-> a.no])
  BY <1>2 DEF Attaching, Live
<1>4. Attachee(by) /\ by \in Calls /\ by # None
  <2>1. Attachee(by)
    BY <1>3 DEF Calm, Joiner
  <2>2. by \in Calls
    BY <1>3 DEF Nodes
  <2>. QED  BY <2>1, <2>2, NoneAssumption
<1>5. q \in In /\ q # First /\ q \in Servers /\ a.m = Self(q)
      /\ \A x \in node[First].links : x.srv # q
  BY <1>3, <1>4 DEF Attachee
<1>6. a.m \in Members /\ a.no \in Nat
  BY <1>1 DEF Nodes
<1>7. /\ \A s \in Servers \ {First} : node'[s] = node[s]
      /\ node'[First] = AttachSucceeded(node[First], a.m, a.no, by)
  BY <1>1, <1>3, EndAttachEffect
<1>8. /\ SameWho(node'[First], node[First]) /\ SameLists(node'[First], node[First])
      /\ SameEnd(node'[First], node[First])
      /\ node'[First].att = None /\ node'[First].calls = node[First].calls \ {by}
      /\ node'[First].links = Upsert(node[First].links, l)
      /\ node'[First].elect = node[First].elect
      /\ node'[First].owed = node[First].owed \cup Notes(node'[First].links, node[First].members)
  BY <1>4, <1>6, <1>7, AttachSucceededEffect
<1>9. SameCast /\ \A s \in Servers : SameEnd(node'[s], node[s])
  BY <1>7, <1>8 DEF SameCast, SameWho, SameEnd
<1>10. /\ In' = In /\ All' = All /\ \A s \in Servers : Self(s)' = Self(s)
       /\ \A s \in In : node'[s].id = node[s].id
       /\ Distinct' /\ \A list, k : Covers(list, k) => Covers(list, k)'
  BY <1>9, CastStays DEF Calm
<1>11. l.id = node[q].id /\ l.srv = q /\ l.no = a.no
  BY <1>5 DEF Self
<1>12. node'[First].links = node[First].links \cup {l}
  <2>1. ASSUME NEW x \in node[First].links PROVE x.id # l.id
    <3>1. Good(x)
      BY DEF Calm
    <3>. QED  BY <1>5, <1>11, <3>1 DEF Good, Calm, Distinct
  <2>. QED  BY <1>8, <2>1 DEF Upsert
<1>13. Good(l)
  BY <1>3, <1>5, <1>11 DEF Good, Live
<1>. HIDE DEF l
<1>14. \A x \in node'[First].links : Good(x)'
  BY <1>1, <1>9, <1>12, <1>13, ConnectionsStay DEF Calm
<1>15. OneJoiner'
  BY <1>8 DEF OneJoiner, Calm
<1>16. ASSUME NEW d \in node'[First].calls PROVE Joiner(d)' \/ Attachee(d)'
  <2>1. CASE Joiner(d)
    BY <1>10, <2>1 DEF Joiner
  <2>2. CASE Attachee(d)
    <3>1. d.m.srv \in Servers
      BY <2>2 DEF Attachee
    <3>2. d.m.srv # q
      <4>1. SUFFICES ASSUME d.m.srv = q PROVE d = by
        BY <1>8, <1>16
      <4>2. d.m = by.m /\ d.kind = by.kind
        BY <1>3, <1>5, <2>2, <4>1 DEF Attachee
      <4>3. d \in Calls
        BY <1>8 DEF Nodes
      <4>. QED  BY <1>4, <4>2, <4>3 DEF Calls
    <3>. QED  BY <1>10, <1>11, <1>12, <2>2, <3>1, <3>2 DEF Attachee
  <2>. QED  BY <1>8, <1>16, <2>1, <2>2 DEF Calm
<1>17. \A o \in node'[First].owed :
          o.link \in node'[First].links /\ Covers(o.list, o.link.id)'
  <2>1. SUFFICES ASSUME NEW o \in node'[First].owed
                 PROVE  o.link \in node'[First].links /\ Covers(o.list, o.link.id)'
    OBVIOUS
  <2>2. CASE o \in node[First].owed
    BY <1>10, <1>12, <2>2 DEF Calm
  <2>3. CASE o \in Notes(node'[First].links, node[First].members)
    <3>1. o.link \in node'[First].links /\ o.list = All
      BY <2>3 DEF Notes, Calm
    <3>2. Covers(All, o.link.id)
      BY DEF Covers, All
    <3>. QED  BY <1>10, <3>1, <3>2 DEF Covers
  <2>. QED  BY <1>8, <2>1, <2>2, <2>3
<1>18. Quiet' /\ node'[First].members = All' /\ up' = Servers
  <2>1. node[First].members = All /\ up = Servers /\ Quiet
    BY DEF Calm
  <2>. HIDE DEF a, q, by
  <2>2. Quiet'
    BY <1>7, <1>8, <2>1 DEF Quiet
  <2>3. node'[First].members = All'
    BY <1>8, <1>10, <2>1 DEF SameLists
  <2>. QED  BY <1>1, <2>1, <2>2, <2>3
<1>19. ASSUME NEW s \in In \ {First} PROVE Listed(s)'
  BY <1>7, <1>9, <1>19, ListedStays DEF Calm
<1>20. ASSUME NEW s \in In \ {First} PROVE Served(s)'
  <2>1. node'[s].primaryLink = node[s].primaryLink /\ Served(s) /\ s \in Servers
    BY <1>9 DEF Calm, SameEnd
  <2>2. CASE s = q
    <3>1. l \in node'[First].links /\ l.srv = s /\ l.no = a.no
      BY <1>11, <1>12, <2>2
    <3>2. node'[s].primaryLink.srv = First /\ node'[s].primaryLink.no = l.no
      <4>1. node'[s].primaryLink = [srv |-> First, no |-> a.no]
        BY <1>3, <2>1, <2>2
      <4>. QED  BY ONLY <3>1, <4>1
    <3>. HIDE DEF a, q, by
    <3>3. Hears(s)'
      BY <3>1, <3>2 DEF Hears
    <3>. QED  BY <3>1, <3>3 DEF Served
  <2>3. CASE s # q
    <3>1. Hears(s) => Hears(s)'
      BY <1>12, <2>1, <2>3 DEF Hears
    <3>2. \A c \in node[First].calls : c.m.srv = s => c # by
      BY <1>3, <2>3
    <3>. QED  BY <1>8, <1>12, <2>1, <3>1, <3>2 DEF Served
  <2>. QED  BY <2>2, <2>3
<1>. QED  BY <1>8, <1>10, <1>14, <1>15, <1>16, <1>17, <1>18, <1>19, <1>20 DEF Calm

\* With add_member the list again names everyone who has joined.
LEMMA CalmJoinAdmit ==
    ASSUME AllSane(node), Leads(TheFirst), Calm, NEW p \in Servers, NEW t \in node[p].calls,
           JoinAdmit(p, t)
    PROVE  Calm'
<1>. USE CalmFacts
<1>1. p = First /\ up' = up
  BY DEF Idle, JoinAdmit
<1>. DEFINE n == node[First]
            j == t.m.srv
            new == Onward(t, "join")
<1>2. t \in n.calls /\ JoinAdmit(First, t) /\ Joiner(t)
  BY <1>1 DEF JoinAdmit, Calm, Attachee
<1>3. /\ t \in Calls /\ t.m \in Members /\ j \in Servers
      /\ SameWho(node'[First], n) /\ SameEnd(node'[First], n)
      /\ node'[First].members = Upsert(n.members, t.m)
      /\ node'[First].links = n.links /\ node'[First].owed = n.owed
      /\ node'[First].att = n.att /\ node'[First].elect = n.elect
      /\ node'[First].calls = (n.calls \ {t}) \cup {new}
      /\ Admits(t) =>
            /\ j # First
            /\ node'[j].id = t.m.id /\ node'[j].role = "backup" /\ node'[j].primaryId = n.id
            /\ node'[j].members = {Self(First), t.m} /\ node'[j].primaryLink = None
            /\ node'[j].elect = NotElecting
      /\ \A s \in Servers \ {First} : (s # j \/ ~Admits(t)) => node'[s] = node[s]
  <2>1. /\ t \in Calls /\ t.m \in Members /\ j \in Servers
        /\ SameWho(node'[p], node[p]) /\ SameEnd(node'[p], node[p])
        /\ node'[p].members = Upsert(node[p].members, t.m)
        /\ node'[p].links = node[p].links /\ node'[p].owed = node[p].owed
        /\ node'[p].att = node[p].att /\ node'[p].elect = node[p].elect
        /\ node'[p].calls = (node[p].calls \ {t}) \cup {new}
        /\ Admits(t) =>
              /\ j # p
              /\ node'[j].id = t.m.id /\ node'[j].role = "backup" /\ node'[j].primaryId = node[p].id
              /\ node'[j].members = {Self(p), t.m} /\ node'[j].primaryLink = None
              /\ node'[j].elect = NotElecting
        /\ \A s \in Servers \ {p} : (s # j \/ ~Admits(t)) => node'[s] = node[s]
    BY JoinAdmitEffect
  <2>. QED  BY <1>1, <2>1
<1>4. Admits(t) /\ j \notin In /\ \A s \in In : t.m.id < node[s].id
  BY <1>2, <1>3 DEF Admits, Calm, Joiner, In
<1>5. t.m.id \in 1..FirstId /\ t.m = [id |-> t.m.id, srv |-> j]
  BY <1>3 DEF Members
<1>6. new.kind = "join" /\ new.m = t.m
  BY <1>3 DEF Onward, Calls
<1>. HIDE DEF new
<1>7. /\ j # First
      /\ node'[j].id = t.m.id /\ node'[j].role = "backup" /\ node'[j].primaryId = FirstId
      /\ node'[j].members = {TheFirst, t.m} /\ node'[j].primaryLink = None
      /\ node'[j].elect = NotElecting
      /\ \A s \in Servers \ {First, j} : node'[s] = node[s]
  BY <1>3, <1>4
<1>8. \A s \in Servers \ {j} : /\ SameWho(node'[s], node[s]) /\ SameEnd(node'[s], node[s])
                               /\ node'[s].elect = node[s].elect
  BY <1>3, <1>7 DEF SameWho, SameEnd
<1>9. In' = In \cup {j} /\ In \subseteq Servers /\ First \in In'
  BY <1>3, <1>7, <1>8 DEF In, SameWho
<1>10. \A s \in In : s # j /\ Self(s)' = Self(s) /\ node'[s].id = node[s].id
  BY <1>4, <1>8, <1>9 DEF Self, SameWho
<1>11. Self(j)' = t.m
  BY <1>5, <1>7 DEF Self
<1>12. All' = All \cup {t.m}
  BY <1>9, <1>10, <1>11 DEF All
<1>13. \A s \in Servers : node[s].id \in Nat
  BY DEF AllSane, Nodes
<1>14. Upsert(All, t.m) = All \cup {t.m}
  <2>1. ASSUME NEW x \in All PROVE x.id # t.m.id
    <3>1. PICK s \in In : x = Self(s)
      BY DEF All
    <3>2. x.id = node[s].id /\ t.m.id < node[s].id /\ node[s].id \in Nat
      BY <1>4, <1>9, <1>13, <3>1 DEF Self
    <3>. QED  BY <1>5, <3>2
  <2>. QED  BY <2>1 DEF Upsert
<1>15. Distinct'
  <2>1. ASSUME NEW x \in In', NEW y \in In', node'[x].id = node'[y].id PROVE x = y
    <3>1. CASE x \in In /\ y \in In
      BY <1>10, <2>1, <3>1 DEF Calm, Distinct
    <3>2. CASE x \in In /\ y = j
      BY <1>4, <1>5, <1>7, <1>9, <1>10, <1>13, <2>1, <3>2
    <3>3. CASE x = j /\ y \in In
      BY <1>4, <1>5, <1>7, <1>9, <1>10, <1>13, <2>1, <3>3
    <3>. QED  BY <1>9, <3>1, <3>2, <3>3
  <2>. QED  BY <2>1 DEF Distinct
<1>16. ASSUME NEW list, NEW x \in In, NEW i, i = node[x].id, Covers(list, i)
       PROVE  Covers(list, i)'
  <2>1. list \subseteq All'
    BY <1>12, <1>16 DEF Covers
  <2>2. ASSUME NEW s \in In', node'[s].id > i PROVE Self(s)' \in list
    <3>1. s # j
      BY <1>4, <1>5, <1>7, <1>9, <1>13, <1>16, <2>2
    <3>. QED  BY <1>9, <1>10, <1>16, <2>2, <3>1 DEF Covers
  <2>. QED  BY <2>1, <2>2 DEF Covers
<1>17. ASSUME NEW l, Good(l) PROVE Good(l)'
  <2>1. l.srv \in In /\ l.srv \in Servers /\ l.srv # j
    BY <1>9, <1>10, <1>17 DEF Good
  <2>2. Live(First, l)'
    BY <1>1, <1>8, <1>17, <2>1 DEF Good, Live, SameEnd
  <2>. QED  BY <1>9, <1>10, <1>17, <2>1, <2>2 DEF Good
<1>18. \A d \in n.calls : d.kind = "admit" => d = t
  BY <1>2 DEF Calm, OneJoiner, Joiner
<1>19. \A d \in node'[First].calls : d = new \/ (d \in n.calls /\ d.kind # "admit")
  BY <1>3, <1>18
<1>20. OneJoiner'
  BY <1>6, <1>19 DEF OneJoiner
<1>21. ASSUME NEW d \in node'[First].calls PROVE Attachee(d)'
  <2>1. CASE d = new
    <3>1. \A l \in n.links : l.srv # j
      BY <1>4 DEF Calm, Good
    <3>. QED  BY <1>3, <1>6, <1>7, <1>9, <1>11, <2>1, <3>1 DEF Attachee
  <2>2. CASE d \in n.calls /\ d.kind # "admit"
    <3>1. Attachee(d)
      BY <2>2 DEF Calm, Joiner
    <3>. QED  BY <1>3, <1>9, <1>10, <3>1 DEF Attachee
  <2>. QED  BY <1>19, <1>21, <2>1, <2>2
<1>22. ASSUME NEW a, a = node'[First].att, a # None PROVE Attaching(a)'
  <2>1. a = n.att /\ Attaching(a)
    BY <1>3, <1>22 DEF Calm
  <2>2. a.by # t /\ a.by \in n.calls /\ Attachee(a.by)
    BY <1>2, <2>1 DEF Attaching, Joiner, Calm
  <2>3. a.m.srv \in In /\ a.m.srv \in Servers /\ a.m.srv # j
    BY <1>9, <1>10, <2>1, <2>2 DEF Attaching, Attachee
  <2>4. node'[a.m.srv].primaryLink = node[a.m.srv].primaryLink
    BY <1>8, <2>3 DEF SameEnd
  <2>5. a.by \in node'[First].calls
    BY <1>3, <2>2
  <2>. HIDE DEF j
  <2>. QED  BY <1>1, <2>1, <2>4, <2>5 DEF Attaching, Live
<1>23. ASSUME NEW o \in node'[First].owed
       PROVE  o.link \in node'[First].links /\ Covers(o.list, o.link.id)'
  <2>1. o.link \in n.links /\ Covers(o.list, o.link.id) /\ Good(o.link)
    BY <1>3, <1>23 DEF Calm
  <2>. DEFINE x == o.link.srv
              i == o.link.id
              list == o.list
  <2>2. x \in In /\ i = node[x].id /\ Covers(list, i)
    BY <2>1 DEF Good
  <2>. HIDE DEF x, i, list
  <2>3. Covers(list, i)'
    BY <1>16, <2>2
  <2>. QED  BY <1>3, <2>1, <2>3 DEF i, list
<1>24. ASSUME NEW s \in In \ {First} PROVE Listed(s)' /\ Served(s)'
  <2>1. node'[s] = node[s] /\ Listed(s) /\ Served(s) /\ s \in Servers
    BY <1>7, <1>9, <1>10 DEF Calm
  <2>2. ASSUME NEW list, list = node[s].members, NEW i, i = node[s].id,
               node[s].primaryLink # None
        PROVE  Covers(list, i)'
    <3>1. Covers(list, i)
      BY <2>1, <2>2 DEF Listed
    <3>. QED  BY <1>16, <2>2, <3>1
  <2>3. Listed(s)'
    <3>1. node[s].primaryLink # None => Covers(node[s].members, node[s].id)'
      BY <2>1, <2>2
    <3>. QED  BY <1>10, <1>12, <2>1, <3>1 DEF Listed
  <2>4. Hears(s) => Hears(s)'
    BY <1>3, <2>1 DEF Hears
  <2>5. \A c \in n.calls : c.kind = "join" => c \in node'[First].calls
    BY <1>2, <1>3 DEF Joiner
  <2>. HIDE DEF j
  <2>6. Served(s)'
    BY <1>3, <2>1, <2>4, <2>5 DEF Served
  <2>. QED  BY <2>3, <2>6
<1>25. Listed(j)' /\ Served(j)'
  <2>1. TheFirst \in All'
    BY <1>12 DEF All
  <2>2. Listed(j)'
    BY <1>7, <1>11, <1>12, <2>1 DEF Listed
  <2>3. new \in node'[First].calls
    BY <1>3
  <2>. QED  BY <1>6, <1>7, <2>2, <2>3 DEF Served
<1>26. Quiet'
  BY <1>3, <1>7, <1>8 DEF Calm, Quiet, NotElecting
<1>27. node'[First].members = All' /\ up' = Servers
  BY <1>1, <1>3, <1>12, <1>14 DEF Calm
<1>28. \A s \in In' \ {First} : Listed(s)' /\ Served(s)'
  BY <1>9, <1>24, <1>25
<1>29. \A l \in node'[First].links : Good(l)'
  BY <1>3, <1>17 DEF Calm
<1>. QED  BY <1>15, <1>20, <1>21, <1>22, <1>23, <1>26, <1>27, <1>28, <1>29 DEF Calm

\* No link is found dead before a crash.
LEMMA CalmDetectDeadLink ==
    ASSUME Mild, Bounded, AllSane(node), Leads(TheFirst), Calm,
           NEW p \in Servers, NEW l \in node[p].links
    PROVE  ~DetectDeadLink(p, l)
<1>1. p = First
  BY CalmFacts DEF Idle
<1>2. Live(First, l)
  BY <1>1 DEF Calm, Good
<1>. QED  BY <1>1, <1>2, NoDoubt DEF DetectDeadLink

\* No backup loses its link before a crash.
LEMMA CalmLinkLost ==
    ASSUME Mild, Bounded, AllSane(node), Leads(TheFirst), Calm, NEW b \in Servers
    PROVE  ~LinkLost(b)
<1>1. SUFFICES ASSUME LinkLost(b) PROVE FALSE
  OBVIOUS
<1>2. b \in In \ {First} /\ node[b].primaryLink # None
  <2>1. node[b].primaryLink # None
    BY <1>1 DEF LinkLost
  <2>2. b # First
    BY <2>1, CalmFacts DEF Leader
  <2>3. b \in In
    BY <2>1, CalmFacts DEF Fresh
  <2>. QED  BY <2>1, <2>2, <2>3
<1>3. Hears(b)
  BY <1>2 DEF Calm, Served
<1>4. Attached(b)
  <2>1. First \in up /\ node[First].role = "primary"
    BY CalmFacts DEF Calm
  <2>. QED  BY <1>3, <2>1 DEF Hears, Attached
<1>. QED  BY <1>1, <1>4, NoDoubt DEF LinkLost

\* No backup waits in vain: it has a link, or its join is not over.
LEMMA CalmSuspect ==
    ASSUME Mild, Bounded, AllSane(node), Leads(TheFirst), Calm, NEW b \in Servers
    PROVE  ~Suspect(b)
<1>1. SUFFICES ASSUME Suspect(b) PROVE FALSE
  OBVIOUS
<1>2. b \in In \ {First}
  <2>1. node[b].role = "backup"
    BY <1>1 DEF Suspect
  <2>. QED  BY <2>1, CalmFacts DEF In
<1>3. First \in up /\ First \in Servers
  BY CalmFacts DEF Calm
<1>4. node[b].primaryLink # None \/ Expected(b)
  <2>1. CASE \E c \in node[First].calls : c.kind = "join" /\ c.m.srv = b
    BY <1>3, <2>1 DEF Expected
  <2>2. CASE \E l \in node[First].links : l.srv = b
    <3>1. PICK l \in node[First].links : l.srv = b
      BY <2>2
    <3>2. node[b].primaryLink = [srv |-> First, no |-> l.no]
      BY <3>1 DEF Calm, Good, Live
    <3>3. l.no \in Nat
      BY <3>1, CalmFacts DEF Nodes, Links
    <3>. QED  BY <1>3, <3>2, <3>3, NoneAssumption
  <2>. QED  BY <1>2, <2>1, <2>2 DEF Calm, Served
<1>. QED  BY <1>1, <1>4, NoDoubt DEF Suspect

\* So no election runs.
LEMMA CalmNoElection ==
    ASSUME Calm, NEW s \in Servers
    PROVE  ~ElectionStep(s)
<1>1. node[s].elect.phase = "none"
  BY DEF Calm, Quiet
<1>2. ~ElectStart(s) /\ ~Announced(s) /\ ~WaitTimeout(s) /\ ~BecomePrimary(s)
  BY <1>1 DEF ElectStart, Announced, WaitTimeout, BecomePrimary
<1>3. ASSUME NEW m \in node[s].elect.todo
      PROVE  /\ \A answered \in BOOLEAN : ~Ask(s, m, answered)
             /\ ~Announce(s, m) /\ ~ElectAttach(s, m) /\ ~ElectBroadcast(s, m)
  BY <1>1 DEF Ask, Announce, ElectAttach, ElectBroadcast
<1>. QED  BY <1>2, <1>3 DEF ElectionStep

\* The threads of the first server do not disturb.
LEMMA CalmPrimaryStep ==
    ASSUME Mild, Bounded, AllSane(node), Leads(TheFirst), Calm, NEW p \in Servers,
           PrimaryStep(p)
    PROVE  Calm'
<1>1. ASSUME NEW t \in node[p].calls, JoinAdmit(p, t) PROVE Calm'
  BY <1>1, CalmJoinAdmit
<1>2. ASSUME NEW t \in node[p].calls, CallAttach(p, t) PROVE Calm'
  BY <1>2, CalmCallAttach
<1>3. ASSUME NEW t \in node[p].calls PROVE ~Reassure(p, t)
  <2>1. p = First
    BY CalmFacts DEF Idle
  <2>2. t.kind # "announce"
    BY <2>1 DEF Calm, Joiner, Attachee
  <2>. QED  BY <2>2 DEF Reassure
<1>4. ASSUME EndAttach(p) PROVE Calm'
  BY <1>4, CalmEndAttach
<1>5. ASSUME NEW o \in node[p].owed, TellMembers(p, o) PROVE Calm'
  BY <1>5, CalmTellMembers
<1>6. ASSUME NEW l \in node[p].links PROVE ~DetectDeadLink(p, l)
  BY <1>6, CalmDetectDeadLink
<1>. QED  BY <1>1, <1>2, <1>3, <1>4, <1>5, <1>6 DEF PrimaryStep

\* Nothing disturbs before a crash.
LEMMA CalmNext ==
    ASSUME Mild, Bounded, AllSane(node), Leads(TheFirst), Calm, Next,
           spent.crashes = 0, spent'.crashes = 0
    PROVE  Calm'
<1>1. PICK s \in Servers :
        \/ \E j \in Servers : JoinRead(s, j)
        \/ PrimaryStep(s) \/ BackupStep(s) \/ ElectionStep(s)
        \/ Accept(s) \/ \E v \in Changes : Commit(s, v)
        \/ Crash(s) \/ Start(s)
  BY DEF Next
<1>2. ASSUME NEW j \in Servers, JoinRead(s, j) PROVE Calm'
  BY <1>2, CalmJoinRead
<1>3. ASSUME PrimaryStep(s) PROVE Calm'
  BY <1>3, CalmPrimaryStep
<1>4. ~BackupStep(s)
  BY CalmLinkLost, CalmSuspect DEF BackupStep
<1>5. ~ElectionStep(s)
  BY CalmNoElection
<1>6. ASSUME Accept(s) PROVE Calm'
  BY <1>6, CalmAccept
<1>7. ASSUME NEW v \in Changes, Commit(s, v) PROVE Calm'
  BY <1>7, CalmCommit
<1>8. ~Crash(s)
  <2>1. spent \in [crashes : 0..MaxCrashes, starts : 0..MaxStarts, doubts : 0..MaxDoubts]
    BY DEF Bounded
  <2>2. Crash(s) => spent'.crashes = 1
    BY <2>1 DEF Crash
  <2>. QED  BY <2>2
<1>9. ~Start(s)
  BY DEF Start, Calm
<1>. QED  BY <1>1, <1>2, <1>3, <1>4, <1>5, <1>6, <1>7, <1>8, <1>9

\* The cluster starts calm.
LEMMA CalmAtStart == Init => Calm
<1>1. SUFFICES ASSUME Init PROVE Calm
  OBVIOUS
<1>2. First \in Servers /\ FirstId \in Nat \ {0}
  BY ClusterAssumption
<1>3. node[First] = Founder /\ \A s \in Servers \ {First} : node[s] = Fresh
  BY <1>1, <1>2 DEF Init
<1>4. /\ node[First].id = FirstId /\ node[First].role = "primary"
      /\ node[First].members = {TheFirst}
      /\ node[First].calls = {} /\ node[First].links = {} /\ node[First].owed = {}
      /\ node[First].att = None /\ node[First].elect.phase = "none"
  BY <1>3 DEF Founder, Fresh, NotElecting, TheFirst
<1>5. \A s \in Servers \ {First} : node[s].role = "joining" /\ node[s].elect.phase = "none"
  BY <1>3 DEF Fresh, NotElecting
<1>6. In = {First}
  BY <1>2, <1>4, <1>5 DEF In
<1>7. All = {TheFirst}
  BY <1>4, <1>6 DEF All, Self, TheFirst
<1>8. Distinct /\ OneJoiner
  BY <1>4, <1>6 DEF Distinct, OneJoiner
<1>9. Quiet /\ up = Servers
  BY <1>1, <1>4, <1>5 DEF Quiet, Init
<1>. QED  BY <1>4, <1>6, <1>7, <1>8, <1>9 DEF Calm

-----------------------------------------------------------------------------
(* After the crash of the first server.                                     *)

\* The members that outrank a server.
Above(s) == {Self(t) : t \in {u \in In : node[u].id > node[s].id}}

\* An election that asks all of these members, or has been answered.
Waits(e, higher) ==
    /\ e.phase \in {"none", "start", "ask"}
    /\ e.phase = "ask" => e.alive \/ higher \subseteq e.todo

\* A list that names the first server and else only servers that have joined.
Names(list) == \A m \in list : m.id = FirstId \/ (m.srv \in In /\ m = Self(m.srv))

\* A backup of the first server, after its crash: it has every acknowledged change, and knows
\* all that outrank it.
Orphan(s) ==
    /\ s \in up /\ node[s].role = "backup" /\ Idle(node[s])
    /\ 0 < node[s].id /\ node[s].id < FirstId /\ node[s].primaryId = FirstId
    /\ acked \subseteq has[s]
    /\ Self(s) \in node[s].members /\ Names(node[s].members)
    /\ Above(s) \subseteq node[s].members
    /\ Waits(node[s].elect, Above(s))

\* The cluster without the first server: only its backups are left.
Orphaned == Distinct /\ \A s \in In : Orphan(s)

\* What such backups are.
LEMMA OrphanFacts ==
    ASSUME AllSane(node), Orphaned
    PROVE  /\ \A s \in Servers : Idle(node[s]) /\ node[s].role # "primary" /\ node[s] \in Nodes
           /\ \A s \in Servers \ In : node[s] = Fresh
           /\ \A s \in In : /\ s \in Servers /\ s \in up /\ Orphan(s)
                            /\ Self(s) \in Members /\ node[s].id \in Nat
<1>1. \A s \in Servers \ In : node[s] = Fresh
  BY DEF AllSane, Sane, In
<1>2. Idle(Fresh) /\ Fresh.role # "primary"
  BY DEF Fresh, Idle
<1>3. \A s \in Servers : node[s] \in Nodes /\ node[s].id \in Nat
  BY DEF AllSane, Nodes
<1>4. \A s \in In : s \in Servers /\ s \in up /\ Orphan(s) /\ Self(s) \in Members
  BY SelfTyped DEF In, Orphaned, Orphan
<1>5. \A s \in In : Idle(node[s]) /\ node[s].role # "primary"
  BY <1>4 DEF Orphan
<1>. QED  BY <1>1, <1>2, <1>3, <1>4, <1>5

\* They stay such while only their elections go on.
LEMMA OrphansStay ==
    ASSUME AllSane(node), Orphaned, up \subseteq up', has' = has, acked' = acked,
           \A s \in Servers : /\ SameWho(node'[s], node[s]) /\ SameLists(node'[s], node[s])
                              /\ SameWork(node'[s], node[s]),
           \A s \in In : Waits(node'[s].elect, Above(s))
    PROVE  Orphaned'
<1>1. SameCast
  BY DEF SameCast, SameWho
<1>2. /\ In' = In /\ \A s \in Servers : Self(s)' = Self(s)
      /\ \A s \in In : node'[s].id = node[s].id
      /\ Distinct'
  BY <1>1, CastStays DEF Orphaned
<1>3. In \subseteq Servers
  BY DEF In
<1>4. ASSUME NEW s \in In PROVE Orphan(s)'
  <2>1. s \in Servers /\ Orphan(s)
    BY <1>3, <1>4 DEF Orphaned
  <2>2. Above(s)' = Above(s)
    BY <1>2, <1>3, <1>4 DEF Above
  <2>3. node'[s].members = node[s].members
    BY <2>1 DEF SameLists
  <2>4. Names(node[s].members)'
    BY <1>2, <1>3, <2>1, <2>3 DEF Orphan, Names
  <2>5. Idle(node'[s])
    BY <2>1 DEF Orphan, Idle, SameWork
  <2>6. Waits(node'[s].elect, Above(s)')
    BY <1>4, <2>2
  <2>7. s \in up' /\ acked' \subseteq has'[s]
    BY <2>1 DEF Orphan
  <2>8. /\ node'[s].role = "backup" /\ 0 < node'[s].id /\ node'[s].id < FirstId
        /\ node'[s].primaryId = FirstId
    BY <2>1 DEF Orphan, SameWho
  <2>9. Self(s)' \in node'[s].members /\ Above(s)' \subseteq node'[s].members
    BY <1>2, <2>1, <2>2, <2>3 DEF Orphan
  <2>. QED  BY <2>4, <2>5, <2>6, <2>7, <2>8, <2>9 DEF Orphan
<1>. QED  BY <1>2, <1>4 DEF Orphaned

\* One server's election goes on, and nothing else changes.
LEMMA OneOrphanMoves ==
    ASSUME AllSane(node), Orphaned, UNCHANGED <<up, has, acked>>, NEW s \in Servers,
           \A x \in Servers \ {s} : node'[x] = node[x],
           SameWho(node'[s], node[s]), SameLists(node'[s], node[s]), SameWork(node'[s], node[s]),
           s \in In => Waits(node'[s].elect, Above(s))
    PROVE  Orphaned'
<1>1. \A x \in Servers : /\ SameWho(node'[x], node[x]) /\ SameLists(node'[x], node[x])
                         /\ SameWork(node'[x], node[x])
  BY DEF SameWho, SameLists, SameWork
<1>2. \A x \in In : Waits(node'[x].elect, Above(x))
  <2>1. ASSUME NEW x \in In PROVE Waits(node'[x].elect, Above(x))
    <3>1. CASE x = s
      BY <3>1
    <3>2. CASE x # s
      BY <3>2, OrphanFacts DEF Orphan
    <3>. QED  BY <3>1, <3>2
  <2>. QED  BY <2>1
<1>. QED  BY <1>1, <1>2, OrphansStay

\* A new election thread has asked nobody yet.
LEMMA StartWaits ==
    ASSUME NEW n \in Nodes, NEW higher, Waits(n.elect, higher)
    PROVE  Waits(StartElection(n).elect, higher)
BY StartElectionEffect DEF Waits

\* A backup that loses its link starts an election.
LEMMA OrphanLinkLost ==
    ASSUME AllSane(node), Orphaned, NEW b \in Servers, LinkLost(b)
    PROVE  Orphaned'
<1>1. UNCHANGED <<up, has, acked>>
  BY DEF LinkLost
<1>2. PICK n \in Nodes :
        /\ SameWho(n, node[b]) /\ SameLists(n, node[b]) /\ SameWork(n, node[b])
        /\ n.primaryLink = None /\ n.elect = node[b].elect
        /\ node'[b] = StartElection(n)
  BY LinkLostEffect
<1>3. \A x \in Servers \ {b} : node'[x] = node[x]
  BY LinkLostEffect
<1>4. /\ SameWho(node'[b], n) /\ SameLists(node'[b], n) /\ SameWork(node'[b], n)
  BY <1>2, StartElectionEffect
<1>5. b \in In => Waits(node'[b].elect, Above(b))
  BY <1>2, StartWaits, OrphanFacts DEF Orphan
<1>6. /\ SameWho(node'[b], node[b]) /\ SameLists(node'[b], node[b])
      /\ SameWork(node'[b], node[b])
  BY <1>2, <1>4 DEF SameWho, SameLists, SameWork
<1>. QED  BY <1>1, <1>3, <1>5, <1>6, OneOrphanMoves

\* So does one that has heard nothing.
LEMMA OrphanSuspect ==
    ASSUME AllSane(node), Orphaned, NEW b \in Servers, Suspect(b)
    PROVE  Orphaned'
<1>1. UNCHANGED <<up, has, acked>>
  BY DEF Suspect
<1>2. node'[b] = StartElection(node[b]) /\ \A x \in Servers \ {b} : node'[x] = node[x]
  BY SuspectEffect
<1>3. node[b] \in Nodes
  BY OrphanFacts
<1>4. /\ SameWho(node'[b], node[b]) /\ SameLists(node'[b], node[b])
      /\ SameWork(node'[b], node[b])
  BY <1>2, <1>3, StartElectionEffect
<1>5. b \in In => Waits(node'[b].elect, Above(b))
  BY <1>2, <1>3, StartWaits, OrphanFacts DEF Orphan
<1>. QED  BY <1>1, <1>2, <1>4, <1>5, OneOrphanMoves

\* An election asks all that outrank its server.
LEMMA OrphanElectStart ==
    ASSUME AllSane(node), Orphaned, NEW s \in Servers, ElectStart(s)
    PROVE  Orphaned'
<1>1. UNCHANGED <<up, has, acked>>
  BY DEF ElectStart
<1>2. node[s].role # "primary"
  BY OrphanFacts
<1>3. /\ \A x \in Servers \ {s} : node'[x] = node[x]
      /\ SameButElection(node'[s], node[s])
      /\ node'[s].elect.phase = "ask" /\ node'[s].elect.todo = Higher(node[s])
      /\ node'[s].elect.alive = FALSE
  BY <1>2, ElectStartEffect
<1>4. s \in In => Above(s) \subseteq Higher(node[s])
  <2>1. s \in In => Above(s) \subseteq node[s].members
    BY OrphanFacts DEF Orphan
  <2>2. \A m \in Above(s) : m.id > node[s].id
    BY DEF Above, Self
  <2>. QED  BY <2>1, <2>2 DEF Higher
<1>5. s \in In => Waits(node'[s].elect, Above(s))
  BY <1>3, <1>4 DEF Waits
<1>. QED  BY <1>1, <1>3, <1>5, OneOrphanMoves DEF SameButElection

\* An election that ends makes no primary.
LEMMA OrphanAnnounced ==
    ASSUME AllSane(node), Orphaned, NEW s \in Servers, Announced(s)
    PROVE  Orphaned'
<1>1. UNCHANGED <<up, has, acked>>
  BY DEF Announced
<1>2. /\ \A x \in Servers \ {s} : node'[x] = node[x]
      /\ SameButElection(node'[s], node[s]) /\ node'[s].elect = NotElecting
  BY AnnouncedEffect
<1>3. Waits(node'[s].elect, Above(s))
  BY <1>2 DEF Waits, NotElecting
<1>. QED  BY <1>1, <1>2, <1>3, OneOrphanMoves DEF SameButElection

\* Nor does one that starts over.
LEMMA OrphanWaitTimeout ==
    ASSUME AllSane(node), Orphaned, NEW s \in Servers, WaitTimeout(s)
    PROVE  Orphaned'
<1>1. UNCHANGED <<up, has, acked>>
  BY DEF WaitTimeout
<1>2. /\ \A x \in Servers \ {s} : node'[x] = node[x]
      /\ SameButElection(node'[s], node[s]) /\ node'[s].elect.phase = "start"
  BY WaitTimeoutEffect
<1>3. Waits(node'[s].elect, Above(s))
  BY <1>2 DEF Waits
<1>. QED  BY <1>1, <1>2, <1>3, OneOrphanMoves DEF SameButElection

\* Who outranks the asker runs, and so answers the Election message.
LEMMA OrphanAsk ==
    ASSUME Mild, Bounded, AllSane(node), Orphaned, NEW s \in Servers,
           NEW m \in node[s].elect.todo, NEW answered \in BOOLEAN, Ask(s, m, answered)
    PROVE  Orphaned'
<1>. DEFINE q == m.srv
<1>1. UNCHANGED <<up, has, acked>>
  BY DEF Ask
<1>2. node[s].elect.phase = "ask"
  BY DEF Ask
<1>3. s \in In /\ Orphan(s) /\ Waits(node[s].elect, Above(s))
  <2>1. s \in In
    BY <1>2, OrphanFacts DEF Fresh, NotElecting
  <2>. QED  BY <2>1, OrphanFacts DEF Orphan
<1>4. q \in Servers
  BY AskEffect
<1>5. PICK n \in Nodes :
        /\ SameButElection(n, node[s]) /\ n.elect.phase = "ask"
        /\ n.elect.todo = node[s].elect.todo \ {m}
        /\ n.elect.alive = (node[s].elect.alive \/ answered)
        /\ Reachable(q) /\ q # s =>
              /\ \A x \in Servers \ {s, q} : node'[x] = node[x]
              /\ node'[s] = n
              /\ node'[q] = HandleElection(node[q], Self(s))
        /\ Reachable(q) /\ q = s =>
              /\ \A x \in Servers \ {s} : node'[x] = node[x]
              /\ node'[s] = HandleElection(n, Self(s))
        /\ ~Reachable(q) =>
              /\ \A x \in Servers \ {s} : node'[x] = node[x]
              /\ node'[s] = n
  BY AskEffect
<1>6. Reachable(q) => answered
  BY NoDoubt DEF Ask
<1>7. m \in Above(s) => Reachable(q)
  <2>1. \A t \in In : Reachable(t)
    BY OrphanFacts DEF Reachable, In
  <2>2. m \in Above(s) => q \in In
    BY DEF Above, Self
  <2>. QED  BY <2>1, <2>2
<1>8. Waits(n.elect, Above(s))
  <2>1. CASE answered
    BY <1>5, <2>1 DEF Waits
  <2>2. CASE ~answered
    <3>1. m \notin Above(s)
      BY <1>6, <1>7, <2>2
    <3>2. node[s].elect.alive \/ Above(s) \subseteq node[s].elect.todo
      BY <1>2, <1>3 DEF Waits
    <3>3. n.elect.phase = "ask" /\ (n.elect.alive \/ Above(s) \subseteq n.elect.todo)
      BY <1>5, <2>2, <3>1, <3>2
    <3>. QED  BY <3>3 DEF Waits
  <2>. QED  BY <2>1, <2>2
<1>9. SameWho(n, node[s]) /\ SameLists(n, node[s]) /\ SameWork(n, node[s])
  BY <1>5 DEF SameButElection
<1>10. node[s].role # "primary" /\ n.role # "primary" /\ Self(s) \in Members
  BY <1>3, <1>9, OrphanFacts DEF SameWho
<1>11. CASE ~Reachable(q)
  BY <1>1, <1>5, <1>8, <1>9, <1>11, OneOrphanMoves
<1>12. CASE Reachable(q) /\ q = s
  <2>1. node'[s] = StartElection(n) /\ \A x \in Servers \ {s} : node'[x] = node[x]
    BY <1>5, <1>10, <1>12, HandleElectionEffect
  <2>2. SameWho(node'[s], n) /\ SameLists(node'[s], n) /\ SameWork(node'[s], n)
    BY <2>1, StartElectionEffect
  <2>3. Waits(node'[s].elect, Above(s))
    BY <1>8, <2>1, StartWaits
  <2>4. /\ SameWho(node'[s], node[s]) /\ SameLists(node'[s], node[s])
        /\ SameWork(node'[s], node[s])
    BY <1>9, <2>2 DEF SameWho, SameLists, SameWork
  <2>. QED  BY <1>1, <2>1, <2>3, <2>4, OneOrphanMoves
<1>13. CASE Reachable(q) /\ q # s
  <2>1. node[q] \in Nodes /\ node[q].role # "primary"
    BY <1>4, OrphanFacts
  <2>2. /\ \A x \in Servers \ {s, q} : node'[x] = node[x]
        /\ node'[s] = n /\ node'[q] = StartElection(node[q])
    BY <1>5, <1>10, <1>13, <2>1, HandleElectionEffect
  <2>3. /\ SameWho(node'[q], node[q]) /\ SameLists(node'[q], node[q])
        /\ SameWork(node'[q], node[q])
    BY <2>1, <2>2, StartElectionEffect
  <2>4. \A x \in Servers : /\ SameWho(node'[x], node[x]) /\ SameLists(node'[x], node[x])
                           /\ SameWork(node'[x], node[x])
    <3>. HIDE DEF q
    <3>1. \A x \in Servers \ {s, q} : /\ SameWho(node'[x], node[x]) /\ SameLists(node'[x], node[x])
                                      /\ SameWork(node'[x], node[x])
      BY <2>2 DEF SameWho, SameLists, SameWork
    <3>. QED  BY <1>9, <2>2, <2>3, <3>1
  <2>5. ASSUME NEW x \in In PROVE Waits(node'[x].elect, Above(x))
    <3>1. CASE x = s
      BY <1>8, <2>2, <3>1
    <3>2. CASE x = q
      <4>1. Waits(node[q].elect, Above(q))
        BY <3>2, OrphanFacts DEF Orphan
      <4>. HIDE DEF q
      <4>. QED  BY <2>1, <2>2, <3>2, <4>1, StartWaits
    <3>3. CASE x \notin {s, q}
      BY <2>2, <3>3, OrphanFacts DEF Orphan
    <3>. QED  BY <3>1, <3>2, <3>3
  <2>. QED  BY <1>1, <2>4, <2>5, OrphansStay
<1>. QED  BY <1>11, <1>12, <1>13

\* Nobody that outranks it has joined: the server takes over.
LEMMA OrphanBecomesPrimary ==
    ASSUME AllSane(node), Orphaned, NEW s \in Servers, BecomePrimary(s)
    PROVE  \E L \in Members : Leads(L)'
<1>1. /\ UNCHANGED <<up, has, acked>>
      /\ node[s].elect.phase = "ask" /\ node[s].elect.todo = {} /\ ~node[s].elect.alive
  BY DEF BecomePrimary
<1>2. s \in In /\ Orphan(s) /\ Self(s) \in Members /\ s \in up /\ node[s].id \in Nat
  <2>1. s \in In
    BY <1>1, OrphanFacts DEF Fresh, NotElecting
  <2>. QED  BY <2>1, OrphanFacts
<1>. DEFINE L == Self(s)
            list == Kept(node[s])
            others == Without(list, node[s].id)
<1>3. L.id = node[s].id /\ L.srv = s
  BY DEF Self
<1>4. Above(s) = {}
  BY <1>1, <1>2 DEF Orphan, Waits
<1>5. \A t \in In : t # s => node[t].id < node[s].id
  <2>1. \A t \in In : ~(node[t].id > node[s].id)
    BY <1>4 DEF Above
  <2>2. \A t \in In : t # s => node[t].id # node[s].id
    BY <1>2 DEF Orphaned, Distinct
  <2>. QED  BY <1>2, <2>1, <2>2, OrphanFacts
<1>6. list = Without(node[s].members, FirstId) /\ node[s].id < FirstId
  BY <1>2 DEF Orphan, Kept
<1>7. Ranked(list, L)
  <2>1. L \in list
    BY <1>2, <1>3, <1>6 DEF Orphan, Without
  <2>2. ASSUME NEW m \in list PROVE m = L \/ Under(m, L)
    <3>1. m \in node[s].members /\ m.id # FirstId
      BY <1>6 DEF Without
    <3>2. m.srv \in In /\ m = Self(m.srv)
      BY <1>2, <3>1 DEF Orphan, Names
    <3>3. CASE m.srv = s
      BY <3>2, <3>3
    <3>4. CASE m.srv # s
      <4>1. m.id = node[m.srv].id
        BY <3>2 DEF Self
      <4>. QED  BY <1>3, <1>5, <3>2, <3>4, <4>1 DEF Under
    <3>. QED  BY <3>3, <3>4
  <2>. QED  BY <2>1, <2>2 DEF Ranked
<1>8. \A m \in others : Under(m, L)
  BY <1>3, <1>7 DEF Ranked, Without
<1>9. PICK n \in Nodes :
         /\ n.id = node[s].id /\ n.role = "primary" /\ n.primaryId = node[s].id
         /\ n.members = list /\ n.primaryLink = None
         /\ n.lowest = Min({node[s].id} \cup Ids(list))
         /\ SameWork(n, node[s])
         /\ n.elect.phase = "announce"
         /\ n.elect.todo = others
         /\ n.elect.others = others
         /\ node'[s] = NextLoop(n)
  BY BecomePrimaryEffect
<1>10. \A x \in Servers \ {s} : node'[x] = node[x]
  BY BecomePrimaryEffect
<1>11. n.lowest \in 1..L.id
  <2>1. node[s].id \in 0..FirstId /\ list \in SUBSET Members /\ node[s].id # 0
    BY <1>2, <1>6, OrphanFacts DEF Nodes, Without, Orphan
  <2>. DEFINE low == Min({node[s].id} \cup Ids(list))
  <2>. HIDE DEF list
  <2>2. low \in 0..FirstId /\ low <= node[s].id /\ low # 0
    BY <2>1, MinTyped
  <2>. QED  BY <1>3, <1>9, <2>1, <2>2
<1>. HIDE DEF list, others
<1>12. Idle(n)
  BY <1>2, <1>9 DEF Idle, SameWork, Orphan
<1>13. Won(n.elect, L)
  BY <1>8, <1>9 DEF Won
<1>. DEFINE r == NextLoop(n)
<1>14. /\ r \in Nodes /\ SameWho(r, n) /\ SameLists(r, n) /\ SameWork(r, n) /\ SameEnd(r, n)
       /\ GoesOn(r, n)
  BY NextLoopEffect
<1>. HIDE DEF r, L
<1>15. Idle(r) /\ Ranked(r.members, L)
  BY <1>7, <1>9, <1>12, <1>14 DEF Idle, SameWork, SameLists
<1>16. Won(r.elect, L)
  <2>1. AllUnder(r.links, L)
    BY <1>15 DEF Idle, AllUnder
  <2>. QED  BY <1>13, <1>14, <1>15, <2>1, WonGoesOn
<1>17. Leader(r, L)
  <2>1. r.role = "primary" /\ r.id = L.id /\ r.lowest \in 1..L.id /\ r.primaryLink = None
    BY <1>3, <1>9, <1>11, <1>14 DEF SameWho, SameLists, SameEnd
  <2>2. AllCall(r.calls, L) /\ AllUnder(r.links, L) /\ AllTell(r.owed, L) /\ r.att = None
    BY <1>15 DEF Idle, AllCall, AllUnder, AllTell
  <2>. QED  BY <1>15, <1>16, <2>1, <2>2 DEF Leader
<1>18. node'[s] = r
  BY <1>9 DEF r
<1>19. ASSUME NEW t \in Servers \ {s} PROVE node'[t] = Fresh \/ (t \in up' /\ Follower(node'[t], L))
  <2>1. CASE t \notin In
    BY <1>10, <2>1, OrphanFacts
  <2>2. CASE t \in In
    <3>1. Orphan(t) /\ node[t].id < node[s].id /\ node'[t] = node[t]
      BY <1>5, <1>10, <2>2, OrphanFacts
    <3>2. L \in Above(t)
      BY <1>2, <2>2, <3>1, OrphanFacts DEF Above, L
    <3>3. L \in node[t].members /\ Harmless(node[t].elect, L)
      BY <3>1, <3>2 DEF Orphan, Waits, Harmless
    <3>4. t \in up'
      BY <1>1, <3>1 DEF Orphan
    <3>5. Follower(node[t], L)
      BY <1>3, <3>1, <3>3 DEF Orphan, Follower
    <3>. QED  BY <3>1, <3>4, <3>5
  <2>. QED  BY <2>1, <2>2
<1>20. Linked(s)'
  BY <1>15, <1>18 DEF Idle, Linked
<1>21. L.srv \in up' /\ acked' \subseteq has'[s]
  BY <1>1, <1>2, <1>3 DEF Orphan
<1>22. ASSUME NEW k, k = L PROVE Leads(k)'
  BY <1>3, <1>17, <1>18, <1>19, <1>20, <1>21, <1>22 DEF Leads
<1>23. L \in Members
  BY <1>2 DEF L
<1>. QED  BY <1>22, <1>23

\* When the first server dies its backups have all it acknowledged, and know each other.
LEMMA CalmCrash ==
    ASSUME Mild, AllSane(node), Leads(TheFirst), Calm, Crash(First)
    PROVE  Orphaned'
<1>. USE CalmFacts
<1>1. node'[First] = Fresh /\ \A x \in Servers \ {First} : node'[x] = node[x]
  BY CrashEffect
<1>2. up' = up \ {First} /\ has' = has /\ acked' = acked
  BY DEF Crash
<1>3. \A c \in node[First].calls : c.kind # "join"
  BY DEF Crash, Mild
<1>4. Fresh.role = "joining"
  BY DEF Fresh
<1>5. In' = In \ {First} /\ In \subseteq Servers
  BY <1>1, <1>4 DEF In
<1>6. \A s \in In \ {First} : node'[s] = node[s] /\ Self(s)' = Self(s)
  BY <1>1, <1>5 DEF Self
<1>7. Distinct'
  BY <1>5, <1>6 DEF Calm, Distinct
<1>8. ASSUME NEW s \in In \ {First} PROVE Orphan(s)'
  <2>1. s \in Servers /\ node'[s] = node[s] /\ Self(s)' = Self(s)
    BY <1>5, <1>6
  <2>2. Listed(s) /\ Served(s) /\ Follower(node[s], TheFirst)
    BY <2>1 DEF Calm
  <2>3. PICK l \in node[First].links : l.srv = s
    BY <1>3, <2>2 DEF Served
  <2>4. Live(First, l)
    BY <2>3 DEF Calm, Good
  <2>5. acked \subseteq has[s]
    <3>1. has[First] \subseteq has[s]
      BY <2>3, <2>4, FirstIsMember DEF Leads, Linked
    <3>2. acked \subseteq has[First]
      BY FirstIsMember DEF Leads
    <3>. QED  BY <3>1, <3>2
  <2>6. node[s].primaryLink # None
    <3>1. l.no \in Nat /\ node[s].primaryLink = [srv |-> First, no |-> l.no]
      BY <2>3, <2>4 DEF Live, Nodes, Links
    <3>. QED  BY <3>1, NoneAssumption
  <2>7. /\ node[s].primaryId = FirstId /\ Self(s) \in node[s].members
        /\ node[s].members \subseteq All /\ Covers(node[s].members, node[s].id)
    BY <2>2, <2>6 DEF Listed
  <2>8. Names(node[s].members)'
    <3>1. ASSUME NEW m \in node[s].members
          PROVE  m.id = FirstId \/ (m.srv \in In' /\ m = Self(m.srv)')
      <4>1. PICK u \in In : m = Self(u)
        BY <2>7 DEF All
      <4>2. CASE u = First
        BY <4>1, <4>2, FirstIsMember
      <4>3. CASE u # First
        BY <1>5, <1>6, <4>1, <4>3 DEF Self
      <4>. QED  BY <4>2, <4>3
    <3>. QED  BY <2>1, <3>1 DEF Names
  <2>9. Above(s)' \subseteq node[s].members
    <3>1. ASSUME NEW t \in In', node'[t].id > node'[s].id PROVE Self(t)' \in node[s].members
      BY <1>5, <1>6, <2>1, <2>7, <3>1 DEF Covers
    <3>. QED  BY <3>1 DEF Above
  <2>10. Waits(node'[s].elect, Above(s)')
    BY <2>1 DEF Calm, Quiet, Waits
  <2>11. /\ node[s].role = "backup" /\ Idle(node[s])
         /\ 0 < node[s].id /\ node[s].id < FirstId
    BY <2>2, FirstIsMember DEF Follower
  <2>12. s \in up'
    BY <1>2, <2>1 DEF Calm
  <2>. QED  BY <1>2, <2>1, <2>5, <2>7, <2>8, <2>9, <2>10, <2>11, <2>12 DEF Orphan
<1>. QED  BY <1>5, <1>7, <1>8 DEF Orphaned

\* One of them takes over, or they still wait.
LEMMA OrphanNext ==
    ASSUME Mild, Bounded, AllSane(node), Orphaned, Next,
           spent.crashes = 1, spent'.crashes = 1
    PROVE  Orphaned' \/ \E L \in Members : Leads(L)'
<1>1. PICK s \in Servers :
        \/ \E j \in Servers : JoinRead(s, j)
        \/ PrimaryStep(s) \/ BackupStep(s) \/ ElectionStep(s)
        \/ Accept(s) \/ \E v \in Changes : Commit(s, v)
        \/ Crash(s) \/ Start(s)
  BY DEF Next
<1>2. Idle(node[s]) /\ node[s].role # "primary"
  BY OrphanFacts
<1>3. ~PrimaryStep(s) /\ ~Accept(s) /\ \A j \in Servers : ~JoinRead(s, j)
  BY <1>2 DEF PrimaryStep, EndAttach, Accept, JoinRead, Idle
<1>4. \A v \in Changes : ~Commit(s, v)
  BY <1>2 DEF Commit, Idle
<1>5. ~Crash(s)
  <2>1. spent \in [crashes : 0..MaxCrashes, starts : 0..MaxStarts, doubts : 0..MaxDoubts]
    BY DEF Bounded
  <2>2. Crash(s) => spent'.crashes = 2
    BY <2>1 DEF Crash
  <2>. QED  BY <2>2
<1>6. ASSUME Start(s) PROVE Orphaned'
  <2>1. node' = node /\ has' = has /\ acked' = acked /\ up \subseteq up'
    BY <1>6 DEF Start
  <2>2. \A x \in Servers : /\ SameWho(node'[x], node[x]) /\ SameLists(node'[x], node[x])
                           /\ SameWork(node'[x], node[x])
    BY <2>1 DEF SameWho, SameLists, SameWork
  <2>3. \A x \in In : Waits(node'[x].elect, Above(x))
    BY <2>1, OrphanFacts DEF Orphan
  <2>. QED  BY <2>1, <2>2, <2>3, OrphansStay
<1>7. ASSUME BackupStep(s) PROVE Orphaned'
  BY <1>7, OrphanLinkLost, OrphanSuspect DEF BackupStep
<1>8. ASSUME ElectionStep(s) PROVE Orphaned' \/ \E L \in Members : Leads(L)'
  <2>1. ASSUME ElectStart(s) PROVE Orphaned'
    BY <2>1, OrphanElectStart
  <2>2. ASSUME Announced(s) PROVE Orphaned'
    BY <2>2, OrphanAnnounced
  <2>3. ASSUME WaitTimeout(s) PROVE Orphaned'
    BY <2>3, OrphanWaitTimeout
  <2>4. ASSUME BecomePrimary(s) PROVE \E L \in Members : Leads(L)'
    BY <2>4, OrphanBecomesPrimary
  <2>5. ASSUME NEW m \in node[s].elect.todo, NEW answered \in BOOLEAN, Ask(s, m, answered)
        PROVE  Orphaned'
    BY <2>5, OrphanAsk
  <2>6. ASSUME NEW m \in node[s].elect.todo
        PROVE  ~Announce(s, m) /\ ~ElectAttach(s, m) /\ ~ElectBroadcast(s, m)
    <3>1. node[s].elect.phase \in {"none", "start", "ask"}
      BY OrphanFacts DEF Orphan, Waits, Fresh, NotElecting
    <3>. QED  BY <3>1 DEF Announce, ElectAttach, ElectBroadcast
  <2>. QED  BY <1>8, <2>1, <2>2, <2>3, <2>4, <2>5, <2>6 DEF ElectionStep
<1>. QED  BY <1>1, <1>3, <1>4, <1>5, <1>6, <1>7, <1>8

\* In a cluster without a primary nothing is claimed of one.
LEMMA OrphanMeans ==
    ASSUME Bounded, AllSane(node), Orphaned
    PROVE  OnePrimary /\ HighestLeads /\ AckedKept /\ LinkedHasAll
<1>1. \A s \in Servers : node[s].role # "primary"
  BY OrphanFacts
<1>2. Primaries = {}
  BY <1>1 DEF Primaries, Bounded
<1>. QED  BY <1>2, FS_EmptySet DEF OnePrimary, HighestLeads, AckedKept, LinkedHasAll

\* Until one server has crashed the first leads; after that one that has all
\* leads, or nobody yet does.
OneCrash ==
    /\ spent.crashes = 0 => Leads(TheFirst) /\ Calm
    /\ spent.crashes = 1 => Orphaned \/ \E L \in Members : Leads(L)

\* With MaxDoubts = 0 an Election message is answered in time.
LEMMA MildIsTimely ==
    ASSUME Mild, Bounded
    PROVE  Timely
BY NoDoubt DEF Timely, Ask

\* Only a crash is counted as one, and only a crash ends a server.
LEMMA CrashOrNot ==
    ASSUME Bounded, Next
    PROVE  \/ spent'.crashes = spent.crashes /\ up \subseteq up'
           \/ \E s \in Servers : Crash(s) /\ spent'.crashes = spent.crashes + 1
<1>. DEFINE Goal == \/ spent'.crashes = spent.crashes /\ up \subseteq up'
                    \/ \E s \in Servers : Crash(s) /\ spent'.crashes = spent.crashes + 1
<1>1. spent \in [crashes : 0..MaxCrashes, starts : 0..MaxStarts, doubts : 0..MaxDoubts]
  BY DEF Bounded
<1>2. ASSUME up' = up, UNCHANGED spent \/ Doubt \/ Sure PROVE Goal
  BY <1>1, <1>2 DEF Doubt, Sure
<1>3. ASSUME NEW s \in Servers, Crash(s) PROVE Goal
  BY <1>1, <1>3 DEF Crash
<1>4. ASSUME NEW s \in Servers, Start(s) PROVE Goal
  BY <1>1, <1>4 DEF Start
<1>. HIDE DEF Goal
<1>5. ASSUME NEW s \in Servers, PrimaryStep(s) PROVE Goal
  <2>1. ASSUME NEW t \in node[s].calls, JoinAdmit(s, t) PROVE Goal
    BY <1>2, <2>1 DEF JoinAdmit
  <2>2. ASSUME NEW t \in node[s].calls, CallAttach(s, t) PROVE Goal
    BY <1>2, <2>2 DEF CallAttach, BeginAttach
  <2>3. ASSUME NEW t \in node[s].calls, Reassure(s, t) PROVE Goal
    BY <1>2, <2>3 DEF Reassure
  <2>4. ASSUME NEW o \in node[s].owed, TellMembers(s, o) PROVE Goal
    BY <1>2, <2>4 DEF TellMembers
  <2>5. ASSUME NEW l \in node[s].links, DetectDeadLink(s, l) PROVE Goal
    BY <1>2, <2>5 DEF DetectDeadLink
  <2>6. ASSUME EndAttach(s) PROVE Goal
    BY <1>2, <2>6 DEF EndAttach
  <2>. QED  BY <1>5, <2>1, <2>2, <2>3, <2>4, <2>5, <2>6 DEF PrimaryStep
<1>6. ASSUME NEW s \in Servers, ElectionStep(s) PROVE Goal
  <2>1. ASSUME NEW m \in node[s].elect.todo, NEW answered \in BOOLEAN, Ask(s, m, answered)
        PROVE  Goal
    BY <1>2, <2>1 DEF Ask
  <2>2. ASSUME NEW m \in node[s].elect.todo, ElectAttach(s, m) PROVE Goal
    BY <1>2, <2>2 DEF ElectAttach, BeginAttach
  <2>3. ASSUME NEW m \in node[s].elect.todo, Announce(s, m) \/ ElectBroadcast(s, m)
        PROVE  Goal
    BY <1>2, <2>3 DEF Announce, ElectBroadcast
  <2>4. CASE ElectStart(s) \/ Announced(s) \/ BecomePrimary(s)
    BY <1>2, <2>4 DEF ElectStart, Announced, BecomePrimary
  <2>5. CASE WaitTimeout(s)
    BY <1>2, <2>5 DEF WaitTimeout
  <2>. QED  BY <1>6, <2>1, <2>2, <2>3, <2>4, <2>5 DEF ElectionStep
<1>7. ASSUME NEW s \in Servers,
             \/ \E j \in Servers : JoinRead(s, j)
             \/ BackupStep(s) \/ Accept(s) \/ \E v \in Changes : Commit(s, v)
      PROVE  Goal
  BY <1>2, <1>7 DEF JoinRead, BackupStep, LinkLost, Suspect, Accept, Commit
<1>8. Goal
  BY <1>3, <1>4, <1>5, <1>6, <1>7 DEF Next
<1>. QED  BY <1>8 DEF Goal

\* Every step keeps OneCrash.
LEMMA OneCrashStep ==
    ASSUME Mild, Bounded, AllSane(node), OneCrash, Next
    PROVE  OneCrash'
<1>1. spent.crashes \in Nat
  BY DEF Bounded
<1>2. Timely /\ TheFirst \in Members /\ TheFirst.srv = First
  BY MildIsTimely, FirstIsMember
<1>3. ASSUME NEW s \in Servers, Crash(s), spent'.crashes = spent.crashes + 1
      PROVE  OneCrash'
  <2>1. CASE spent.crashes = 0
    <3>1. Leads(TheFirst) /\ Calm
      BY <2>1 DEF OneCrash
    <3>2. CASE s = First
      <4>1. Orphaned'
        BY <1>3, <3>1, <3>2, CalmCrash
      <4>. QED  BY <1>3, <2>1, <4>1 DEF OneCrash
    <3>3. CASE s # First
      <4>1. Leads(TheFirst)'
        BY <1>2, <1>3, <3>1, <3>3, LedCrash
      <4>. QED  BY <1>2, <1>3, <2>1, <4>1 DEF OneCrash
    <3>. QED  BY <3>2, <3>3
  <2>2. CASE spent.crashes # 0
    BY <1>1, <1>3, <2>2 DEF OneCrash
  <2>. QED  BY <2>1, <2>2
<1>4. ASSUME spent'.crashes = spent.crashes, up \subseteq up'
      PROVE  OneCrash'
  <2>1. ASSUME NEW L \in Members, Leads(L) PROVE Leads(L)'
    <3>1. L.srv \in up'
      BY <1>4, <2>1 DEF Leads
    <3>. QED  BY <1>2, <2>1, <3>1, KeepsLeading
  <2>2. CASE spent.crashes = 0
    <3>1. Leads(TheFirst) /\ Calm
      BY <2>2 DEF OneCrash
    <3>2. Leads(TheFirst)'
      BY <1>2, <2>1, <3>1
    <3>3. Calm'
      BY <1>4, <2>2, <3>1, CalmNext
    <3>. QED  BY <1>4, <2>2, <3>2, <3>3 DEF OneCrash
  <2>3. CASE spent.crashes = 1
    <3>1. CASE Orphaned
      <4>1. Orphaned' \/ \E L \in Members : Leads(L)'
        BY <1>4, <2>3, <3>1, OrphanNext
      <4>. QED  BY <1>4, <2>3, <4>1 DEF OneCrash
    <3>2. CASE \E L \in Members : Leads(L)
      <4>1. \E L \in Members : Leads(L)'
        BY <2>1, <3>2
      <4>. QED  BY <1>4, <2>3, <4>1 DEF OneCrash
    <3>. QED  BY <2>3, <3>1, <3>2 DEF OneCrash
  <2>4. CASE spent.crashes \notin {0, 1}
    BY <1>4, <2>4 DEF OneCrash
  <2>. QED  BY <2>2, <2>3, <2>4
<1>. QED  BY <1>3, <1>4, CrashOrNot

\* While it holds the properties do.
LEMMA OneCrashMeans ==
    ASSUME Bounded, AllSane(node), OneCrash, spent.crashes <= 1
    PROVE  OnePrimary /\ HighestLeads /\ AckedKept /\ LinkedHasAll
<1>1. spent.crashes \in {0, 1}
  BY DEF Bounded
<1>2. Orphaned \/ \E L \in Members : Leads(L)
  BY <1>1, FirstIsMember DEF OneCrash
<1>. QED  BY <1>2, OrphanMeans, LedMeans

\* With one crash at any moment, of any server, but no timeout that expires without cause and
\* no primary that dies between a JoinOk and its attach (Mild), OneCrash holds throughout.
THEOREM OneCrashInvariance ==
    ASSUME Mild
    PROVE  Spec => [](Bounded /\ AllSane(node) /\ OneCrash)
<1>. DEFINE Inv == Bounded /\ AllSane(node) /\ OneCrash
<1>1. Init => Inv
  <2>1. Init => spent.crashes = 0
    BY DEF Init
  <2>. QED  BY <2>1, InitSane, FirstLeadsAtStart, CalmAtStart DEF OneCrash
<1>2. Inv /\ [Next]_vars => Inv'
  <2>. SUFFICES ASSUME Inv, [Next]_vars PROVE Inv'
    OBVIOUS
  <2>1. Bounded'
    BY NextBounded
  <2>2. CASE UNCHANGED vars
    <3>1. node' = node /\ up' = up /\ has' = has /\ acked' = acked /\ spent' = spent
      BY <2>2 DEF vars
    <3>2. AllSane(node')
      BY <3>1
    <3>3. \A L : Leads(L) => Leads(L)'
      BY <3>1 DEF Leads, Linked, Live
    <3>4. Orphaned => Orphaned'
      BY <3>1, OrphansStay, OrphanFacts DEF Orphan, SameWho, SameLists, SameWork
    <3>5. Leads(TheFirst) /\ Calm => Calm'
      <4>1. SUFFICES ASSUME Leads(TheFirst), Calm PROVE Calm'
        OBVIOUS
      <4>2. SameCast /\ \A s \in Servers : SameEnd(node'[s], node[s])
        BY <3>1 DEF SameCast, SameEnd
      <4>3. Quiet'
        BY <3>1, <4>1 DEF Calm, Quiet
      <4>4. ASSUME NEW s \in In \ {First} PROVE Listed(s)'
        BY <3>1, <4>1, <4>2, ListedStays DEF Calm, In
      <4>. QED  BY <3>1, <4>1, <4>2, <4>3, <4>4, CalmStill
    <3>6. OneCrash'
      BY <3>1, <3>3, <3>4, <3>5 DEF OneCrash
    <3>. QED  BY <2>1, <3>2, <3>6
  <2>3. CASE Next
    BY <2>1, <2>3, NextSane, OneCrashStep
  <2>. QED  BY <2>2, <2>3
<1>. HIDE DEF Inv
<1>3. Spec => []Inv
  BY <1>1, <1>2, PTL DEF Spec
<1>. QED  BY <1>3, PTL DEF Inv

\* "So any change a client was told succeeded is on every live server" (README): until a second
\* crash, whoever acts as primary (become_primary) has every acknowledged change.
THEOREM OneCrashIsSurvived ==
    ASSUME Mild
    PROVE  Spec => []OneCrashLosesNothing
<1>1. Bounded /\ AllSane(node) /\ OneCrash => OneCrashLosesNothing
  BY OneCrashMeans DEF OneCrashLosesNothing
<1>. QED  BY <1>1, OneCrashInvariance, PTL

\* "That keeps the primary at the highest id" (README): until a second crash, whoever acts as
\* primary is alone and outranks every running server of the cluster, also when the first
\* server has died and others come back and join its successor.
THEOREM SuccessorOutranks ==
    ASSUME Mild
    PROVE  Spec => [](spent.crashes <= 1 => OnePrimary /\ HighestLeads)
<1>1. Bounded /\ AllSane(node) /\ OneCrash => (spent.crashes <= 1 => OnePrimary /\ HighestLeads)
  BY OneCrashMeans
<1>. QED  BY <1>1, OneCrashInvariance, PTL

\* Until a second crash, every backup has all that the primary has to which a working link
\* leads: attach_replica copies before the link goes live, replicate_put after.
THEOREM LinksHaveAll ==
    ASSUME Mild
    PROVE  Spec => [](spent.crashes <= 1 => LinkedHasAll)
<1>1. Bounded /\ AllSane(node) /\ OneCrash => (spent.crashes <= 1 => LinkedHasAll)
  BY OneCrashMeans
<1>. QED  BY <1>1, OneCrashInvariance, PTL

\* "Each newcomer gets a lower id than everyone before it" (README): while joins come one at a
\* time and no server has crashed, handle_join gives no id twice.
THEOREM IdsAreUnique ==
    ASSUME Mild
    PROVE  Spec => [](spent.crashes = 0 => UniqueIds)
<1>1. Bounded /\ AllSane(node) /\ OneCrash => (spent.crashes = 0 => UniqueIds)
  <2>1. SUFFICES ASSUME Bounded, OneCrash, spent.crashes = 0 PROVE UniqueIds
    OBVIOUS
  <2>2. Distinct /\ Joined \subseteq In
    BY <2>1 DEF OneCrash, Calm, Joined, In, Bounded
  <2>. QED  BY <2>2 DEF UniqueIds, Distinct
<1>. QED  BY <1>1, OneCrashInvariance, PTL
=============================================================================
