------------------------------- MODULE Cluster -------------------------------
(***************************************************************************)
(* Membership and election (server/cluster.cpp): how servers join and get  *)
(* an id, how a backup suspects the primary and calls a bully election,    *)
(* how the winner announces itself and attaches the others, how a primary  *)
(* steps down, and what this does to acknowledged changes.                 *)
(*                                                                         *)
(* A request to another server and its reply are one step, with what the   *)
(* handler at the other end does before it answers; what it leaves to a    *)
(* thread of its own is a task of that server.  The exchanges on a replica *)
(* link, which module Replication details, are one step here too.          *)
(* Timeouts expire when what they wait for cannot come any more, and at    *)
(* other times MaxDoubts times: see Doubt.                                 *)
(***************************************************************************)
EXTENDS Integers, FiniteSetsExt

CONSTANTS
    Servers,      \* server processes, each with its address
    First,        \* the one started without --join
    FirstId,      \* FIRST_ID
    Changes,      \* changes that clients make
    MaxCrashes,   \* bound: how many times a server dies
    MaxStarts,    \* bound: how many times one comes back
    MaxDoubts,    \* bound: how often a timeout expires on a server that is only slow
    Faults,       \* what else may happen: see JoinRead, Crash and Start
    None          \* null pointer, no server

ASSUME ClusterAssumption ==
    /\ IsFiniteSet(Servers) /\ First \in Servers
    /\ FirstId \in Nat \ {0}
    /\ MaxCrashes \in Nat /\ MaxStarts \in Nat /\ MaxDoubts \in Nat
    /\ None \notin Servers
    /\ Faults \subseteq {"joins_at_once", "crash_in_join", "quick_restart"}

VARIABLES
    up,        \* the running processes
    node,      \* what each process has in memory
    has,       \* what each disk holds: the changes it has seen
    acked,     \* changes whose client was told they succeeded
    spent      \* how much of each bound is used up

vars == <<up, node, has, acked, spent>>

Members == [id : 1..FirstId, srv : Servers]

\* A replica link: the member it leads to, and which of the connections to
\* that server it is.
Links == [id : 1..FirstId, srv : Servers, no : Nat]

\* Threads that are to attach a member: handle_join before and after add_member
\* ("admit", "join"), and the thread of handle_election before and after it
\* announces itself ("announce", "reassure").
Calls == [kind : {"admit", "join", "announce", "reassure"}, m : Members]

\* What a process has in memory.
Nodes ==
    [id : 0..FirstId, role : {"joining", "backup", "primary"},
     primary : Servers \cup {None}, primaryId : 0..FirstId, known : BOOLEAN,
     members : SUBSET Members, lowest : 0..FirstId, links : SUBSET Links,
     primaryLink : [srv : Servers, no : Nat] \cup {None}, seen : BOOLEAN,
     elect : [phase : {"none", "start", "ask", "announce", "attach", "broadcast"},
              todo : SUBSET (Members \cup Links), others : SUBSET Members,
              alive : BOOLEAN],
     calls : SUBSET Calls, owed : SUBSET [link : Links, list : SUBSET Members],
     att : [m : Members, no : Nat, by : Calls \cup {None}] \cup {None},
     request : BOOLEAN]

\* None is no value of what may be missing.
ASSUME NoneAssumption ==
    None \notin [srv : Servers, no : Nat] \cup Calls
                \cup [m : Members, no : Nat, by : Calls \cup {None}]

\* The election thread (electing_): "start", then members to "ask"; when none of
\* those answers, others to "announce" to and to "attach", then links to tell.
NotElecting == [phase |-> "none", todo |-> {}, others |-> {}, alive |-> FALSE]

\* A started process that is not in a cluster yet.
Fresh ==
    [id |-> 0, role |-> "joining", primary |-> None, primaryId |-> 0, known |-> FALSE,
     members |-> {}, lowest |-> 0, links |-> {}, primaryLink |-> None, seen |-> FALSE,
     elect |-> NotElecting, calls |-> {}, owed |-> {}, att |-> None, request |-> FALSE]

\* start_as_primary.
Founder ==
    [Fresh EXCEPT !.id = FirstId, !.role = "primary", !.primary = First,
                  !.primaryId = FirstId, !.known = TRUE, !.lowest = FirstId,
                  !.members = {[id |-> FirstId, srv |-> First]}]

Init ==
    /\ up = Servers
    /\ node = [s \in Servers |-> IF s = First THEN Founder ELSE Fresh]
    /\ has = [s \in Servers |-> {}]
    /\ acked = {}
    /\ spent = [crashes |-> 0, starts |-> 0, doubts |-> 0]

-----------------------------------------------------------------------------
(* What the handlers do to the memory of their server.                      *)

Self(s) == [id |-> node[s].id, srv |-> s]

\* upsert, remove_member.
Upsert(list, m) == {x \in list : x.id # m.id} \cup {m}
Without(list, i) == {x \in list : x.id # i}
Ids(list) == {x.id : x \in list}

\* add_member.
AddMember(n, m) ==
    [n EXCEPT !.members = Upsert(@, m),
              !.lowest = IF @ = 0 \/ m.id < @ THEN m.id ELSE @]

\* start_election: one election thread at a time.
StartElection(n) ==
    IF n.elect.phase = "none" THEN [n EXCEPT !.elect.phase = "start"] ELSE n

\* A primary that steps down forgets its links.
StepDown(n) ==
    [n EXCEPT !.role = "backup", !.links = IF n.role = "primary" THEN {} ELSE @]

Follow(n, leader) ==
    [StepDown(n) EXCEPT !.primary = leader.srv, !.primaryId = leader.id, !.known = TRUE,
                        !.seen = TRUE]

\* handle_coordinator.
HandleCoordinator(n, leader) ==
    IF leader.id < n.id THEN StartElection(n)
    ELSE [Follow(n, leader) EXCEPT !.members = Upsert(@, leader)]

\* handle_replica_attach, up to the manifest.
HandleReplicaAttach(n, leader, list, me, link) ==
    [Follow(n, leader) EXCEPT !.members = Upsert(list, me), !.primaryLink = link]

\* handle_election.
HandleElection(n, candidate) ==
    IF n.role = "primary"
      THEN [n EXCEPT !.calls = @ \cup {[kind |-> "announce", m |-> candidate]}]
      ELSE StartElection(n)

\* broadcast_membership: every link there is now is to get the list as it is now,
\* whatever other broadcasts bring it before.
Broadcast(n) == [n EXCEPT !.owed = @ \cup [link : n.links, list : {n.members}]]

\* Mutation of DropLink: the entry stays in links_.
DropMember(n, i) ==
    IF i \in Ids(n.links) THEN Broadcast([n EXCEPT !.members = Without(@, i)]) ELSE n

\* drop_link: whichever link has this id goes, and the member with it.
DropLink(n, i) ==
    IF i \in Ids(n.links)
      THEN Broadcast([n EXCEPT !.links = Without(@, i), !.members = Without(@, i)])
      ELSE n

\* become_primary goes from one loop to the next when nobody is left to call.
NextLoop(n) ==
    LET a == IF n.elect.phase = "announce" /\ n.elect.todo = {}
               THEN [n EXCEPT !.elect.phase = "attach", !.elect.todo = n.elect.others] ELSE n
        b == IF a.elect.phase = "attach" /\ a.elect.todo = {}
               THEN [a EXCEPT !.elect.phase = "broadcast", !.elect.todo = a.links,
                              !.elect.others = a.members] ELSE a
    IN  IF b.elect.phase = "broadcast" /\ b.elect.todo = {}
          THEN [b EXCEPT !.elect = NotElecting] ELSE b

Called(n, m) == NextLoop([n EXCEPT !.elect.todo = @ \ {m}])

-----------------------------------------------------------------------------
(* Connections.                                                             *)

\* A server accepts connections once it has joined.
Reachable(t) == t \in up /\ node[t].role # "joining"

\* Is this link, or attach in progress, what the backup listens to?
Live(p, l) == l.srv \in up /\ node[l.srv].primaryLink = [srv |-> p, no |-> l.no]

\* The backup's end: does the other server still use the connection?  Only a
\* primary sends heartbeats on its links.
Attached(b) ==
    LET c == node[b].primaryLink
        n == node[c.srv]
    IN  /\ c.srv \in up
        /\ \/ n.role = "primary" /\ \E l \in n.links : l.srv = b /\ l.no = c.no
           \/ n.att # None /\ n.att.m.srv = b /\ n.att.no = c.no

\* A number no connection to b has.
NewLinkTo(b) ==
    LET used == {l.no : l \in {x \in UNION {node[s].links : s \in Servers} : x.srv = b}}
                \cup {node[s].att.no : s \in {x \in Servers : node[x].att # None}}
                \cup {l.no : l \in {x.link : x \in {y \in UNION {node[s].owed : s \in Servers} :
                                                     y.link.srv = b}}}
                \cup (IF node[b].primaryLink = None THEN {} ELSE {node[b].primaryLink.no})
    IN  CHOOSE n \in 0..Cardinality(used) : n \notin used

-----------------------------------------------------------------------------
(* Joining.                                                                 *)

\* Mutation of IdsFor: 0 is not refused.
IdsForUnchecked(n, j) ==
    LET known == Ids({x \in n.members : x.srv = j})
    IN  IF known # {} THEN known ELSE {Min({n.lowest} \cup Ids(n.members)) - 1}

\* The ids handle_join may give: a server known under this address keeps its id;
\* another gets the next one down, and none when that would be 0.
IdsFor(n, j) ==
    LET known == Ids({x \in n.members : x.srv = j})
    IN  IF known # {} THEN known ELSE {Min({n.lowest} \cup Ids(n.members)) - 1} \ {0}

\* join and handle_join: the retries and redirects of join end at some primary,
\* which picks an id under mutex_.
JoinRead(p, j) ==
    /\ p \in up /\ node[p].role = "primary"
    /\ j \in up /\ node[j].role = "joining"
    /\ \A s \in up : \A t \in node[s].calls :
          t.kind = "admit" => "joins_at_once" \in Faults /\ t.m.srv # j
    /\ \E i \in IdsFor(node[p], j) :
          node' = [node EXCEPT
             ![p].lowest = IF j \in {x.srv : x \in node[p].members} THEN @
                           ELSE Min({@} \cup Ids(node[p].members)),
             ![p].calls = @ \cup {[kind |-> "admit", m |-> [id |-> i, srv |-> j]]}]
    /\ UNCHANGED <<up, has, acked, spent>>

\* add_member, under mutex_ again, and JoinOk.
JoinAdmit(p, t) ==
    /\ p \in up /\ t \in node[p].calls /\ t.kind = "admit"
    /\ LET n == [AddMember(node[p], t.m) EXCEPT
                    !.calls = (@ \ {t}) \cup {[t EXCEPT !.kind = "join"]}]
           j == t.m.srv
       IN  node' = IF j \in up /\ node[j].role = "joining"
             THEN [node EXCEPT
                     ![p] = n,
                     ![j] = [Fresh EXCEPT !.id = t.m.id, !.role = "backup", !.primary = p,
                                          !.primaryId = n.id, !.known = TRUE,
                                          !.members = {Self(p), t.m}]]
             ELSE [node EXCEPT ![p] = n]
    /\ UNCHANGED <<up, has, acked, spent>>

-----------------------------------------------------------------------------
(* attach_replica, called by the two kinds of task and by become_primary.   *)

\* What the caller does when attach_replica returns true ...
AttachSucceeded(n, m, no, by) ==
    LET r == [n EXCEPT !.att = None, !.calls = @ \ {by},
                       !.links = Upsert(@, [id |-> m.id, srv |-> m.srv, no |-> no])]
    IN  IF by = None THEN Called(r, m) ELSE Broadcast(r)

\* ... and when it returns false.
AttachFailed(n, m, by) ==
    LET r == [n EXCEPT !.att = None, !.calls = @ \ {by}, !.members = Without(@, m.id)]
    IN  CASE by = None -> Called(r, m)
          [] by # None /\ by.kind = "join" -> Broadcast(r)
          [] OTHER -> r

\* Lock write_mutex_, connect, and send ReplicaAttach: role_ is not looked at.
BeginAttach(p, m, by) ==
    /\ node[p].att = None
    /\ IF Reachable(m.srv)
         THEN LET no == NewLinkTo(m.srv) IN
              node' = [[node EXCEPT ![p].att = [m |-> m, no |-> no, by |-> by]]
                 EXCEPT ![m.srv] = HandleReplicaAttach(@, Self(p), node[p].members,
                                                       Self(m.srv), [srv |-> p, no |-> no])]
         ELSE node' = [node EXCEPT ![p] = AttachFailed(@, m, by)]
    /\ UNCHANGED <<up, has, acked, spent>>

CallAttach(p, t) ==
    /\ p \in up /\ t \in node[p].calls /\ t.kind \in {"join", "reassure"}
    /\ BeginAttach(p, t.m, t)

ElectAttach(s, m) ==
    /\ s \in up /\ node[s].elect.phase = "attach" /\ m \in node[s].elect.todo
    /\ BeginAttach(s, m, None)

\* Mutation of CopyTo: an attach does not bring the backup up to date.
CopyNothing(b, p) == has

\* What the disks hold once b has all that p has, and nothing else.
CopyTo(b, p) == [has EXCEPT ![b] = has[p]]

\* The lists compared, the missing files sent and the surplus deleted; or the
\* connection is gone.
EndAttach(p) ==
    /\ p \in up /\ node[p].att # None
    /\ LET a == node[p].att IN
       IF Live(p, [srv |-> a.m.srv, no |-> a.no])
         THEN /\ node' = [node EXCEPT ![p] = AttachSucceeded(@, a.m, a.no, a.by)]
              /\ has' = CopyTo(a.m.srv, p)
         ELSE /\ node' = [node EXCEPT ![p] = AttachFailed(@, a.m, a.by)]
              /\ UNCHANGED has
    /\ UNCHANGED <<up, acked, spent>>

-----------------------------------------------------------------------------
(* broadcast_membership, and the answer to a backup that suspects.           *)

\* A link that works gets the list; the other end keeps itself in it.  One that
\* does not work is dropped.
Tell(p, l, list, n) ==
    IF Live(p, l)
      THEN node' = [[node EXCEPT ![p] = n]
                       EXCEPT ![l.srv].members = Upsert(list, Self(l.srv))]
      ELSE node' = [node EXCEPT ![p] = DropLink(n, l.id)]

TellMembers(p, o) ==
    /\ p \in up /\ o \in node[p].owed
    /\ Tell(p, o.link, o.list, [node[p] EXCEPT !.owed = @ \ {o}])
    /\ UNCHANGED <<up, has, acked, spent>>

\* links_.count(id) > 0.
LinkedTo(n, i) == \E l \in n.links : l.id = i

\* announce_to(candidate), then attach it unless a link has its id already.
Reassure(p, t) ==
    /\ p \in up /\ t \in node[p].calls /\ t.kind = "announce"
    /\ LET r == [node[p] EXCEPT !.calls = @ \ {t}]
           n == IF LinkedTo(r, t.m.id) THEN r
                ELSE [AddMember(r, t.m) EXCEPT
                         !.calls = @ \cup {[t EXCEPT !.kind = "reassure"]}]
       IN  node' = IF Reachable(t.m.srv)
                     THEN [[node EXCEPT ![p] = n]
                              EXCEPT ![t.m.srv] = HandleCoordinator(@, Self(p))]
                     ELSE [node EXCEPT ![p] = n]
    /\ UNCHANGED <<up, has, acked, spent>>

-----------------------------------------------------------------------------
(* Failure detection.                                                       *)

\* A timeout expires although the other side is there, which is slow: it waits
\* for write_mutex_, hashes, or sends a file, whose parts do not count as heard.
Doubt == spent.doubts < MaxDoubts /\ spent' = [spent EXCEPT !.doubts = @ + 1]

Sure == UNCHANGED spent

\* The primary finds a link broken: a heartbeat, or a change that a client makes.
DetectDeadLink(p, l) ==
    /\ p \in up /\ node[p].role = "primary" /\ l \in node[p].links
    /\ IF Live(p, l) THEN Doubt ELSE Sure
    /\ node' = [node EXCEPT ![p] = DropLink(@, l.id)]
    /\ UNCHANGED <<up, has, acked>>

\* The backup sees its link closed, or nothing on it for BACKUP_IDLE_TIMEOUT_MS.
LinkLost(b) ==
    /\ b \in up /\ node[b].primaryLink # None
    /\ IF Attached(b) THEN Doubt ELSE Sure
    /\ node' = [node EXCEPT ![b] = StartElection([@ EXCEPT !.primaryLink = None])]
    /\ UNCHANGED <<up, has, acked>>

\* A link is about to come: ATTACH_GRACE, after JoinOk and after a Coordinator.
Expected(b) ==
    \E p \in up : \/ \E t \in node[p].calls : t.m.srv = b
                  \/ node[p].elect.phase \in {"announce", "attach"}
                     /\ \E m \in node[p].elect.others : m.srv = b

\* monitor_loop has heard nothing for PRIMARY_TIMEOUT.
Suspect(b) ==
    /\ b \in up /\ node[b].role = "backup" /\ node[b].elect.phase = "none"
    /\ IF node[b].primaryLink # None \/ Expected(b) THEN Doubt ELSE Sure
    /\ node' = [node EXCEPT ![b] = StartElection(@)]
    /\ UNCHANGED <<up, has, acked>>

-----------------------------------------------------------------------------
(* run_election and become_primary.                                         *)

\* Mutation of Higher: the comparison the other way round.
Lower(n) == {m \in n.members : m.id < n.id}

\* Members that outrank a server.
Higher(n) == {m \in n.members : m.id > n.id}

ElectStart(s) ==
    /\ s \in up /\ node[s].elect.phase = "start"
    /\ node' = IF node[s].role = "primary" THEN [node EXCEPT ![s].elect = NotElecting]
               ELSE [node EXCEPT
                  ![s].known = FALSE, ![s].seen = FALSE,
                  ![s].elect = [NotElecting EXCEPT
                     !.phase = "ask", !.todo = Higher(node[s])]]
    /\ UNCHANGED <<up, has, acked, spent>>

\* Mutation of HigherAlive: only the last answer counts.
LastAnswer(before, answered) == answered

\* higher_alive, after one more member was asked.
HigherAlive(before, answered) == before \/ answered

\* Election to a higher member, which answers if it can be reached, within
\* HEARTBEAT_TIMEOUT_MS or (a doubt) not.
Ask(s, m, answered) ==
    /\ s \in up /\ node[s].elect.phase = "ask" /\ m \in node[s].elect.todo
    /\ answered => Reachable(m.srv)
    /\ IF Reachable(m.srv) /\ ~answered THEN Doubt ELSE Sure
    /\ LET r == [node EXCEPT ![s].elect.todo = @ \ {m}, ![s].elect.alive = HigherAlive(@, answered)]
       IN  node' = IF Reachable(m.srv)
                     THEN [r EXCEPT ![m.srv] = HandleElection(@, Self(s))] ELSE r
    /\ UNCHANGED <<up, has, acked>>

\* Mutation of Announced: electing_ is not reset.
AnnouncedStuck(s) ==
    /\ s \in up /\ node[s].elect.phase = "ask" /\ node[s].elect.todo = {}
    /\ node[s].elect.alive /\ node[s].seen
    /\ UNCHANGED vars

\* A higher server answered, and then a Coordinator or a ReplicaAttach came.
Announced(s) ==
    /\ s \in up /\ node[s].elect.phase = "ask" /\ node[s].elect.todo = {}
    /\ node[s].elect.alive /\ node[s].seen
    /\ node' = [node EXCEPT ![s].elect = NotElecting]
    /\ UNCHANGED <<up, has, acked, spent>>

\* None came within COORDINATOR_WAIT.
WaitTimeout(s) ==
    /\ s \in up /\ node[s].elect.phase = "ask" /\ node[s].elect.todo = {}
    /\ node[s].elect.alive /\ ~node[s].seen
    /\ IF \E p \in up : \/ \E t \in node[p].calls : t.m.srv = s /\ t.kind = "announce"
                        \/ node[p].elect.phase = "announce"
                           /\ \E m \in node[p].elect.todo : m.srv = s
         THEN Doubt ELSE Sure
    /\ node' = [node EXCEPT ![s].elect.phase = "start"]
    /\ UNCHANGED <<up, has, acked>>

\* No higher server answered.  What happened since they were asked, role_ and
\* coordinator_seen_ included, is not looked at.
BecomePrimary(s) ==
    LET n      == node[s]
        list   == IF n.primaryId # n.id THEN Without(n.members, n.primaryId) ELSE n.members
        others == Without(list, n.id)
    IN  /\ s \in up /\ n.elect.phase = "ask" /\ n.elect.todo = {} /\ ~n.elect.alive
        /\ node' = [node EXCEPT ![s] = NextLoop(
              [n EXCEPT !.role = "primary", !.primary = s, !.primaryId = n.id,
                        !.known = TRUE, !.members = list, !.primaryLink = None,
                        !.lowest = Min({n.id} \cup Ids(list)),
                        !.elect = [NotElecting EXCEPT !.phase = "announce", !.todo = others,
                                                      !.others = others]])]
        /\ UNCHANGED <<up, has, acked, spent>>

\* announce_to every other member.
Announce(s, m) ==
    /\ s \in up /\ node[s].elect.phase = "announce" /\ m \in node[s].elect.todo
    /\ LET r == [node EXCEPT ![s] = Called(@, m)]
       IN  node' = IF Reachable(m.srv)
                     THEN [r EXCEPT ![m.srv] = HandleCoordinator(@, Self(s))] ELSE r
    /\ UNCHANGED <<up, has, acked, spent>>

ElectBroadcast(s, l) ==
    /\ s \in up /\ node[s].elect.phase = "broadcast" /\ l \in node[s].elect.todo
    /\ Tell(s, l, node[s].elect.others, Called(node[s], l))
    /\ UNCHANGED <<up, has, acked, spent>>

-----------------------------------------------------------------------------
(* Clients.                                                                 *)

\* serve_client reads a request and finds the server primary ...
Accept(s) ==
    /\ s \in up /\ node[s].role = "primary" /\ ~node[s].request
    /\ Changes \ UNION {has[x] : x \in Servers} # {}
    /\ node' = [node EXCEPT ![s].request = TRUE]
    /\ UNCHANGED <<up, has, acked, spent>>

\* Mutation of Receivers: the member list is looked at.
MembersReached(s) ==
    {l \in node[s].links : Live(s, l) /\ [id |-> l.id, srv |-> l.srv] \in node[s].members}

\* The links that a change reaches.
Receivers(s) == {l \in node[s].links : Live(s, l)}

\* ... and later, under write_mutex_, carries it out whatever role_ is by then:
\* the working links get the change, the others are dropped, the client is told.
Commit(s, v) ==
    LET n    == node[s]
        dead == {l \in n.links : ~Live(s, l)}
        r    == [n EXCEPT !.request = FALSE, !.links = @ \ dead,
                          !.members = {m \in @ : m.id \notin Ids(dead)}]
    IN  /\ s \in up /\ n.request /\ n.att = None
        /\ \A x \in Servers : v \notin has[x]
        /\ has' = [x \in Servers |-> IF x = s \/ x \in {l.srv : l \in Receivers(s)}
                                       THEN has[x] \cup {v} ELSE has[x]]
        /\ acked' = acked \cup {v}
        /\ node' = [node EXCEPT ![s] = IF dead = {} THEN r ELSE Broadcast(r)]
        /\ UNCHANGED <<up, spent>>

-----------------------------------------------------------------------------
(* Crashes and restarts.                                                    *)

Crash(s) ==
    /\ s \in up /\ spent.crashes < MaxCrashes
    /\ "crash_in_join" \in Faults \/ \A t \in node[s].calls : t.kind # "join"
    /\ up' = up \ {s}
    /\ node' = [node EXCEPT ![s] = Fresh]
    /\ spent' = [spent EXCEPT !.crashes = @ + 1]
    /\ UNCHANGED <<has, acked>>

\* A server comes back with --join, its disk as it was.
Start(s) ==
    /\ s \notin up /\ spent.starts < MaxStarts
    /\ "quick_restart" \in Faults
          \/ \A t \in up : /\ \A m \in node[t].members : m.srv # s
                         /\ \A c \in node[t].calls : c.m.srv # s
    /\ up' = up \cup {s}
    /\ spent' = [spent EXCEPT !.starts = @ + 1]
    /\ UNCHANGED <<node, has, acked>>

-----------------------------------------------------------------------------
PrimaryStep(p) ==
    \/ \E t \in node[p].calls : JoinAdmit(p, t) \/ CallAttach(p, t) \/ Reassure(p, t)
    \/ EndAttach(p)
    \/ \E o \in node[p].owed : TellMembers(p, o)
    \/ \E l \in node[p].links : DetectDeadLink(p, l)

BackupStep(b) == LinkLost(b) \/ Suspect(b)

ElectionStep(s) ==
    \/ ElectStart(s) \/ Announced(s) \/ WaitTimeout(s) \/ BecomePrimary(s)
    \/ \E m \in node[s].elect.todo :
          \/ \E answered \in BOOLEAN : Ask(s, m, answered)
          \/ Announce(s, m) \/ ElectAttach(s, m) \/ ElectBroadcast(s, m)

Next ==
    \E s \in Servers :
       \/ \E j \in Servers : JoinRead(s, j)
       \/ PrimaryStep(s) \/ BackupStep(s) \/ ElectionStep(s)
       \/ Accept(s) \/ \E v \in Changes : Commit(s, v)
       \/ Crash(s) \/ Start(s)

Spec == Init /\ [][Next]_vars

\* The threads of a running server go on.  Nothing says that servers join, that
\* clients make changes, or that a slow server is taken for dead.
CallStep(p) == \E t \in node[p].calls : JoinAdmit(p, t) \/ CallAttach(p, t) \/ Reassure(p, t)
TellStep(p) == \E o \in node[p].owed : TellMembers(p, o)
HeartbeatStep(p) == \E l \in node[p].links : DetectDeadLink(p, l) /\ Sure

Fairness ==
    \A s \in Servers :
       /\ WF_vars(CallStep(s)) /\ WF_vars(EndAttach(s)) /\ WF_vars(TellStep(s))
       /\ WF_vars(HeartbeatStep(s))
       /\ WF_vars(LinkLost(s) /\ Sure) /\ WF_vars(Suspect(s) /\ Sure)
       /\ WF_vars(ElectionStep(s) /\ Sure)

FairSpec == Spec /\ Fairness

-----------------------------------------------------------------------------
(* Properties.                                                              *)

Joined == {s \in up : node[s].role # "joining"}
Primaries == {s \in up : node[s].role = "primary"}

\* Every variable keeps its type: ids handed out stay between 1 and FIRST_ID
\* (handle_join subtracts 1 from an unsigned lowest_id_).
TypeOK ==
    /\ up \subseteq Servers
    /\ node \in [Servers -> Nodes]
    /\ has \in [Servers -> SUBSET Changes]
    /\ acked \subseteq Changes
    /\ spent \in [crashes : 0..MaxCrashes, starts : 0..MaxStarts, doubts : 0..MaxDoubts]

\* "A backup that wrongly suspects a live primary always asks it during the
\* election, so a second primary isn't elected" (README): two servers never act
\* as primary at the same time.
OnePrimary == Cardinality(Primaries) <= 1

\* "That keeps the primary at the highest id, which is the invariant the bully
\* algorithm relies on" (README): whoever acts as primary (become_primary,
\* start_as_primary) outranks every running server of the cluster, also those it
\* has not heard of.
HighestLeads == \A p \in Primaries : \A s \in Joined : s # p => node[s].id < node[p].id

\* "Each newcomer gets a lower id than everyone before it" (README, handle_join):
\* members_, links_ and the election tell servers apart by their ids.
UniqueIds == \A s, t \in Joined : s # t => node[s].id # node[t].id

\* "So any change a client was told succeeded is on every live server" (README):
\* whoever acts as primary, and from whom attach_replica copies to the others,
\* has every acknowledged change.
AckedKept == \A p \in Primaries : acked \subseteq has[p]

\* AckedKept, as long as at most one server has crashed.
OneCrashLosesNothing == spent.crashes <= 1 => AckedKept

\* A backup that listens on a link the primary writes to has all that the primary
\* has (attach_replica copies before the link goes live, replicate_put after).
LinkedHasAll ==
    \A p \in Primaries : \A l \in node[p].links : Live(p, l) => has[p] \subseteq has[l.srv]

\* One running server is the primary, and the others follow it.
Agreed ==
    \/ Joined = {}
    \/ \E p \in Joined : Primaries = {p} /\ \A s \in Joined : node[s].primary = p

\* The others also have a working link from it, and redirect clients to it.
Settled ==
    \/ Joined = {}
    \/ \E p \in Joined :
          /\ Primaries = {p}
          /\ \A s \in Joined \ {p} :
                /\ node[s].primary = p /\ node[s].known
                /\ \E l \in node[p].links : l.srv = s /\ Live(p, l)

\* "The cluster survives crashes" (README): elections end, and end for good with
\* one primary that everyone follows.
FailsOver == <>[]Agreed

\* Whatever breaks the links of a cluster, all of its backups get one again.
Relinks == []<>Settled
=============================================================================
