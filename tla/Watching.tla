------------------------------ MODULE Watching ------------------------------
(***************************************************************************)
(* The watcher of a client (client/watcher.cpp): inotify watches on every  *)
(* directory of sync_dir, added and removed by its thread from the events  *)
(* it reads, while the user makes, moves and removes directories and       *)
(* writes files in them.  The kernel's side, a queue of events of limited  *)
(* length and a watch per inode, is modelled from how the code uses it.    *)
(*                                                                         *)
(* Each directory has one file, always of the same name.                   *)
(***************************************************************************)
EXTENDS Naturals, Sequences, FiniteSets

CONSTANTS
    Dirs,        \* directories, as inodes
    Names,       \* their names
    Root,        \* sync_dir
    Outside,     \* the parent of a directory that is not in sync_dir
    QueueLimit,  \* inotify's limit on queued events
    MaxMoves,    \* bound on directories made, moved or removed
    MaxFileWrites,   \* bound on files written
    Away         \* the directories that are outside at first

VARIABLES
    parent, name,  \* the tree
    watch,         \* the kernel's watch on each directory, 0 if there is none
    lastWd,        \* the last watch descriptor handed out
    queue,         \* events waiting to be read
    dirs,          \* dirs_: the path of each watch descriptor
    thread,        \* what the watcher's thread does
    walk,          \* the paths watch_tree has still to visit
    unreported,    \* directories whose file has changed since it was last reported,
                   \* and Outside if files have vanished with a directory
    blind,         \* has an event about a directory been lost in an overflow?
    moves, written

watchVars == <<parent, name, watch, lastWd, queue, dirs, thread, walk, unreported, blind,
               moves, written>>

Events == [wd : Nat, kind : {"file", "in", "out", "ignored", "overflow"}, name : Names]

WatchTypeOK ==
    /\ parent \in [Dirs -> Dirs \cup {Root, Outside}] /\ name \in [Dirs -> Names]
    /\ watch \in [Dirs \cup {Root} -> 0..lastWd] /\ lastWd \in Nat
    /\ queue \in Seq(Events) /\ Len(queue) <= QueueLimit + 1
    /\ DOMAIN dirs \subseteq 1..lastWd /\ \A wd \in DOMAIN dirs : dirs[wd] \in Seq(Names)
    /\ thread \in {"idle", "add", "read", "report"} /\ walk \in Seq(Seq(Names))
    /\ walk # <<>> <=> thread \in {"add", "read"}
    /\ \A d, e \in DOMAIN watch : watch[d] = watch[e] /\ watch[d] # 0 => d = e
    /\ unreported \in SUBSET (Dirs \cup {Root, Outside}) /\ blind \in BOOLEAN
    /\ moves \in 0..MaxMoves /\ written \in 0..MaxFileWrites

\* The path of a directory in sync_dir; <<>> for one that is elsewhere.
PathOf[d \in Dirs] ==
    IF parent[d] = Root THEN <<name[d]>>
    ELSE IF parent[d] = Outside \/ PathOf[parent[d]] = <<>> THEN <<>>
    ELSE Append(PathOf[parent[d]], name[d])

InTree(d) == d \in {Root} \cup {e \in Dirs : PathOf[e] # <<>>}

\* The directories a path leads to: one, or none.
At(path) == IF path = <<>> THEN {Root} ELSE {d \in Dirs : PathOf[d] = path}

\* d and what is below it.
RECURSIVE Below(_)
Below(d) == {d} \cup UNION {Below(e) : e \in {f \in Dirs : parent[f] = d}}

\* start: watch the root and everything in it.
WatchInit ==
    /\ parent = [d \in Dirs |-> IF d \in Away THEN Outside ELSE Root]
    /\ name \in [Dirs -> Names]
    /\ \A d, e \in Dirs \ Away : name[d] = name[e] => d = e
    /\ watch = [d \in Dirs \cup {Root} |-> 0] /\ lastWd = 0
    /\ queue = <<>> /\ dirs = [wd \in {} |-> <<>>]
    /\ thread = "add" /\ walk = << <<>> >>
    /\ unreported = {} /\ blind = FALSE
    /\ moves = 0 /\ written = 0

-----------------------------------------------------------------------------
(* The user, and the kernel.                                                *)

\* An event on each of the watches given, in order; the first one that finds the
\* queue full is replaced by an overflow.
RECURSIVE Queued(_, _)
Queued(q, events) ==
    IF events = <<>> THEN q
    ELSE LET e == Head(events) IN
         Queued(IF e.wd = 0 \/ Len(q) > QueueLimit THEN q
                ELSE IF Len(q) = QueueLimit THEN Append(q, [e EXCEPT !.kind = "overflow"])
                ELSE Append(q, e),
                Tail(events))

\* One of the events finds no room.
DirEventLost(events) ==
    \E i \in 1..Len(events) :
        /\ events[i].wd # 0
        /\ Len(queue) + Cardinality({j \in 1..i : events[j].wd # 0}) > QueueLimit

WatchOf(d) == IF d = Outside THEN 0 ELSE watch[d]

\* A file is written and closed.
WriteFile(d) ==
    /\ written < MaxFileWrites /\ InTree(d)
    /\ written' = written + 1
    /\ \E n \in Names :
          queue' = Queued(queue, <<[wd |-> watch[d], kind |-> "file", name |-> n]>>)
    /\ unreported' = unreported \cup {d}
    /\ UNCHANGED <<parent, name, watch, lastWd, dirs, thread, walk, blind, moves>>

\* A directory is made, moved or renamed, with all that is in it, or moved away.
MoveDir(d, p, n) ==
    LET events == << [wd |-> WatchOf(parent[d]), kind |-> "out", name |-> name[d]],
                     [wd |-> WatchOf(p), kind |-> "in", name |-> n] >>
    IN
    /\ moves < MaxMoves
    /\ p \notin Below(d) /\ <<p, n>> # <<parent[d], name[d]>>
    /\ p # Outside => \A e \in Dirs \ {d} : parent[e] = p => name[e] # n
    /\ p = Outside => parent[d] # Outside
    /\ moves' = moves + 1
    /\ parent' = [parent EXCEPT ![d] = p] /\ name' = [name EXCEPT ![d] = n]
    /\ queue' = Queued(queue, events)
    /\ blind' = (blind \/ DirEventLost(events))
    /\ unreported' = unreported \cup (IF InTree(d) THEN {Outside} ELSE {})
                                \cup {e \in Below(d) : p = Root \/ (p \in Dirs /\ InTree(p))}
    /\ UNCHANGED <<watch, lastWd, dirs, thread, walk, written>>

\* A directory without others in it is removed with its file: its watch goes with
\* it, and the next one made will be another inode.
RemoveDir(d) ==
    LET events == << [wd |-> WatchOf(parent[d]), kind |-> "out", name |-> name[d]],
                     [wd |-> watch[d], kind |-> "ignored", name |-> name[d]] >>
    IN
    /\ moves < MaxMoves /\ InTree(d) /\ Below(d) = {d}
    /\ moves' = moves + 1
    /\ parent' = [parent EXCEPT ![d] = Outside]
    /\ watch' = [watch EXCEPT ![d] = 0]
    /\ queue' = Queued(queue, events)
    /\ blind' = (blind \/ DirEventLost(events))
    /\ unreported' = (unreported \ {d}) \cup {Outside}
    /\ UNCHANGED <<name, lastWd, dirs, thread, walk, written>>

-----------------------------------------------------------------------------
(* watch_tree.                                                              *)

\* Mutation of GoOn: the walk ends with the first directory.
GoOnOnce(rest) == walk' = rest /\ thread' = "report"

\* Mutation of GoOn: nothing is reported after the walk.
GoOnQuietly(rest) == walk' = rest /\ thread' = IF rest = <<>> THEN "idle" ELSE "add"

\* Where the walk goes on, and what comes after it.
GoOn(rest) == /\ walk' = rest
              /\ thread' = IF rest = <<>> THEN "report" ELSE "add"

\* inotify_add_watch: a directory that has a watch keeps it, under the new path.
AddWatch ==
    LET path == Head(walk) IN
    /\ thread = "add"
    /\ IF At(path) = {} THEN GoOn(Tail(walk)) /\ UNCHANGED <<watch, lastWd, dirs>>
       ELSE LET d  == CHOOSE e \in At(path) : TRUE
                wd == IF watch[d] # 0 THEN watch[d] ELSE lastWd + 1
            IN  /\ watch' = [watch EXCEPT ![d] = wd]
                /\ lastWd' = IF wd > lastWd THEN wd ELSE lastWd
                /\ dirs' = [w \in DOMAIN dirs \cup {wd} |-> IF w = wd THEN path ELSE dirs[w]]
                /\ thread' = "read" /\ UNCHANGED walk
    /\ UNCHANGED <<parent, name, queue, unreported, blind, moves, written>>

\* The subdirectories found by opendir and readdir are visited next.
ReadDir ==
    LET path == Head(walk)
        found == {n \in Names : At(Append(path, n)) # {}}
        Order == CHOOSE s \in [1..Cardinality(found) -> found] :
                    \A i, j \in DOMAIN s : s[i] = s[j] => i = j
    IN
    /\ thread = "read"
    /\ GoOn([i \in 1..Cardinality(found) |-> Append(path, Order[i])] \o Tail(walk))
    /\ UNCHANGED <<parent, name, watch, lastWd, queue, dirs, unreported, blind, moves, written>>

-----------------------------------------------------------------------------
(* loop.                                                                    *)

Inside(path, dir) == Len(path) >= Len(dir) /\ SubSeq(path, 1, Len(dir)) = dir

\* Mutation of Unwatch: only the directory itself.
UnwatchOne(path) ==
    LET out == {wd \in DOMAIN dirs \ {1} : dirs[wd] = path} IN
    /\ dirs' = [wd \in DOMAIN dirs \ out |-> dirs[wd]]
    /\ watch' = [d \in DOMAIN watch |-> IF watch[d] \in out THEN 0 ELSE watch[d]]

\* unwatch_tree.  The IN_IGNORED of a watch removed here will find nothing to erase.
Unwatch(path) ==
    LET out == {wd \in DOMAIN dirs \ {1} : Inside(dirs[wd], path)} IN
    /\ dirs' = [wd \in DOMAIN dirs \ out |-> dirs[wd]]
    /\ watch' = [d \in DOMAIN watch |-> IF watch[d] \in out THEN 0 ELSE watch[d]]

\* Read an event.  One of a watch that is not in dirs_ is dropped.
TakeEvent ==
    LET e == Head(queue)
        known == e.wd \in DOMAIN dirs
        path == Append(dirs[e.wd], e.name)
    IN
    /\ thread = "idle" /\ queue # <<>>
    /\ queue' = Tail(queue)
    /\ \/ /\ e.kind = "overflow"
          /\ thread' = "report"
          /\ UNCHANGED <<watch, dirs, walk, unreported>>
       \/ /\ e.kind = "ignored"
          /\ dirs' = [wd \in DOMAIN dirs \ {e.wd} |-> dirs[wd]]
          /\ UNCHANGED <<watch, thread, walk, unreported>>
       \/ /\ e.kind \in {"file", "in", "out"} /\ ~known
          /\ UNCHANGED <<watch, dirs, thread, walk, unreported>>
       \/ /\ e.kind = "file" /\ known
          /\ unreported' = unreported \ At(dirs[e.wd])
          /\ UNCHANGED <<watch, dirs, thread, walk>>
       \/ /\ e.kind = "in" /\ known
          /\ walk' = <<path>> /\ thread' = "add"
          /\ UNCHANGED <<watch, dirs, unreported>>
       \/ /\ e.kind = "out" /\ known
          /\ Unwatch(path)
          /\ thread' = "report"
          /\ UNCHANGED <<walk, unreported>>
    /\ UNCHANGED <<parent, name, lastWd, blind, moves, written>>

\* on_change_(""): a rescan of the whole tree; after start, the first reconcile.
ReportAll ==
    /\ thread = "report"
    /\ unreported' = {}
    /\ thread' = "idle"
    /\ UNCHANGED <<parent, name, watch, lastWd, queue, dirs, walk, blind, moves, written>>

WatchNext ==
    \/ \E d \in Dirs \cup {Root} : WriteFile(d)
    \/ \E d \in Dirs, p \in Dirs \cup {Root, Outside}, n \in Names : MoveDir(d, p, n)
    \/ \E d \in Dirs : RemoveDir(d)
    \/ AddWatch \/ ReadDir \/ TakeEvent \/ ReportAll

WatchSpec == WatchInit /\ [][WatchNext]_watchVars

-----------------------------------------------------------------------------
(* Properties.                                                              *)

Quiet == thread = "idle" /\ queue = <<>>

\* "Files in it may have appeared or vanished without events of their own" (loop):
\* when the watcher has read all there is to read, every change has been reported,
\* by an event under the path the file has now or by a rescan, however the
\* directories moved while it was adding watches.
NothingMissed == Quiet /\ ~blind => unreported = {}

\* "That's how renamed directories keep reporting the right paths" (watch_tree):
\* then exactly the directories of the tree are watched, each under its path.
PathsAreRight ==
    Quiet /\ ~blind =>
        \A d \in Dirs : IF InTree(d) THEN /\ watch[d] \in DOMAIN dirs
                                          /\ dirs[watch[d]] = PathOf[d]
                        ELSE watch[d] = 0
=============================================================================
