------------------------------ MODULE Service ------------------------------
(***************************************************************************)
(* How a server serves the clients of one user, apart from their files:    *)
(* login and account, session, sync connection, notices of the health      *)
(* monitor, and the ways all of it ends (server/server.cpp, sessions.cpp,  *)
(* health.cpp, accounts.cpp; connect_once, mark_disconnected, ping and     *)
(* transact of client/client.cpp).                                         *)
(*                                                                         *)
(* A call is one run of connect_once and what comes of it: the command     *)
(* connection with its serve_client thread, and the sync connection with   *)
(* its serve_sync thread.  Either connection may break at any time; which  *)
(* side finds out, and when, is left open.                                 *)
(***************************************************************************)
EXTENDS Naturals, FiniteSets

CONSTANTS
    Callers,     \* clients of the user
    Calls,       \* calls at one time; one is reused when all trace of it is gone
    Secrets,     \* passwords
    MaxSessions, \* MAX_SESSIONS_PER_USER
    MaxBreaks,   \* bound on connections that break or calls that time out
    MaxChecks,   \* bound on changes that the health monitor sees
    NoCall,      \* no connection
    NoSecret     \* no account, nobody

ASSUME ServiceAssumption ==
    /\ MaxBreaks \in Nat /\ MaxChecks \in Nat
    /\ NoCall \notin Calls /\ NoSecret \notin Secrets /\ NoSecret \notin Callers

VARIABLES
    secret,      \* the password each client uses
    account,     \* the record of the user's account
    primary,     \* is the server the primary?
    call,        \* the calls
    sessions,    \* sessions_: the calls with a session ...
    attached,    \* ... and those whose session has its sync connection
    line,        \* connected_, cmd_ and sync_ of each client
    held,        \* the cmd_ a client thread took for an exchange (transact, ping)
    hurt,        \* calls that broke, timed out or were ended by the server or the user
    trouble,     \* messages_: is the expected server reported missing?
    news,        \* the change that check is about to notify
    targets,     \* snapshot of all_sync_connections for it
    breaks, checks

serviceVars == <<secret, account, primary, call, sessions, attached, line, held, hurt,
                 trouble, news, targets, breaks, checks>>

\* cli: the client's side of the call.  srv: serve_client.  syn: serve_sync, which
\* holds the send lock while it is at "tell".  cmdUp, syncUp: can the connections
\* carry anything?  heard: the first message on the sync connection.  view: what
\* its notices say of the expected server.
Fresh == [who |-> NoSecret, cli |-> "none", srv |-> "none", syn |-> "none",
          cmdUp |-> FALSE, syncUp |-> FALSE, heard |-> "nothing", view |-> "fine"]

CallStates ==
    [who : Callers \cup {NoSecret},
     cli : {"none", "login", "attach", "on", "left"},
     srv : {"none", "login", "create", "verify", "open", "greet", "serve", "close", "done"},
     syn : {"none", "attach", "tell", "wait", "done"},
     cmdUp : BOOLEAN, syncUp : BOOLEAN,
     heard : {"nothing", "ok", "error", "push"},
     view : {"fine", "missing"}]

ServiceTypeOK ==
    /\ secret \in [Callers -> Secrets] /\ account \in Secrets \cup {NoSecret}
    /\ primary \in BOOLEAN
    /\ call \in [Calls -> CallStates]
    /\ sessions \in SUBSET Calls /\ attached \in SUBSET sessions
    /\ line \in [Callers -> Calls \cup {NoCall}]
    /\ held \in [Callers -> Calls \cup {NoCall}]
    /\ hurt \in SUBSET Calls
    /\ trouble \in {"fine", "missing"} /\ news \in {"none", "check", "send"}
    /\ targets \in SUBSET Calls
    /\ breaks \in 0..MaxBreaks /\ checks \in 0..MaxChecks

ServiceInit ==
    /\ secret \in [Callers -> Secrets] /\ account = NoSecret /\ primary = TRUE
    /\ call = [a \in Calls |-> Fresh]
    /\ sessions = {} /\ attached = {}
    /\ line = [p \in Callers |-> NoCall] /\ held = [p \in Callers |-> NoCall]
    /\ hurt = {}
    /\ trouble = "fine" /\ news = "none" /\ targets = {}
    /\ breaks = 0 /\ checks = 0

\* What an action about sessions and connections leaves alone.
healthVars == <<trouble, news, targets, checks>>
clientVars == <<secret, line, held>>

-----------------------------------------------------------------------------
(* The client.                                                              *)

\* connect_once: connect and send Login.
Dial(p, a) ==
    /\ line[p] = NoCall /\ call[a] = Fresh
    /\ \A b \in Calls : call[b].who = p => call[b].cli = "left"
    /\ call' = [call EXCEPT ![a] = [Fresh EXCEPT !.who = p, !.cli = "login",
                                                 !.srv = "login", !.cmdUp = TRUE]]
    /\ UNCHANGED <<clientVars, account, primary, sessions, attached, hurt, healthVars, breaks>>

\* LoginOk arrives: connect again and send SyncAttach with the token.
TokenArrives(a) ==
    /\ call[a].cli = "login" /\ call[a].srv \in {"serve", "close", "done"} /\ a \notin hurt
    /\ call' = [call EXCEPT ![a].cli = "attach", ![a].syn = "attach", ![a].syncUp = TRUE]
    /\ UNCHANGED <<clientVars, account, primary, sessions, attached, hurt, healthVars, breaks>>

\* The client closes both connections of a call.
Leave(f, a) == [f EXCEPT ![a].cli = "left", ![a].cmdUp = FALSE, ![a].syncUp = FALSE]

\* The call comes to nothing: an error, a redirect or anything but an Ok where
\* the Ok should be, a broken connection.
CallFails(a) ==
    /\ \/ call[a].cli = "login" /\ a \in hurt
       \/ call[a].cli = "attach" /\ (call[a].heard \in {"error", "push"} \/ ~call[a].syncUp)
    /\ call' = Leave(call, a)
    /\ hurt' = hurt \cup {a}
    /\ UNCHANGED <<clientVars, account, primary, sessions, attached, healthVars, breaks>>

\* ... or is given up after LOGIN_TIMEOUT_MS.
CallTimesOut(a) ==
    /\ call[a].cli \in {"login", "attach"} /\ breaks < MaxBreaks
    /\ breaks' = breaks + 1
    /\ call' = Leave(call, a)
    /\ hurt' = hurt \cup {a}
    /\ UNCHANGED <<clientVars, account, primary, sessions, attached, healthVars>>

\* The Ok arrives: the call becomes cmd_ and sync_.
Connected(a) ==
    /\ call[a].cli = "attach" /\ call[a].heard = "ok"
    /\ call' = [call EXCEPT ![a].cli = "on"]
    /\ line' = [line EXCEPT ![call[a].who] = a]
    /\ UNCHANGED <<secret, held, account, primary, sessions, attached, hurt, healthVars, breaks>>

\* transact and ping take the connection, and use it later.
TakeLine(p) ==
    /\ held[p] = NoCall /\ line[p] # NoCall
    /\ held' = [held EXCEPT ![p] = line[p]]
    /\ UNCHANGED <<secret, line, account, primary, call, sessions, attached, hurt, healthVars,
                   breaks>>

ExchangeOk(p) ==
    /\ held[p] # NoCall /\ call[held[p]].cmdUp
    /\ held' = [held EXCEPT ![p] = NoCall]
    /\ UNCHANGED <<secret, line, account, primary, call, sessions, attached, hurt, healthVars,
                   breaks>>

\* Mutation of MarkDisconnected: whatever connection is there is closed.
MarkAnyDisconnected(p, a) ==
    IF line[p] = NoCall THEN UNCHANGED <<line, call>>
    ELSE /\ line' = [line EXCEPT ![p] = NoCall]
         /\ call' = Leave(call, line[p])

\* mark_disconnected: only if a is still the connection in use.
MarkDisconnected(p, a) ==
    IF line[p] # a THEN UNCHANGED <<line, call>>
    ELSE /\ line' = [line EXCEPT ![p] = NoCall]
         /\ call' = Leave(call, a)

ExchangeFails(p) ==
    /\ held[p] # NoCall /\ ~call[held[p]].cmdUp
    /\ MarkDisconnected(p, held[p])
    /\ held' = [held EXCEPT ![p] = NoCall]
    /\ UNCHANGED <<secret, account, primary, sessions, attached, hurt, healthVars, breaks>>

\* receive_loop returns: sync_ is closed, or a ping on cmd_ failed.
LineLost(p) ==
    /\ line[p] # NoCall /\ ~(call[line[p]].cmdUp /\ call[line[p]].syncUp)
    /\ MarkDisconnected(p, line[p])
    /\ UNCHANGED <<secret, held, account, primary, sessions, attached, hurt, healthVars, breaks>>

\* shutdown: Logout, which ends serve_client, and then both connections.
Logout(p) ==
    LET a == line[p] IN
    /\ a # NoCall /\ call[a].srv = "serve" /\ call[a].cmdUp /\ held[p] = NoCall
    /\ call' = [Leave(call, a) EXCEPT ![a].srv = "close"]
    /\ line' = [line EXCEPT ![p] = NoCall]
    /\ hurt' = hurt \cup {a}
    /\ UNCHANGED <<secret, held, account, primary, sessions, attached, healthVars, breaks>>

-----------------------------------------------------------------------------
(* serve_client.                                                            *)

\* The server's answer is an error or a redirect, and it closes the connection.
Refused(f, a) == [f EXCEPT ![a].srv = "done", ![a].cmdUp = FALSE]

\* A redirect if this is not the primary; otherwise look the account up.
Answer(a) ==
    /\ call[a].srv = "login"
    /\ IF ~primary THEN call' = Refused(call, a) /\ hurt' = hurt \cup {a}
       ELSE /\ call' = [call EXCEPT ![a].srv = IF account = NoSecret THEN "create" ELSE "verify"]
            /\ UNCHANGED hurt
    /\ UNCHANGED <<clientVars, account, primary, sessions, attached, healthVars, breaks>>

\* Mutation of CreateAccount: whoever finds no account is let in.
CreateAccountBlindly(a) ==
    /\ call[a].srv = "create"
    /\ account' = IF account = NoSecret THEN secret[call[a].who] ELSE account
    /\ call' = [call EXCEPT ![a].srv = "open"]
    /\ UNCHANGED <<clientVars, primary, sessions, attached, hurt, healthVars, breaks>>

\* authenticate, first login: create fails if someone else was faster.
CreateAccount(a) ==
    /\ call[a].srv = "create"
    /\ account' = IF account = NoSecret THEN secret[call[a].who] ELSE account
    /\ call' = [call EXCEPT ![a].srv = IF account = NoSecret THEN "open" ELSE "verify"]
    /\ UNCHANGED <<clientVars, primary, sessions, attached, hurt, healthVars, breaks>>

\* Accounts::verify against the record read.
Verify(a) ==
    /\ call[a].srv = "verify"
    /\ IF account = secret[call[a].who]
         THEN call' = [call EXCEPT ![a].srv = "open"] /\ UNCHANGED hurt
         ELSE call' = Refused(call, a) /\ hurt' = hurt \cup {a}
    /\ UNCHANGED <<clientVars, account, primary, sessions, attached, healthVars, breaks>>

\* sessions_.open.
OpenSession(a) ==
    /\ call[a].srv = "open"
    /\ IF Cardinality(sessions) >= MaxSessions
         THEN call' = Refused(call, a) /\ hurt' = hurt \cup {a} /\ UNCHANGED sessions
         ELSE /\ sessions' = sessions \cup {a}
              /\ call' = [call EXCEPT ![a].srv = "greet"]
              /\ UNCHANGED hurt
    /\ UNCHANGED <<clientVars, account, primary, attached, healthVars, breaks>>

\* Mutation of Greet: serve_client returns when LoginOk cannot be sent.
GreetOrReturn(a) ==
    /\ call[a].srv = "greet"
    /\ call' = [call EXCEPT ![a].srv = IF call[a].cmdUp THEN "serve" ELSE "done"]
    /\ UNCHANGED <<clientVars, account, primary, sessions, attached, hurt, healthVars, breaks>>

\* Send LoginOk.
Greet(a) ==
    /\ call[a].srv = "greet"
    /\ call' = [call EXCEPT ![a].srv = IF call[a].cmdUp THEN "serve" ELSE "close"]
    /\ UNCHANGED <<clientVars, account, primary, sessions, attached, hurt, healthVars, breaks>>

\* Mutation of ServingEnds: requests are served whatever the role.
ServingEndsWhenClosed(a) ==
    /\ call[a].srv = "serve" /\ ~call[a].cmdUp
    /\ call' = [call EXCEPT ![a].srv = "close"]
    /\ hurt' = hurt \cup {a}
    /\ UNCHANGED <<clientVars, account, primary, sessions, attached, healthVars, breaks>>

\* The loop ends: the connection is closed, or nothing came for 30 s, or a
\* request (a ping, at least) finds that this is no longer the primary.
ServingEnds(a) ==
    /\ call[a].srv = "serve"
    /\ ~call[a].cmdUp \/ (~primary /\ call[a].cli = "on")
    /\ call' = [call EXCEPT ![a].srv = "close"]
    /\ hurt' = hurt \cup {a}
    /\ UNCHANGED <<clientVars, account, primary, sessions, attached, healthVars, breaks>>

\* Mutation of CloseSession: its sync connection stays in the table.
CloseSessionOnly(a) ==
    /\ call[a].srv = "close"
    /\ sessions' = sessions \ {a}
    /\ call' = [call EXCEPT ![a].srv = "done", ![a].cmdUp = FALSE]
    /\ UNCHANGED <<clientVars, account, primary, attached, hurt, healthVars, breaks>>

\* sessions_.close: the session goes, and both its connections are shut down.
CloseSession(a) ==
    /\ call[a].srv = "close"
    /\ sessions' = sessions \ {a} /\ attached' = attached \ {a}
    /\ call' = [call EXCEPT ![a].srv = "done", ![a].cmdUp = FALSE,
                            ![a].syncUp = @ /\ a \notin attached]
    /\ UNCHANGED <<clientVars, account, primary, hurt, healthVars, breaks>>

-----------------------------------------------------------------------------
(* serve_sync.                                                              *)

\* Take the send lock and attach, or answer "unknown session" and close.
AttachSync(a) ==
    /\ call[a].syn = "attach"
    /\ IF primary /\ a \in sessions
         THEN attached' = attached \cup {a} /\ call' = [call EXCEPT ![a].syn = "tell"]
         ELSE /\ call' = [call EXCEPT ![a].syn = "done", ![a].heard = "error"]
              /\ UNCHANGED attached
    /\ UNCHANGED <<clientVars, account, primary, sessions, hurt, healthVars, breaks>>

\* Mutation of TellProblems: the client waits for the next check.
TellNothing(a) ==
    /\ call[a].syn = "tell"
    /\ call' = [call EXCEPT ![a].syn = "wait",
                            ![a].heard = IF @ = "nothing" /\ call[a].syncUp THEN "ok" ELSE @]
    /\ UNCHANGED <<clientVars, account, primary, sessions, attached, hurt, healthVars, breaks>>

\* Ok first, then what is wrong at the moment; unlock.
TellProblems(a) ==
    /\ call[a].syn = "tell"
    /\ call' = [call EXCEPT ![a].syn = "wait", ![a].view = trouble,
                            ![a].heard = IF @ = "nothing" /\ call[a].syncUp THEN "ok" ELSE @]
    /\ UNCHANGED <<clientVars, account, primary, sessions, attached, hurt, healthVars, breaks>>

\* The wait without a timeout ends: detach_sync.
SyncEnds(a) ==
    /\ call[a].syn = "wait" /\ ~call[a].syncUp
    /\ call' = [call EXCEPT ![a].syn = "done"]
    /\ attached' = attached \ {a}
    /\ UNCHANGED <<clientVars, account, primary, sessions, hurt, healthVars, breaks>>

-----------------------------------------------------------------------------
(* HealthMonitor::check and push_notice.                                    *)

\* The expected server is found missing, or back: the message comes first, the
\* notices after it.
Check ==
    /\ news = "none" /\ checks < MaxChecks
    /\ checks' = checks + 1
    /\ trouble' = IF trouble = "fine" THEN "missing" ELSE "fine"
    /\ news' = "check"
    /\ UNCHANGED <<clientVars, account, primary, call, sessions, attached, hurt, targets, breaks>>

\* Only the primary has clients to tell; all_sync_connections.
PushNotice ==
    /\ news = "check"
    /\ news' = IF primary THEN "send" ELSE "none"
    /\ targets' = IF primary THEN attached ELSE {}
    /\ UNCHANGED <<clientVars, account, primary, call, sessions, attached, hurt, trouble, checks,
                   breaks>>

\* Mutation of LockFree: pushes do not wait for the send lock.
LockIgnored(a) == a \in Calls

\* serve_sync has released the send lock of this sync connection.
LockFree(a) == call[a].syn # "tell"

SendNotice(a) ==
    /\ news = "send" /\ a \in targets /\ LockFree(a)
    /\ call' = IF ~call[a].syncUp THEN call
               ELSE [call EXCEPT ![a].view = trouble,
                                 ![a].heard = IF @ = "nothing" THEN "push" ELSE @]
    /\ targets' = targets \ {a}
    /\ UNCHANGED <<clientVars, account, primary, sessions, attached, hurt, trouble, news, checks,
                   breaks>>

NoticesSent ==
    /\ news = "send" /\ targets = {}
    /\ news' = "none"
    /\ UNCHANGED <<clientVars, account, primary, call, sessions, attached, hurt, trouble, targets,
                   checks, breaks>>

-----------------------------------------------------------------------------
(* The environment.                                                         *)

\* A connection breaks, or an exchange on it takes too long for one side.
Break(a) ==
    /\ breaks < MaxBreaks /\ call[a].cli # "left"
    /\ breaks' = breaks + 1
    /\ \/ call[a].cmdUp /\ call' = [call EXCEPT ![a].cmdUp = FALSE]
       \/ call[a].syncUp /\ call' = [call EXCEPT ![a].syncUp = FALSE]
    /\ hurt' = hurt \cup {a}
    /\ UNCHANGED <<clientVars, account, primary, sessions, attached, healthVars>>

\* The server loses an election.
Demote ==
    /\ primary /\ breaks < MaxBreaks
    /\ primary' = FALSE /\ breaks' = breaks + 1
    /\ UNCHANGED <<clientVars, account, call, sessions, attached, hurt, healthVars>>

\* Nothing refers to the call any more.
Forget(a) ==
    /\ call[a].cli = "left" /\ call[a].srv = "done" /\ call[a].syn \in {"none", "done"}
    /\ a \notin targets /\ \A p \in Callers : held[p] # a
    /\ call' = [call EXCEPT ![a] = Fresh]
    /\ hurt' = hurt \ {a}
    /\ UNCHANGED <<clientVars, account, primary, sessions, attached, healthVars, breaks>>

-----------------------------------------------------------------------------
CallStep(a) ==
    \/ TokenArrives(a) \/ CallFails(a) \/ Connected(a)
    \/ Answer(a) \/ CreateAccount(a) \/ Verify(a) \/ OpenSession(a) \/ Greet(a)
    \/ ServingEnds(a) \/ CloseSession(a)
    \/ AttachSync(a) \/ TellProblems(a) \/ SyncEnds(a)
    \/ SendNotice(a) \/ Forget(a)

CallerStep(p) == ExchangeOk(p) \/ ExchangeFails(p) \/ LineLost(p)

ServiceNext ==
    \/ \E a \in Calls : CallStep(a) \/ CallTimesOut(a) \/ Break(a)
                        \/ \E p \in Callers : Dial(p, a)
    \/ \E p \in Callers : CallerStep(p) \/ TakeLine(p) \/ Logout(p)
    \/ Check \/ PushNotice \/ NoticesSent \/ Demote

ServiceSpec == ServiceInit /\ [][ServiceNext]_serviceVars

\* Threads run, every wait on a connection has a timeout or ends when the
\* connection is shut down, and a connected client pings.
ServiceFairness ==
    /\ \A a \in Calls : WF_serviceVars(CallStep(a))
    /\ \A p \in Callers : WF_serviceVars(CallerStep(p))
    /\ WF_serviceVars(PushNotice \/ NoticesSent)

-----------------------------------------------------------------------------
(* Properties.                                                              *)

\* "Hold the send lock so no push can get ahead of the Ok" (serve_sync): the
\* client, which takes the first message for the answer to SyncAttach, never
\* finds a push there.
OkComesFirst == \A a \in Calls : call[a].heard # "push"

\* However a login races the creation of the account by another one, nobody has
\* a session with a password that is not the account's (authenticate).
SessionsShareSecret ==
    \A a \in sessions : secret[call[a].who] = account

\* "A client connecting while the cluster is degraded hears about it now": when
\* the health monitor has nothing left to notify, every connected client knows
\* the present state, whichever way its attach interleaved with a check.
NoticesAreCurrent ==
    primary /\ news = "none" =>
        \A p \in Callers : line[p] # NoCall /\ call[line[p]].syncUp =>
            call[line[p]].view = trouble

\* The failure of an old exchange never takes down the connection made since
\* (mark_disconnected): a client gives up a call only if that call went wrong.
DroppedForCause == \A a \in Calls : call[a].cli = "left" => a \in hurt

\* A call the client has left is forgotten by the server: its threads end, though
\* serve_sync waits without a timeout, and its place among the user's sessions
\* is free again.  The calls are alike, so one of them stands for all.
LeftIsForgotten ==
    LET a == CHOOSE b \in Calls : TRUE IN
    call[a].cli = "left" ~> call[a].cli = "none" /\ a \notin sessions

\* "Make the client reconnect, it will be redirected to the new primary": a server
\* that is no longer the primary gets rid of all its sessions for good.
DemotedDrains == <>~primary => <>[](sessions = {})

-----------------------------------------------------------------------------
(* The inductive invariant behind the safety properties, in named parts.    *)

\* A call whose password was accepted, and nobody else, has a session; the record
\* of the account never changes once it is there.
SecretInv ==
    \A a \in Calls :
        /\ call[a].srv # "none" => call[a].who \in Callers
        /\ call[a].srv = "verify" => account # NoSecret
        /\ call[a].srv \in {"open", "greet", "serve", "close"} =>
              account = secret[call[a].who]
        /\ a \in sessions => call[a].srv \in {"greet", "serve", "close"}

\* How far the sync connection of a call is: nothing is heard on it before it is
\* attached, the Ok before it is unlocked, and it is in the table as long as it
\* can carry anything.
OrderInv ==
    \A a \in Calls :
        /\ call[a].cli \in {"none", "login"} => call[a].syn = "none"
        /\ call[a].cli = "none" => call[a].srv = "none"
        /\ call[a].syn \in {"none", "attach", "tell"} => call[a].heard = "nothing"
        /\ call[a].heard # "push"
        /\ call[a].syn \in {"wait", "done"} /\ call[a].syncUp => call[a].heard # "nothing"
        /\ call[a].heard = "ok" /\ call[a].syncUp => call[a].syn = "wait"
        /\ call[a].syn \in {"tell", "wait"} /\ call[a].syncUp => a \in attached
        /\ a \in attached \cup targets => call[a].syn \in {"tell", "wait", "done"}

\* The line of a client is a call of its own that was answered with Ok.
LineInv ==
    \A p \in Callers : line[p] # NoCall =>
        call[line[p]].cli = "on" /\ call[line[p]].who = p /\ call[line[p]].heard = "ok"

\* A connection only ceases to carry anything when the call went wrong.
CauseInv ==
    \A a \in Calls :
        /\ call[a].cli = "left" => a \in hurt
        /\ call[a].cli # "none" /\ ~call[a].cmdUp => a \in hurt
        /\ call[a].cli \in {"attach", "on"} /\ ~call[a].syncUp => a \in hurt
        /\ call[a].srv = "close" => a \in hurt

\* Who was told something else than the present state is about to be told.
NoticeInv ==
    primary => \A a \in Calls :
        call[a].syn = "wait" /\ call[a].syncUp =>
            \/ call[a].view = trouble
            \/ news = "check" \/ (news = "send" /\ a \in targets)

ServiceInv ==
    ServiceTypeOK /\ SecretInv /\ OrderInv /\ LineInv /\ CauseInv /\ NoticeInv
=============================================================================
