---------------------------- MODULE ServiceProofs ----------------------------
(***************************************************************************)
(* Proofs about module Service, for any number of clients, calls,          *)
(* passwords and faults.  The inductive invariant is ServiceInv; each of   *)
(* its parts has a lemma that takes the actions one by one.                *)
(***************************************************************************)
EXTENDS Service, TLAPS

LEMMA ServiceInitInv == ServiceInit => ServiceInv
<1> SUFFICES ASSUME ServiceInit PROVE ServiceInv
  OBVIOUS
<1> USE ServiceAssumption DEF ServiceInit, Fresh
<1>1. ServiceTypeOK
  BY DEF ServiceTypeOK, CallStates
<1>2. SecretInv /\ OrderInv /\ LineInv /\ CauseInv /\ NoticeInv
  BY DEF SecretInv, OrderInv, LineInv, CauseInv, NoticeInv
<1> QED BY <1>1, <1>2 DEF ServiceInv

\* Replacing one call by another one keeps the type of the table.
LEMMA CallUpdate ==
  ASSUME NEW f \in [Calls -> CallStates], NEW a \in Calls, NEW r \in CallStates
  PROVE  [f EXCEPT ![a] = r] \in [Calls -> CallStates]
OBVIOUS

\* One field of a call may change to anything of its type.
LEMMA FieldUpdate ==
  ASSUME NEW g \in CallStates
  PROVE  /\ [g EXCEPT !.cli = "left"] \in CallStates
         /\ [g EXCEPT !.syn = "wait"] \in CallStates
         /\ \A b \in BOOLEAN : /\ [g EXCEPT !.cmdUp = b] \in CallStates
                              /\ [g EXCEPT !.syncUp = b] \in CallStates
         /\ \A h \in {"nothing", "ok", "error", "push"} : [g EXCEPT !.heard = h] \in CallStates
         /\ \A x \in {"fine", "missing"} : [g EXCEPT !.view = x] \in CallStates
<1> USE DEF CallStates
<1>1. [g EXCEPT !.cli = "left"] \in CallStates
  OBVIOUS
<1>2. [g EXCEPT !.syn = "wait"] \in CallStates
  OBVIOUS
<1>3. ASSUME NEW b \in BOOLEAN PROVE [g EXCEPT !.cmdUp = b] \in CallStates
  OBVIOUS
<1>4. ASSUME NEW b \in BOOLEAN PROVE [g EXCEPT !.syncUp = b] \in CallStates
  OBVIOUS
<1>5. ASSUME NEW h \in {"nothing", "ok", "error", "push"} PROVE [g EXCEPT !.heard = h] \in CallStates
  OBVIOUS
<1>6. ASSUME NEW x \in {"fine", "missing"} PROVE [g EXCEPT !.view = x] \in CallStates
  OBVIOUS
<1> HIDE DEF CallStates
<1> QED BY <1>1, <1>2, <1>3, <1>4, <1>5, <1>6

\* The state of a call that the client leaves, and of one that is told how things are.
LEMMA LeftState ==
  ASSUME NEW g \in CallStates
  PROVE  [g EXCEPT !.cli = "left", !.cmdUp = FALSE, !.syncUp = FALSE] \in CallStates
<1> DEFINE r == [g EXCEPT !.cli = "left"]
           q == [r EXCEPT !.cmdUp = FALSE]
<1>1. r \in CallStates
  BY FieldUpdate
<1> HIDE DEF r
<1>2. q \in CallStates
  BY <1>1, FieldUpdate
<1> HIDE DEF q
<1>3. [q EXCEPT !.syncUp = FALSE] \in CallStates
  BY <1>2, FieldUpdate
<1> QED BY <1>3, Zenon DEF q, r

LEMMA ToldState ==
  ASSUME NEW g \in CallStates, NEW x \in {"fine", "missing"},
         NEW h \in {"nothing", "ok", "error", "push"}
  PROVE  /\ [g EXCEPT !.syn = "wait", !.view = x, !.heard = h] \in CallStates
         /\ [g EXCEPT !.view = x, !.heard = h] \in CallStates
<1> DEFINE r == [g EXCEPT !.syn = "wait"]
           q == [r EXCEPT !.view = x]
           p == [g EXCEPT !.view = x]
<1>1. r \in CallStates /\ p \in CallStates
  BY FieldUpdate
<1> HIDE DEF r, p
<1>2. q \in CallStates
  BY <1>1, FieldUpdate
<1> HIDE DEF q
<1>3. [q EXCEPT !.heard = h] \in CallStates /\ [p EXCEPT !.heard = h] \in CallStates
  BY <1>1, <1>2, FieldUpdate
<1> QED BY <1>3, Zenon DEF q, r, p

\* So does leaving a call.
LEMMA LeaveType ==
  ASSUME NEW f \in [Calls -> CallStates], NEW a \in Calls
  PROVE  Leave(f, a) \in [Calls -> CallStates]
<1> DEFINE r == [f[a] EXCEPT !.cli = "left", !.cmdUp = FALSE, !.syncUp = FALSE]
<1>1. f[a] \in CallStates
  OBVIOUS
<1>2. r \in CallStates
  BY ONLY <1>1, LeftState
<1>3. Leave(f, a) = [f EXCEPT ![a] = r]
  BY DEF Leave
<1> HIDE DEF r
<1> QED BY <1>2, <1>3, CallUpdate

\* What a logout does to the call, and leaves alone.
LEMMA LogoutEffect ==
  ASSUME ServiceTypeOK, NEW p \in Callers, Logout(p), NEW a, a = line[p]
  PROVE  /\ a \in Calls /\ a # NoCall /\ call[a].srv = "serve" /\ call' \in [Calls -> CallStates]
         /\ call'[a].cli = "left" /\ call'[a].srv = "close" /\ ~call'[a].cmdUp /\ ~call'[a].syncUp
         /\ call'[a].who = call[a].who /\ call'[a].syn = call[a].syn
         /\ call'[a].heard = call[a].heard /\ call'[a].view = call[a].view
         /\ \A b \in Calls \ {a} : call'[b] = call[b]
         /\ line' = [line EXCEPT ![p] = NoCall] /\ hurt' = hurt \cup {a}
         /\ UNCHANGED <<secret, held, account, primary, sessions, attached, healthVars, breaks>>
<1>1. a \in Calls /\ a # NoCall /\ call[a].srv = "serve" /\ call \in [Calls -> CallStates]
  BY DEF ServiceTypeOK, Logout
<1>2. /\ line' = [line EXCEPT ![p] = NoCall] /\ hurt' = hurt \cup {a}
      /\ UNCHANGED <<secret, held, account, primary, sessions, attached, healthVars, breaks>>
      /\ call' = [Leave(call, a) EXCEPT ![a].srv = "close"]
  BY DEF Logout
<1> DEFINE q == [call[a] EXCEPT !.cli = "left", !.cmdUp = FALSE, !.syncUp = FALSE]
           r == [q EXCEPT !.srv = "close"]
<1>3. call[a] \in CallStates
  BY <1>1
<1>4. q \in CallStates
  BY <1>3, LeftState
<1>5. /\ q.cli = "left" /\ ~q.cmdUp /\ ~q.syncUp /\ q.who = call[a].who /\ q.syn = call[a].syn
      /\ q.heard = call[a].heard /\ q.view = call[a].view
  BY <1>3 DEF CallStates
<1>6. call' = [call EXCEPT ![a] = r]
  BY <1>1, <1>2 DEF Leave
<1> HIDE DEF q
<1>7. r \in CallStates /\ r.srv = "close"
  BY <1>4 DEF CallStates
<1>8. /\ r.cli = q.cli /\ r.cmdUp = q.cmdUp /\ r.syncUp = q.syncUp /\ r.who = q.who
      /\ r.syn = q.syn /\ r.heard = q.heard /\ r.view = q.view
  BY <1>4 DEF CallStates
<1> HIDE DEF r
<1>9. call' \in [Calls -> CallStates] /\ call'[a] = r /\ \A b \in Calls \ {a} : call'[b] = call[b]
  BY ONLY <1>1, <1>6, <1>7
<1> QED BY ONLY <1>1, <1>2, <1>5, <1>7, <1>8, <1>9

\* Every action keeps every variable in its type.
LEMMA ServiceTypeStep ==
  ServiceTypeOK /\ SecretInv /\ [ServiceNext]_serviceVars => ServiceTypeOK'
<1> SUFFICES ASSUME ServiceTypeOK, SecretInv, [ServiceNext]_serviceVars
             PROVE ServiceTypeOK'
  OBVIOUS
<1> USE ServiceAssumption DEF ServiceTypeOK, CallStates, clientVars, healthVars
<1>1. ASSUME NEW p \in Callers, NEW a \in Calls, Dial(p, a) PROVE ServiceTypeOK'
  BY <1>1 DEF Dial, Fresh
<1>2. ASSUME NEW a \in Calls, TokenArrives(a) PROVE ServiceTypeOK'
<2>1. call' \in [Calls -> CallStates]
<3> DEFINE r == [call[a] EXCEPT !.cli = "attach", !.syn = "attach", !.syncUp = TRUE]
<3>1. call[a] \in CallStates
  OBVIOUS
<3>2. r \in CallStates
  BY <3>1 DEF CallStates
<3>3. call' = [call EXCEPT ![a] = r]
  BY <1>2 DEF TokenArrives
<3> HIDE DEF r, CallStates
<3> QED BY <3>2, <3>3, CallUpdate
<2>2. UNCHANGED <<secret, account, primary, sessions, attached, line, held,
                  hurt, trouble, news, targets, breaks, checks>>
  BY <1>2, Zenon DEF TokenArrives
<2> QED BY ONLY ServiceTypeOK, <2>1, <2>2, Zenon DEF ServiceTypeOK
<1>3. ASSUME NEW a \in Calls, CallFails(a) PROVE ServiceTypeOK'
<2>1. call' \in [Calls -> CallStates]
  BY <1>3, LeaveType DEF CallFails
<2>2. UNCHANGED <<secret, account, primary, sessions, attached, line, held,
                  trouble, news, targets, breaks, checks>>
  BY <1>3, Zenon DEF CallFails, Leave
<2>3. hurt' \in SUBSET Calls
  BY <1>3 DEF CallFails, Leave
<2> QED BY ONLY ServiceTypeOK, <2>1, <2>2, <2>3, Zenon DEF ServiceTypeOK
<1>4. ASSUME NEW a \in Calls, CallTimesOut(a) PROVE ServiceTypeOK'
<2>1. call' \in [Calls -> CallStates]
  BY <1>4, LeaveType DEF CallTimesOut
<2>2. UNCHANGED <<secret, account, primary, sessions, attached, line, held,
                  trouble, news, targets, checks>>
  BY <1>4, Zenon DEF CallTimesOut, Leave
<2>3. hurt' \in SUBSET Calls /\ breaks' \in 0..MaxBreaks
  BY <1>4 DEF CallTimesOut, Leave
<2> QED BY ONLY ServiceTypeOK, <2>1, <2>2, <2>3, Zenon DEF ServiceTypeOK
<1>5. ASSUME NEW a \in Calls, Connected(a) PROVE ServiceTypeOK'
<2>1. call' \in [Calls -> CallStates]
  BY <1>5, SMTT(60) DEF Connected
<2>2. UNCHANGED <<secret, account, primary, sessions, attached, held, hurt,
                  trouble, news, targets, breaks, checks>>
  BY <1>5, Zenon DEF Connected
<2>3. line' \in [Callers -> Calls \cup {NoCall}]
  BY <1>5 DEF Connected
<2> QED BY ONLY ServiceTypeOK, <2>1, <2>2, <2>3, Zenon DEF ServiceTypeOK
<1>6. ASSUME NEW a \in Calls, Answer(a) PROVE ServiceTypeOK'
  BY <1>6 DEF Answer, Refused
<1>7. ASSUME NEW a \in Calls, CreateAccount(a) PROVE ServiceTypeOK'
<2>1. call' \in [Calls -> CallStates]
  BY <1>7, SMTT(60) DEF CreateAccount
<2>2. UNCHANGED <<secret, primary, sessions, attached, line, held, hurt,
                  trouble, news, targets, breaks, checks>>
  BY <1>7, Zenon DEF CreateAccount
<2>3. account' \in Secrets \cup {NoSecret}
<3>1. call[a].who \in Callers
  BY <1>7 DEF CreateAccount, SecretInv
<3> QED BY <1>7, <3>1 DEF CreateAccount
<2> QED BY ONLY ServiceTypeOK, <2>1, <2>2, <2>3, Zenon DEF ServiceTypeOK
<1>8. ASSUME NEW a \in Calls, Verify(a) PROVE ServiceTypeOK'
  BY <1>8 DEF Verify, Refused
<1>9. ASSUME NEW a \in Calls, OpenSession(a) PROVE ServiceTypeOK'
  BY <1>9 DEF OpenSession, Refused
<1>10. ASSUME NEW a \in Calls, Greet(a) PROVE ServiceTypeOK'
  BY <1>10 DEF Greet
<1>11. ASSUME NEW a \in Calls, ServingEnds(a) PROVE ServiceTypeOK'
  BY <1>11 DEF ServingEnds
<1>12. ASSUME NEW a \in Calls, CloseSession(a) PROVE ServiceTypeOK'
<2>1. call' \in [Calls -> CallStates]
<3> DEFINE r == [call[a] EXCEPT !.srv = "done", !.cmdUp = FALSE,
                             !.syncUp = @ /\ a \notin attached]
<3>1. call[a] \in CallStates
  OBVIOUS
<3>2. r \in CallStates
  BY <3>1 DEF CallStates
<3>3. call' = [call EXCEPT ![a] = r]
  BY <1>12 DEF CloseSession
<3> HIDE DEF r, CallStates
<3> QED BY <3>2, <3>3, CallUpdate
<2>2. UNCHANGED <<secret, account, primary, line, held, hurt, trouble, news,
                  targets, breaks, checks>>
  BY <1>12, Zenon DEF CloseSession
<2>3. sessions' \in SUBSET Calls /\ attached' \in SUBSET sessions'
  BY <1>12 DEF CloseSession
<2> QED BY ONLY ServiceTypeOK, <2>1, <2>2, <2>3, Zenon DEF ServiceTypeOK
<1>13. ASSUME NEW a \in Calls, AttachSync(a) PROVE ServiceTypeOK'
  BY <1>13 DEF AttachSync
<1>14. ASSUME NEW a \in Calls, TellProblems(a) PROVE ServiceTypeOK'
<2>1. call' \in [Calls -> CallStates]
<3> DEFINE h == IF call[a].heard = "nothing" /\ call[a].syncUp THEN "ok" ELSE call[a].heard
           r == [call[a] EXCEPT !.syn = "wait", !.view = trouble, !.heard = h]
<3>0. call[a] \in CallStates
  BY ONLY call \in [Calls -> CallStates], a \in Calls
<3>1. call[a] \in CallStates /\ h \in {"nothing", "ok", "error", "push"}
         /\ trouble \in {"fine", "missing"}
<4>1. call[a].heard \in {"nothing", "ok", "error", "push"}
  BY ONLY <3>0 DEF CallStates
<4> QED BY <3>0, <4>1
<3> HIDE DEF h, CallStates
<3>2. r \in CallStates
  BY <3>1, ToldState
<3> USE DEF h, CallStates
<3>3. call' = [call EXCEPT ![a] = r]
  BY <1>14 DEF TellProblems
<3> HIDE DEF r, CallStates
<3> QED BY <3>2, <3>3, CallUpdate
<2>2. UNCHANGED <<secret, account, primary, sessions, attached, line, held,
                  hurt, trouble, news, targets, breaks, checks>>
  BY <1>14, Zenon DEF TellProblems
<2> QED BY ONLY ServiceTypeOK, <2>1, <2>2, Zenon DEF ServiceTypeOK
<1>15. ASSUME NEW a \in Calls, SyncEnds(a) PROVE ServiceTypeOK'
  BY <1>15 DEF SyncEnds
<1>16. ASSUME NEW a \in Calls, SendNotice(a) PROVE ServiceTypeOK'
<2>1. call' \in [Calls -> CallStates]
<3> DEFINE h == IF call[a].heard = "nothing" THEN "push" ELSE call[a].heard
           r == [call[a] EXCEPT !.view = trouble, !.heard = h]
<3>0. call[a] \in CallStates
  BY ONLY call \in [Calls -> CallStates], a \in Calls
<3>1. call[a] \in CallStates /\ h \in {"nothing", "ok", "error", "push"}
         /\ trouble \in {"fine", "missing"}
<4>1. call[a].heard \in {"nothing", "ok", "error", "push"}
  BY ONLY <3>0 DEF CallStates
<4> QED BY <3>0, <4>1
<3> HIDE DEF h, CallStates
<3>2. r \in CallStates
  BY <3>1, ToldState
<3> USE DEF h, CallStates
<3>3. call' = call \/ call' = [call EXCEPT ![a] = r]
  BY <1>16 DEF SendNotice
<3> HIDE DEF r, CallStates
<3> QED BY <3>2, <3>3, CallUpdate
<2>2. UNCHANGED <<secret, account, primary, sessions, attached, line, held,
                  hurt, trouble, news, breaks, checks>>
  BY <1>16, Zenon DEF SendNotice, LockFree
<2>3. targets' \in SUBSET Calls
  BY <1>16 DEF SendNotice, LockFree
<2> QED BY ONLY ServiceTypeOK, <2>1, <2>2, <2>3, Zenon DEF ServiceTypeOK
<1>17. ASSUME NEW a \in Calls, Forget(a) PROVE ServiceTypeOK'
  BY <1>17 DEF Forget, Fresh
<1>18. ASSUME NEW a \in Calls, Break(a) PROVE ServiceTypeOK'
<2>1. call' \in [Calls -> CallStates]
<3> DEFINE r == [call[a] EXCEPT !.cmdUp = FALSE]
           q == [call[a] EXCEPT !.syncUp = FALSE]
<3>1. call[a] \in CallStates
  OBVIOUS
<3>2. r \in CallStates /\ q \in CallStates
  BY <3>1 DEF CallStates
<3>3. call' = [call EXCEPT ![a] = r] \/ call' = [call EXCEPT ![a] = q]
  BY <1>18 DEF Break
<3> HIDE DEF r, q, CallStates
<3> QED BY <3>2, <3>3, CallUpdate
<2>2. UNCHANGED <<secret, account, primary, sessions, attached, line, held,
                  trouble, news, targets, checks>>
  BY <1>18, Zenon DEF Break
<2>3. hurt' \in SUBSET Calls /\ breaks' \in 0..MaxBreaks
  BY <1>18 DEF Break
<2> QED BY ONLY ServiceTypeOK, <2>1, <2>2, <2>3, Zenon DEF ServiceTypeOK
<1>19. ASSUME NEW p \in Callers, TakeLine(p) PROVE ServiceTypeOK'
  BY <1>19 DEF TakeLine
<1>20. ASSUME NEW p \in Callers, ExchangeOk(p) PROVE ServiceTypeOK'
  BY <1>20 DEF ExchangeOk
<1>21. ASSUME NEW p \in Callers, ExchangeFails(p) PROVE ServiceTypeOK'
<2>1. call' \in [Calls -> CallStates]
  BY <1>21, LeaveType DEF ExchangeFails, MarkDisconnected
<2>2. UNCHANGED <<secret, account, primary, sessions, attached, hurt, trouble,
                  news, targets, breaks, checks>>
  BY <1>21, Zenon DEF ExchangeFails
<2>3. line' \in [Callers -> Calls \cup {NoCall}] /\ held' \in [Callers -> Calls \cup {NoCall}]
  BY <1>21 DEF ExchangeFails, MarkDisconnected
<2> QED BY ONLY ServiceTypeOK, <2>1, <2>2, <2>3, Zenon DEF ServiceTypeOK
<1>22. ASSUME NEW p \in Callers, LineLost(p) PROVE ServiceTypeOK'
  BY <1>22 DEF LineLost, MarkDisconnected, Leave
<1>23. ASSUME NEW p \in Callers, Logout(p) PROVE ServiceTypeOK'
<2>1. PICK a : a = line[p]
  OBVIOUS
<2>2. /\ a \in Calls /\ call' \in [Calls -> CallStates] /\ hurt' = hurt \cup {a}
      /\ line' = [line EXCEPT ![p] = NoCall]
      /\ UNCHANGED <<secret, held, account, primary, sessions, attached, healthVars, breaks>>
  BY ONLY <1>23, <2>1, ServiceTypeOK, LogoutEffect
<2>3. line' \in [Callers -> Calls \cup {NoCall}] /\ hurt' \in SUBSET Calls
  BY ONLY <2>2, ServiceTypeOK DEF ServiceTypeOK
<2> QED BY ONLY ServiceTypeOK, <2>2, <2>3, Zenon DEF ServiceTypeOK, healthVars
<1>24. CASE Check
  BY <1>24 DEF Check
<1>25. CASE PushNotice
  BY <1>25 DEF PushNotice
<1>26. CASE NoticesSent
  BY <1>26 DEF NoticesSent
<1>27. CASE Demote
<2>1. primary' \in BOOLEAN
  BY <1>27, Zenon DEF Demote
<2>2. breaks' \in 0..MaxBreaks
  BY <1>27 DEF Demote
<2>3. UNCHANGED <<secret, account, call, sessions, attached, line, held, hurt,
                  trouble, news,
                  targets, checks>>
  BY <1>27, Zenon DEF Demote
<2> QED BY ONLY ServiceTypeOK, <2>1, <2>2, <2>3, Zenon DEF ServiceTypeOK
<1>28. CASE UNCHANGED serviceVars
  BY <1>28 DEF serviceVars
<1> QED BY <1>1, <1>2, <1>3, <1>4, <1>5, <1>6, <1>7, <1>8, <1>9, <1>10, <1>11, <1>12,
   <1>13, <1>14, <1>15, <1>16, <1>17, <1>18, <1>19, <1>20, <1>21, <1>22, <1>23, <1>24,
   <1>25, <1>26, <1>27, <1>28 DEF ServiceNext, CallStep, CallerStep

\* Only a password that is the account's gets a call past the login.
LEMMA SecretStep ==
  ServiceTypeOK /\ SecretInv /\ [ServiceNext]_serviceVars => SecretInv'
<1> SUFFICES ASSUME ServiceTypeOK, SecretInv, [ServiceNext]_serviceVars
             PROVE SecretInv'
  OBVIOUS
<1> USE ServiceAssumption DEF ServiceTypeOK, CallStates, SecretInv, clientVars, healthVars
<1>1. ASSUME NEW p \in Callers, NEW a \in Calls, Dial(p, a) PROVE SecretInv'
  BY <1>1 DEF Dial, Fresh
<1>2. ASSUME NEW a \in Calls, TokenArrives(a) PROVE SecretInv'
  BY <1>2 DEF TokenArrives
<1>3. ASSUME NEW a \in Calls, CallFails(a) PROVE SecretInv'
  BY <1>3 DEF CallFails, Leave
<1>4. ASSUME NEW a \in Calls, CallTimesOut(a) PROVE SecretInv'
  BY <1>4 DEF CallTimesOut, Leave
<1>5. ASSUME NEW a \in Calls, Connected(a) PROVE SecretInv'
  BY <1>5 DEF Connected
<1>6. ASSUME NEW a \in Calls, Answer(a) PROVE SecretInv'
  BY <1>6 DEF Answer, Refused
<1>7. ASSUME NEW a \in Calls, CreateAccount(a) PROVE SecretInv'
  BY <1>7 DEF CreateAccount
<1>8. ASSUME NEW a \in Calls, Verify(a) PROVE SecretInv'
  BY <1>8 DEF Verify, Refused
<1>9. ASSUME NEW a \in Calls, OpenSession(a) PROVE SecretInv'
  BY <1>9 DEF OpenSession, Refused
<1>10. ASSUME NEW a \in Calls, Greet(a) PROVE SecretInv'
  BY <1>10 DEF Greet
<1>11. ASSUME NEW a \in Calls, ServingEnds(a) PROVE SecretInv'
  BY <1>11 DEF ServingEnds
<1>12. ASSUME NEW a \in Calls, CloseSession(a) PROVE SecretInv'
  BY <1>12 DEF CloseSession
<1>13. ASSUME NEW a \in Calls, AttachSync(a) PROVE SecretInv'
  BY <1>13 DEF AttachSync
<1>14. ASSUME NEW a \in Calls, TellProblems(a) PROVE SecretInv'
  BY <1>14 DEF TellProblems
<1>15. ASSUME NEW a \in Calls, SyncEnds(a) PROVE SecretInv'
  BY <1>15 DEF SyncEnds
<1>16. ASSUME NEW a \in Calls, SendNotice(a) PROVE SecretInv'
  BY <1>16 DEF SendNotice, LockFree
<1>17. ASSUME NEW a \in Calls, Forget(a) PROVE SecretInv'
  BY <1>17 DEF Forget, Fresh
<1>18. ASSUME NEW a \in Calls, Break(a) PROVE SecretInv'
  BY <1>18 DEF Break
<1>19. ASSUME NEW p \in Callers, TakeLine(p) PROVE SecretInv'
  BY <1>19 DEF TakeLine
<1>20. ASSUME NEW p \in Callers, ExchangeOk(p) PROVE SecretInv'
  BY <1>20 DEF ExchangeOk
<1>21. ASSUME NEW p \in Callers, ExchangeFails(p) PROVE SecretInv'
  BY <1>21 DEF ExchangeFails, MarkDisconnected, Leave
<1>22. ASSUME NEW p \in Callers, LineLost(p) PROVE SecretInv'
  BY <1>22 DEF LineLost, MarkDisconnected, Leave
<1>23. ASSUME NEW p \in Callers, Logout(p) PROVE SecretInv'
<2>1. PICK a : a = line[p]
  OBVIOUS
<2> HIDE DEF CallStates
<2> QED BY <1>23, <2>1, LogoutEffect
<1>24. CASE Check
  BY <1>24 DEF Check
<1>25. CASE PushNotice
  BY <1>25 DEF PushNotice
<1>26. CASE NoticesSent
  BY <1>26 DEF NoticesSent
<1>27. CASE Demote
  BY <1>27 DEF Demote
<1>28. CASE UNCHANGED serviceVars
  BY <1>28 DEF serviceVars
<1> QED BY <1>1, <1>2, <1>3, <1>4, <1>5, <1>6, <1>7, <1>8, <1>9, <1>10, <1>11, <1>12,
   <1>13, <1>14, <1>15, <1>16, <1>17, <1>18, <1>19, <1>20, <1>21, <1>22, <1>23, <1>24,
   <1>25, <1>26, <1>27, <1>28 DEF ServiceNext, CallStep, CallerStep

\* The send lock (syn = "tell") keeps pushes off a connection without its Ok.
LEMMA OrderStep ==
  ServiceTypeOK /\ SecretInv /\ OrderInv /\ [ServiceNext]_serviceVars => OrderInv'
<1> SUFFICES ASSUME ServiceTypeOK, SecretInv, OrderInv, [ServiceNext]_serviceVars
             PROVE OrderInv'
  OBVIOUS
<1> USE ServiceAssumption DEF ServiceTypeOK, CallStates, SecretInv, OrderInv, clientVars, healthVars
<1>1. ASSUME NEW p \in Callers, NEW a \in Calls, Dial(p, a) PROVE OrderInv'
  BY <1>1 DEF Dial, Fresh
<1>2. ASSUME NEW a \in Calls, TokenArrives(a) PROVE OrderInv'
  BY <1>2 DEF TokenArrives
<1>3. ASSUME NEW a \in Calls, CallFails(a) PROVE OrderInv'
  BY <1>3 DEF CallFails, Leave
<1>4. ASSUME NEW a \in Calls, CallTimesOut(a) PROVE OrderInv'
  BY <1>4 DEF CallTimesOut, Leave
<1>5. ASSUME NEW a \in Calls, Connected(a) PROVE OrderInv'
  BY <1>5 DEF Connected
<1>6. ASSUME NEW a \in Calls, Answer(a) PROVE OrderInv'
  BY <1>6 DEF Answer, Refused
<1>7. ASSUME NEW a \in Calls, CreateAccount(a) PROVE OrderInv'
  BY <1>7 DEF CreateAccount
<1>8. ASSUME NEW a \in Calls, Verify(a) PROVE OrderInv'
  BY <1>8 DEF Verify, Refused
<1>9. ASSUME NEW a \in Calls, OpenSession(a) PROVE OrderInv'
  BY <1>9 DEF OpenSession, Refused
<1>10. ASSUME NEW a \in Calls, Greet(a) PROVE OrderInv'
  BY <1>10 DEF Greet
<1>11. ASSUME NEW a \in Calls, ServingEnds(a) PROVE OrderInv'
  BY <1>11 DEF ServingEnds
<1>12. ASSUME NEW a \in Calls, CloseSession(a) PROVE OrderInv'
  BY <1>12 DEF CloseSession
<1>13. ASSUME NEW a \in Calls, AttachSync(a) PROVE OrderInv'
  BY <1>13 DEF AttachSync
<1>14. ASSUME NEW a \in Calls, TellProblems(a) PROVE OrderInv'
  BY <1>14 DEF TellProblems
<1>15. ASSUME NEW a \in Calls, SyncEnds(a) PROVE OrderInv'
  BY <1>15 DEF SyncEnds
<1>16. ASSUME NEW a \in Calls, SendNotice(a) PROVE OrderInv'
  BY <1>16 DEF SendNotice, LockFree
<1>17. ASSUME NEW a \in Calls, Forget(a) PROVE OrderInv'
  BY <1>17 DEF Forget, Fresh
<1>18. ASSUME NEW a \in Calls, Break(a) PROVE OrderInv'
  BY <1>18 DEF Break
<1>19. ASSUME NEW p \in Callers, TakeLine(p) PROVE OrderInv'
  BY <1>19 DEF TakeLine
<1>20. ASSUME NEW p \in Callers, ExchangeOk(p) PROVE OrderInv'
  BY <1>20 DEF ExchangeOk
<1>21. ASSUME NEW p \in Callers, ExchangeFails(p) PROVE OrderInv'
  BY <1>21 DEF ExchangeFails, MarkDisconnected, Leave
<1>22. ASSUME NEW p \in Callers, LineLost(p) PROVE OrderInv'
  BY <1>22 DEF LineLost, MarkDisconnected, Leave
<1>23. ASSUME NEW p \in Callers, Logout(p) PROVE OrderInv'
<2>1. PICK a : a = line[p]
  OBVIOUS
<2> HIDE DEF CallStates
<2> QED BY <1>23, <2>1, LogoutEffect
<1>24. CASE Check
  BY <1>24 DEF Check
<1>25. CASE PushNotice
  BY <1>25 DEF PushNotice
<1>26. CASE NoticesSent
  BY <1>26 DEF NoticesSent
<1>27. CASE Demote
  BY <1>27 DEF Demote
<1>28. CASE UNCHANGED serviceVars
  BY <1>28 DEF serviceVars
<1> QED BY <1>1, <1>2, <1>3, <1>4, <1>5, <1>6, <1>7, <1>8, <1>9, <1>10, <1>11, <1>12,
   <1>13, <1>14, <1>15, <1>16, <1>17, <1>18, <1>19, <1>20, <1>21, <1>22, <1>23, <1>24,
   <1>25, <1>26, <1>27, <1>28 DEF ServiceNext, CallStep, CallerStep

\* Only Connected makes a call the line of a client, and one call has one client.
LEMMA LineStep ==
  ServiceTypeOK /\ OrderInv /\ LineInv /\ [ServiceNext]_serviceVars => LineInv'
<1> SUFFICES ASSUME ServiceTypeOK, OrderInv, LineInv, [ServiceNext]_serviceVars
             PROVE LineInv'
  OBVIOUS
<1> USE ServiceAssumption DEF ServiceTypeOK, CallStates, OrderInv, LineInv, clientVars, healthVars
<1>1. ASSUME NEW p \in Callers, NEW a \in Calls, Dial(p, a) PROVE LineInv'
  BY <1>1 DEF Dial, Fresh
<1>2. ASSUME NEW a \in Calls, TokenArrives(a) PROVE LineInv'
  BY <1>2 DEF TokenArrives
<1>3. ASSUME NEW a \in Calls, CallFails(a) PROVE LineInv'
  BY <1>3 DEF CallFails, Leave
<1>4. ASSUME NEW a \in Calls, CallTimesOut(a) PROVE LineInv'
  BY <1>4 DEF CallTimesOut, Leave
<1>5. ASSUME NEW a \in Calls, Connected(a) PROVE LineInv'
  BY <1>5 DEF Connected
<1>6. ASSUME NEW a \in Calls, Answer(a) PROVE LineInv'
  BY <1>6 DEF Answer, Refused
<1>7. ASSUME NEW a \in Calls, CreateAccount(a) PROVE LineInv'
  BY <1>7 DEF CreateAccount
<1>8. ASSUME NEW a \in Calls, Verify(a) PROVE LineInv'
<2>1. \A b \in Calls : /\ call'[b].cli = call[b].cli /\ call'[b].who = call[b].who
                        /\ call'[b].heard = call[b].heard
  BY <1>8 DEF Verify, Refused
<2>2. line' = line
  BY <1>8 DEF Verify
<2>3. \A p \in Callers : line[p] \in Calls \cup {NoCall}
  OBVIOUS
<2> QED BY ONLY <2>1, <2>2, <2>3, LineInv DEF LineInv
<1>9. ASSUME NEW a \in Calls, OpenSession(a) PROVE LineInv'
  BY <1>9 DEF OpenSession, Refused
<1>10. ASSUME NEW a \in Calls, Greet(a) PROVE LineInv'
  BY <1>10 DEF Greet
<1>11. ASSUME NEW a \in Calls, ServingEnds(a) PROVE LineInv'
  BY <1>11 DEF ServingEnds
<1>12. ASSUME NEW a \in Calls, CloseSession(a) PROVE LineInv'
  BY <1>12 DEF CloseSession
<1>13. ASSUME NEW a \in Calls, AttachSync(a) PROVE LineInv'
  BY <1>13 DEF AttachSync
<1>14. ASSUME NEW a \in Calls, TellProblems(a) PROVE LineInv'
  BY <1>14 DEF TellProblems
<1>15. ASSUME NEW a \in Calls, SyncEnds(a) PROVE LineInv'
  BY <1>15 DEF SyncEnds
<1>16. ASSUME NEW a \in Calls, SendNotice(a) PROVE LineInv'
  BY <1>16 DEF SendNotice, LockFree
<1>17. ASSUME NEW a \in Calls, Forget(a) PROVE LineInv'
  BY <1>17 DEF Forget, Fresh
<1>18. ASSUME NEW a \in Calls, Break(a) PROVE LineInv'
  BY <1>18 DEF Break
<1>19. ASSUME NEW p \in Callers, TakeLine(p) PROVE LineInv'
  BY <1>19 DEF TakeLine
<1>20. ASSUME NEW p \in Callers, ExchangeOk(p) PROVE LineInv'
  BY <1>20 DEF ExchangeOk
<1>21. ASSUME NEW p \in Callers, ExchangeFails(p) PROVE LineInv'
  BY <1>21 DEF ExchangeFails, MarkDisconnected, Leave
<1>22. ASSUME NEW p \in Callers, LineLost(p) PROVE LineInv'
  BY <1>22 DEF LineLost, MarkDisconnected, Leave
<1>23. ASSUME NEW p \in Callers, Logout(p) PROVE LineInv'
<2>1. PICK a : a = line[p]
  OBVIOUS
<2> HIDE DEF CallStates
<2> QED BY <1>23, <2>1, LogoutEffect
<1>24. CASE Check
  BY <1>24 DEF Check
<1>25. CASE PushNotice
  BY <1>25 DEF PushNotice
<1>26. CASE NoticesSent
  BY <1>26 DEF NoticesSent
<1>27. CASE Demote
  BY <1>27 DEF Demote
<1>28. CASE UNCHANGED serviceVars
  BY <1>28 DEF serviceVars
<1> QED BY <1>1, <1>2, <1>3, <1>4, <1>5, <1>6, <1>7, <1>8, <1>9, <1>10, <1>11, <1>12,
   <1>13, <1>14, <1>15, <1>16, <1>17, <1>18, <1>19, <1>20, <1>21, <1>22, <1>23, <1>24,
   <1>25, <1>26, <1>27, <1>28 DEF ServiceNext, CallStep, CallerStep

\* A client leaves a call it has reasons to leave; a call that is forgotten is new.
LEMMA CauseStep ==
  ServiceTypeOK /\ OrderInv /\ LineInv /\ CauseInv /\ [ServiceNext]_serviceVars => CauseInv'
<1> SUFFICES ASSUME ServiceTypeOK, OrderInv, LineInv, CauseInv, [ServiceNext]_serviceVars
             PROVE CauseInv'
  OBVIOUS
<1> USE ServiceAssumption DEF ServiceTypeOK, CallStates, OrderInv, LineInv,
                              CauseInv, clientVars, healthVars
<1>1. ASSUME NEW p \in Callers, NEW a \in Calls, Dial(p, a) PROVE CauseInv'
  BY <1>1 DEF Dial, Fresh
<1>2. ASSUME NEW a \in Calls, TokenArrives(a) PROVE CauseInv'
  BY <1>2 DEF TokenArrives
<1>3. ASSUME NEW a \in Calls, CallFails(a) PROVE CauseInv'
  BY <1>3 DEF CallFails, Leave
<1>4. ASSUME NEW a \in Calls, CallTimesOut(a) PROVE CauseInv'
  BY <1>4 DEF CallTimesOut, Leave
<1>5. ASSUME NEW a \in Calls, Connected(a) PROVE CauseInv'
  BY <1>5 DEF Connected
<1>6. ASSUME NEW a \in Calls, Answer(a) PROVE CauseInv'
  BY <1>6 DEF Answer, Refused
<1>7. ASSUME NEW a \in Calls, CreateAccount(a) PROVE CauseInv'
  BY <1>7 DEF CreateAccount
<1>8. ASSUME NEW a \in Calls, Verify(a) PROVE CauseInv'
  BY <1>8 DEF Verify, Refused
<1>9. ASSUME NEW a \in Calls, OpenSession(a) PROVE CauseInv'
  BY <1>9 DEF OpenSession, Refused
<1>10. ASSUME NEW a \in Calls, Greet(a) PROVE CauseInv'
  BY <1>10 DEF Greet
<1>11. ASSUME NEW a \in Calls, ServingEnds(a) PROVE CauseInv'
  BY <1>11 DEF ServingEnds
<1>12. ASSUME NEW a \in Calls, CloseSession(a) PROVE CauseInv'
  BY <1>12 DEF CloseSession
<1>13. ASSUME NEW a \in Calls, AttachSync(a) PROVE CauseInv'
  BY <1>13 DEF AttachSync
<1>14. ASSUME NEW a \in Calls, TellProblems(a) PROVE CauseInv'
  BY <1>14 DEF TellProblems
<1>15. ASSUME NEW a \in Calls, SyncEnds(a) PROVE CauseInv'
  BY <1>15 DEF SyncEnds
<1>16. ASSUME NEW a \in Calls, SendNotice(a) PROVE CauseInv'
  BY <1>16 DEF SendNotice, LockFree
<1>17. ASSUME NEW a \in Calls, Forget(a) PROVE CauseInv'
  BY <1>17 DEF Forget, Fresh
<1>18. ASSUME NEW a \in Calls, Break(a) PROVE CauseInv'
  BY <1>18 DEF Break
<1>19. ASSUME NEW p \in Callers, TakeLine(p) PROVE CauseInv'
  BY <1>19 DEF TakeLine
<1>20. ASSUME NEW p \in Callers, ExchangeOk(p) PROVE CauseInv'
  BY <1>20 DEF ExchangeOk
<1>21. ASSUME NEW p \in Callers, ExchangeFails(p) PROVE CauseInv'
  BY <1>21 DEF ExchangeFails, MarkDisconnected, Leave
<1>22. ASSUME NEW p \in Callers, LineLost(p) PROVE CauseInv'
  BY <1>22 DEF LineLost, MarkDisconnected, Leave
<1>23. ASSUME NEW p \in Callers, Logout(p) PROVE CauseInv'
<2>1. PICK a : a = line[p]
  OBVIOUS
<2> HIDE DEF CallStates
<2> QED BY <1>23, <2>1, LogoutEffect
<1>24. CASE Check
  BY <1>24 DEF Check
<1>25. CASE PushNotice
  BY <1>25 DEF PushNotice
<1>26. CASE NoticesSent
  BY <1>26 DEF NoticesSent
<1>27. CASE Demote
  BY <1>27 DEF Demote
<1>28. CASE UNCHANGED serviceVars
  BY <1>28 DEF serviceVars
<1> QED BY <1>1, <1>2, <1>3, <1>4, <1>5, <1>6, <1>7, <1>8, <1>9, <1>10, <1>11, <1>12,
   <1>13, <1>14, <1>15, <1>16, <1>17, <1>18, <1>19, <1>20, <1>21, <1>22, <1>23, <1>24,
   <1>25, <1>26, <1>27, <1>28 DEF ServiceNext, CallStep, CallerStep

\* A check makes what was told old, and its notices make it new again.
LEMMA NoticeStep ==
  ServiceTypeOK /\ OrderInv /\ NoticeInv /\ [ServiceNext]_serviceVars => NoticeInv'
<1> SUFFICES ASSUME ServiceTypeOK, OrderInv, NoticeInv, [ServiceNext]_serviceVars
             PROVE NoticeInv'
  OBVIOUS
<1> USE ServiceAssumption DEF ServiceTypeOK, CallStates, OrderInv, NoticeInv, clientVars, healthVars
<1>1. ASSUME NEW p \in Callers, NEW a \in Calls, Dial(p, a) PROVE NoticeInv'
  BY <1>1 DEF Dial, Fresh
<1>2. ASSUME NEW a \in Calls, TokenArrives(a) PROVE NoticeInv'
  BY <1>2 DEF TokenArrives
<1>3. ASSUME NEW a \in Calls, CallFails(a) PROVE NoticeInv'
  BY <1>3 DEF CallFails, Leave
<1>4. ASSUME NEW a \in Calls, CallTimesOut(a) PROVE NoticeInv'
  BY <1>4 DEF CallTimesOut, Leave
<1>5. ASSUME NEW a \in Calls, Connected(a) PROVE NoticeInv'
  BY <1>5 DEF Connected
<1>6. ASSUME NEW a \in Calls, Answer(a) PROVE NoticeInv'
  BY <1>6 DEF Answer, Refused
<1>7. ASSUME NEW a \in Calls, CreateAccount(a) PROVE NoticeInv'
  BY <1>7 DEF CreateAccount
<1>8. ASSUME NEW a \in Calls, Verify(a) PROVE NoticeInv'
  BY <1>8 DEF Verify, Refused
<1>9. ASSUME NEW a \in Calls, OpenSession(a) PROVE NoticeInv'
  BY <1>9 DEF OpenSession, Refused
<1>10. ASSUME NEW a \in Calls, Greet(a) PROVE NoticeInv'
  BY <1>10 DEF Greet
<1>11. ASSUME NEW a \in Calls, ServingEnds(a) PROVE NoticeInv'
  BY <1>11 DEF ServingEnds
<1>12. ASSUME NEW a \in Calls, CloseSession(a) PROVE NoticeInv'
  BY <1>12 DEF CloseSession
<1>13. ASSUME NEW a \in Calls, AttachSync(a) PROVE NoticeInv'
  BY <1>13 DEF AttachSync
<1>14. ASSUME NEW a \in Calls, TellProblems(a) PROVE NoticeInv'
  BY <1>14 DEF TellProblems
<1>15. ASSUME NEW a \in Calls, SyncEnds(a) PROVE NoticeInv'
  BY <1>15 DEF SyncEnds
<1>16. ASSUME NEW a \in Calls, SendNotice(a) PROVE NoticeInv'
  BY <1>16 DEF SendNotice, LockFree
<1>17. ASSUME NEW a \in Calls, Forget(a) PROVE NoticeInv'
  BY <1>17 DEF Forget, Fresh
<1>18. ASSUME NEW a \in Calls, Break(a) PROVE NoticeInv'
  BY <1>18 DEF Break
<1>19. ASSUME NEW p \in Callers, TakeLine(p) PROVE NoticeInv'
  BY <1>19 DEF TakeLine
<1>20. ASSUME NEW p \in Callers, ExchangeOk(p) PROVE NoticeInv'
  BY <1>20 DEF ExchangeOk
<1>21. ASSUME NEW p \in Callers, ExchangeFails(p) PROVE NoticeInv'
  BY <1>21 DEF ExchangeFails, MarkDisconnected, Leave
<1>22. ASSUME NEW p \in Callers, LineLost(p) PROVE NoticeInv'
  BY <1>22 DEF LineLost, MarkDisconnected, Leave
<1>23. ASSUME NEW p \in Callers, Logout(p) PROVE NoticeInv'
  BY <1>23 DEF Logout, Leave
<1>24. CASE Check
  BY <1>24 DEF Check
<1>25. CASE PushNotice
  BY <1>25 DEF PushNotice
<1>26. CASE NoticesSent
  BY <1>26 DEF NoticesSent
<1>27. CASE Demote
  BY <1>27 DEF Demote
<1>28. CASE UNCHANGED serviceVars
  BY <1>28 DEF serviceVars
<1> QED BY <1>1, <1>2, <1>3, <1>4, <1>5, <1>6, <1>7, <1>8, <1>9, <1>10, <1>11, <1>12,
   <1>13, <1>14, <1>15, <1>16, <1>17, <1>18, <1>19, <1>20, <1>21, <1>22, <1>23, <1>24,
   <1>25, <1>26, <1>27, <1>28 DEF ServiceNext, CallStep, CallerStep

LEMMA ServiceStep == ServiceInv /\ [ServiceNext]_serviceVars => ServiceInv'
BY ServiceTypeStep, SecretStep, OrderStep, LineStep, CauseStep, NoticeStep DEF ServiceInv

-----------------------------------------------------------------------------
\* The invariant holds in every behavior of the sessions, for any number of
\* clients, calls and faults and any limit of sessions.
THEOREM ServiceInvariance == ServiceSpec => []ServiceInv
BY ServiceInitInv, ServiceStep, PTL DEF ServiceSpec

\* Every variable of the calls, the session table and the notices keeps its type;
\* in particular the sync connections in the table belong to open sessions.
THEOREM ServiceTypeCorrect == ServiceSpec => []ServiceTypeOK
<1>1. ServiceInv => ServiceTypeOK
  BY DEF ServiceInv
<1> QED BY <1>1, ServiceInvariance, PTL

\* No push gets ahead of the Ok that serve_sync sends under the send lock.
THEOREM OkFirst == ServiceSpec => []OkComesFirst
<1>1. ServiceInv => OkComesFirst
  BY DEF ServiceInv, OrderInv, OkComesFirst
<1> QED BY <1>1, ServiceInvariance, PTL

\* Logins that race for a new account end with one password that all sessions have.
THEOREM OneSecret == ServiceSpec => []SessionsShareSecret
<1>1. ServiceInv => SessionsShareSecret
  BY DEF ServiceInv, ServiceTypeOK, SecretInv, SessionsShareSecret
<1> QED BY <1>1, ServiceInvariance, PTL

\* Between checks, every connected client knows what the health monitor knows.
THEOREM ClientsKnow == ServiceSpec => []NoticesAreCurrent
<1>1. ServiceInv => NoticesAreCurrent
  BY DEF ServiceInv, ServiceTypeOK, LineInv, OrderInv, NoticeInv, NoticesAreCurrent
<1> QED BY <1>1, ServiceInvariance, PTL

\* A client leaves a call only if that call went wrong, never for an older one's sake.
THEOREM NeverDroppedForAnother == ServiceSpec => []DroppedForCause
<1>1. ServiceInv => DroppedForCause
  BY DEF ServiceInv, CauseInv, DroppedForCause
<1> QED BY <1>1, ServiceInvariance, PTL
=============================================================================
