-------------------------- MODULE SessionAuthProofs --------------------------
(***************************************************************************)
(* Proofs about SessionAuth, for any number of accounts, states, sessions  *)
(* and concurrent requests, and any times to live.                         *)
(*                                                                         *)
(* The argument: rows only ever move forward (Lasting), so what a request  *)
(* found in them when it read them (Knows) still bounds them later.        *)
(***************************************************************************)
EXTENDS SessionAuth, TLAPS

SignInOps == {"identifying", "upserting", "saving"}
CallOps == {"checking", "loading", "authorised"}

Types ==
    /\ clock \in 0 .. MaxTime
    /\ oauthStates \in [States -> State]
    /\ users \in SUBSET Accounts
    /\ sessions \in [Tokens -> Session]
    /\ requests \in [Requests -> Request]

\* A row expires no later than its time to live after it was stored, and a
\* session has a user and the consumed state of its sign-in.
SoundState(s) ==
    oauthStates[s].status # "absent" => oauthStates[s].expires <= oauthStates[s].stored + StateTTL

SoundSession(t) ==
    sessions[t].status # "absent" =>
        /\ sessions[t].user \in users
        /\ sessions[t].expires <= sessions[t].stored + SessionTTL
        /\ sessions[t].state \in States
        /\ oauthStates[sessions[t].state].status = "consumed"

\* What a callback knows of its state and user.
CallbackKnows(q, states, us) ==
    /\ q.op \in SignInOps \cup {"consuming"} =>
         q.state \in States /\ states[q.state].status # "absent"
    /\ q.op \in SignInOps => states[q.state].status = "consumed"
    /\ q.op \in {"identifying", "upserting"} => q.now < states[q.state].stored + StateTTL
    /\ q.op \in {"upserting", "saving"} => q.user \in Accounts
    /\ q.op = "saving" => q.user \in us

\* What a call knows of its session.
CallKnows(q, rows) ==
    /\ q.op \in CallOps => q.token \in Tokens /\ rows[q.token].status # "absent"
    /\ q.op = "checking" /\ q.loggedOut => rows[q.token].status = "deleted"
    /\ q.op \in {"loading", "authorised"} =>
         ~q.loggedOut /\ q.now < rows[q.token].stored + SessionTTL

Knows(q, states, us, rows) == CallbackKnows(q, states, us) /\ CallKnows(q, rows)

AuthInv ==
    /\ Types
    /\ \A s \in States : SoundState(s)
    /\ \A t \in Tokens : SoundSession(t)
    /\ \A r \in Requests : Knows(requests[r], oauthStates, users, sessions)
    /\ OneLoginPerState

LEMMA InvInit == Init => AuthInv
<1> SUFFICES ASSUME Init PROVE AuthInv
  OBVIOUS
<1>1. NoState \in State /\ NoSession \in Session /\ Ended \in Request
  BY DEF NoState, State, NoSession, Session, Ended, Request
<1>2. Types
  BY <1>1, TimesAssumption DEF Init, Types
<1>3. /\ \A s \in States : SoundState(s)
      /\ \A t \in Tokens : SoundSession(t)
  BY DEF Init, SoundState, SoundSession, NoState, NoSession
<1>4. \A r \in Requests : Knows(requests[r], oauthStates, users, sessions)
  BY DEF Init, Knows, CallbackKnows, CallKnows, Ended, SignInOps, CallOps
<1>5. OneLoginPerState
  BY DEF Init, OneLoginPerState, SigningIn, CameFrom, Ended, NoSession
<1> QED
  BY <1>2, <1>3, <1>4, <1>5 DEF AuthInv

-----------------------------------------------------------------------------
(* Which steps change which table.                                         *)

LEMMA StatesChange ==
    ASSUME [Next]_vars
    PROVE  \/ UNCHANGED oauthStates
           \/ StartGitHub
           \/ \E r \in Requests : ConsumeState(r)
  BY DEF Next, vars, Logout, Tick, ReceiveCallback, ReceiveCall, IdentifyUser, UpsertUser,
         CreateSession, LookupSession, LoadUser, Leave

LEMMA SessionsChange ==
    ASSUME [Next]_vars
    PROVE  \/ UNCHANGED sessions
           \/ Logout
           \/ \E r \in Requests : CreateSession(r)
  BY DEF Next, vars, StartGitHub, Tick, ReceiveCallback, ReceiveCall, ConsumeState, IdentifyUser,
         UpsertUser, LookupSession, LoadUser, Leave

LEMMA UsersChange ==
    ASSUME [Next]_vars
    PROVE  \/ UNCHANGED users
           \/ \E r \in Requests : UpsertUser(r)
  BY DEF Next, vars, StartGitHub, Logout, Tick, ReceiveCallback, ReceiveCall, ConsumeState,
         IdentifyUser, CreateSession, LookupSession, LoadUser, Leave

\* A request begins, goes on or ends.
LEMMA RequestsChange ==
    ASSUME [Next]_vars
    PROVE  \/ UNCHANGED requests
           \/ \E r \in Requests : \/ End(r)
                                  \/ \E s \in States : ReceiveCallback(r, s)
                                  \/ \E t \in Tokens : ReceiveCall(r, t)
                                  \/ ConsumeState(r)
                                  \/ IdentifyUser(r)
                                  \/ UpsertUser(r)
                                  \/ LookupSession(r)
                                  \/ LoadUser(r)
  BY DEF Next, vars, StartGitHub, Logout, Tick, CreateSession, Leave

-----------------------------------------------------------------------------
(* Rows move forward only.                                                 *)

LastingStates ==
    \A s \in States : oauthStates[s].status # "absent" =>
        /\ oauthStates'[s].status # "absent"
        /\ oauthStates'[s].expires = oauthStates[s].expires
        /\ oauthStates'[s].stored = oauthStates[s].stored
        /\ oauthStates[s].status = "consumed" => oauthStates'[s].status = "consumed"

LastingSessions ==
    \A t \in Tokens : sessions[t].status # "absent" =>
        /\ sessions'[t].status # "absent"
        /\ sessions'[t].user = sessions[t].user
        /\ sessions'[t].expires = sessions[t].expires
        /\ sessions'[t].stored = sessions[t].stored
        /\ sessions'[t].state = sessions[t].state
        /\ sessions[t].status = "deleted" => sessions'[t].status = "deleted"

LEMMA StatesStep ==
    ASSUME AuthInv, [Next]_vars
    PROVE  /\ oauthStates' \in [States -> State]
           /\ LastingStates
           /\ \A s \in States : SoundState(s)'
<1> USE DEF AuthInv, Types
<1>1. CASE UNCHANGED oauthStates
  BY <1>1 DEF LastingStates, SoundState
<1>2. CASE StartGitHub
  <2>1. PICK s \in States, read \in 0 .. clock :
          /\ oauthStates[s].status = "absent"
          /\ oauthStates' = [oauthStates EXCEPT ![s] =
               [status |-> "open", expires |-> read + StateTTL, stored |-> clock]]
    BY <1>2 DEF StartGitHub
  <2>2. [status |-> "open", expires |-> read + StateTTL, stored |-> clock] \in State
    BY TimesAssumption DEF State
  <2>3. read + StateTTL <= clock + StateTTL
    BY TimesAssumption
  <2>4. oauthStates' \in [States -> State]
    BY <2>1, <2>2
  <2>5. LastingStates
    BY <2>1 DEF LastingStates
  <2>6. \A z \in States : SoundState(z)'
    BY <2>1, <2>3 DEF SoundState
  <2> QED
    BY <2>4, <2>5, <2>6
<1>3. ASSUME NEW r \in Requests, ConsumeState(r)
      PROVE  /\ oauthStates' \in [States -> State]
             /\ LastingStates
             /\ \A s \in States : SoundState(s)'
  <2>1. \/ UNCHANGED oauthStates
        \/ oauthStates' = [oauthStates EXCEPT ![requests[r].state].status = "consumed"]
    BY <1>3 DEF ConsumeState
  <2>2. requests[r].state \in States /\ oauthStates[requests[r].state].status # "absent"
    BY <1>3 DEF ConsumeState, Is, Knows, CallbackKnows
  <2>3. \A z \in State : [z EXCEPT !.status = "consumed"] \in State
    BY DEF State
  <2>4. CASE oauthStates' = [oauthStates EXCEPT ![requests[r].state].status = "consumed"]
    <3>1. oauthStates' \in [States -> State]
      BY <2>2, <2>3, <2>4
    <3>2. \A s \in States :
            /\ oauthStates'[s].expires = oauthStates[s].expires
            /\ oauthStates'[s].stored = oauthStates[s].stored
            /\ oauthStates'[s].status \in {oauthStates[s].status, "consumed"}
      BY <2>4 DEF State
    <3>3. \A s \in States : oauthStates'[s].status # "absent" => oauthStates[s].status # "absent"
      BY <2>2, <2>4 DEF State
    <3> QED
      BY <3>1, <3>2, <3>3 DEF LastingStates, SoundState
  <2> QED
    BY <1>1, <2>1, <2>4
<1> QED
  BY <1>1, <1>2, <1>3, StatesChange

LEMMA UsersStep ==
    ASSUME AuthInv, [Next]_vars
    PROVE  users \subseteq users' /\ users' \subseteq Accounts
  BY UsersChange DEF AuthInv, Types, UpsertUser, Is, Knows, CallbackKnows

LEMMA SessionsStep ==
    ASSUME AuthInv, [Next]_vars
    PROVE  /\ sessions' \in [Tokens -> Session]
           /\ LastingSessions
           /\ \A t \in Tokens : SoundSession(t)'
<1> USE DEF AuthInv, Types
<1>1. LastingStates /\ users \subseteq users'
  BY StatesStep, UsersStep
<1>2. CASE UNCHANGED sessions
  BY <1>1, <1>2 DEF LastingSessions, LastingStates, SoundSession
<1>3. CASE Logout
  <2>1. PICK t \in Tokens : /\ sessions[t].status # "absent"
                            /\ sessions' = [sessions EXCEPT ![t].status = "deleted"]
    BY <1>3 DEF Logout
  <2>2. \A z \in Session : [z EXCEPT !.status = "deleted"] \in Session
    BY DEF Session
  <2>3. sessions' \in [Tokens -> Session]
    BY <2>1, <2>2
  <2>4. \A v \in Tokens :
          /\ sessions'[v].user = sessions[v].user
          /\ sessions'[v].expires = sessions[v].expires
          /\ sessions'[v].stored = sessions[v].stored
          /\ sessions'[v].state = sessions[v].state
          /\ sessions'[v].status \in {sessions[v].status, "deleted"}
    BY <2>1 DEF Session
  <2>5. \A v \in Tokens : sessions'[v].status # "absent" => sessions[v].status # "absent"
    BY <2>1 DEF Session
  <2> QED
    BY <1>1, <2>3, <2>4, <2>5 DEF LastingSessions, LastingStates, SoundSession
<1>4. ASSUME NEW r \in Requests, CreateSession(r)
      PROVE  /\ sessions' \in [Tokens -> Session]
             /\ LastingSessions
             /\ \A t \in Tokens : SoundSession(t)'
  <2> DEFINE s == requests[r].state
             u == requests[r].user
  <2>1. PICK t \in Tokens, read \in requests[r].now .. clock :
          /\ sessions[t].status = "absent"
          /\ sessions' = [sessions EXCEPT ![t] = NewSession(s, u, read)]
    BY <1>4 DEF CreateSession
  <2>2. /\ s \in States /\ oauthStates[s].status = "consumed"
        /\ u \in users /\ u \in Accounts
    BY <1>4 DEF CreateSession, Is, Knows, CallbackKnows, SignInOps
  <2>3. requests[r].now \in Nat
    BY DEF Request
  <2>4. read \in Nat /\ clock \in Nat /\ read + SessionTTL <= clock + SessionTTL
    BY <2>3, TimesAssumption
  <2>5. NewSession(s, u, read) \in Session
    BY <2>2, <2>4, TimesAssumption DEF NewSession, Session
  <2>6. /\ NewSession(s, u, read).user = u
        /\ NewSession(s, u, read).state = s
        /\ NewSession(s, u, read).expires <= NewSession(s, u, read).stored + SessionTTL
    BY <2>4 DEF NewSession
  <2>7. oauthStates' = oauthStates /\ users' = users
    BY <1>4 DEF CreateSession
  <2> HIDE DEF s, u
  <2>8. sessions' \in [Tokens -> Session] /\ sessions'[t] = NewSession(s, u, read)
    BY <2>1, <2>5
  <2>9. \A v \in Tokens : v # t => sessions'[v] = sessions[v]
    BY <2>1
  <2>10. LastingSessions
    BY <2>1, <2>9 DEF LastingSessions
  <2>11. SoundSession(t)'
    BY <2>2, <2>6, <2>7, <2>8 DEF SoundSession
  <2>12. \A v \in Tokens : v # t => SoundSession(v)'
    BY <2>7, <2>9 DEF SoundSession
  <2> QED
    BY <2>8, <2>10, <2>11, <2>12
<1> QED
  BY <1>2, <1>3, <1>4, SessionsChange

-----------------------------------------------------------------------------
(* What requests know.                                                     *)

\* What was known of rows that only moved forward is known still.
LEMMA KnownStill ==
    ASSUME AuthInv, [Next]_vars, NEW r \in Requests
    PROVE  Knows(requests[r], oauthStates', users', sessions')
<1>1. LastingStates /\ LastingSessions /\ users \subseteq users'
  BY StatesStep, SessionsStep, UsersStep
<1>2. Knows(requests[r], oauthStates, users, sessions)
  BY DEF AuthInv
<1> QED
  BY <1>1, <1>2 DEF Knows, CallbackKnows, CallKnows, LastingStates, LastingSessions,
                    SignInOps, CallOps

LEMMA ContinueStep ==
    ASSUME AuthInv, [Next]_vars, NEW r \in Requests, NEW q \in Request,
           Continue(r, q), Knows(q, oauthStates', users', sessions')
    PROVE  /\ requests' \in [Requests -> Request]
           /\ \A p \in Requests : Knows(requests'[p], oauthStates', users', sessions')
<1>1. requests' \in [Requests -> Request] /\ requests'[r] = q
  BY DEF AuthInv, Types, Continue
<1>2. \A p \in Requests : p # r => requests'[p] = requests[p]
  BY DEF AuthInv, Types, Continue
<1> QED
  BY <1>1, <1>2, KnownStill

LEMMA RequestsStep ==
    ASSUME AuthInv, [Next]_vars
    PROVE  /\ requests' \in [Requests -> Request]
           /\ \A r \in Requests : Knows(requests'[r], oauthStates', users', sessions')
<1> USE DEF AuthInv, Types
<1> DEFINE Goal == /\ requests' \in [Requests -> Request]
                   /\ \A r \in Requests : Knows(requests'[r], oauthStates', users', sessions')
           KnowsNext(q) == Knows(q, oauthStates', users', sessions')
<1>0. clock \in Nat /\ LastingStates /\ LastingSessions
  BY TimesAssumption, StatesStep, SessionsStep
<1>1. CASE UNCHANGED requests
  BY <1>1, KnownStill
<1>2. ASSUME NEW r \in Requests, End(r) PROVE Goal
  <2>1. Ended \in Request /\ KnowsNext(Ended)
    BY DEF Ended, Request, Knows, CallbackKnows, CallKnows, SignInOps, CallOps
  <2>2. Continue(r, Ended)
    BY <1>2 DEF End, Continue
  <2> QED
    BY <2>1, <2>2, ContinueStep
<1>3. ASSUME NEW r \in Requests, NEW s \in States, ReceiveCallback(r, s) PROVE Goal
  <2> DEFINE q == Callback("consuming", s, None, clock)
  <2>1. q \in Request
    BY <1>0 DEF Callback, Request
  <2>2. KnowsNext(q)
    BY <1>0, <1>3 DEF ReceiveCallback, Callback, Knows, CallbackKnows, CallKnows, SignInOps,
                      CallOps, LastingStates
  <2>3. Continue(r, q)
    BY <1>3 DEF ReceiveCallback
  <2> QED
    BY <2>1, <2>2, <2>3, ContinueStep
<1>4. ASSUME NEW r \in Requests, NEW t \in Tokens, ReceiveCall(r, t) PROVE Goal
  <2> DEFINE q == ApiCall("checking", t, None, clock, sessions[t].status = "deleted")
  <2>1. q \in Request
    BY <1>0 DEF ApiCall, Request
  <2>2. sessions'[t].status # "absent" /\ (sessions[t].status = "deleted" => sessions'[t].status = "deleted")
    BY <1>0, <1>4 DEF ReceiveCall, LastingSessions
  <2>3. /\ q.op = "checking" /\ q.token = t
        /\ q.loggedOut => sessions[t].status = "deleted"
    BY DEF ApiCall
  <2>4. KnowsNext(q)
    BY <2>2, <2>3 DEF Knows, CallbackKnows, CallKnows, SignInOps, CallOps
  <2>5. Continue(r, q)
    BY <1>4 DEF ReceiveCall
  <2> QED
    BY <2>1, <2>4, <2>5, ContinueStep
<1>5. ASSUME NEW r \in Requests, ConsumeState(r) PROVE Goal
  <2> DEFINE s == requests[r].state
             q == Callback("identifying", s, None, requests[r].now)
  <2>1. \/ End(r)
        \/ /\ Consumable(s, requests[r].now)
           /\ oauthStates' = [oauthStates EXCEPT ![s].status = "consumed"]
           /\ Continue(r, q)
    BY <1>5 DEF ConsumeState
  <2>2. ASSUME Consumable(s, requests[r].now),
               oauthStates' = [oauthStates EXCEPT ![s].status = "consumed"],
               Continue(r, q)
        PROVE  Goal
    <3>1. s \in States /\ requests[r].now \in Nat
      BY <1>5 DEF ConsumeState, Is, Knows, CallbackKnows, Request
    <3>2. q \in Request
      BY <3>1 DEF Callback, Request
    <3>3. requests[r].now < oauthStates[s].stored + StateTTL
      BY <2>2, <3>1, TimesAssumption DEF Consumable, SoundState, State
    <3>4. oauthStates'[s].status = "consumed" /\ oauthStates'[s].stored = oauthStates[s].stored
      BY <2>2, <3>1 DEF State
    <3>5. KnowsNext(q)
      BY <3>1, <3>3, <3>4 DEF Callback, Knows, CallbackKnows, CallKnows, SignInOps, CallOps
    <3> QED
      BY <2>2, <3>2, <3>5, ContinueStep
  <2> QED
    BY <1>2, <2>1, <2>2
<1>6. ASSUME NEW r \in Requests, IdentifyUser(r) PROVE Goal
  <2>1. PICK u \in Accounts :
          Continue(r, Callback("upserting", requests[r].state, u, requests[r].now))
    BY <1>6 DEF IdentifyUser
  <2> DEFINE q == Callback("upserting", requests[r].state, u, requests[r].now)
  <2>2. q \in Request
    BY DEF Callback, Request
  <2>3. KnowsNext(q)
    BY <1>6, KnownStill DEF IdentifyUser, Is, Callback, Knows, CallbackKnows, CallKnows,
                            SignInOps, CallOps
  <2> QED
    BY <2>1, <2>2, <2>3, ContinueStep
<1>7. ASSUME NEW r \in Requests, UpsertUser(r) PROVE Goal
  <2> DEFINE q == Callback("saving", requests[r].state, requests[r].user, clock)
  <2>1. q \in Request
    BY <1>0 DEF Callback, Request
  <2>2. KnowsNext(q)
    BY <1>7, KnownStill DEF UpsertUser, Is, Callback, Knows, CallbackKnows, CallKnows,
                            SignInOps, CallOps
  <2>3. Continue(r, q)
    BY <1>7 DEF UpsertUser
  <2> QED
    BY <2>1, <2>2, <2>3, ContinueStep
<1>8. ASSUME NEW r \in Requests, LookupSession(r) PROVE Goal
  <2> DEFINE t == requests[r].token
             q == ApiCall("loading", t, sessions[t].user, requests[r].now, requests[r].loggedOut)
  <2>1. \/ End(r)
        \/ Valid(t, requests[r].now) /\ Continue(r, q)
    BY <1>8 DEF LookupSession
  <2>2. ASSUME Valid(t, requests[r].now), Continue(r, q)
        PROVE  Goal
    <3>1. t \in Tokens /\ requests[r].now \in Nat /\ requests[r].loggedOut \in BOOLEAN
      BY <1>8 DEF LookupSession, Is, Knows, CallKnows, CallOps, Request
    <3>2. q \in Request
      BY <3>1 DEF ApiCall, Request, Session
    <3>3. sessions[t].status = "present" /\ requests[r].now < sessions[t].stored + SessionTTL
      BY <2>2, <3>1, TimesAssumption DEF Valid, SoundSession, Session
    <3>4. ~requests[r].loggedOut
      BY <1>8, <3>3 DEF LookupSession, Is, Knows, CallKnows
    <3>5. sessions' = sessions
      BY <1>8 DEF LookupSession
    <3>6. KnowsNext(q)
      BY <3>1, <3>3, <3>4, <3>5 DEF ApiCall, Knows, CallbackKnows, CallKnows, SignInOps, CallOps
    <3> QED
      BY <2>2, <3>2, <3>6, ContinueStep
  <2> QED
    BY <1>2, <2>1, <2>2
<1>9. ASSUME NEW r \in Requests, LoadUser(r) PROVE Goal
  <2> DEFINE q == ApiCall("authorised", requests[r].token, requests[r].user, requests[r].now,
                          requests[r].loggedOut)
  <2>1. q \in Request
    BY DEF ApiCall, Request
  <2>2. KnowsNext(q)
    BY <1>9, KnownStill DEF LoadUser, Is, ApiCall, Knows, CallbackKnows, CallKnows,
                            SignInOps, CallOps
  <2>3. Continue(r, q)
    BY <1>9 DEF LoadUser
  <2> QED
    BY <2>1, <2>2, <2>3, ContinueStep
<1> QED
  BY <1>1, <1>2, <1>3, <1>4, <1>5, <1>6, <1>7, <1>8, <1>9, RequestsChange

-----------------------------------------------------------------------------
(* One state, one sign-in.                                                 *)

\* Who gets past Consume just now; nobody has with that state before.
LEMMA NewlySigningIn ==
    ASSUME AuthInv, [Next]_vars, NEW r \in Requests, NEW s \in States, SigningIn(r, s)'
    PROVE  \/ SigningIn(r, s) /\ requests'[r].op # "idle"
           \/ /\ ConsumeState(r) /\ oauthStates[s].status = "open"
              /\ \A q \in Requests : q # r => requests'[q] = requests[q]
<1> USE DEF AuthInv, Types
<1>1. CASE UNCHANGED requests
  BY <1>1 DEF SigningIn
<1>2. ASSUME NEW q \in Requests, NEW p, Continue(q, p), p.op \notin SignInOps
      PROVE  SigningIn(r, s) /\ requests'[r].op # "idle"
  BY <1>2 DEF SigningIn, Continue, SignInOps
<1>3. ASSUME NEW q \in Requests, NEW p, Continue(q, p),
             p.state = requests[q].state, requests[q].op \in SignInOps
      PROVE  SigningIn(r, s) /\ requests'[r].op # "idle"
  BY <1>3 DEF SigningIn, Continue, SignInOps
<1>4. ASSUME NEW q \in Requests, End(q)
      PROVE  SigningIn(r, s) /\ requests'[r].op # "idle"
  BY <1>4 DEF SigningIn, End, Ended, SignInOps
<1>5. ASSUME NEW q \in Requests, NEW z \in States, ReceiveCallback(q, z)
      PROVE  SigningIn(r, s) /\ requests'[r].op # "idle"
  BY <1>2, <1>5 DEF ReceiveCallback, Callback, SignInOps
<1>6. ASSUME NEW q \in Requests, NEW t \in Tokens, ReceiveCall(q, t)
      PROVE  SigningIn(r, s) /\ requests'[r].op # "idle"
  BY <1>2, <1>6 DEF ReceiveCall, ApiCall, SignInOps
<1>7. ASSUME NEW q \in Requests, IdentifyUser(q)
      PROVE  SigningIn(r, s) /\ requests'[r].op # "idle"
  BY <1>3, <1>7 DEF IdentifyUser, Is, Callback, SignInOps
<1>8. ASSUME NEW q \in Requests, UpsertUser(q)
      PROVE  SigningIn(r, s) /\ requests'[r].op # "idle"
  BY <1>3, <1>8 DEF UpsertUser, Is, Callback, SignInOps
<1>9. ASSUME NEW q \in Requests, LookupSession(q)
      PROVE  SigningIn(r, s) /\ requests'[r].op # "idle"
  BY <1>2, <1>4, <1>9 DEF LookupSession, ApiCall, SignInOps
<1>10. ASSUME NEW q \in Requests, LoadUser(q)
       PROVE  SigningIn(r, s) /\ requests'[r].op # "idle"
  BY <1>2, <1>10 DEF LoadUser, ApiCall, SignInOps
<1>11. ASSUME NEW q \in Requests, ConsumeState(q), ~End(q)
       PROVE  \/ SigningIn(r, s) /\ requests'[r].op # "idle"
              \/ /\ ConsumeState(r) /\ oauthStates[s].status = "open"
                 /\ \A p \in Requests : p # r => requests'[p] = requests[p]
  <2>1. /\ oauthStates[requests[q].state].status = "open"
        /\ Continue(q, Callback("identifying", requests[q].state, None, requests[q].now))
    BY <1>11 DEF ConsumeState, Consumable
  <2>2. CASE q = r
    <3>1. requests'[r] = Callback("identifying", requests[q].state, None, requests[q].now)
      BY <2>1, <2>2 DEF Continue
    <3>2. s = requests[q].state
      BY <3>1 DEF SigningIn, Callback
    <3>3. \A p \in Requests : p # r => requests'[p] = requests[p]
      BY <2>1, <2>2 DEF Continue
    <3> QED
      BY <1>11, <2>1, <2>2, <3>2, <3>3
  <2>3. CASE q # r
    <3>1. requests'[r] = requests[r]
      BY <2>1, <2>3 DEF Continue
    <3> QED
      BY <3>1 DEF SigningIn
  <2> QED
    BY <2>2, <2>3
<1> QED
  BY <1>1, <1>4, <1>5, <1>6, <1>7, <1>8, <1>9, <1>10, <1>11, RequestsChange

\* Which session has just been stored, and by whom.
LEMMA NewlyCameFrom ==
    ASSUME AuthInv, [Next]_vars, NEW t \in Tokens, NEW s \in States, CameFrom(t, s)'
    PROVE  \/ CameFrom(t, s)
           \/ \E r \in Requests :
                /\ CreateSession(r) /\ SigningIn(r, s) /\ requests'[r].op = "idle"
                /\ \A v \in Tokens : v # t => sessions'[v] = sessions[v]
<1> USE DEF AuthInv, Types
<1>1. CASE UNCHANGED sessions
  BY <1>1 DEF CameFrom
<1>2. CASE Logout
  BY <1>2 DEF Logout, CameFrom, Session
<1>3. ASSUME NEW r \in Requests, CreateSession(r), ~CameFrom(t, s)
      PROVE  /\ SigningIn(r, s) /\ requests'[r].op = "idle"
             /\ \A v \in Tokens : v # t => sessions'[v] = sessions[v]
  <2>1. PICK v \in Tokens, read \in requests[r].now .. clock :
          sessions' = [sessions EXCEPT ![v] = NewSession(requests[r].state, requests[r].user, read)]
    BY <1>3 DEF CreateSession
  <2>2. v = t
    BY <1>3, <2>1 DEF CameFrom
  <2>3. sessions'[t].state = requests[r].state
    BY <2>1, <2>2 DEF NewSession
  <2>4. s = requests[r].state
    BY <2>3 DEF CameFrom
  <2>5. SigningIn(r, s)
    BY <1>3, <2>4 DEF CreateSession, Is, SigningIn
  <2>6. requests'[r].op = "idle"
    BY <1>3 DEF CreateSession, End, Ended
  <2> QED
    BY <2>1, <2>2, <2>5, <2>6
<1> QED
  BY <1>1, <1>2, <1>3, SessionsChange

LEMMA OneLoginStep ==
    ASSUME AuthInv, [Next]_vars
    PROVE  OneLoginPerState'
<1> USE DEF AuthInv
<1>1. ASSUME NEW s \in States, oauthStates[s].status = "open"
      PROVE  /\ \A r \in Requests : ~SigningIn(r, s)
             /\ \A t \in Tokens : ~CameFrom(t, s)
  BY <1>1 DEF SigningIn, CameFrom, Knows, CallbackKnows, SoundSession, SignInOps
<1>2. ASSUME NEW s \in States, NEW q \in Requests, NEW r \in Requests,
             SigningIn(q, s)', SigningIn(r, s)'
      PROVE  q = r
  BY <1>1, <1>2, NewlySigningIn DEF OneLoginPerState, SigningIn
<1>3. ASSUME NEW s \in States, NEW t \in Tokens, NEW v \in Tokens,
             CameFrom(t, s)', CameFrom(v, s)'
      PROVE  t = v
  <2>1. CASE CameFrom(t, s) /\ CameFrom(v, s)
    BY <2>1 DEF OneLoginPerState
  <2>2. CASE ~CameFrom(t, s)
    BY <1>3, <2>2, NewlyCameFrom DEF OneLoginPerState, CameFrom
  <2>3. CASE ~CameFrom(v, s)
    BY <1>3, <2>3, NewlyCameFrom DEF OneLoginPerState, CameFrom
  <2> QED
    BY <2>1, <2>2, <2>3
<1>4. ASSUME NEW s \in States, NEW r \in Requests, NEW t \in Tokens,
             SigningIn(r, s)', CameFrom(t, s)'
      PROVE  FALSE
  <2>1. CASE CameFrom(t, s)
    BY <1>1, <1>4, <2>1, NewlySigningIn DEF OneLoginPerState
  <2>2. CASE ~CameFrom(t, s)
    <3>1. PICK q \in Requests : CreateSession(q) /\ SigningIn(q, s) /\ requests'[q].op = "idle"
      BY <1>4, <2>2, NewlyCameFrom
    <3>2. r # q
      BY <1>4, <3>1 DEF SigningIn
    <3>3. SigningIn(r, s)
      BY <1>1, <1>4, <3>1, NewlySigningIn
    <3> QED
      BY <3>1, <3>2, <3>3 DEF OneLoginPerState
  <2> QED
    BY <2>1, <2>2
<1> QED
  BY <1>2, <1>3, <1>4 DEF OneLoginPerState, SigningIn, CameFrom

-----------------------------------------------------------------------------
LEMMA InvNext == AuthInv /\ [Next]_vars => AuthInv'
<1> SUFFICES ASSUME AuthInv, [Next]_vars PROVE AuthInv'
  OBVIOUS
<1>1. UNCHANGED clock \/ Tick
  BY DEF Next, vars, StartGitHub, Logout, ReceiveCallback, ReceiveCall, ConsumeState,
         IdentifyUser, UpsertUser, CreateSession, LookupSession, LoadUser, Leave
<1>2. clock' \in 0 .. MaxTime
  BY <1>1, TimesAssumption DEF AuthInv, Types, Tick
<1> QED
  BY <1>2, StatesStep, UsersStep, SessionsStep, RequestsStep, OneLoginStep DEF AuthInv, Types

LEMMA AuthInvHolds == Spec => []AuthInv
  BY InvInit, InvNext, PTL DEF Spec

\* Every row and request keeps its type, and a session's user is one of users.
THEOREM TypeCorrect == Spec => []TypeOK
<1>1. AuthInv => TypeOK
  BY DEF AuthInv, Types, TypeOK, SoundSession
<1> QED
  BY <1>1, AuthInvHolds, PTL

\* A state signs in once, however its callbacks interleave.
THEOREM StateSignsInOnce == Spec => []OneLoginPerState
<1>1. AuthInv => OneLoginPerState
  BY DEF AuthInv
<1> QED
  BY <1>1, AuthInvHolds, PTL

\* No callback gets past Consume with a state that it brought in too late.
THEOREM StateExpires == Spec => []StateUsedInTime
<1>1. AuthInv => StateUsedInTime
  BY DEF AuthInv, StateUsedInTime, SigningIn, Is, Knows, CallbackKnows
<1> QED
  BY <1>1, AuthInvHolds, PTL

\* No call that came in after the logout of its session is authorised.
THEOREM LogoutIsFinal == Spec => []NothingAfterLogout
<1>1. AuthInv => NothingAfterLogout
  BY DEF AuthInv, NothingAfterLogout, Is, Knows, CallKnows
<1> QED
  BY <1>1, AuthInvHolds, PTL

\* No call that came in after the session's time to live is authorised.
THEOREM SessionExpires == Spec => []SessionUsedInTime
<1>1. AuthInv => SessionUsedInTime
  BY DEF AuthInv, SessionUsedInTime, Is, Knows, CallKnows
<1> QED
  BY <1>1, AuthInvHolds, PTL

=============================================================================
