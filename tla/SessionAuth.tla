----------------------------- MODULE SessionAuth -----------------------------
(***************************************************************************)
(* Signing in with GitHub, and the sessions that result: the tables        *)
(* oauth_states, users and sessions, the three handlers that write them    *)
(* and the middleware that reads them before every call of the API.        *)
(*                                                                         *)
(* Each handler reads the clock in the process and passes it to a          *)
(* statement that runs later; nothing holds the tables still in between.   *)
(* Requests overlap in any order, and the same callback may come twice.    *)
(*                                                                         *)
(* Abstracted: hashing, cookies and redirects (a client may present any    *)
(* state or token once its row is stored; one whose answer was lost is     *)
(* never presented); what users has besides the id; the GitHub access      *)
(* token. Rows are never removed when they expire, here as in the code.    *)
(***************************************************************************)
EXTENDS Naturals

CONSTANTS
    Accounts,       \* GitHub accounts, each a user once it has signed in
    States,         \* bound: OAuth states ever generated
    Tokens,         \* bound: session tokens ever generated
    Requests,       \* callbacks and API calls under way at once
    StateTTL,       \* OAUTH_STATE_TTL
    SessionTTL,     \* SESSION_TTL
    MaxTime,        \* bound: where the clock stops
    None

ASSUME TimesAssumption == StateTTL \in Nat /\ SessionTTL \in Nat /\ MaxTime \in Nat

VARIABLES
    clock,
    oauthStates,    \* [States -> State]
    users,          \* SUBSET Accounts: the rows of users
    sessions,       \* [Tokens -> Session]
    requests        \* [Requests -> Request]: what each request remembers

vars == <<clock, oauthStates, users, sessions, requests>>

\* stored: history, when the row was inserted.
State == [status : {"absent", "open", "consumed"}, expires : Nat, stored : Nat]

\* stored and state: history; the state is that of the sign-in it came from.
Session == [status  : {"absent", "present", "deleted"},
            user    : Accounts \cup {None},
            expires : Nat,
            stored  : Nat,
            state   : States \cup {None}]

\* now: the latest reading of the clock that matters; loggedOut: history, had
\* the session been logged out when the request came in?
Request == [op        : {"idle", "consuming", "identifying", "upserting", "saving",
                         "checking", "loading", "authorised"},
            state     : States \cup {None},
            token     : Tokens \cup {None},
            user      : Accounts \cup {None},
            now       : Nat,
            loggedOut : BOOLEAN]

NoState == [status |-> "absent", expires |-> 0, stored |-> 0]
NoSession == [status |-> "absent", user |-> None, expires |-> 0, stored |-> 0, state |-> None]

Ended == [op |-> "idle", state |-> None, token |-> None, user |-> None,
          now |-> 0, loggedOut |-> FALSE]

Callback(op, s, u, now) ==
    [op |-> op, state |-> s, token |-> None, user |-> u, now |-> now, loggedOut |-> FALSE]

ApiCall(op, t, u, now, late) ==
    [op |-> op, state |-> None, token |-> t, user |-> u, now |-> now, loggedOut |-> late]

Init ==
    /\ clock = 0
    /\ oauthStates = [s \in States |-> NoState]
    /\ users = {}
    /\ sessions = [t \in Tokens |-> NoSession]
    /\ requests = [r \in Requests |-> Ended]

Is(r, op) == requests[r].op = op
End(r) == requests' = [requests EXCEPT ![r] = Ended]
Continue(r, request) == requests' = [requests EXCEPT ![r] = request]

-----------------------------------------------------------------------------
(* The conditions of the statements.                                       *)

\* Fault variant: an UPDATE that does not look at consumed_at.
Reusable(s, now) == oauthStates[s].status # "absent" /\ oauthStates[s].expires > now

\* Fault variant: an UPDATE that leaves expiry to a cleanup.
Unconsumed(s, now) == oauthStates[s].status = "open" /\ now \in Nat

\* Consume: the row that the UPDATE finds.
Consumable(s, now) == oauthStates[s].status = "open" /\ oauthStates[s].expires > now

\* Fault variant: a session remembered outside the table.
Remembered(t, now) == sessions[t].status # "absent" /\ sessions[t].expires > now

\* Fault variant: a session is good while its row is there.
Stored(t, now) == sessions[t].status = "present" /\ now \in Nat

\* GetValidByTokenHash.
Valid(t, now) == sessions[t].status = "present" /\ sessions[t].expires > now

\* Fault variant: a session that does not say whose it is.
SessionWithoutUser(s, u, read) ==
    [status |-> "present", user |-> None, expires |-> read + SessionTTL,
     stored |-> clock, state |-> s]

\* The row that Sessions.Create inserts.
NewSession(s, u, read) ==
    [status |-> "present", user |-> u, expires |-> read + SessionTTL,
     stored |-> clock, state |-> s]

-----------------------------------------------------------------------------
(* Signing in.                                                             *)

\* StartGitHub: the clock was read some time before the row is stored.
StartGitHub ==
    /\ \E s \in States, read \in 0 .. clock :
         /\ oauthStates[s].status = "absent"
         /\ oauthStates' = [oauthStates EXCEPT ![s] =
              [status |-> "open", expires |-> read + StateTTL, stored |-> clock]]
    /\ UNCHANGED <<clock, users, sessions, requests>>

\* CallbackGitHub comes in with a code and a state, perhaps not for the first
\* time, and reads the clock.
ReceiveCallback(r, s) ==
    /\ Is(r, "idle")
    /\ oauthStates[s].status # "absent"
    /\ Continue(r, Callback("consuming", s, None, clock))
    /\ UNCHANGED <<clock, oauthStates, users, sessions>>

\* States.Consume; on no row: "invalid_state".
ConsumeState(r) ==
    LET s == requests[r].state
        now == requests[r].now IN
    /\ Is(r, "consuming")
    /\ \/ /\ Consumable(s, now)
          /\ oauthStates' = [oauthStates EXCEPT ![s].status = "consumed"]
          /\ Continue(r, Callback("identifying", s, None, now))
       \/ /\ ~Consumable(s, now)
          /\ End(r)
          /\ UNCHANGED oauthStates
    /\ UNCHANGED <<clock, users, sessions>>

\* ExchangeCode and FetchUser: GitHub says whose code it is.
IdentifyUser(r) ==
    /\ Is(r, "identifying")
    /\ \E u \in Accounts : Continue(r, Callback("upserting", requests[r].state, u, requests[r].now))
    /\ UNCHANGED <<clock, oauthStates, users, sessions>>

UpsertUser(r) ==
    /\ Is(r, "upserting")
    /\ users' = users \cup {requests[r].user}
    /\ Continue(r, Callback("saving", requests[r].state, requests[r].user, clock))
    /\ UNCHANGED <<clock, oauthStates, sessions>>

\* Sessions.Create and the cookie; the clock was read after the upsert.
CreateSession(r) ==
    /\ Is(r, "saving")
    /\ \E t \in Tokens, read \in requests[r].now .. clock :
         /\ sessions[t].status = "absent"
         /\ sessions' = [sessions EXCEPT ![t] =
              NewSession(requests[r].state, requests[r].user, read)]
    /\ End(r)
    /\ UNCHANGED <<clock, oauthStates, users>>

\* Logout with the cookie of a session; on no row the same answer. If the
\* DELETE fails, so does the logout.
Logout ==
    /\ \E t \in Tokens :
         /\ sessions[t].status # "absent"
         /\ sessions' = [sessions EXCEPT ![t].status = "deleted"]
    /\ UNCHANGED <<clock, oauthStates, users, requests>>

-----------------------------------------------------------------------------
(* RequireAuth.                                                            *)

\* A call with a session cookie comes in, and the clock is read.
ReceiveCall(r, t) ==
    /\ Is(r, "idle")
    /\ sessions[t].status # "absent"
    /\ Continue(r, ApiCall("checking", t, None, clock, sessions[t].status = "deleted"))
    /\ UNCHANGED <<clock, oauthStates, users, sessions>>

LookupSession(r) ==
    LET t == requests[r].token IN
    /\ Is(r, "checking")
    /\ \/ /\ Valid(t, requests[r].now)
          /\ Continue(r, ApiCall("loading", t, sessions[t].user, requests[r].now,
                                 requests[r].loggedOut))
       \/ /\ ~Valid(t, requests[r].now)
          /\ End(r)
    /\ UNCHANGED <<clock, oauthStates, users, sessions>>

\* GetByID; users is never deleted from, and the handler runs.
LoadUser(r) ==
    /\ Is(r, "loading")
    /\ requests[r].user \in users
    /\ Continue(r, ApiCall("authorised", requests[r].token, requests[r].user,
                           requests[r].now, requests[r].loggedOut))
    /\ UNCHANGED <<clock, oauthStates, users, sessions>>

-----------------------------------------------------------------------------
\* The handler is done, GitHub refuses, a statement fails (its effect, if it
\* had one, stays), or the process dies.
Leave(r) ==
    /\ ~Is(r, "idle")
    /\ End(r)
    /\ UNCHANGED <<clock, oauthStates, users, sessions>>

Tick ==
    /\ clock < MaxTime
    /\ clock' = clock + 1
    /\ UNCHANGED <<oauthStates, users, sessions, requests>>

Next ==
    \/ StartGitHub
    \/ Logout
    \/ Tick
    \/ \E r \in Requests :
         \/ \E s \in States : ReceiveCallback(r, s)
         \/ \E t \in Tokens : ReceiveCall(r, t)
         \/ ConsumeState(r)
         \/ IdentifyUser(r)
         \/ UpsertUser(r)
         \/ CreateSession(r)
         \/ LookupSession(r)
         \/ LoadUser(r)
         \/ Leave(r)

Spec == Init /\ [][Next]_vars

-----------------------------------------------------------------------------
(* Properties.                                                             *)

\* Types of the tables; a session's user is one of users (the foreign key).
TypeOK ==
    /\ clock \in 0 .. MaxTime
    /\ oauthStates \in [States -> State]
    /\ users \in SUBSET Accounts
    /\ sessions \in [Tokens -> Session]
    /\ requests \in [Requests -> Request]
    /\ \A t \in Tokens : sessions[t].status # "absent" => sessions[t].user \in users

\* The callbacks that got past Consume with a state, and what they became.
SigningIn(r, s) ==
    requests[r].op \in {"identifying", "upserting", "saving"} /\ requests[r].state = s
CameFrom(t, s) == sessions[t].status # "absent" /\ sessions[t].state = s

\* One state signs in once, however often and however concurrently its
\* callback comes: it has one callback past Consume, or one session, and
\* never both, also when the session has been logged out since.
OneLoginPerState ==
    \A s \in States :
        /\ \A q, r \in Requests : SigningIn(q, s) /\ SigningIn(r, s) => q = r
        /\ \A t, v \in Tokens : CameFrom(t, s) /\ CameFrom(v, s) => t = v
        /\ \A r \in Requests, t \in Tokens : ~(SigningIn(r, s) /\ CameFrom(t, s))

\* A callback that comes in StateTTL after its state was stored, or later,
\* does not get past Consume, whatever the delays between readings of the
\* clock and statements.
StateUsedInTime ==
    \A r \in Requests, s \in States :
        SigningIn(r, s) /\ ~Is(r, "saving") => requests[r].now < oauthStates[s].stored + StateTTL

\* No call runs as a signed-in user's if it came in after the session's logout
\* was answered; what logout overtakes may still run.
NothingAfterLogout == \A r \in Requests : Is(r, "authorised") => ~requests[r].loggedOut

\* No call runs as a signed-in user's if it came in SessionTTL after the
\* session was stored, or later.
SessionUsedInTime ==
    \A r \in Requests : Is(r, "authorised") =>
        requests[r].now < sessions[requests[r].token].stored + SessionTTL

=============================================================================
