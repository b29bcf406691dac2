-------------------------- MODULE RepositoryConnect --------------------------
(***************************************************************************)
(* Who owns what: the repositories table, with one connected repository    *)
(* per user, and the rows that hang on it: rules and accepted events.      *)
(*                                                                         *)
(* Every operation reads first and writes later, in statements of its own  *)
(* without a transaction around them: Connect checks and then inserts, the *)
(* rule service and the ingestion look the repository up and then write a  *)
(* row for it, and the worker's validation looks it up twice. In between,  *)
(* the repository may be disconnected and connected again, by its user or  *)
(* by another one. What holds the tables together are their constraints.   *)
(*                                                                         *)
(* Abstracted: names, rule contents and payloads; the GitHub API, which    *)
(* may refuse a Connect; the claim, retry and settlement of events, which  *)
(* EventQueue models, except for the failure of a validation.              *)
(***************************************************************************)
EXTENDS Naturals

CONSTANTS
    Users,
    GitHubRepos,        \* repositories on GitHub
    MaxRepositories,    \* bound: rows ever inserted into repositories
    Deliveries,         \* X-GitHub-Delivery ids
    RepoOf,             \* the GitHub repository in a delivery's payload
    RuleIds,            \* bound: rules ever created
    Requests,           \* HTTP requests and worker runs under way at once
    None

ASSUME RepositoriesAssumption == MaxRepositories \in Nat
ASSUME RepoOfAssumption == RepoOf \in [Deliveries -> GitHubRepos]
ASSUME NobodyAssumption == None \notin Users \cup GitHubRepos

\* Rows of repositories; ids are never used again.
RepoIds == 1 .. MaxRepositories
NoRepo == 0

VARIABLES
    repositories,   \* [RepoIds -> Repository]
    rules,          \* [RuleIds -> Rule]
    events,         \* [Deliveries -> Event]: delivery_id is UNIQUE
    requests,       \* [Requests -> Request]: what each request remembers
    shared          \* history: [GitHubRepos -> BOOLEAN], were two users ever
                    \* connected to it at once?

vars == <<repositories, rules, events, requests, shared>>

Repository == [status : {"absent", "present", "deleted"},
               user   : Users \cup {None},
               github : GitHubRepos \cup {None}]

\* writer: history, the user whose request created, changed or deleted it last.
Rule == [status : {"absent", "present", "deleted"},
         repo   : RepoIds \cup {NoRepo},
         writer : Users \cup {None}]

Event == [status : {"absent", "present"},
          repo   : RepoIds \cup {NoRepo},
          failed : BOOLEAN]

Request == [op       : {"idle", "connecting", "creating", "updating", "deleting",
                        "ingesting", "claimed", "located", "invalid"},
            user     : Users \cup {None},
            github   : GitHubRepos \cup {None},
            repo     : RepoIds \cup {NoRepo},
            rule     : RuleIds \cup {None},
            delivery : Deliveries \cup {None}]

NoEvent == [status |-> "absent", repo |-> NoRepo, failed |-> FALSE]

Ended == [op |-> "idle", user |-> None, github |-> None, repo |-> NoRepo,
          rule |-> None, delivery |-> None]

ConnectRequest(u, g) ==
    [op |-> "connecting", user |-> u, github |-> g, repo |-> NoRepo,
     rule |-> None, delivery |-> None]

RuleRequest(op, u, c, x) ==
    [op |-> op, user |-> u, github |-> None, repo |-> c, rule |-> x, delivery |-> None]

EventRequest(op, c, d) ==
    [op |-> op, user |-> None, github |-> None, repo |-> c, rule |-> None, delivery |-> d]

Init ==
    /\ repositories = [c \in RepoIds |-> [status |-> "absent", user |-> None, github |-> None]]
    /\ rules = [x \in RuleIds |-> [status |-> "absent", repo |-> NoRepo, writer |-> None]]
    /\ events = [d \in Deliveries |-> NoEvent]
    /\ requests = [r \in Requests |-> Ended]
    /\ shared = [g \in GitHubRepos |-> FALSE]

-----------------------------------------------------------------------------
(* The tables' constraints and the store's lookups.                        *)

Present(c) == c \in RepoIds /\ repositories[c].status = "present"

Owns(u, c) == Present(c) /\ repositories[c].user = u

\* Fault variant: no such constraint; the check before the INSERT must do.
AnyUser(u) == u \in Users

\* UNIQUE (user_id).
UserMayConnect(u) == \A c \in RepoIds : ~Owns(u, c)

\* Fault variant: a foreign key to any row there ever was.
EverPresent(c) == c \in RepoIds /\ repositories[c].status # "absent"

\* The foreign keys of rules and webhook_events.
References(c) == Present(c)

\* Fault variant: a query that forgets its condition.
AnyPresent(g, c) == Present(c) /\ g \in GitHubRepos

\* GetByGitHubID: LIMIT 1 without an ORDER BY, hence any of these rows.
FoundByGitHub(g, c) == Present(c) /\ repositories[c].github = g

\* Fault variant: the statement goes by the rule's id alone.
AnyRule(x, c) == rules[x].status = "present" /\ c \in RepoIds

\* The rows of an UPDATE or DELETE of a rule "WHERE id AND repository_id".
RuleOf(x, c) == rules[x].status = "present" /\ rules[x].repo = c

\* The accepted event that a worker's copy is of. A delivery's row comes
\* back after its deletion only for another row of repositories.
StoredFor(d, c) == events[d].status = "present" /\ events[d].repo = c

Is(r, op) == requests[r].op = op
End(r) == requests' = [requests EXCEPT ![r] = Ended]
Continue(r, request) == requests' = [requests EXCEPT ![r] = request]

-----------------------------------------------------------------------------
(* Connect and Disconnect.                                                 *)

\* Connect up to the answer of GitHub: the user has no repository yet, and
\* administrates the one on GitHub.
CheckConnect(r, u, g) ==
    /\ Is(r, "idle")
    /\ \A c \in RepoIds : ~Owns(u, c)
    /\ Continue(r, ConnectRequest(u, g))
    /\ UNCHANGED <<repositories, rules, events, shared>>

\* Fault variant: an INSERT that leaves a column out.
RowWithoutGitHub(u, g) == [status |-> "present", user |-> u, github |-> None]

ConnectedRow(u, g) == [status |-> "present", user |-> u, github |-> g]

\* The INSERT; a conflict is answered ErrAlreadyConnected.
InsertRepository(r) ==
    LET u == requests[r].user
        g == requests[r].github IN
    /\ Is(r, "connecting")
    /\ \/ /\ UserMayConnect(u)
          /\ \E c \in RepoIds :
               /\ repositories[c].status = "absent"
               /\ \A b \in 1 .. c - 1 : repositories[b].status # "absent"
               /\ repositories' = [repositories EXCEPT ![c] = ConnectedRow(u, g)]
          /\ shared' = [shared EXCEPT ![g] = @ \/ \E c \in RepoIds : FoundByGitHub(g, c)]
       \/ /\ ~UserMayConnect(u)
          /\ UNCHANGED <<repositories, shared>>
    /\ End(r)
    /\ UNCHANGED <<rules, events>>

\* The DELETE and its cascade.
Disconnect(u) ==
    /\ \E c \in RepoIds :
         /\ Owns(u, c)
         /\ repositories' = [repositories EXCEPT ![c].status = "deleted"]
         /\ rules' = [x \in RuleIds |-> IF RuleOf(x, c)
                                        THEN [rules[x] EXCEPT !.status = "deleted"]
                                        ELSE rules[x]]
         /\ events' = [d \in Deliveries |-> IF StoredFor(d, c) THEN NoEvent ELSE events[d]]
    /\ UNCHANGED <<requests, shared>>

-----------------------------------------------------------------------------
(* The rule service: the caller's repository first, then the statement.    *)

\* Which of the three operations follows; rule is None for a new one. The
\* rule named by the caller may be anyone's.
ConnectedRepo(r, u, op, rule) ==
    /\ Is(r, "idle")
    /\ \E c \in RepoIds :
         /\ Owns(u, c)
         /\ Continue(r, RuleRequest(op, u, c, rule))
    /\ UNCHANGED <<repositories, rules, events, shared>>

CreateRule(r) ==
    /\ Is(r, "creating")
    /\ IF References(requests[r].repo)
       THEN \E x \in RuleIds :
              /\ rules[x].status = "absent"
              /\ rules' = [rules EXCEPT ![x] = [status |-> "present",
                                                repo |-> requests[r].repo,
                                                writer |-> requests[r].user]]
       ELSE UNCHANGED rules
    /\ End(r)
    /\ UNCHANGED <<repositories, events, shared>>

\* Update and Delete; on no row: ErrNotFound.
ChangeRule(r) ==
    LET x == requests[r].rule
        c == requests[r].repo IN
    /\ Is(r, "updating") \/ Is(r, "deleting")
    /\ rules' = IF RuleOf(x, c)
                THEN [rules EXCEPT ![x] = [status |-> IF Is(r, "deleting") THEN "deleted" ELSE "present",
                                           repo |-> rules[x].repo,
                                           writer |-> requests[r].user]]
                ELSE rules
    /\ End(r)
    /\ UNCHANGED <<repositories, events, shared>>

-----------------------------------------------------------------------------
(* Ingest, and the worker's Validate.                                      *)

\* Ingest up to the lookup; a delivery for no repository is ignored.
LookupDelivery(r, d) ==
    /\ Is(r, "idle")
    /\ \E c \in RepoIds :
         /\ FoundByGitHub(RepoOf[d], c)
         /\ Continue(r, EventRequest("ingesting", c, d))
    /\ UNCHANGED <<repositories, rules, events, shared>>

\* The INSERT: the id is new and the repository still there, or nothing
\* happens ("already_received", or an error for GitHub to retry).
InsertEvent(r) ==
    LET d == requests[r].delivery IN
    /\ Is(r, "ingesting")
    /\ events' = IF References(requests[r].repo) /\ events[d].status = "absent"
                 THEN [events EXCEPT ![d] = [status |-> "present", failed |-> FALSE,
                                             repo |-> requests[r].repo]]
                 ELSE events
    /\ End(r)
    /\ UNCHANGED <<repositories, rules, shared>>

\* A worker takes a copy of an event that has not failed.
ClaimEvent(r, d) ==
    /\ Is(r, "idle")
    /\ events[d].status = "present" /\ ~events[d].failed
    /\ Continue(r, EventRequest("claimed", events[d].repo, d))
    /\ UNCHANGED <<repositories, rules, events, shared>>

\* Validate's GetByID: the repository is there, or the event is invalid; and
\* it is that of the payload, or there is a mismatch.
LoadById(r) ==
    LET c == requests[r].repo
        d == requests[r].delivery IN
    /\ Is(r, "claimed")
    /\ Continue(r, EventRequest(IF FoundByGitHub(RepoOf[d], c) THEN "located" ELSE "invalid", c, d))
    /\ UNCHANGED <<repositories, rules, events, shared>>

\* Validate's GetByGitHubID: the same row, and the run goes on (out of this
\* module's sight), or another one, or none.
LoadByGitHub(r) ==
    LET c == requests[r].repo
        d == requests[r].delivery
        g == RepoOf[d] IN
    /\ Is(r, "located")
    /\ \/ FoundByGitHub(g, c) /\ End(r)
       \/ /\ \/ \E b \in RepoIds \ {c} : FoundByGitHub(g, b)
             \/ \A b \in RepoIds : ~FoundByGitHub(g, b)
          /\ Continue(r, EventRequest("invalid", c, d))
    /\ UNCHANGED <<repositories, rules, events, shared>>

\* Both errors are permanent: MarkFailedImmediately, if the row is there.
FailEvent(r) ==
    LET d == requests[r].delivery IN
    /\ Is(r, "invalid")
    /\ events' = IF StoredFor(d, requests[r].repo)
                 THEN [events EXCEPT ![d].failed = TRUE]
                 ELSE events
    /\ End(r)
    /\ UNCHANGED <<repositories, rules, shared>>

-----------------------------------------------------------------------------
\* GitHub refuses, a statement fails, or the process dies: no effect.
Abandon(r) ==
    /\ ~Is(r, "idle")
    /\ End(r)
    /\ UNCHANGED <<repositories, rules, events, shared>>

Next ==
    \/ \E u \in Users : Disconnect(u)
    \/ \E r \in Requests :
         \/ \E u \in Users, g \in GitHubRepos : CheckConnect(r, u, g)
         \/ \E u \in Users : ConnectedRepo(r, u, "creating", None)
         \/ \E u \in Users, op \in {"updating", "deleting"}, x \in RuleIds :
              ConnectedRepo(r, u, op, x)
         \/ \E d \in Deliveries : LookupDelivery(r, d) \/ ClaimEvent(r, d)
         \/ InsertRepository(r)
         \/ CreateRule(r)
         \/ ChangeRule(r)
         \/ InsertEvent(r)
         \/ LoadById(r)
         \/ LoadByGitHub(r)
         \/ FailEvent(r)
         \/ Abandon(r)

Spec == Init /\ [][Next]_vars

-----------------------------------------------------------------------------
(* Properties.                                                             *)

\* Types of the tables; a connected repository has its columns.
TypeOK ==
    /\ repositories \in [RepoIds -> Repository]
    /\ rules \in [RuleIds -> Rule]
    /\ events \in [Deliveries -> Event]
    /\ requests \in [Requests -> Request]
    /\ shared \in [GitHubRepos -> BOOLEAN]
    /\ \A c \in RepoIds : repositories[c].status # "absent" =>
         repositories[c].user \in Users /\ repositories[c].github \in GitHubRepos

\* However their Connects interleave between check and insert, a user never
\* has two repositories.
OneRepositoryPerUser ==
    \A u \in Users, b, c \in RepoIds : Owns(u, b) /\ Owns(u, c) => b = c

\* A rule or event that a request wrote for the repository it had looked up
\* never outlives that repository, and the event's payload is about it: not
\* when the repository is disconnected, or connected anew, in between.
RowsFollowRepository ==
    /\ \A x \in RuleIds : rules[x].status = "present" => Present(rules[x].repo)
    /\ \A d \in Deliveries : events[d].status = "present" =>
         FoundByGitHub(RepoOf[d], events[d].repo)

\* A rule is created, changed and deleted by nobody but the user who connected
\* its repository, also when the caller names another user's rule and when the
\* repository changes between the lookup and the statement.
RulesWrittenByOwner ==
    \A x \in RuleIds : rules[x].status # "absent" =>
        /\ rules[x].repo \in RepoIds
        /\ rules[x].writer = repositories[rules[x].repo].user

\* Validation fails an accepted event, whose repository is still connected,
\* only if two users were once connected to the same GitHub repository: then
\* GetByGitHubID may return the other user's row.
FailedOnlyWhenShared ==
    \A d \in Deliveries :
        events[d].status = "present" /\ events[d].failed => shared[RepoOf[d]]

=============================================================================
