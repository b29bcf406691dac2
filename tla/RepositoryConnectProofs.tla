----------------------- MODULE RepositoryConnectProofs -----------------------
(***************************************************************************)
(* Proofs of the safety properties of RepositoryConnect, for any number of *)
(* users, repositories, rules, deliveries and concurrent requests.         *)
(***************************************************************************)
EXTENDS RepositoryConnect, TLAPS

-----------------------------------------------------------------------------
(* Which steps change which table.                                         *)

LEMMA RepositoriesChange ==
    ASSUME [Next]_vars
    PROVE  \/ UNCHANGED <<repositories, shared>>
           \/ \E u \in Users : Disconnect(u)
           \/ \E r \in Requests : InsertRepository(r)
  BY DEF Next, vars, CheckConnect, ConnectedRepo, LookupDelivery, ClaimEvent, CreateRule,
         ChangeRule, InsertEvent, LoadById, LoadByGitHub, FailEvent, Abandon

LEMMA RulesChange ==
    ASSUME [Next]_vars
    PROVE  \/ UNCHANGED rules
           \/ \E u \in Users : Disconnect(u)
           \/ \E r \in Requests : CreateRule(r) \/ ChangeRule(r)
  BY DEF Next, vars, CheckConnect, ConnectedRepo, LookupDelivery, ClaimEvent, InsertRepository,
         InsertEvent, LoadById, LoadByGitHub, FailEvent, Abandon

LEMMA EventsChange ==
    ASSUME [Next]_vars
    PROVE  \/ UNCHANGED events
           \/ \E u \in Users : Disconnect(u)
           \/ \E r \in Requests : InsertEvent(r) \/ FailEvent(r)
  BY DEF Next, vars, CheckConnect, ConnectedRepo, LookupDelivery, ClaimEvent, InsertRepository,
         CreateRule, ChangeRule, LoadById, LoadByGitHub, Abandon

\* A request starts, goes on, or ends; it keeps what it remembers meanwhile.
LEMMA RequestsChange ==
    ASSUME [Next]_vars
    PROVE  \/ UNCHANGED requests
           \/ \E r \in Requests : \/ End(r)
                                  \/ \E u \in Users, g \in GitHubRepos : CheckConnect(r, u, g)
                                  \/ \E u \in Users : ConnectedRepo(r, u, "creating", None)
                                  \/ \E u \in Users, op \in {"updating", "deleting"}, x \in RuleIds :
                                       ConnectedRepo(r, u, op, x)
                                  \/ \E d \in Deliveries : LookupDelivery(r, d) \/ ClaimEvent(r, d)
                                  \/ LoadById(r)
                                  \/ LoadByGitHub(r)
  BY DEF Next, vars, Disconnect, InsertRepository, CreateRule, ChangeRule, InsertEvent,
         FailEvent, Abandon

-----------------------------------------------------------------------------
(* Type correctness.                                                       *)

EventOps == {"ingesting", "claimed", "located", "invalid"}
RuleOps == {"creating", "updating", "deleting"}

\* What a request remembers in each of its operations.
Remembers(r) ==
    LET q == requests[r] IN
    /\ q.op = "connecting" => q.user \in Users /\ q.github \in GitHubRepos
    /\ q.op \in RuleOps => q.user \in Users /\ q.repo \in RepoIds
    /\ q.op \in {"updating", "deleting"} => q.rule \in RuleIds
    /\ q.op \in EventOps => q.delivery \in Deliveries

TypeInv == TypeOK /\ \A r \in Requests : Remembers(r)

LEMMA EndedRequest == Ended \in Request
  BY DEF Ended, Request

LEMMA TypeInvInit == Init => TypeInv
<1> SUFFICES ASSUME Init PROVE TypeInv
  OBVIOUS
<1>1. requests \in [Requests -> Request]
  BY EndedRequest DEF Init
<1>2. repositories \in [RepoIds -> Repository] /\ rules \in [RuleIds -> Rule]
  BY DEF Init, Repository, Rule
<1>3. events \in [Deliveries -> Event] /\ shared \in [GitHubRepos -> BOOLEAN]
  BY DEF Init, Event, NoEvent
<1>4. \A c \in RepoIds : repositories[c].status = "absent"
  BY DEF Init
<1>5. \A r \in Requests : Remembers(r)
  BY DEF Init, Remembers, Ended, EventOps, RuleOps
<1> QED
  BY <1>1, <1>2, <1>3, <1>4, <1>5 DEF TypeInv, TypeOK

RepositoriesTyped ==
    /\ repositories \in [RepoIds -> Repository]
    /\ \A c \in RepoIds : repositories[c].status # "absent" =>
         repositories[c].user \in Users /\ repositories[c].github \in GitHubRepos

LEMMA RepositoriesTypedStep ==
    ASSUME TypeInv, [Next]_vars
    PROVE  RepositoriesTyped' /\ shared' \in [GitHubRepos -> BOOLEAN]
<1> USE DEF TypeInv
<1>1. CASE UNCHANGED <<repositories, shared>>
  BY <1>1 DEF TypeOK, RepositoriesTyped
<1>2. ASSUME NEW u \in Users, Disconnect(u)
      PROVE  RepositoriesTyped' /\ shared' \in [GitHubRepos -> BOOLEAN]
  <2>1. PICK c \in RepoIds : /\ Owns(u, c)
                             /\ repositories' = [repositories EXCEPT ![c].status = "deleted"]
    BY <1>2 DEF Disconnect
  <2>2. RepositoriesTyped'
    BY <2>1 DEF TypeOK, RepositoriesTyped, Repository, Owns, Present
  <2> QED
    BY <1>2, <2>2 DEF Disconnect, TypeOK
<1>3. ASSUME NEW r \in Requests, InsertRepository(r)
      PROVE  RepositoriesTyped' /\ shared' \in [GitHubRepos -> BOOLEAN]
  <2>1. requests[r].user \in Users /\ requests[r].github \in GitHubRepos
    BY <1>3 DEF InsertRepository, Is, Remembers
  <2>2. ConnectedRow(requests[r].user, requests[r].github) \in Repository
    BY <2>1 DEF ConnectedRow, Repository
  <2>3. RepositoriesTyped'
    BY <1>3, <2>1, <2>2 DEF InsertRepository, TypeOK, RepositoriesTyped, ConnectedRow
  <2>4. shared' \in [GitHubRepos -> BOOLEAN]
    BY <1>3, <2>1 DEF InsertRepository, TypeOK, FoundByGitHub, Present
  <2> QED
    BY <2>3, <2>4
<1> QED
  BY <1>1, <1>2, <1>3, RepositoriesChange

LEMMA RulesTypedStep ==
    ASSUME TypeInv, [Next]_vars
    PROVE  rules' \in [RuleIds -> Rule]
<1> USE DEF TypeInv
<1>1. CASE UNCHANGED rules
  BY <1>1 DEF TypeOK
<1>2. ASSUME NEW u \in Users, Disconnect(u) PROVE rules' \in [RuleIds -> Rule]
  <2>1. \A x \in RuleIds : [rules[x] EXCEPT !.status = "deleted"] \in Rule
    BY DEF TypeOK, Rule
  <2> QED
    BY <1>2, <2>1 DEF Disconnect, TypeOK
<1>3. ASSUME NEW r \in Requests, CreateRule(r) PROVE rules' \in [RuleIds -> Rule]
  BY <1>3 DEF CreateRule, Is, Remembers, RuleOps, TypeOK, Rule
<1>4. ASSUME NEW r \in Requests, ChangeRule(r) PROVE rules' \in [RuleIds -> Rule]
  BY <1>4 DEF ChangeRule, Is, Remembers, RuleOps, TypeOK, Rule
<1> QED
  BY <1>1, <1>2, <1>3, <1>4, RulesChange

LEMMA EventsTypedStep ==
    ASSUME TypeInv, [Next]_vars
    PROVE  events' \in [Deliveries -> Event]
<1> USE DEF TypeInv
<1>1. CASE UNCHANGED events
  BY <1>1 DEF TypeOK
<1>2. ASSUME NEW u \in Users, Disconnect(u) PROVE events' \in [Deliveries -> Event]
  BY <1>2 DEF Disconnect, TypeOK, NoEvent, Event
<1>3. ASSUME NEW r \in Requests, InsertEvent(r) PROVE events' \in [Deliveries -> Event]
  BY <1>3 DEF InsertEvent, Is, Remembers, EventOps, TypeOK, Event, Request
<1>4. ASSUME NEW r \in Requests, FailEvent(r) PROVE events' \in [Deliveries -> Event]
  BY <1>4 DEF FailEvent, Is, Remembers, EventOps, TypeOK, Event
<1> QED
  BY <1>1, <1>2, <1>3, <1>4, EventsChange

RequestsTyped == requests \in [Requests -> Request] /\ \A r \in Requests : Remembers(r)

\* One request takes on a well-typed value that remembers what it must.
LEMMA RequestTyped ==
    ASSUME RequestsTyped, NEW r \in Requests, NEW q \in Request, Continue(r, q),
           q.op = "connecting" => q.user \in Users /\ q.github \in GitHubRepos,
           q.op \in RuleOps => q.user \in Users /\ q.repo \in RepoIds,
           q.op \in {"updating", "deleting"} => q.rule \in RuleIds,
           q.op \in EventOps => q.delivery \in Deliveries
    PROVE  RequestsTyped'
<1>1. requests' = [requests EXCEPT ![r] = q]
  BY DEF Continue
<1>2. requests' \in [Requests -> Request]
  BY <1>1 DEF RequestsTyped
<1>3. ASSUME NEW s \in Requests PROVE Remembers(s)'
  <2>1. CASE s = r
    <3>1. requests'[s] = q
      BY <1>1, <2>1 DEF RequestsTyped
    <3> QED
      BY <3>1 DEF Remembers
  <2>2. CASE s # r
    <3>1. requests'[s] = requests[s]
      BY <1>1, <2>2 DEF RequestsTyped
    <3> QED
      BY <3>1 DEF RequestsTyped, Remembers
  <2> QED
    BY <2>1, <2>2
<1> QED
  BY <1>2, <1>3 DEF RequestsTyped

LEMMA EventRequestTyped ==
    ASSUME RequestsTyped, NEW r \in Requests, NEW op \in EventOps,
           NEW c \in RepoIds \cup {NoRepo}, NEW d \in Deliveries, Continue(r, EventRequest(op, c, d))
    PROVE  RequestsTyped'
<1>1. /\ EventRequest(op, c, d) \in Request
      /\ EventRequest(op, c, d).op = op
      /\ EventRequest(op, c, d).delivery = d
  BY DEF EventRequest, Request, EventOps
<1> QED
  BY <1>1, RequestTyped DEF EventOps, RuleOps

LEMMA RuleRequestTyped ==
    ASSUME RequestsTyped, NEW r \in Requests, NEW op \in RuleOps, NEW u \in Users,
           NEW x \in RuleIds \cup {None}, op # "creating" => x \in RuleIds,
           ConnectedRepo(r, u, op, x)
    PROVE  RequestsTyped'
<1>1. PICK c \in RepoIds : Continue(r, RuleRequest(op, u, c, x))
  BY DEF ConnectedRepo
<1>2. /\ RuleRequest(op, u, c, x) \in Request
      /\ RuleRequest(op, u, c, x).op = op
      /\ RuleRequest(op, u, c, x).user = u
      /\ RuleRequest(op, u, c, x).repo = c
      /\ RuleRequest(op, u, c, x).rule = x
  BY DEF RuleRequest, Request, RuleOps
<1> QED
  BY <1>1, <1>2, RequestTyped DEF EventOps, RuleOps

LEMMA RequestsTypedStep ==
    ASSUME TypeInv, [Next]_vars
    PROVE  RequestsTyped'
<1>0. RequestsTyped
  BY DEF TypeInv, TypeOK, RequestsTyped
<1>1. CASE UNCHANGED requests
  BY <1>0, <1>1 DEF RequestsTyped, Remembers
<1>2. ASSUME NEW r \in Requests, End(r) PROVE RequestsTyped'
  <2>1. Continue(r, Ended) /\ Ended.op = "idle"
    BY <1>2 DEF End, Continue, Ended
  <2> QED
    BY <1>0, <2>1, EndedRequest, RequestTyped DEF EventOps, RuleOps
<1>3. ASSUME NEW r \in Requests, NEW u \in Users, NEW g \in GitHubRepos, CheckConnect(r, u, g)
      PROVE  RequestsTyped'
  <2>1. Continue(r, ConnectRequest(u, g))
    BY <1>3 DEF CheckConnect
  <2>2. /\ ConnectRequest(u, g) \in Request
        /\ ConnectRequest(u, g).op = "connecting"
        /\ ConnectRequest(u, g).user = u
        /\ ConnectRequest(u, g).github = g
    BY DEF ConnectRequest, Request
  <2> QED
    BY <1>0, <2>1, <2>2, RequestTyped DEF EventOps, RuleOps
<1>4. ASSUME NEW r \in Requests, NEW d \in Deliveries, LookupDelivery(r, d) \/ ClaimEvent(r, d)
      PROVE  RequestsTyped'
  <2>1. CASE LookupDelivery(r, d)
    BY <1>0, <2>1, EventRequestTyped DEF LookupDelivery, EventOps
  <2>2. CASE ClaimEvent(r, d)
    <3>1. events[d].repo \in RepoIds \cup {NoRepo}
      BY DEF TypeInv, TypeOK, Event
    <3> QED
      BY <1>0, <2>2, <3>1, EventRequestTyped DEF ClaimEvent, EventOps
  <2> QED
    BY <1>4, <2>1, <2>2
<1>5. ASSUME NEW r \in Requests, LoadById(r) \/ LoadByGitHub(r) PROVE RequestsTyped'
  <2>1. requests[r].delivery \in Deliveries /\ requests[r].repo \in RepoIds \cup {NoRepo}
    BY <1>0, <1>5 DEF RequestsTyped, Remembers, Request, LoadById, LoadByGitHub, Is, EventOps
  <2>2. End(r) \/ \E op \in EventOps :
                     Continue(r, EventRequest(op, requests[r].repo, requests[r].delivery))
    BY <1>5 DEF LoadById, LoadByGitHub, EventOps
  <2> QED
    BY <1>0, <1>2, <2>1, <2>2, EventRequestTyped
<1> QED
  BY <1>0, <1>1, <1>2, <1>3, <1>4, <1>5, RequestsChange, RuleRequestTyped DEF RuleOps

LEMMA TypeInvStep == TypeInv /\ [Next]_vars => TypeInv'
  BY RepositoriesTypedStep, RulesTypedStep, EventsTypedStep, RequestsTypedStep
     DEF TypeInv, TypeOK, RepositoriesTyped, RequestsTyped

\* The tables, and what requests remember of them, keep their types.
THEOREM TypeCorrect == Spec => []TypeOK
<1>1. Spec => []TypeInv
  BY TypeInvInit, TypeInvStep, PTL DEF Spec
<1> QED
  BY <1>1, PTL DEF TypeInv

-----------------------------------------------------------------------------
(* One repository per user.                                                *)

\* Rows of repositories are written once, and deleted once.
LEMMA RepositoriesKept ==
    ASSUME TypeInv, [Next]_vars, NEW c \in RepoIds, repositories[c].status # "absent"
    PROVE  /\ repositories'[c].status # "absent"
           /\ repositories'[c].user = repositories[c].user
           /\ repositories'[c].github = repositories[c].github
           /\ Present(c)' => Present(c)
<1>1. CASE UNCHANGED <<repositories, shared>>
  BY <1>1 DEF Present
<1>2. ASSUME NEW u \in Users, Disconnect(u)
      PROVE  /\ repositories'[c].status # "absent"
             /\ repositories'[c].user = repositories[c].user
             /\ repositories'[c].github = repositories[c].github
             /\ Present(c)' => Present(c)
  <2>1. PICK b \in RepoIds : repositories' = [repositories EXCEPT ![b].status = "deleted"]
    BY <1>2 DEF Disconnect
  <2> QED
    BY <2>1 DEF TypeInv, TypeOK, Repository, Present
<1>3. ASSUME NEW r \in Requests, InsertRepository(r)
      PROVE  repositories'[c] = repositories[c]
  BY <1>3 DEF InsertRepository, TypeInv, TypeOK
<1> QED
  BY <1>1, <1>2, <1>3, RepositoriesChange DEF Present

OwnerInv == TypeInv /\ OneRepositoryPerUser

LEMMA OwnerInvInit == Init => OwnerInv
  BY TypeInvInit DEF OwnerInv, OneRepositoryPerUser, Owns, Present, Init

LEMMA OwnerInvStep == OwnerInv /\ [Next]_vars => OwnerInv'
<1> SUFFICES ASSUME OwnerInv, [Next]_vars PROVE OneRepositoryPerUser'
  BY TypeInvStep DEF OwnerInv
<1> USE DEF OwnerInv
<1>1. CASE UNCHANGED <<repositories, shared>>
  BY <1>1 DEF OneRepositoryPerUser, Owns, Present
<1>2. ASSUME NEW u \in Users, Disconnect(u) PROVE OneRepositoryPerUser'
  <2>1. PICK b \in RepoIds : repositories' = [repositories EXCEPT ![b].status = "deleted"]
    BY <1>2 DEF Disconnect
  <2>2. \A v \in Users, c \in RepoIds : Owns(v, c)' => Owns(v, c)
    BY <2>1 DEF Owns, Present, TypeInv, TypeOK, Repository
  <2> QED
    BY <2>2 DEF OneRepositoryPerUser
<1>3. ASSUME NEW r \in Requests, InsertRepository(r) PROVE OneRepositoryPerUser'
  <2>1. CASE UNCHANGED repositories
    BY <2>1 DEF OneRepositoryPerUser, Owns, Present
  <2>2. CASE UserMayConnect(requests[r].user)
    <3> DEFINE u == requests[r].user
               g == requests[r].github
    <3>1. PICK n \in RepoIds : repositories' = [repositories EXCEPT ![n] = ConnectedRow(u, g)]
      BY <1>3, <2>2 DEF InsertRepository
    <3>2. ASSUME NEW v \in Users, NEW c \in RepoIds, Owns(v, c)'
          PROVE  IF c = n THEN v = u ELSE Owns(v, c)
      BY <3>1, <3>2 DEF Owns, Present, ConnectedRow, TypeInv, TypeOK
    <3> QED
      BY <2>2, <3>2 DEF OneRepositoryPerUser, UserMayConnect
  <2> QED
    BY <1>3, <2>1, <2>2 DEF InsertRepository
<1> QED
  BY <1>1, <1>2, <1>3, RepositoriesChange

\* A user never has two repositories, whatever Connects are under way.
THEOREM OneRepository == Spec => []OneRepositoryPerUser
<1>1. Spec => []OwnerInv
  BY OwnerInvInit, OwnerInvStep, PTL DEF Spec
<1> QED
  BY <1>1, PTL DEF OwnerInv

-----------------------------------------------------------------------------
(* The rows for a repository: what a request looked up may be gone when it *)
(* writes, but a row it named never names another repository.              *)

EventRow(d) == events[d].status = "present" => FoundByGitHub(RepoOf[d], events[d].repo)

RuleRow(x) ==
    /\ rules[x].status # "absent" =>
         /\ rules[x].repo \in RepoIds
         /\ repositories[rules[x].repo].status # "absent"
         /\ rules[x].writer = repositories[rules[x].repo].user
    /\ rules[x].status = "present" => Present(rules[x].repo)

\* A request names a row that there was, and the right one.
Named(r) ==
    LET q == requests[r] IN
    /\ q.op \in RuleOps => repositories[q.repo].status # "absent"
                           /\ repositories[q.repo].user = q.user
    /\ q.op \in EventOps => q.repo \in RepoIds
                            /\ repositories[q.repo].status # "absent"
                            /\ repositories[q.repo].github = RepoOf[q.delivery]

NamesInv ==
    /\ TypeInv
    /\ \A d \in Deliveries : EventRow(d)
    /\ \A x \in RuleIds : RuleRow(x)
    /\ \A r \in Requests : Named(r)

LEMMA NamesInvInit == Init => NamesInv
<1> SUFFICES ASSUME Init PROVE NamesInv
  OBVIOUS
<1>1. \A d \in Deliveries : EventRow(d)
  BY DEF Init, EventRow, NoEvent
<1>2. \A x \in RuleIds : RuleRow(x)
  BY DEF Init, RuleRow
<1>3. \A r \in Requests : Named(r)
  BY DEF Init, Named, Ended, RuleOps, EventOps
<1> QED
  BY <1>1, <1>2, <1>3, TypeInvInit DEF NamesInv

\* A step that leaves the repositories' rows, or adds one, leaves what was
\* found there.
LEMMA FoundKept ==
    ASSUME TypeInv, [Next]_vars, NEW c \in RepoIds, NEW g \in GitHubRepos,
           repositories[c].status # "absent"
    PROVE  FoundByGitHub(g, c)' => FoundByGitHub(g, c)
  BY RepositoriesKept DEF FoundByGitHub

LEMMA PresentKept ==
    ASSUME TypeInv, [Next]_vars, NEW c \in RepoIds, Present(c), \A u \in Users : ~Disconnect(u)
    PROVE  repositories'[c] = repositories[c] /\ Present(c)'
<1>1. ASSUME NEW r \in Requests, InsertRepository(r) PROVE repositories'[c] = repositories[c]
  BY <1>1 DEF InsertRepository, TypeInv, TypeOK, Present
<1> QED
  BY <1>1, RepositoriesChange DEF Present

LEMMA EventRowStep ==
    ASSUME NamesInv, [Next]_vars, NEW d \in Deliveries
    PROVE  EventRow(d)'
<1> USE DEF NamesInv
<1>1. CASE \E u \in Users : Disconnect(u)
  <2>1. PICK c \in RepoIds : /\ Present(c)
                             /\ repositories' = [repositories EXCEPT ![c].status = "deleted"]
                             /\ events' = [f \in Deliveries |-> IF StoredFor(f, c)
                                                                THEN NoEvent ELSE events[f]]
    BY <1>1 DEF Disconnect, Owns
  <2> SUFFICES ASSUME events'[d].status = "present" PROVE EventRow(d)'
    BY DEF EventRow
  <2>2. events'[d] = events[d] /\ events[d].repo # c
    BY <2>1 DEF NoEvent, StoredFor
  <2>3. FoundByGitHub(RepoOf[d], events[d].repo)
    BY <2>2 DEF EventRow
  <2>4. repositories'[events[d].repo] = repositories[events[d].repo]
    BY <2>1, <2>2, <2>3 DEF FoundByGitHub, Present, TypeInv, TypeOK
  <2> QED
    BY <2>2, <2>3, <2>4 DEF EventRow, FoundByGitHub, Present
<1>2. CASE \A u \in Users : ~Disconnect(u)
  <2>1. ASSUME NEW c, FoundByGitHub(RepoOf[d], c) PROVE FoundByGitHub(RepoOf[d], c)'
    BY <1>2, <2>1, PresentKept DEF FoundByGitHub, Present
  <2>2. CASE UNCHANGED events
    BY <2>1, <2>2 DEF EventRow
  <2>3. ASSUME NEW r \in Requests, InsertEvent(r) PROVE EventRow(d)'
    <3>1. CASE events'[d] = events[d]
      BY <2>1, <3>1 DEF EventRow
    <3>2. CASE events'[d] # events[d]
      <4>1. /\ d = requests[r].delivery /\ References(requests[r].repo)
            /\ events'[d].repo = requests[r].repo
        BY <2>3, <3>2 DEF InsertEvent, TypeInv, TypeOK
      <4>2. FoundByGitHub(RepoOf[d], requests[r].repo)
        BY <2>3, <4>1 DEF InsertEvent, Is, Named, EventOps, References, FoundByGitHub
      <4> QED
        BY <2>1, <4>1, <4>2 DEF EventRow
    <3> QED
      BY <3>1, <3>2
  <2>4. ASSUME NEW r \in Requests, FailEvent(r) PROVE EventRow(d)'
    <3>1. events'[d].status = events[d].status /\ events'[d].repo = events[d].repo
      BY <2>4 DEF FailEvent, TypeInv, TypeOK, Event
    <3> QED
      BY <2>1, <3>1 DEF EventRow
  <2> QED
    BY <1>2, <2>2, <2>3, <2>4, EventsChange
<1> QED
  BY <1>1, <1>2

LEMMA RuleRowStep ==
    ASSUME NamesInv, [Next]_vars, NEW x \in RuleIds
    PROVE  RuleRow(x)'
<1> USE DEF NamesInv
<1>0. rules \in [RuleIds -> Rule] /\ repositories \in [RepoIds -> Repository]
  BY DEF TypeInv, TypeOK
<1>1. CASE \E u \in Users : Disconnect(u)
  <2>1. PICK c \in RepoIds : /\ Present(c)
                             /\ repositories' = [repositories EXCEPT ![c].status = "deleted"]
                             /\ rules' = [y \in RuleIds |-> IF RuleOf(y, c)
                                             THEN [rules[y] EXCEPT !.status = "deleted"]
                                             ELSE rules[y]]
    BY <1>1 DEF Disconnect, Owns
  <2>2. /\ rules'[x].repo = rules[x].repo
        /\ rules'[x].writer = rules[x].writer
        /\ rules'[x].status # "absent" => rules[x].status # "absent"
        /\ rules'[x].status = "present" => rules[x].status = "present" /\ rules[x].repo # c
    BY <1>0, <2>1 DEF RuleOf, Rule
  <2>3. \A b \in RepoIds : b # c => repositories'[b] = repositories[b]
    BY <1>0, <2>1
  <2>4. ASSUME rules'[x].status # "absent"
        PROVE  /\ rules'[x].repo \in RepoIds
               /\ repositories'[rules'[x].repo].status # "absent"
               /\ rules'[x].writer = repositories'[rules'[x].repo].user
    BY <2>2, <2>4, RepositoriesKept DEF RuleRow
  <2>5. ASSUME rules'[x].status = "present" PROVE Present(rules[x].repo)'
    <3>1. /\ rules[x].repo \in RepoIds /\ Present(rules[x].repo)
          /\ repositories'[rules[x].repo] = repositories[rules[x].repo]
      BY <2>2, <2>3, <2>5 DEF RuleRow
    <3> QED
      BY <2>2, <3>1 DEF Present
  <2> QED
    BY <2>4, <2>5 DEF RuleRow
<1>2. CASE \A u \in Users : ~Disconnect(u)
  <2>1. ASSUME rules'[x] = rules[x] PROVE RuleRow(x)'
    <3>1. CASE rules[x].status = "absent"
      BY <2>1, <3>1 DEF RuleRow
    <3>2. CASE rules[x].status # "absent"
      <4>1. /\ rules[x].repo \in RepoIds
            /\ repositories'[rules[x].repo].status # "absent"
            /\ rules[x].writer = repositories'[rules[x].repo].user
        BY <3>2, RepositoriesKept DEF RuleRow
      <4>2. rules[x].status = "present" => Present(rules[x].repo)'
        BY <1>2, <2>1, <4>1, PresentKept DEF RuleRow
      <4> QED
        BY <2>1, <4>1, <4>2 DEF RuleRow
    <3> QED
      BY <3>1, <3>2
  <2>2. ASSUME NEW r \in Requests, CreateRule(r) \/ ChangeRule(r) PROVE RuleRow(x)'
    <3>1. /\ Is(r, "creating") \/ Is(r, "updating") \/ Is(r, "deleting")
          /\ UNCHANGED repositories
      BY <2>2 DEF CreateRule, ChangeRule
    <3>2. /\ requests[r].repo \in RepoIds
          /\ repositories[requests[r].repo].status # "absent"
          /\ repositories[requests[r].repo].user = requests[r].user
      BY <3>1 DEF Is, RuleOps, Named, TypeInv, Remembers
    <3>3. CASE rules'[x] # rules[x]
      <4>1. /\ rules'[x].repo = requests[r].repo
            /\ rules'[x].writer = requests[r].user
        BY <1>0, <2>2, <3>3 DEF CreateRule, ChangeRule, RuleOf
      <4>2. Present(requests[r].repo)
        <5>1. CASE CreateRule(r)
          BY <3>3, <5>1 DEF CreateRule, References
        <5>2. CASE ChangeRule(r)
          BY <1>0, <3>3, <5>2 DEF ChangeRule, RuleOf, RuleRow
        <5> QED
          BY <2>2, <5>1, <5>2
      <4> QED
        BY <3>1, <3>2, <4>1, <4>2 DEF RuleRow, Present
    <3> QED
      BY <2>1, <3>3
  <2> QED
    BY <1>2, <2>1, <2>2, RulesChange
<1> QED
  BY <1>1, <1>2

\* A request that goes on unchanged names the same row still.
LEMMA NamedKept ==
    ASSUME NamesInv, [Next]_vars, NEW r \in Requests, requests'[r] = requests[r]
    PROVE  Named(r)'
<1>1. requests[r].op \in RuleOps => requests[r].repo \in RepoIds
  BY DEF NamesInv, TypeInv, Remembers
<1>2. Named(r) /\ TypeInv
  BY DEF NamesInv
<1> QED
  BY <1>1, <1>2, RepositoriesKept DEF Named

LEMMA NamedStep ==
    ASSUME NamesInv, [Next]_vars, NEW r \in Requests
    PROVE  Named(r)'
<1> USE DEF NamesInv
<1>0. requests \in [Requests -> Request]
  BY DEF TypeInv, TypeOK
<1>1. ASSUME NEW q, NEW s \in Requests, Continue(s, q), r # s PROVE Named(r)'
  BY <1>0, <1>1, NamedKept DEF Continue
<1>2. ASSUME NEW q, Continue(r, q) PROVE requests'[r] = q
  BY <1>0, <1>2 DEF Continue
<1>3. ASSUME NEW s \in Requests, End(s) PROVE Named(r)'
  <2>1. Continue(s, Ended)
    BY <1>3 DEF End, Continue
  <2> QED
    BY <1>1, <1>2, <2>1 DEF Named, Ended, RuleOps, EventOps
<1>4. ASSUME NEW s \in Requests, NEW u \in Users, NEW g \in GitHubRepos, CheckConnect(s, u, g)
      PROVE  Named(r)'
  <2>1. Continue(s, ConnectRequest(u, g))
    BY <1>4 DEF CheckConnect
  <2> QED
    BY <1>1, <1>2, <2>1 DEF Named, ConnectRequest, RuleOps, EventOps
<1>5. ASSUME NEW s \in Requests, NEW u \in Users, NEW op \in RuleOps, NEW x,
             ConnectedRepo(s, u, op, x)
      PROVE  Named(r)'
  <2>1. PICK c \in RepoIds : Owns(u, c) /\ Continue(s, RuleRequest(op, u, c, x))
    BY <1>5 DEF ConnectedRepo
  <2>2. UNCHANGED repositories
    BY <1>5 DEF ConnectedRepo
  <2>3. CASE r = s
    <3>1. requests'[r].op = op /\ requests'[r].repo = c /\ requests'[r].user = u
      BY <1>2, <2>1, <2>3 DEF RuleRequest
    <3> QED
      BY <2>1, <2>2, <3>1 DEF Named, Owns, Present, RuleOps, EventOps
  <2> QED
    BY <1>1, <2>1, <2>3
<1>6. ASSUME NEW s \in Requests, NEW op \in EventOps, NEW c \in RepoIds, NEW d \in Deliveries,
             repositories[c].status # "absent", repositories[c].github = RepoOf[d],
             UNCHANGED repositories, Continue(s, EventRequest(op, c, d))
      PROVE  Named(r)'
  <2>1. CASE r = s
    <3>1. requests'[r].op = op /\ requests'[r].repo = c /\ requests'[r].delivery = d
      BY <1>2, <1>6, <2>1 DEF EventRequest
    <3> QED
      BY <1>6, <3>1 DEF Named, RuleOps, EventOps
  <2> QED
    BY <1>1, <1>6, <2>1
<1>7. ASSUME NEW s \in Requests, NEW d \in Deliveries, LookupDelivery(s, d) \/ ClaimEvent(s, d)
      PROVE  Named(r)'
  <2>1. CASE LookupDelivery(s, d)
    BY <1>6, <2>1 DEF LookupDelivery, FoundByGitHub, Present, EventOps
  <2>2. CASE ClaimEvent(s, d)
    <3>1. FoundByGitHub(RepoOf[d], events[d].repo)
      BY <2>2 DEF ClaimEvent, EventRow
    <3> QED
      BY <1>6, <2>2, <3>1 DEF ClaimEvent, FoundByGitHub, Present, EventOps
  <2> QED
    BY <1>7, <2>1, <2>2
<1>8. ASSUME NEW s \in Requests, LoadById(s) \/ LoadByGitHub(s) PROVE Named(r)'
  <2>1. /\ requests[s].delivery \in Deliveries
        /\ requests[s].repo \in RepoIds
        /\ repositories[requests[s].repo].status # "absent"
        /\ repositories[requests[s].repo].github = RepoOf[requests[s].delivery]
    BY <1>8 DEF LoadById, LoadByGitHub, Is, EventOps, Named, TypeInv, Remembers
  <2>2. UNCHANGED repositories
    BY <1>8 DEF LoadById, LoadByGitHub
  <2>3. End(s) \/ \E op \in EventOps :
                     Continue(s, EventRequest(op, requests[s].repo, requests[s].delivery))
    BY <1>8 DEF LoadById, LoadByGitHub, EventOps
  <2> QED
    BY <1>3, <1>6, <2>1, <2>2, <2>3
<1>9. CASE UNCHANGED requests
  BY <1>9, NamedKept
<1> QED
  BY <1>3, <1>4, <1>5, <1>7, <1>8, <1>9, RequestsChange DEF RuleOps

LEMMA NamesInvStep == NamesInv /\ [Next]_vars => NamesInv'
<1> SUFFICES ASSUME NamesInv, [Next]_vars PROVE NamesInv'
  OBVIOUS
<1>1. TypeInv'
  BY TypeInvStep DEF NamesInv
<1> QED
  BY <1>1, EventRowStep, RuleRowStep, NamedStep DEF NamesInv

LEMMA NamesInvariance == Spec => []NamesInv
  BY NamesInvInit, NamesInvStep, PTL DEF Spec

\* No rule and no event outlives the repository it was written for.
THEOREM NoOrphans == Spec => []RowsFollowRepository
<1>1. NamesInv => RowsFollowRepository
  BY DEF NamesInv, EventRow, RuleRow, RowsFollowRepository
<1> QED
  BY <1>1, NamesInvariance, PTL

\* Nobody but its owner ever wrote a rule.
THEOREM OwnRulesOnly == Spec => []RulesWrittenByOwner
<1>1. NamesInv => RulesWrittenByOwner
  BY DEF NamesInv, RuleRow, RulesWrittenByOwner
<1> QED
  BY <1>1, NamesInvariance, PTL

-----------------------------------------------------------------------------
(* Validation against the lookup by GitHub's id.                           *)

TwoConnected(g) == \E b, c \in RepoIds : b # c /\ FoundByGitHub(g, b) /\ FoundByGitHub(g, c)

\* A mismatch that was found, and not yet recorded.
Excused(r) ==
    Is(r, "invalid") /\ Present(requests[r].repo) => shared[RepoOf[requests[r].delivery]]

SharedInv ==
    /\ NamesInv
    /\ \A g \in GitHubRepos : TwoConnected(g) => shared[g]
    /\ \A r \in Requests : Excused(r)
    /\ FailedOnlyWhenShared

LEMMA SharedInvInit == Init => SharedInv
<1> SUFFICES ASSUME Init PROVE SharedInv
  OBVIOUS
<1>1. \A g \in GitHubRepos : ~TwoConnected(g)
  BY DEF Init, TwoConnected, FoundByGitHub, Present
<1>2. \A r \in Requests : Excused(r)
  BY DEF Init, Excused, Is, Ended
<1>3. FailedOnlyWhenShared
  BY DEF Init, FailedOnlyWhenShared, NoEvent
<1> QED
  BY <1>1, <1>2, <1>3, NamesInvInit DEF SharedInv

LEMMA SharedKept ==
    ASSUME TypeInv, [Next]_vars, NEW g \in GitHubRepos, shared[g]
    PROVE  shared'[g]
<1>1. ASSUME NEW u \in Users, Disconnect(u) PROVE shared'[g]
  BY <1>1 DEF Disconnect
<1>2. ASSUME NEW r \in Requests, InsertRepository(r) PROVE shared'[g]
  BY <1>2 DEF InsertRepository, TypeInv, TypeOK
<1> QED
  BY <1>1, <1>2, RepositoriesChange

LEMMA TwoConnectedStep ==
    ASSUME SharedInv, [Next]_vars, NEW g \in GitHubRepos, TwoConnected(g)'
    PROVE  shared'[g]
<1> USE DEF SharedInv, NamesInv
<1>1. CASE TwoConnected(g)
  BY <1>1, SharedKept
<1>2. CASE ~TwoConnected(g)
  <2>1. PICK b \in RepoIds, c \in RepoIds : b # c /\ FoundByGitHub(g, b)' /\ FoundByGitHub(g, c)'
    BY DEF TwoConnected
  <2>2. repositories[b].status = "absent" \/ repositories[c].status = "absent"
    BY <1>2, <2>1, FoundKept DEF TwoConnected
  <2>3. ASSUME NEW n \in RepoIds, NEW m \in RepoIds, n # m, repositories[n].status = "absent",
               FoundByGitHub(g, n)', FoundByGitHub(g, m)'
        PROVE  shared'[g]
    <3>1. PICK r \in Requests : InsertRepository(r)
      <4>1. ~UNCHANGED repositories
        BY <2>3 DEF FoundByGitHub, Present
      <4>2. ASSUME NEW u \in Users, Disconnect(u) PROVE FALSE
        BY <2>3, <4>2 DEF Disconnect, FoundByGitHub, Present, Owns, TypeInv, TypeOK, Repository
      <4> QED
        BY <4>1, <4>2, RepositoriesChange
    <3> DEFINE h == requests[r].github
    <3>2. PICK k \in RepoIds : repositories' = [repositories EXCEPT
                                                  ![k] = ConnectedRow(requests[r].user, h)]
      BY <2>3, <3>1 DEF InsertRepository, FoundByGitHub, Present
    <3>3. k = n /\ h = g
      BY <2>3, <3>2 DEF FoundByGitHub, Present, ConnectedRow, TypeInv, TypeOK
    <3>4. FoundByGitHub(g, m)
      BY <2>3, <3>2, <3>3 DEF FoundByGitHub, Present, TypeInv, TypeOK
    <3>5. shared' = [shared EXCEPT ![g] = @ \/ \E e \in RepoIds : FoundByGitHub(g, e)]
      BY <2>3, <3>1, <3>3 DEF InsertRepository, FoundByGitHub, Present
    <3> QED
      BY <3>4, <3>5 DEF TypeInv, TypeOK
  <2> QED
    BY <2>1, <2>2, <2>3
<1> QED
  BY <1>1, <1>2

LEMMA ExcusedStep ==
    ASSUME SharedInv, [Next]_vars, NEW r \in Requests
    PROVE  Excused(r)'
<1> USE DEF SharedInv, NamesInv
<1> SUFFICES ASSUME Is(r, "invalid")', Present(requests[r].repo)'
             PROVE  shared'[RepoOf[requests'[r].delivery]]
  BY DEF Excused
<1>0. requests \in [Requests -> Request] /\ RepoOf \in [Deliveries -> GitHubRepos]
  BY RepoOfAssumption DEF TypeInv, TypeOK
<1>1. CASE requests'[r] = requests[r]
  <2>1. /\ requests[r].delivery \in Deliveries
        /\ requests[r].repo \in RepoIds
        /\ repositories[requests[r].repo].status # "absent"
    BY <1>1 DEF Is, Named, EventOps, TypeInv, Remembers
  <2>2. Present(requests[r].repo)
    BY <1>1, <2>1, RepositoriesKept
  <2>3. shared[RepoOf[requests[r].delivery]]
    BY <1>1, <2>2 DEF Excused, Is
  <2> QED
    BY <1>0, <1>1, <2>1, <2>3, SharedKept
<1>2. CASE requests'[r] # requests[r]
  <2>1. LoadById(r) \/ LoadByGitHub(r)
    <3>1. ASSUME NEW s \in Requests, NEW q, Continue(s, q) PROVE s = r /\ requests'[r] = q
      BY <1>0, <1>2, <3>1 DEF Continue
    <3>2. ASSUME NEW s \in Requests, End(s) PROVE FALSE
      <4>1. Continue(s, Ended)
        BY <3>2 DEF End, Continue
      <4> QED
        BY <3>1, <4>1 DEF Is, Ended
    <3>3. ASSUME NEW s \in Requests, NEW u \in Users, NEW g \in GitHubRepos, CheckConnect(s, u, g)
          PROVE  FALSE
      BY <3>1, <3>3 DEF CheckConnect, ConnectRequest, Is
    <3>4. ASSUME NEW s \in Requests, NEW u \in Users, NEW op \in RuleOps, NEW x,
                 ConnectedRepo(s, u, op, x)
          PROVE  FALSE
      BY <3>1, <3>4 DEF ConnectedRepo, RuleRequest, Is, RuleOps
    <3>5. ASSUME NEW s \in Requests, NEW d \in Deliveries, LookupDelivery(s, d) \/ ClaimEvent(s, d)
          PROVE  FALSE
      <4>1. \E op \in {"ingesting", "claimed"} : \E c : Continue(s, EventRequest(op, c, d))
        BY <3>5 DEF LookupDelivery, ClaimEvent
      <4> QED
        BY <3>1, <4>1 DEF EventRequest, Is
    <3>6. ASSUME NEW s \in Requests, LoadById(s) \/ LoadByGitHub(s) PROVE s = r
      BY <3>1, <3>2, <3>6 DEF LoadById, LoadByGitHub
    <3> QED
      BY <1>2, <3>2, <3>3, <3>4, <3>5, <3>6, RequestsChange DEF RuleOps
  <2> DEFINE c == requests[r].repo
             d == requests[r].delivery
             g == RepoOf[d]
  <2>2. /\ d \in Deliveries /\ c \in RepoIds
        /\ repositories[c].github = g
    BY <2>1 DEF LoadById, LoadByGitHub, Is, EventOps, Named, TypeInv, Remembers
  <2>3. /\ requests'[r].repo = c /\ requests'[r].delivery = d
        /\ UNCHANGED <<repositories, shared>>
    <3>1. End(r) \/ \E op \in EventOps : Continue(r, EventRequest(op, c, d))
      BY <2>1 DEF LoadById, LoadByGitHub, EventOps
    <3>2. ~End(r)
      BY <1>0 DEF End, Ended, Is
    <3>3. PICK op \in EventOps : requests' = [requests EXCEPT ![r] = EventRequest(op, c, d)]
      BY <3>1, <3>2 DEF Continue
    <3>4. requests'[r] = EventRequest(op, c, d)
      BY <1>0, <3>3
    <3> QED
      BY <2>1, <3>4 DEF EventRequest, LoadById, LoadByGitHub
  <2>4. FoundByGitHub(g, c)
    BY <2>2, <2>3 DEF FoundByGitHub, Present
  <2>5. CASE LoadById(r)
    <3>1. requests' = [requests EXCEPT ![r] = EventRequest("located", c, d)]
      BY <2>4, <2>5 DEF LoadById, Continue
    <3> QED
      BY <1>0, <3>1 DEF EventRequest, Is
  <2>6. CASE LoadByGitHub(r)
    <3>1. ~End(r)
      BY <1>0 DEF End, Ended, Is
    <3>2. \E b \in RepoIds \ {c} : FoundByGitHub(g, b)
      BY <2>2, <2>4, <2>6, <3>1 DEF LoadByGitHub
    <3>3. TwoConnected(g)
      BY <2>2, <2>4, <3>2 DEF TwoConnected
    <3> QED
      BY <1>0, <2>2, <2>3, <3>3
  <2> QED
    BY <2>1, <2>5, <2>6
<1> QED
  BY <1>1, <1>2

LEMMA FailedStep ==
    ASSUME SharedInv, [Next]_vars
    PROVE  FailedOnlyWhenShared'
<1> USE DEF SharedInv, NamesInv
<1> SUFFICES ASSUME NEW d \in Deliveries, events'[d].status = "present", events'[d].failed
             PROVE  shared'[RepoOf[d]]
  BY DEF FailedOnlyWhenShared
<1>0. events \in [Deliveries -> Event] /\ RepoOf[d] \in GitHubRepos
  BY RepoOfAssumption DEF TypeInv, TypeOK
<1>1. CASE events'[d] = events[d]
  BY <1>0, <1>1, SharedKept DEF FailedOnlyWhenShared
<1>2. CASE events'[d] # events[d]
  <2>1. ASSUME NEW u \in Users, Disconnect(u) PROVE FALSE
    BY <1>2, <2>1 DEF Disconnect, NoEvent
  <2>2. ASSUME NEW r \in Requests, InsertEvent(r) PROVE FALSE
    BY <1>0, <1>2, <2>2 DEF InsertEvent
  <2>3. PICK r \in Requests : FailEvent(r)
    BY <1>2, <2>1, <2>2, EventsChange
  <2>4. d = requests[r].delivery /\ StoredFor(d, requests[r].repo)
    BY <1>0, <1>2, <2>3 DEF FailEvent
  <2>5. Present(requests[r].repo)
    BY <2>4 DEF StoredFor, EventRow, FoundByGitHub
  <2>6. shared[RepoOf[d]]
    BY <2>3, <2>4, <2>5 DEF FailEvent, Excused
  <2> QED
    BY <1>0, <2>6, SharedKept
<1> QED
  BY <1>1, <1>2

LEMMA SharedInvStep == SharedInv /\ [Next]_vars => SharedInv'
<1> SUFFICES ASSUME SharedInv, [Next]_vars PROVE SharedInv'
  OBVIOUS
<1>1. NamesInv'
  BY NamesInvStep DEF SharedInv
<1> QED
  BY <1>1, TwoConnectedStep, ExcusedStep, FailedStep DEF SharedInv

\* An accepted event of a connected repository fails its validation only if
\* two users were once connected to the same repository on GitHub.
THEOREM MismatchNeedsSharing == Spec => []FailedOnlyWhenShared
<1>1. Spec => []SharedInv
  BY SharedInvInit, SharedInvStep, PTL DEF Spec
<1> QED
  BY <1>1, PTL DEF SharedInv

=============================================================================
