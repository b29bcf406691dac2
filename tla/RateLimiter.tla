----------------------------- MODULE RateLimiter -----------------------------
(***************************************************************************)
(* The token bucket per client address in front of the HTTP API. A request *)
(* reads the clock first and takes the mutex afterwards, so that buckets   *)
(* are updated with readings that may be out of order; a cleanup goroutine *)
(* forgets addresses that were idle for long, which fills their buckets.   *)
(*                                                                         *)
(* Time is counted in ticks, and tokens in the ticks it takes to earn      *)
(* them: one token is Rate of them. Abstracted: the rounding of float64.   *)
(***************************************************************************)
EXTENDS Integers

CONSTANTS
    Addresses,
    Requests,       \* requests under way at once
    Rate,           \* ticks in which one token is earned
    Burst,
    IdleTime,       \* an address not seen for longer is forgotten
    MaxDelay,       \* the longest time between a reading and the mutex
    MaxTime         \* bound: the clock stops there

ASSUME RateAssumption == Rate \in Nat \ {0} /\ Burst \in Nat \ {0}
ASSUME TimeAssumption == MaxDelay \in Nat /\ IdleTime \in Nat /\ MaxTime \in Nat

Capacity == Burst * Rate

\* A bucket that is forgotten is full again. (600 s against 40 s and 60 s.)
ASSUME IdleAssumption == Capacity + 2 * MaxDelay <= IdleTime

Times == 0 .. MaxTime
Windows == {w \in Times \X Times : w[1] <= w[2]}

VARIABLES
    clock,
    visitors,       \* [Addresses -> Visitor]: the map that the mutex guards
    requests,       \* [Requests -> Request]: those that wait for the mutex
    spent           \* history: [Addresses -> [Windows -> Nat]], the tokens of
                    \* the requests admitted with a reading in the window

vars == <<clock, visitors, requests, spent>>

\* last: also lastSeen, which is always set along with it.
Visitor == [known : BOOLEAN, tokens : Int, last : Times]
Request == [waiting : BOOLEAN, address : Addresses, now : Times]

Unknown == [known |-> FALSE, tokens |-> 0, last |-> 0]

Init ==
    /\ clock = 0
    /\ visitors = [a \in Addresses |-> Unknown]
    /\ requests \in [Requests -> [waiting : {FALSE}, address : Addresses, now : {0}]]
    /\ spent = [a \in Addresses |-> [w \in Windows |-> 0]]

-----------------------------------------------------------------------------
(* allow.                                                                  *)

\* time.Now(), before the mutex is taken.
ReadClock(r, a) ==
    /\ ~requests[r].waiting
    /\ requests' = [requests EXCEPT ![r] = [waiting |-> TRUE, address |-> a, now |-> clock]]
    /\ UNCHANGED <<clock, visitors, spent>>

Answered(r) == requests' = [requests EXCEPT ![r].waiting = FALSE]

Pay(a, n) ==
    spent' = [spent EXCEPT ![a] = [w \in Windows |->
                IF w[1] <= n /\ n <= w[2] THEN @[w] + Rate ELSE @[w]]]

\* Fault variant: a bucket that is never full.
Uncapped(n) == n

Capped(n) == IF n > Capacity THEN Capacity ELSE n

\* Fault variant: time earns nothing.
Unearned(a, n) == Capped(visitors[a].tokens)

\* The bucket at a reading; the time elapsed is negative when another request
\* with a later reading was first.
Refilled(a, n) == Capped(visitors[a].tokens + (n - visitors[a].last))

Taken(n) == n - Rate

NewVisitor(r) ==
    LET a == requests[r].address
        n == requests[r].now IN
    /\ requests[r].waiting
    /\ ~visitors[a].known
    /\ visitors' = [visitors EXCEPT ![a] = [known |-> TRUE, tokens |-> Taken(Capacity), last |-> n]]
    /\ Pay(a, n)
    /\ Answered(r)
    /\ UNCHANGED clock

Admit(r) ==
    LET a == requests[r].address
        n == requests[r].now IN
    /\ requests[r].waiting
    /\ visitors[a].known
    /\ Refilled(a, n) >= Rate
    /\ visitors' = [visitors EXCEPT ![a] = [known |-> TRUE, tokens |-> Taken(Refilled(a, n)), last |-> n]]
    /\ Pay(a, n)
    /\ Answered(r)
    /\ UNCHANGED clock

\* Answered with 429; the refill is recorded all the same.
Refuse(r) ==
    LET a == requests[r].address
        n == requests[r].now IN
    /\ requests[r].waiting
    /\ visitors[a].known
    /\ Refilled(a, n) < Rate
    /\ visitors' = [visitors EXCEPT ![a] = [known |-> TRUE, tokens |-> Refilled(a, n), last |-> n]]
    /\ Answered(r)
    /\ UNCHANGED <<clock, spent>>

-----------------------------------------------------------------------------
(* cleanup, and time.                                                      *)

\* Fault variant: forgotten while the bucket may still be empty.
IdleShortly(a) == visitors[a].known /\ visitors[a].last < clock

Idle(a) == visitors[a].known /\ visitors[a].last < clock - IdleTime

\* The ticker's period is shorter than what it waits for: it may come any time.
Cleanup ==
    /\ visitors' = [a \in Addresses |-> IF Idle(a) THEN Unknown ELSE visitors[a]]
    /\ UNCHANGED <<clock, requests, spent>>

\* The mutex is held for a few instructions only.
Tick ==
    /\ clock < MaxTime
    /\ \A r \in Requests : requests[r].waiting => clock - requests[r].now < MaxDelay
    /\ clock' = clock + 1
    /\ UNCHANGED <<visitors, requests, spent>>

Next ==
    \/ \E r \in Requests : \/ \E a \in Addresses : ReadClock(r, a)
                           \/ NewVisitor(r)
                           \/ Admit(r)
                           \/ Refuse(r)
    \/ Cleanup
    \/ Tick

Spec == Init /\ [][Next]_vars

-----------------------------------------------------------------------------
(* Properties.                                                             *)

\* Types; no bucket holds more than Burst tokens, and none is in debt for more
\* than readings can be out of order.
TypeOK ==
    /\ clock \in Times
    /\ visitors \in [Addresses -> Visitor]
    /\ requests \in [Requests -> Request]
    /\ spent \in [Addresses -> [Windows -> Nat]]
    /\ \A a \in Addresses : visitors[a].tokens \in - MaxDelay .. Capacity

\* What the limiter is for: however readings are reordered and addresses are
\* forgotten, the requests of an address admitted in any window of time are no
\* more than the burst and what was earned in the window.
BurstPlusRefill ==
    \A a \in Addresses : \A w \in Windows : spent[a][w] <= Capacity + (w[2] - w[1])

\* Counted from some time on, one more request at n would have gone beyond
\* burst and refill, or would have but for readings MaxDelay apart.
Spent(a, n) ==
    \E s \in 0 .. n, t \in n .. n + MaxDelay :
        /\ t <= MaxTime
        /\ spent[a][<<s, t>>] + Rate + MaxDelay > Capacity + (n - s)

\* No request is refused that could have been admitted, up to the disorder of
\* the readings: when they are in order the bucket is exact.
RefusedOnlyWhenSpent ==
    [][\A r \in Requests : Refuse(r) => Spent(requests[r].address, requests[r].now)]_vars

=============================================================================
