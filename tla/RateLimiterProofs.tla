-------------------------- MODULE RateLimiterProofs --------------------------
(***************************************************************************)
(* Proofs about RateLimiter: no window of time admits more than the burst  *)
(* and what is earned in it, for any rate, burst, number of requests and   *)
(* disorder of their readings, as long as the time after which an address  *)
(* is forgotten exceeds the time in which its bucket fills; and a request  *)
(* is refused only when that much was admitted.                            *)
(***************************************************************************)
EXTENDS RateLimiter, TLAPS

LEMMA Constants ==
    /\ Rate \in Nat /\ Rate > 0 /\ Capacity \in Nat /\ Rate <= Capacity
    /\ MaxDelay \in Nat /\ IdleTime \in Nat /\ MaxTime \in Nat
    /\ Capacity + 2 * MaxDelay <= IdleTime
<1>1. Rate \in Nat /\ Rate > 0 /\ Burst \in Nat /\ Burst >= 1
  BY RateAssumption
<1>2. Burst * Rate \in Nat /\ Burst * Rate = (Burst - 1) * Rate + Rate /\ (Burst - 1) * Rate >= 0
  BY <1>1, SMTT(30)
<1> QED
  BY <1>1, <1>2, TimeAssumption, IdleAssumption DEF Capacity

LEMMA WindowBounds ==
    ASSUME NEW w \in Windows
    PROVE  w[1] \in Nat /\ w[2] \in Nat /\ w[1] <= w[2]
  BY TimeAssumption DEF Windows, Times

\* A reading is no older than a request may wait.
Recent(q) == q.waiting => q.now <= clock /\ clock <= q.now + MaxDelay

\* What a bucket lacks was spent by now.
Sound(v) ==
    /\ v.tokens \in - MaxDelay .. Capacity
    /\ v.known => v.last <= clock /\ v.last <= clock + v.tokens

\* While a bucket exists, it is short of all that was spent in a window and
\* not earned since the window began; once it is forgotten, that was earned.
Account(a, w) ==
    /\ spent[a][w] <= Capacity + (w[2] - w[1])
    /\ spent[a][w] > 0 =>
         IF visitors[a].known
         THEN spent[a][w] + visitors[a].tokens + w[1] <= Capacity + visitors[a].last
         ELSE spent[a][w] + MaxDelay + w[1] <= clock

Types ==
    /\ clock \in Times
    /\ visitors \in [Addresses -> Visitor]
    /\ requests \in [Requests -> Request]
    /\ spent \in [Addresses -> [Windows -> Nat]]

LimiterInv ==
    /\ Types
    /\ \A r \in Requests : Recent(requests[r])
    /\ \A a \in Addresses : Sound(visitors[a])
    /\ \A a \in Addresses, w \in Windows : Account(a, w)

LEMMA InvInit == Init => LimiterInv
<1> SUFFICES ASSUME Init PROVE LimiterInv
  OBVIOUS
<1>1. Types
  <2>1. 0 \in Times /\ Unknown \in Visitor
    BY TimeAssumption DEF Times, Visitor, Unknown
  <2>2. ASSUME NEW q \in [waiting : {FALSE}, address : Addresses, now : {0}] PROVE q \in Request
    BY <2>1 DEF Request
  <2>3. requests \in [Requests -> Request]
    <3>1. requests \in [Requests -> [waiting : {FALSE}, address : Addresses, now : {0}]]
      BY DEF Init
    <3> QED
      BY <2>2, <3>1
  <2> QED
    BY <2>1, <2>3 DEF Init, Types
<1>2. \A r \in Requests : Recent(requests[r])
  BY DEF Init, Recent
<1>3. \A a \in Addresses : Sound(visitors[a])
  <2>1. ~Unknown.known /\ Unknown.tokens = 0
    BY DEF Unknown
  <2>2. Sound(Unknown)
    BY <2>1, Constants DEF Sound
  <2> QED
    BY <2>2 DEF Init
<1>4. ASSUME NEW a \in Addresses, NEW w \in Windows PROVE Account(a, w)
  BY <1>4, Constants, WindowBounds DEF Init, Account
<1> QED
  BY <1>1, <1>2, <1>3, <1>4 DEF LimiterInv

-----------------------------------------------------------------------------
(* The three answers of allow.                                             *)

\* What every answer to a request does to all but its own address.
LEMMA AnswerStep ==
    ASSUME LimiterInv, NEW r \in Requests, NEW b \in Addresses, NEW n \in Times, NEW v \in Visitor,
           visitors' = [visitors EXCEPT ![b] = v],
           Answered(r), UNCHANGED clock,
           spent' = spent \/ Pay(b, n),
           Sound(v),
           \A w \in Windows : Account(b, w)'
    PROVE  LimiterInv'
<1>0. Types
  BY DEF LimiterInv
<1>1. visitors' \in [Addresses -> Visitor] /\ visitors'[b] = v
  BY <1>0 DEF Types
<1>2. \A a \in Addresses : a # b => visitors'[a] = visitors[a] /\ spent'[a] = spent[a]
  BY <1>0 DEF Types, Pay
<1>3. spent' \in [Addresses -> [Windows -> Nat]]
  <2>1. CASE spent' = spent
    BY <1>0, <2>1 DEF Types
  <2>2. CASE Pay(b, n)
    <3>1. [w \in Windows |-> IF w[1] <= n /\ n <= w[2]
                             THEN spent[b][w] + Rate ELSE spent[b][w]] \in [Windows -> Nat]
      BY <1>0, Constants DEF Types
    <3> QED
      BY <1>0, <2>2, <3>1 DEF Types, Pay
  <2> QED
    BY <2>1, <2>2
<1>4. requests' \in [Requests -> Request] /\ \A q \in Requests : Recent(requests[q])'
  <2>1. \A q \in Request : [q EXCEPT !.waiting = FALSE] \in Request
    BY DEF Request
  <2>2. \A q \in Request : [q EXCEPT !.waiting = FALSE].waiting = FALSE
    BY DEF Request
  <2>3. requests' = [requests EXCEPT ![r] = [requests[r] EXCEPT !.waiting = FALSE]]
    BY DEF Answered
  <2>4. requests[r] \in Request
    BY <1>0 DEF Types
  <2>5. requests' \in [Requests -> Request]
    BY <1>0, <2>1, <2>3, <2>4 DEF Types
  <2>6. \A q \in Requests : requests'[q] = requests[q] \/ requests'[q].waiting = FALSE
    BY <1>0, <2>2, <2>3, <2>4 DEF Types
  <2> QED
    BY <2>5, <2>6 DEF LimiterInv, Recent
<1>5. \A a \in Addresses : Sound(visitors[a])'
  BY <1>1, <1>2 DEF LimiterInv, Sound
<1>6. ASSUME NEW a \in Addresses, NEW w \in Windows PROVE Account(a, w)'
  <2>1. a # b => Account(a, w)'
    BY <1>2 DEF LimiterInv, Account
  <2> QED
    BY <2>1
<1> QED
  BY <1>0, <1>1, <1>3, <1>4, <1>5, <1>6 DEF LimiterInv, Types

\* What is known of the request that is answered, and of its bucket.
LEMMA Answering ==
    ASSUME LimiterInv, NEW r \in Requests, requests[r].waiting
    PROVE  /\ requests[r].address \in Addresses
           /\ requests[r].now \in Nat /\ requests[r].now \in Times
           /\ clock \in Nat /\ requests[r].now <= clock /\ clock <= requests[r].now + MaxDelay
           /\ visitors[requests[r].address] \in Visitor
           /\ Sound(visitors[requests[r].address])
<1>1. requests[r] \in Request /\ Recent(requests[r]) /\ clock \in Nat
  BY TimeAssumption DEF LimiterInv, Types, Times
<1> QED
  BY <1>1, TimeAssumption DEF LimiterInv, Types, Request, Recent, Times

LEMMA Paid ==
    ASSUME Types, NEW a \in Addresses, NEW n \in Nat, Pay(a, n), NEW w \in Windows
    PROVE  spent'[a][w] = IF w[1] <= n /\ n <= w[2] THEN spent[a][w] + Rate ELSE spent[a][w]
  BY DEF Types, Pay

LEMMA NewVisitorStep ==
    ASSUME LimiterInv, NEW r \in Requests, NewVisitor(r)
    PROVE  LimiterInv'
<1>0. PICK a \in Addresses, n \in Times : a = requests[r].address /\ n = requests[r].now
  BY DEF LimiterInv, Types, Request
<1> DEFINE v == [known |-> TRUE, tokens |-> Capacity - Rate, last |-> n]
<1>1. /\ requests[r].waiting /\ ~visitors[a].known
      /\ visitors' = [visitors EXCEPT ![a] = v]
      /\ Pay(a, n) /\ Answered(r) /\ UNCHANGED clock
  BY <1>0 DEF NewVisitor, Taken
<1>2. /\ a \in Addresses /\ n \in Nat /\ n \in Times
      /\ clock \in Nat /\ n <= clock /\ clock <= n + MaxDelay
  BY <1>0, <1>1, Answering
<1>3. v \in Visitor
  BY <1>2, Constants DEF Visitor
<1>4. Sound(v)
  BY <1>2, Constants DEF Sound
<1>5. ASSUME NEW w \in Windows PROVE Account(a, w)'
  <2>1. visitors'[a] = v
    BY <1>1, <1>2 DEF LimiterInv, Types
  <2>2. spent[a][w] \in Nat
    BY <1>2 DEF LimiterInv, Types
  <2>3. Account(a, w)
    BY <1>2 DEF LimiterInv
  <2>4. spent'[a][w] = IF w[1] <= n /\ n <= w[2] THEN spent[a][w] + Rate ELSE spent[a][w]
    BY <1>1, <1>2, Paid DEF LimiterInv
  <2>5. w[1] \in Nat /\ w[2] \in Nat /\ w[1] <= w[2]
    BY WindowBounds
  <2>6. v.known /\ v.tokens = Capacity - Rate /\ v.last = n
    OBVIOUS
  <2> HIDE DEF v
  <2> QED
    BY <1>1, <1>2, <2>1, <2>2, <2>3, <2>4, <2>5, <2>6, Constants DEF Account
<1> QED
  BY <1>1, <1>3, <1>4, <1>5, AnswerStep

\* What refilling does to a bucket: it is full, or its account is unchanged.
LEMMA Refilling ==
    ASSUME LimiterInv, NEW a \in Addresses, NEW n \in Nat
    PROVE  /\ Refilled(a, n) \in Int /\ Refilled(a, n) <= Capacity
           /\ visitors[a].tokens \in Int /\ visitors[a].last \in Nat
           /\ Refilled(a, n) <= visitors[a].tokens + n - visitors[a].last
           /\ \/ Refilled(a, n) = visitors[a].tokens + n - visitors[a].last
              \/ Refilled(a, n) = Capacity
<1>1. visitors[a].tokens \in Int /\ visitors[a].last \in Nat
  BY TimeAssumption DEF LimiterInv, Types, Visitor, Times
<1> QED
  BY <1>1, Constants DEF Refilled, Capped

LEMMA AdmitStep ==
    ASSUME LimiterInv, NEW r \in Requests, Admit(r)
    PROVE  LimiterInv'
<1>0. PICK a \in Addresses, n \in Times : a = requests[r].address /\ n = requests[r].now
  BY DEF LimiterInv, Types, Request
<1> DEFINE k == Refilled(a, n)
           v == [known |-> TRUE, tokens |-> k - Rate, last |-> n]
<1>1. /\ requests[r].waiting /\ visitors[a].known /\ k >= Rate
      /\ visitors' = [visitors EXCEPT ![a] = v]
      /\ Pay(a, n) /\ Answered(r) /\ UNCHANGED clock
  BY <1>0 DEF Admit, Taken
<1>2. /\ a \in Addresses /\ n \in Nat /\ n \in Times
      /\ clock \in Nat /\ n <= clock /\ clock <= n + MaxDelay
  BY <1>0, <1>1, Answering
<1>3. /\ k \in Int /\ k <= Capacity
      /\ visitors[a].tokens \in Int /\ visitors[a].last \in Nat
      /\ k <= visitors[a].tokens + n - visitors[a].last
  BY <1>2, Refilling
<1> HIDE DEF k
<1>4. v \in Visitor
  BY <1>2, <1>3, Constants DEF Visitor
<1>5. Sound(v)
  BY <1>1, <1>2, <1>3, Constants DEF Sound
<1>6. ASSUME NEW w \in Windows PROVE Account(a, w)'
  <2>1. visitors'[a] = v
    BY <1>1, <1>2 DEF LimiterInv, Types
  <2>2. spent[a][w] \in Nat
    BY <1>2 DEF LimiterInv, Types
  <2>3. Account(a, w)
    BY <1>2 DEF LimiterInv
  <2>4. spent'[a][w] = IF w[1] <= n /\ n <= w[2] THEN spent[a][w] + Rate ELSE spent[a][w]
    BY <1>1, <1>2, Paid DEF LimiterInv
  <2>5. w[1] \in Nat /\ w[2] \in Nat /\ w[1] <= w[2]
    BY WindowBounds
  <2>6. v.known /\ v.tokens = k - Rate /\ v.last = n
    OBVIOUS
  <2> HIDE DEF v
  <2> QED
    BY <1>1, <1>2, <1>3, <2>1, <2>2, <2>3, <2>4, <2>5, <2>6, Constants DEF Account
<1> QED
  BY <1>1, <1>4, <1>5, <1>6, AnswerStep

LEMMA RefuseStep ==
    ASSUME LimiterInv, NEW r \in Requests, Refuse(r)
    PROVE  LimiterInv'
<1>0. PICK a \in Addresses, n \in Times : a = requests[r].address /\ n = requests[r].now
  BY DEF LimiterInv, Types, Request
<1> DEFINE k == Refilled(a, n)
           v == [known |-> TRUE, tokens |-> k, last |-> n]
<1>1. /\ requests[r].waiting /\ visitors[a].known /\ k < Rate
      /\ visitors' = [visitors EXCEPT ![a] = v]
      /\ Answered(r) /\ UNCHANGED <<clock, spent>>
  BY <1>0 DEF Refuse
<1>2. /\ a \in Addresses /\ n \in Nat /\ n \in Times
      /\ clock \in Nat /\ n <= clock /\ clock <= n + MaxDelay
      /\ Sound(visitors[a])
  BY <1>0, <1>1, Answering
<1>3. /\ visitors[a].tokens \in Int /\ visitors[a].last \in Nat
      /\ k = visitors[a].tokens + n - visitors[a].last
  BY <1>1, <1>2, Refilling, Constants
<1> HIDE DEF k
<1>4. v \in Visitor
  BY <1>2, <1>3 DEF Visitor
<1>5. Sound(v)
  BY <1>1, <1>2, <1>3, Constants DEF Sound
<1>6. ASSUME NEW w \in Windows PROVE Account(a, w)'
  <2>1. visitors'[a] = v
    BY <1>1, <1>2 DEF LimiterInv, Types
  <2>2. spent[a][w] \in Nat /\ Account(a, w)
    BY <1>2 DEF LimiterInv, Types
  <2>3. w[1] \in Nat /\ w[2] \in Nat
    BY WindowBounds
  <2>4. v.known /\ v.tokens = k /\ v.last = n
    OBVIOUS
  <2> HIDE DEF v
  <2> QED
    BY <1>1, <1>2, <1>3, <2>1, <2>2, <2>3, <2>4, Constants DEF Account
<1> QED
  BY <1>1, <1>4, <1>5, <1>6, AnswerStep

-----------------------------------------------------------------------------
(* The other steps.                                                        *)

LEMMA ReadClockStep ==
    ASSUME LimiterInv, NEW r \in Requests, NEW a \in Addresses, ReadClock(r, a)
    PROVE  LimiterInv'
<1> DEFINE q == [waiting |-> TRUE, address |-> a, now |-> clock]
<1>1. requests' = [requests EXCEPT ![r] = q] /\ UNCHANGED <<clock, visitors, spent>>
  BY DEF ReadClock
<1>2. q \in Request /\ Recent(q)
  BY Constants DEF LimiterInv, Types, Request, Recent, Times
<1> HIDE DEF q
<1>3. requests' \in [Requests -> Request] /\ \A s \in Requests : requests'[s] \in {q, requests[s]}
  BY <1>1, <1>2 DEF LimiterInv, Types
<1>4. \A s \in Requests : Recent(requests[s])'
  BY <1>1, <1>2, <1>3 DEF LimiterInv, Recent
<1> QED
  BY <1>1, <1>3, <1>4 DEF LimiterInv, Types, Sound, Account

\* An idle bucket was full: what was spent before is earned by now.
LEMMA CleanupStep ==
    ASSUME LimiterInv, Cleanup
    PROVE  LimiterInv'
<1>1. /\ UNCHANGED <<clock, requests, spent>>
      /\ visitors' = [a \in Addresses |-> IF Idle(a) THEN Unknown ELSE visitors[a]]
  BY DEF Cleanup
<1>2. Unknown \in Visitor /\ ~Unknown.known /\ Unknown.tokens = 0
  BY TimeAssumption DEF Unknown, Visitor, Times
<1>3. Types'
  BY <1>1, <1>2 DEF LimiterInv, Types
<1>4. \A a \in Addresses : Sound(visitors[a])'
  BY <1>1, <1>2, Constants DEF LimiterInv, Sound
<1>5. ASSUME NEW a \in Addresses, NEW w \in Windows PROVE Account(a, w)'
  <2>1. /\ Account(a, w) /\ Sound(visitors[a]) /\ spent[a][w] \in Nat /\ clock \in Nat
        /\ visitors[a].tokens \in Int /\ visitors[a].last \in Nat
    BY TimeAssumption DEF LimiterInv, Types, Visitor, Times
  <2>2. w[1] \in Nat /\ w[2] \in Nat
    BY WindowBounds
  <2>3. CASE Idle(a)
    <3>1. /\ visitors[a].known /\ visitors[a].last + IdleTime < clock
          /\ visitors[a].tokens + MaxDelay >= 0
      BY <2>1, <2>3, Constants DEF Idle, Sound
    <3>2. ~visitors'[a].known
      BY <1>1, <1>2, <2>3
    <3>3. spent[a][w] > 0 => spent[a][w] + MaxDelay + w[1] <= clock
      BY <2>1, <2>2, <3>1, Constants DEF Account
    <3> QED
      BY <1>1, <2>1, <3>2, <3>3 DEF Account
  <2>4. CASE ~Idle(a)
    BY <1>1, <2>1, <2>4 DEF Account
  <2> QED
    BY <2>3, <2>4
<1> QED
  BY <1>1, <1>3, <1>4, <1>5 DEF LimiterInv, Recent

LEMMA TickStep ==
    ASSUME LimiterInv, Tick
    PROVE  LimiterInv'
<1>1. clock \in Nat /\ clock' = clock + 1 /\ clock' \in Times
  BY Constants DEF LimiterInv, Types, Times, Tick
<1>2. UNCHANGED <<visitors, requests, spent>>
  BY DEF Tick
<1>3. ASSUME NEW r \in Requests PROVE Recent(requests[r])'
  <2>1. requests[r].now \in Nat /\ Recent(requests[r])
    BY TimeAssumption DEF LimiterInv, Types, Request, Times
  <2>2. requests[r].waiting => clock - requests[r].now < MaxDelay
    BY DEF Tick
  <2> QED
    BY <1>1, <1>2, <2>1, <2>2, Constants DEF Recent
<1>4. ASSUME NEW a \in Addresses PROVE Sound(visitors[a])'
  <2>1. visitors[a].last \in Nat /\ visitors[a].tokens \in Int /\ Sound(visitors[a])
    BY TimeAssumption DEF LimiterInv, Types, Visitor, Times
  <2> QED
    BY <1>1, <1>2, <2>1 DEF Sound
<1>5. ASSUME NEW a \in Addresses, NEW w \in Windows PROVE Account(a, w)'
  <2>1. spent[a][w] \in Nat /\ Account(a, w)
    BY DEF LimiterInv, Types
  <2> QED
    BY <1>1, <1>2, <2>1, WindowBounds, Constants DEF Account
<1> QED
  BY <1>1, <1>2, <1>3, <1>4, <1>5 DEF LimiterInv, Types

LEMMA InvStep == LimiterInv /\ [Next]_vars => LimiterInv'
<1> SUFFICES ASSUME LimiterInv, [Next]_vars PROVE LimiterInv'
  OBVIOUS
<1>1. CASE UNCHANGED vars
  BY <1>1 DEF vars, LimiterInv, Types, Recent, Sound, Account
<1> QED
  BY <1>1, NewVisitorStep, AdmitStep, RefuseStep, ReadClockStep, CleanupStep, TickStep DEF Next

LEMMA Invariance == Spec => []LimiterInv
  BY InvInit, InvStep, PTL DEF Spec

\* Buckets keep their types and bounds: never more than Burst tokens, and no
\* debt beyond the disorder of the readings.
THEOREM TypeCorrect == Spec => []TypeOK
<1>1. LimiterInv => TypeOK
  BY DEF LimiterInv, Types, Sound, TypeOK
<1> QED
  BY <1>1, Invariance, PTL

\* Whatever the order in which readings reach the bucket and whenever idle
\* addresses are forgotten, no window admits more than burst and refill.
THEOREM WindowBounded == Spec => []BurstPlusRefill
<1>1. LimiterInv => BurstPlusRefill
  BY DEF LimiterInv, Account, BurstPlusRefill
<1> QED
  BY <1>1, Invariance, PTL

-----------------------------------------------------------------------------
(* Refusals. What a bucket lacks now was spent since it was last full, and *)
(* every later reading is at most MaxDelay older than that one.            *)

From(f) == IF f >= MaxDelay THEN f - MaxDelay ELSE 0

FullAt(a, f) ==
    \A t \in Times :
        clock <= t => spent[a][<<From(f), t>>] + visitors[a].tokens + f >= Capacity + visitors[a].last

Drained(a) == visitors[a].known => \E f \in 0 .. clock : FullAt(a, f)

RefusalInv == LimiterInv /\ \A a \in Addresses : Drained(a)

LEMMA FromWindow ==
    ASSUME clock \in Times, NEW f \in 0 .. clock, NEW t \in Times, clock <= t
    PROVE  /\ <<From(f), t>> \in Windows /\ <<From(f), t>>[1] = From(f) /\ <<From(f), t>>[2] = t
           /\ From(f) \in Nat /\ f <= From(f) + MaxDelay /\ From(f) <= f
           /\ \A n \in Nat : clock <= n + MaxDelay => From(f) <= n
<1>1. /\ From(f) \in Nat /\ f <= From(f) + MaxDelay /\ From(f) <= f
      /\ \A n \in Nat : clock <= n + MaxDelay => From(f) <= n
  BY Constants DEF From, Times
<1>2. From(f) \in Times /\ From(f) <= t
  BY <1>1, TimeAssumption DEF Times
<1> HIDE DEF From
<1> QED
  BY <1>1, <1>2 DEF Windows

\* A bucket that is full at n, and pays for a request with that reading.
LEMMA PaidFromFull ==
    ASSUME LimiterInv, NEW a \in Addresses, NEW n \in Times, n <= clock, clock <= n + MaxDelay,
           visitors'[a].tokens = Capacity - Rate, visitors'[a].last = n,
           Pay(a, n), UNCHANGED clock
    PROVE  Drained(a)'
<1>0. n \in Nat /\ n \in 0 .. clock /\ clock \in Times /\ clock \in Nat
  BY TimeAssumption DEF LimiterInv, Types, Times
<1>1. ASSUME NEW t \in Times, clock <= t
      PROVE  spent'[a][<<From(n), t>>] + (Capacity - Rate) + n >= Capacity + n
  <2> DEFINE w == <<From(n), t>>
  <2>1. w \in Windows /\ w[1] <= n /\ n <= w[2]
    BY <1>0, <1>1, FromWindow DEF Times
  <2>2. spent[a][w] \in Nat
    BY <2>1 DEF LimiterInv, Types
  <2>3. spent'[a][w] = spent[a][w] + Rate
    BY <1>0, <2>1, Paid DEF LimiterInv
  <2> HIDE DEF w
  <2>4. spent'[a][w] + (Capacity - Rate) + n >= Capacity + n
    BY <1>0, <2>2, <2>3, Constants
  <2> QED
    BY <2>4 DEF w
<1>2. FullAt(a, n)'
  BY <1>1 DEF FullAt
<1> QED
  BY <1>0, <1>2 DEF Drained

LEMMA DrainedStep ==
    ASSUME RefusalInv, [Next]_vars, NEW a \in Addresses
    PROVE  Drained(a)'
<1>0. /\ LimiterInv /\ Drained(a) /\ clock \in Times /\ clock \in Nat /\ Types
      /\ visitors[a].tokens \in Int /\ visitors[a].last \in Nat
  BY TimeAssumption DEF RefusalInv, LimiterInv, Types, Times, Visitor
<1>1. CASE visitors'[a] = visitors[a] /\ spent'[a] = spent[a] /\ clock' \in {clock, clock + 1}
  <2>1. SUFFICES ASSUME visitors[a].known PROVE \E f \in 0 .. clock' : FullAt(a, f)'
    BY <1>1 DEF Drained
  <2>2. PICK f \in 0 .. clock : FullAt(a, f)
    BY <1>0, <2>1 DEF Drained
  <2>3. f \in 0 .. clock'
    BY <1>0, <1>1
  <2>4. \A t \in Times : clock' <= t => clock <= t
    BY <1>0, <1>1, TimeAssumption DEF Times
  <2> QED
    BY <1>1, <2>2, <2>3, <2>4 DEF FullAt
<1>2. ASSUME NEW r \in Requests, NewVisitor(r) PROVE Drained(a)'
  <2> DEFINE n == requests[r].now
             v == [known |-> TRUE, tokens |-> Taken(Capacity), last |-> n]
  <2>1. requests[r].waiting
    BY <1>2 DEF NewVisitor
  <2>2. n \in Times /\ n <= clock /\ clock <= n + MaxDelay
    BY <1>0, <2>1, Answering
  <2>3. CASE requests[r].address = a
    <3>1. visitors'[a] = v /\ Pay(a, n) /\ UNCHANGED clock
      BY <1>0, <1>2, <2>3 DEF NewVisitor, Types
    <3>2. visitors'[a].tokens = Capacity - Rate /\ visitors'[a].last = n
      BY <3>1 DEF Taken
    <3> QED
      BY <1>0, <2>2, <3>1, <3>2, PaidFromFull
  <2>4. CASE requests[r].address # a
    BY <1>0, <1>1, <1>2, <2>4 DEF NewVisitor, Pay, Types
  <2> QED
    BY <2>3, <2>4
<1>3. ASSUME NEW r \in Requests, Admit(r) \/ Refuse(r) PROVE Drained(a)'
  <2> DEFINE n == requests[r].now
             k == Refilled(a, n)
  <2>1. requests[r].waiting
    BY <1>3 DEF Admit, Refuse
  <2>2. n \in Times /\ n \in Nat /\ n <= clock /\ clock <= n + MaxDelay
    BY <1>0, <2>1, Answering
  <2>3. CASE requests[r].address # a
    BY <1>0, <1>1, <1>3, <2>3 DEF Admit, Refuse, Pay, Types
  <2>4. CASE requests[r].address = a
    <3>1. k \in Int /\ (k = visitors[a].tokens + n - visitors[a].last \/ k = Capacity)
      BY <1>0, <2>2, Refilling
    <3>2. \/ /\ visitors'[a].tokens = k - Rate /\ Pay(a, n)
          \/ /\ visitors'[a].tokens = k /\ k < Rate /\ UNCHANGED spent
      BY <1>0, <1>3, <2>4 DEF Admit, Refuse, Taken, Types
    <3>3. visitors'[a].last = n /\ UNCHANGED clock /\ visitors[a].known
      BY <1>0, <1>3, <2>4 DEF Admit, Refuse, Types
    <3> HIDE DEF n, k
    <3>4. CASE k = Capacity
      BY <1>0, <2>2, <3>2, <3>3, <3>4, PaidFromFull, Constants
    <3>5. CASE k = visitors[a].tokens + n - visitors[a].last
      <4>1. PICK f \in 0 .. clock : FullAt(a, f)
        BY <1>0, <3>3 DEF Drained
      <4>2. ASSUME NEW t \in Times, clock <= t
            PROVE  spent'[a][<<From(f), t>>] + visitors'[a].tokens + f >= Capacity + n
        <5> DEFINE w == <<From(f), t>>
        <5>1. w \in Windows /\ w[1] <= n /\ n <= w[2]
          BY <1>0, <2>2, <4>2, FromWindow DEF Times
        <5>2. spent[a][w] \in Nat /\ spent[a][w] + visitors[a].tokens + f >= Capacity + visitors[a].last
          BY <4>1, <4>2, <5>1 DEF FullAt, LimiterInv, Types, RefusalInv
        <5>3. Pay(a, n) => spent'[a][w] = spent[a][w] + Rate
          BY <1>0, <2>2, <5>1, Paid
        <5> HIDE DEF w
        <5>4. f \in Int
          OBVIOUS
        <5> SUFFICES spent'[a][w] + visitors'[a].tokens + f >= Capacity + n
          BY DEF w
        <5>5. CASE visitors'[a].tokens = k - Rate /\ Pay(a, n)
          BY <1>0, <2>2, <3>1, <3>5, <5>2, <5>3, <5>4, <5>5, Constants
        <5>6. CASE visitors'[a].tokens = k /\ UNCHANGED spent
          BY <1>0, <2>2, <3>1, <3>5, <5>2, <5>4, <5>6, Constants
        <5> QED
          BY <3>2, <5>5, <5>6
      <4> QED
        BY <3>3, <4>2 DEF Drained, FullAt
    <3> QED
      BY <3>1, <3>4, <3>5
  <2> QED
    BY <2>3, <2>4
<1>4. CASE Cleanup
  <2>1. CASE Idle(a)
    BY <1>4, <2>1 DEF Cleanup, Unknown, Drained
  <2>2. CASE ~Idle(a)
    BY <1>1, <1>4, <2>2 DEF Cleanup
  <2> QED
    BY <2>1, <2>2
<1>5. ASSUME UNCHANGED vars \/ Tick \/ \E r \in Requests, b \in Addresses : ReadClock(r, b)
      PROVE  Drained(a)'
  BY <1>1, <1>5 DEF vars, Tick, ReadClock
<1> QED
  BY <1>2, <1>3, <1>4, <1>5 DEF Next

LEMMA RefusalInvariance == Spec => []RefusalInv
<1>1. Init => RefusalInv
  <2>1. ~Unknown.known
    BY DEF Unknown
  <2>2. Init => \A a \in Addresses : visitors[a] = Unknown
    BY DEF Init
  <2> QED
    BY <2>1, <2>2, InvInit DEF RefusalInv, Drained
<1>2. RefusalInv /\ [Next]_vars => RefusalInv'
  BY InvStep, DrainedStep DEF RefusalInv
<1> QED
  BY <1>1, <1>2, PTL DEF Spec

\* Whatever the order of the readings and whichever addresses were forgotten,
\* no request is refused unless burst and refill were spent, up to MaxDelay.
THEOREM RefusalsDeserved == Spec => RefusedOnlyWhenSpent
<1>1. ASSUME RefusalInv, [Next]_vars
      PROVE  [\A r \in Requests : Refuse(r) => Spent(requests[r].address, requests[r].now)]_vars
  <2> SUFFICES ASSUME NEW r \in Requests, Refuse(r)
               PROVE  Spent(requests[r].address, requests[r].now)
    OBVIOUS
  <2>0. PICK a \in Addresses, n \in Times : a = requests[r].address /\ n = requests[r].now
    BY <1>1 DEF RefusalInv, LimiterInv, Types, Request
  <2>1. /\ requests[r].waiting /\ visitors[a].known /\ Refilled(a, n) < Rate
        /\ LimiterInv /\ Drained(a)
    BY <1>1, <2>0 DEF Refuse, RefusalInv
  <2>2. n \in Nat /\ clock \in Nat /\ clock \in Times /\ n <= clock /\ clock <= n + MaxDelay
    BY <2>0, <2>1, Answering DEF LimiterInv, Types
  <2>3. /\ visitors[a].tokens \in Int /\ visitors[a].last \in Nat
        /\ visitors[a].tokens + n - visitors[a].last < Rate
    BY <2>1, <2>2, Refilling, Constants
  <2>4. PICK f \in 0 .. clock : FullAt(a, f)
    BY <2>1 DEF Drained
  <2> DEFINE s == From(f)
             w == <<s, clock>>
  <2>5. /\ w \in Windows /\ s \in Nat /\ s <= n /\ f <= s + MaxDelay
        /\ spent[a][w] + visitors[a].tokens + f >= Capacity + visitors[a].last
    BY <2>2, <2>4, FromWindow DEF FullAt
  <2>6. spent[a][w] \in Nat
    BY <2>1, <2>5 DEF LimiterInv, Types
  <2>7. s \in 0 .. n /\ clock \in n .. n + MaxDelay /\ clock <= MaxTime
    BY <2>2, <2>5, Constants DEF Times
  <2> HIDE DEF s
  <2>8. spent[a][<<s, clock>>] + Rate + MaxDelay > Capacity + (n - s)
    BY <2>2, <2>3, <2>5, <2>6, Constants
  <2> QED
    BY <2>0, <2>7, <2>8 DEF Spent
<1> QED
  BY <1>1, RefusalInvariance, PTL DEF Spec, RefusedOnlyWhenSpent

=============================================================================
