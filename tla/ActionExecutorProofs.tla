------------------------ MODULE ActionExecutorProofs ------------------------
(***************************************************************************)
(* Proofs about the event queue and about the pipeline its workers run.    *)
(* The first part is about EventQueue alone: its safety properties, for    *)
(* every number of rows, deliveries and workers and every retry limit,     *)
(* and that it implements DeliveryContract.  The second is about           *)
(* ActionExecutor: the composed system is still an event queue, and an     *)
(* action is called at most once per claim of its event, for any number of *)
(* rows, workers and intents and any faults; and as long as runs end       *)
(* within their lease, completed is final, processed means done, and only  *)
(* a lost record repeats an effect.                                        *)
(***************************************************************************)
EXTENDS ActionExecutor, FiniteSetTheorems, TLAPS

(***************************************************************************)
(* I. The event queue.                                                     *)
(***************************************************************************)

-----------------------------------------------------------------------------
(* What the statements make of a row, column by column.                    *)

LEMMA InsertedRow ==
    ASSUME NEW d \in Deliveries, NEW limit \in Nat
    PROVE  /\ Inserted(d, limit) \in Row
           /\ Inserted(d, limit).status = "pending"
           /\ Inserted(d, limit).retry_count = 0
           /\ Inserted(d, limit).max_retries = limit
           /\ Inserted(d, limit).locked_at = "null"
           /\ Inserted(d, limit).delivery = d
  BY DEF Inserted, AbsentRow, Row

LEMMA LeasedRow ==
    ASSUME NEW row \in Row, NEW n \in Nat
    PROVE  /\ Leased(row, n) \in Row
           /\ Leased(row, n).status = "processing"
           /\ Leased(row, n).retry_count = n
           /\ Leased(row, n).max_retries = row.max_retries
           /\ Leased(row, n).locked_at = "fresh"
           /\ Leased(row, n).delivery = row.delivery
  BY DEF Leased, Row

LEMMA BackedOffRow ==
    ASSUME NEW row \in Row, NEW n \in Nat
    PROVE  /\ BackedOff(row, n) \in Row
           /\ BackedOff(row, n).status = "pending"
           /\ BackedOff(row, n).retry_count = n
           /\ BackedOff(row, n).max_retries = row.max_retries
           /\ BackedOff(row, n).locked_at = "null"
           /\ BackedOff(row, n).delivery = row.delivery
  BY DEF BackedOff, Row

LEMMA ClosedRow ==
    ASSUME NEW row \in Row, NEW s \in {"processed", "failed"}, NEW n \in Nat
    PROVE  /\ Closed(row, s, n) \in Row
           /\ Closed(row, s, n).status = s
           /\ Closed(row, s, n).retry_count = n
           /\ Closed(row, s, n).max_retries = row.max_retries
           /\ Closed(row, s, n).locked_at = "null"
           /\ Closed(row, s, n).delivery = row.delivery
  BY DEF Closed, Row

LEMMA DeletedRow ==
    ASSUME NEW row \in Row
    PROVE  /\ Deleted(row) \in Row
           /\ Deleted(row).status = "deleted"
           /\ Deleted(row).retry_count = row.retry_count
           /\ Deleted(row).max_retries = row.max_retries
           /\ Deleted(row).locked_at = row.locked_at
           /\ Deleted(row).delivery = row.delivery
  BY DEF Deleted, Row

LEMMA StaleRow ==
    ASSUME NEW row \in Row
    PROVE  /\ [row EXCEPT !.locked_at = "stale"] \in Row
           /\ [row EXCEPT !.locked_at = "stale"].status = row.status
           /\ [row EXCEPT !.locked_at = "stale"].retry_count = row.retry_count
           /\ [row EXCEPT !.locked_at = "stale"].max_retries = row.max_retries
           /\ [row EXCEPT !.locked_at = "stale"].delivery = row.delivery
  BY DEF Row

LEMMA DueRow ==
    ASSUME NEW row \in Row
    PROVE  /\ [row EXCEPT !.next_retry_at = "past"] \in Row
           /\ [row EXCEPT !.next_retry_at = "past"].status = row.status
           /\ [row EXCEPT !.next_retry_at = "past"].retry_count = row.retry_count
           /\ [row EXCEPT !.next_retry_at = "past"].max_retries = row.max_retries
           /\ [row EXCEPT !.next_retry_at = "past"].locked_at = row.locked_at
           /\ [row EXCEPT !.next_retry_at = "past"].delivery = row.delivery
  BY DEF Row

LEMMA RowColumns ==
    ASSUME NEW row \in Row
    PROVE  /\ row.retry_count \in Nat
           /\ row.max_retries \in Nat
           /\ row.status \in {"absent", "pending", "processing", "processed",
                              "failed", "deleted"}
  BY DEF Row

\* The counts that a claim and a retry write.
LEMMA Counts ==
    ASSUME TypeOK, NEW w \in Workers
    PROVE  /\ workers[w].retry_count \in Nat
           /\ ClaimCount(w) \in Nat
           /\ \A n \in Nat : NextRetryCount(n) \in Nat
  BY DEF TypeOK, Local, ClaimCount, NextRetryCount

-----------------------------------------------------------------------------
(* Type correctness.                                                       *)

LEMMA IdleLocal == Idle \in Local
  BY DEF Idle, Local

\* A worker that is not idle holds the name of a row.
HoldsRow == \A w \in Workers : workers[w].pc # "idle" => workers[w].event \in EventIds

TypeInv == TypeOK /\ HoldsRow

LEMMA TypeInvInit == Init => TypeInv
<1> SUFFICES ASSUME Init PROVE TypeInv
  OBVIOUS
<1>1. AbsentRow \in Row
  BY DEF AbsentRow, Row
<1>2. TypeOK
  BY <1>1, IdleLocal DEF Init, TypeOK
<1>3. HoldsRow
  BY DEF Init, HoldsRow, Idle
<1> QED
  BY <1>2, <1>3 DEF TypeInv

LEMMA TypeInvStep == TypeInv /\ [Next]_vars => TypeInv'
<1> SUFFICES ASSUME TypeInv, [Next]_vars PROVE TypeInv'
  OBVIOUS
<1> USE DEF TypeInv
<1>1. CASE Connect
  BY <1>1 DEF Connect, TypeOK, HoldsRow
<1>2. CASE Disconnect
  <2>1. events' \in [EventIds -> Row]
    BY <1>2, DeletedRow DEF Disconnect, TypeOK
  <2> QED
    BY <1>2, <2>1 DEF Disconnect, TypeOK, HoldsRow
<1>3. ASSUME NEW d \in Deliveries, NEW e \in EventIds, Ingest(d, e)
      PROVE  TypeInv'
  <2>1. events' \in [EventIds -> Row]
    BY <1>3, InsertedRow, LimitsAssumption DEF Ingest, TypeOK
  <2> QED
    BY <1>3, <2>1 DEF Ingest, TypeOK, HoldsRow
<1>4. ASSUME NEW w \in Workers, SelectClaimable(w)
      PROVE  TypeInv'
  <2>1. PICK e \in EventIds :
           /\ Claimable(e)
           /\ workers' = [workers EXCEPT ![w] = [pc |-> "selected", event |-> e,
                            status |-> events[e].status,
                            retry_count |-> events[e].retry_count]]
    BY <1>4 DEF SelectClaimable
  <2>2. events[e].status \in {"pending", "processing"} /\ events[e].retry_count \in Nat
    BY <2>1, RowColumns DEF Claimable, TypeOK
  <2>3. [pc |-> "selected", event |-> e, status |-> events[e].status,
         retry_count |-> events[e].retry_count] \in Local
    BY <2>2 DEF Local
  <2> QED
    BY <1>4, <2>1, <2>3 DEF SelectClaimable, TypeOK, HoldsRow
<1>5. ASSUME NEW w \in Workers, FailStale(w)
      PROVE  TypeInv'
  <2>1. workers[w].event \in EventIds
    BY <1>5 DEF FailStale, HoldsRow
  <2>2. Closed(events[workers[w].event], "failed", ClaimCount(w)) \in Row
    BY <2>1, ClosedRow, Counts DEF TypeOK
  <2> QED
    BY <1>5, <2>1, <2>2, IdleLocal DEF FailStale, TypeOK, HoldsRow, Idle
<1>6. ASSUME NEW w \in Workers, Claim(w)
      PROVE  TypeInv'
  <2>1. workers[w].event \in EventIds
    BY <1>6 DEF Claim, HoldsRow
  <2>2. Leased(events[workers[w].event], ClaimCount(w)) \in Row
    BY <2>1, LeasedRow, Counts DEF TypeOK
  <2>3. events' \in [EventIds -> Row] /\ claims' \in [EventIds -> Nat]
    BY <1>6, <2>1, <2>2 DEF Claim, TypeOK
  <2>4. workers' \in [Workers -> Local]
    BY <1>6 DEF Claim, TypeOK, Local
  <2>5. \A v \in Workers : workers'[v].event = workers[v].event
    BY <1>6 DEF Claim, TypeOK, Local
  <2>6. \A v \in Workers : v # w => workers'[v].pc = workers[v].pc
    BY <1>6 DEF Claim, TypeOK, Local
  <2> QED
    BY <1>6, <2>1, <2>3, <2>4, <2>5, <2>6 DEF Claim, TypeOK, HoldsRow
<1>7. ASSUME NEW w \in Workers, MarkProcessed(w)
      PROVE  TypeInv'
  <2>1. workers[w].event \in EventIds
    BY <1>7 DEF MarkProcessed, MaySettle, HoldsRow
  <2>2. Closed(events[workers[w].event], "processed", events[workers[w].event].retry_count) \in Row
    <3>1. events[workers[w].event] \in Row
      BY <2>1 DEF TypeOK
    <3>2. events[workers[w].event].retry_count \in Nat
      BY <3>1, RowColumns
    <3> QED
      BY <3>1, <3>2, ClosedRow
  <2> QED
    BY <1>7, <2>1, <2>2, IdleLocal DEF MarkProcessed, TypeOK, HoldsRow, Idle
<1>8. ASSUME NEW w \in Workers, MarkFailedImmediately(w)
      PROVE  TypeInv'
  <2>1. workers[w].event \in EventIds
    BY <1>8 DEF MarkFailedImmediately, MaySettle, HoldsRow
  <2>2. Closed(events[workers[w].event], "failed", events[workers[w].event].retry_count) \in Row
    <3>1. events[workers[w].event] \in Row
      BY <2>1 DEF TypeOK
    <3>2. events[workers[w].event].retry_count \in Nat
      BY <3>1, RowColumns
    <3> QED
      BY <3>1, <3>2, ClosedRow
  <2> QED
    BY <1>8, <2>1, <2>2, IdleLocal DEF MarkFailedImmediately, TypeOK, HoldsRow, Idle
<1>9. ASSUME NEW w \in Workers, ScheduleRetry(w)
      PROVE  TypeInv'
  <2> DEFINE e == workers[w].event
             n == NextRetryCount(events[e].retry_count)
  <2>1. e \in EventIds
    BY <1>9 DEF ScheduleRetry, MaySettle, HoldsRow
  <2>2. n \in Nat
    BY <2>1, RowColumns, Counts DEF TypeOK
  <2>3. Closed(events[e], "failed", n) \in Row /\ BackedOff(events[e], n) \in Row
    BY <2>1, <2>2, ClosedRow, BackedOffRow DEF TypeOK
  <2>4. \/ events' = events
        \/ events' = [events EXCEPT ![e] = Closed(events[e], "failed", n)]
        \/ events' = [events EXCEPT ![e] = BackedOff(events[e], n)]
    BY <1>9 DEF ScheduleRetry
  <2>5. events' \in [EventIds -> Row]
    BY <2>3, <2>4 DEF TypeOK
  <2> QED
    BY <1>9, <2>5, IdleLocal DEF ScheduleRetry, TypeOK, HoldsRow, Idle
<1>10. ASSUME NEW w \in Workers, Crash(w)
       PROVE  TypeInv'
  BY <1>10, IdleLocal DEF Crash, TypeOK, HoldsRow, Idle
<1>11. ASSUME NEW e \in EventIds, LeaseExpires(e)
       PROVE  TypeInv'
  <2>1. events' \in [EventIds -> Row]
    BY <1>11, StaleRow DEF LeaseExpires, TypeOK
  <2> QED
    BY <1>11, <2>1 DEF LeaseExpires, TypeOK, HoldsRow
<1>12. ASSUME NEW e \in EventIds, BackoffElapses(e)
       PROVE  TypeInv'
  <2>1. events' \in [EventIds -> Row]
    BY <1>12, DueRow DEF BackoffElapses, TypeOK
  <2> QED
    BY <1>12, <2>1 DEF BackoffElapses, TypeOK, HoldsRow
<1>13. CASE UNCHANGED vars
  BY <1>13 DEF vars, TypeOK, HoldsRow
<1> QED
  BY <1>1, <1>2, <1>3, <1>4, <1>5, <1>6, <1>7, <1>8, <1>9, <1>10, <1>11, <1>12,
     <1>13 DEF Next

LEMMA TypeInvariance == Spec => []TypeInv
  BY TypeInvInit, TypeInvStep, PTL DEF Spec

\* Type correctness: every statement keeps the table, the workers' copies
\* and the history in their types.
THEOREM TypeCorrect == Spec => []TypeOK
<1>1. TypeInv => TypeOK
  BY DEF TypeInv
<1> QED
  BY <1>1, TypeInvariance, PTL

-----------------------------------------------------------------------------
(* The lock of a claim: while a worker holds it, the row is the one it     *)
(* read, and nobody else has selected the row.                             *)

CopyIsRow(w) ==
    workers[w].pc = "selected" =>
        /\ Claimable(workers[w].event)
        /\ events[workers[w].event].status = workers[w].status
        /\ events[workers[w].event].retry_count = workers[w].retry_count

OneSelector ==
    \A v, w \in Workers :
        /\ workers[v].pc = "selected" /\ workers[w].pc = "selected"
        /\ workers[v].event = workers[w].event
        => v = w

LockInv == TypeInv /\ OneSelector /\ \A w \in Workers : CopyIsRow(w)

LEMMA LockInvInit == Init => LockInv
  BY TypeInvInit DEF Init, LockInv, OneSelector, CopyIsRow, Idle

\* A step that leaves a locked row as it is, and no worker newly selected,
\* keeps the lock invariant.
LEMMA LockKept ==
    ASSUME LockInv, TypeInv',
           \A w \in Workers : workers'[w].pc = "selected" =>
               /\ workers'[w] = workers[w]
               /\ events'[workers[w].event] = events[workers[w].event]
    PROVE  LockInv'
<1>1. OneSelector'
  BY DEF LockInv, OneSelector
<1>2. ASSUME NEW w \in Workers PROVE CopyIsRow(w)'
  BY <1>2 DEF LockInv, CopyIsRow, Claimable
<1> QED
  BY <1>1, <1>2 DEF LockInv

LEMMA LockInvStep == LockInv /\ [Next]_vars => LockInv'
<1> SUFFICES ASSUME LockInv, [Next]_vars PROVE LockInv'
  OBVIOUS
<1> USE DEF LockInv
<1>0. TypeInv /\ TypeInv' /\ TypeOK
  BY TypeInvStep DEF TypeInv
<1>a. \A w \in Workers : workers[w].pc = "selected" => workers[w].event \in EventIds
  BY <1>0 DEF TypeInv, HoldsRow
<1>1. CASE Connect \/ UNCHANGED vars
  BY <1>0, <1>1, LockKept DEF Connect, vars
<1>2. CASE Disconnect
  <2>1. \A w \in Workers : workers[w].pc # "selected"
    BY <1>2, <1>a DEF Disconnect, RowLocked
  <2> QED
    BY <1>0, <1>2, <2>1, LockKept DEF Disconnect
<1>3. ASSUME NEW d \in Deliveries, NEW e \in EventIds, Ingest(d, e)
      PROVE  LockInv'
  <2>1. events[e].status = "absent"
    BY <1>3 DEF Ingest, NextRow
  <2>2. \A w \in Workers : workers[w].pc = "selected" => workers[w].event # e
    BY <2>1 DEF CopyIsRow, Claimable
  <2>3. \A f \in EventIds : f # e => events'[f] = events[f]
    BY <1>3, <1>0 DEF Ingest, TypeOK
  <2> QED
    BY <1>0, <1>3, <1>a, <2>2, <2>3, LockKept DEF Ingest
<1>4. ASSUME NEW w \in Workers, SelectClaimable(w)
      PROVE  LockInv'
  <2>1. PICK e \in EventIds :
           /\ Claimable(e) /\ ~RowLocked(e)
           /\ workers' = [workers EXCEPT ![w] = [pc |-> "selected", event |-> e,
                            status |-> events[e].status,
                            retry_count |-> events[e].retry_count]]
    BY <1>4 DEF SelectClaimable
  <2>2. /\ workers'[w].pc = "selected" /\ workers'[w].event = e
        /\ workers'[w].status = events[e].status
        /\ workers'[w].retry_count = events[e].retry_count
    BY <1>0, <2>1 DEF TypeOK
  <2>3. \A v \in Workers : v # w => workers'[v] = workers[v]
    BY <1>0, <2>1 DEF TypeOK
  <2>4. events' = events
    BY <1>4 DEF SelectClaimable
  <2>5. OneSelector'
    BY <2>1, <2>2, <2>3 DEF OneSelector, RowLocked
  <2>6. ASSUME NEW v \in Workers PROVE CopyIsRow(v)'
    <3>1. CASE v = w
      BY <2>1, <2>2, <2>4, <3>1 DEF CopyIsRow, Claimable
    <3>2. CASE v # w
      BY <2>3, <2>4, <3>2 DEF CopyIsRow, Claimable
    <3> QED
      BY <3>1, <3>2
  <2> QED
    BY <1>0, <2>5, <2>6
<1>5. ASSUME NEW w \in Workers, FailStale(w) \/ Claim(w)
      PROVE  LockInv'
  <2>1. /\ workers[w].pc = "selected"
        /\ workers'[w].pc # "selected"
        /\ \A v \in Workers : v # w => workers'[v] = workers[v]
    BY <1>0, <1>5 DEF FailStale, Claim, Idle, TypeOK, Local
  <2>2. \A v \in Workers : v # w /\ workers[v].pc = "selected"
                           => workers[v].event # workers[w].event
    BY <2>1 DEF OneSelector
  <2>3. \A f \in EventIds : f # workers[w].event => events'[f] = events[f]
    BY <1>0, <1>5 DEF FailStale, Claim, TypeOK
  <2> QED
    BY <1>0, <1>a, <2>1, <2>2, <2>3, LockKept
<1>6. ASSUME NEW w \in Workers, Settle(w)
      PROVE  LockInv'
  <2>1. MaySettle(w) /\ workers' = [workers EXCEPT ![w] = Idle]
    BY <1>6 DEF Settle, MarkProcessed, MarkFailedImmediately, ScheduleRetry
  <2>2. /\ workers'[w].pc # "selected"
        /\ \A v \in Workers : v # w => workers'[v] = workers[v]
    BY <1>0, <2>1 DEF TypeOK, Idle
  <2>3. \A v \in Workers : workers[v].pc = "selected" => workers[v].event # workers[w].event
    BY <2>1 DEF MaySettle, RowLocked
  <2>4. \A f \in EventIds : f # workers[w].event => events'[f] = events[f]
    BY <1>0, <1>6 DEF Settle, MarkProcessed, MarkFailedImmediately, ScheduleRetry, TypeOK
  <2> QED
    BY <1>0, <1>a, <2>2, <2>3, <2>4, LockKept
<1>7. ASSUME NEW w \in Workers, Crash(w)
      PROVE  LockInv'
  BY <1>0, <1>7, LockKept DEF Crash, Idle, TypeOK
<1>8. ASSUME NEW e \in EventIds, LeaseExpires(e) \/ BackoffElapses(e)
      PROVE  LockInv'
  <2>1. ~Claimable(e)
    BY <1>8 DEF LeaseExpires, BackoffElapses, Processing, Claimable
  <2>2. \A w \in Workers : workers[w].pc = "selected" => workers[w].event # e
    BY <2>1 DEF CopyIsRow
  <2>3. \A f \in EventIds : f # e => events'[f] = events[f]
    BY <1>0, <1>8 DEF LeaseExpires, BackoffElapses, TypeOK
  <2> QED
    BY <1>0, <1>8, <1>a, <2>2, <2>3, LockKept DEF LeaseExpires, BackoffElapses
<1> QED
  BY <1>1, <1>2, <1>3, <1>4, <1>5, <1>6, <1>7, <1>8 DEF Next, Settle

-----------------------------------------------------------------------------
(* What a step may do to one row and to the count of its claims.           *)

Kept(e)      == events'[e] = events[e] /\ claims'[e] = claims[e]

Arrived(e)   == /\ events[e].status = "absent"
                /\ \E d \in Deliveries, limit \in RetryLimits :
                      NotReceived(d) /\ events'[e] = Inserted(d, limit)
                /\ claims'[e] = claims[e]

FirstClaimed(e) == /\ events[e].status = "pending"
                   /\ events'[e] = Leased(events[e], events[e].retry_count)
                   /\ claims'[e] = claims[e] + 1

Reclaimed(e) == LET n == NextRetryCount(events[e].retry_count) IN
                /\ events[e].status = "processing"
                /\ ~Exhausted(n, events[e].max_retries)
                /\ events'[e] = Leased(events[e], n)
                /\ claims'[e] = claims[e] + 1

LeaseFailed(e) == LET n == NextRetryCount(events[e].retry_count) IN
                  /\ events[e].status = "processing"
                  /\ Exhausted(n, events[e].max_retries)
                  /\ events'[e] = Closed(events[e], "failed", n)
                  /\ claims'[e] = claims[e]

Settled(e)   == /\ events[e].status = "processing"
                /\ \E s \in {"processed", "failed"} :
                      events'[e] = Closed(events[e], s, events[e].retry_count)
                /\ claims'[e] = claims[e]

Retried(e)   == LET n == NextRetryCount(events[e].retry_count) IN
                /\ \E w \in Workers : WorksOn(w, e) /\ workers'[w] = Idle
                /\ Live(e)
                /\ \/ /\ Exhausted(n, events[e].max_retries)
                      /\ events'[e] = Closed(events[e], "failed", n)
                   \/ /\ ~Exhausted(n, events[e].max_retries)
                      /\ events'[e] = BackedOff(events[e], n)
                /\ claims'[e] = claims[e]

Dropped(e)   == /\ Disconnect
                /\ Live(e)
                /\ events'[e] = Deleted(events[e])
                /\ claims'[e] = claims[e]

Aged(e)      == /\ \/ events'[e] = [events[e] EXCEPT !.locked_at = "stale"] /\ lapsed'[e]
                   \/ events'[e] = [events[e] EXCEPT !.next_retry_at = "past"]
                /\ claims'[e] = claims[e]

RowStep(e) ==
    \/ Kept(e) \/ Arrived(e) \/ FirstClaimed(e) \/ Reclaimed(e) \/ LeaseFailed(e)
    \/ Settled(e) \/ Retried(e) \/ Dropped(e) \/ Aged(e)

\* A step whose change of the table is confined to one row keeps the others.
LEMMA OneRow ==
    ASSUME TypeOK, NEW r \in EventIds, NEW f \in EventIds, f # r,
           events' = events \/ \E row : events' = [events EXCEPT ![r] = row],
           claims' = claims \/ claims' = [claims EXCEPT ![r] = @ + 1]
    PROVE  Kept(f)
  BY DEF TypeOK, Kept

LEMMA RowSteps ==
    ASSUME LockInv, [Next]_vars, NEW e \in EventIds
    PROVE  RowStep(e)
<1> USE DEF LockInv
<1>0. TypeInv /\ TypeOK
  BY DEF TypeInv
<1>1. CASE Connect \/ UNCHANGED vars
  BY <1>1 DEF Connect, vars, RowStep, Kept
<1>2. CASE Disconnect
  BY <1>0, <1>2 DEF Disconnect, RowStep, Kept, Dropped
<1>3. ASSUME NEW d \in Deliveries, NEW r \in EventIds, Ingest(d, r)
      PROVE  RowStep(e)
  <2>1. CASE e = r
    BY <1>0, <1>3, <2>1 DEF Ingest, NextRow, TypeOK, Arrived, RowStep
  <2>2. CASE e # r
    BY <1>0, <1>3, <2>2, OneRow DEF Ingest, RowStep
  <2> QED
    BY <2>1, <2>2
<1>4. ASSUME NEW w \in Workers, SelectClaimable(w) \/ Crash(w)
      PROVE  RowStep(e)
  BY <1>4 DEF SelectClaimable, Crash, RowStep, Kept
<1>5. ASSUME NEW w \in Workers, FailStale(w)
      PROVE  RowStep(e)
  <2> DEFINE r == workers[w].event
  <2>1. r \in EventIds /\ CopyIsRow(w)
    BY <1>0, <1>5 DEF FailStale, TypeInv, HoldsRow
  <2>2. CASE e = r
    BY <1>0, <1>5, <2>1, <2>2
       DEF FailStale, CopyIsRow, ClaimCount, TypeOK, LeaseFailed, RowStep
  <2>3. CASE e # r
    BY <1>0, <1>5, <2>1, <2>3, OneRow DEF FailStale, RowStep
  <2> QED
    BY <2>2, <2>3
<1>6. ASSUME NEW w \in Workers, Claim(w)
      PROVE  RowStep(e)
  <2> DEFINE r == workers[w].event
  <2>1. r \in EventIds /\ CopyIsRow(w)
    BY <1>0, <1>6 DEF Claim, TypeInv, HoldsRow
  <2>2. CASE e = r
    <3>1. /\ events'[e] = Leased(events[e], ClaimCount(w))
          /\ claims'[e] = claims[e] + 1
          /\ events[e].status = workers[w].status
          /\ events[e].retry_count = workers[w].retry_count
      BY <1>0, <1>6, <2>1, <2>2 DEF Claim, CopyIsRow, TypeOK
    <3>2. CASE workers[w].status = "processing"
      BY <1>6, <2>2, <3>1, <3>2 DEF Claim, ClaimCount, Reclaimed, RowStep
    <3>3. CASE workers[w].status = "pending"
      BY <2>2, <3>1, <3>3 DEF ClaimCount, FirstClaimed, RowStep
    <3> QED
      BY <1>6, <2>1, <2>2, <3>1, <3>2, <3>3 DEF Claim, CopyIsRow, Claimable
  <2>3. CASE e # r
    BY <1>0, <1>6, <2>1, <2>3, OneRow DEF Claim, RowStep
  <2> QED
    BY <2>2, <2>3
<1>7. ASSUME NEW w \in Workers, MarkProcessed(w) \/ MarkFailedImmediately(w)
      PROVE  RowStep(e)
  <2> DEFINE r == workers[w].event
  <2>1. r \in EventIds
    BY <1>0, <1>7 DEF MarkProcessed, MarkFailedImmediately, MaySettle, TypeInv, HoldsRow
  <2>2. CASE e = r /\ Processing(r)
    BY <1>0, <1>7, <2>1, <2>2
       DEF MarkProcessed, MarkFailedImmediately, Processing, TypeOK, Settled, RowStep
  <2>3. CASE e = r /\ ~Processing(r)
    BY <1>7, <2>3 DEF MarkProcessed, MarkFailedImmediately, Kept, RowStep
  <2>4. CASE e # r
    BY <1>0, <1>7, <2>1, <2>4, OneRow DEF MarkProcessed, MarkFailedImmediately, RowStep
  <2> QED
    BY <2>2, <2>3, <2>4
<1>8. ASSUME NEW w \in Workers, ScheduleRetry(w)
      PROVE  RowStep(e)
  <2> DEFINE r == workers[w].event
  <2>1. r \in EventIds /\ WorksOn(w, r)
    BY <1>0, <1>8 DEF ScheduleRetry, MaySettle, TypeInv, HoldsRow, WorksOn
  <2>2. CASE e = r /\ Live(r)
    BY <1>0, <1>8, <2>1, <2>2 DEF ScheduleRetry, TypeOK, Retried, RowStep
  <2>3. CASE e = r /\ ~Live(r)
    BY <1>8, <2>3 DEF ScheduleRetry, Kept, RowStep
  <2>4. CASE e # r
    BY <1>0, <1>8, <2>1, <2>4, OneRow DEF ScheduleRetry, RowStep
  <2> QED
    BY <2>2, <2>3, <2>4
<1>9. ASSUME NEW r \in EventIds, LeaseExpires(r) \/ BackoffElapses(r)
      PROVE  RowStep(e)
  <2>1. CASE e = r
    BY <1>0, <1>9, <2>1 DEF LeaseExpires, BackoffElapses, TypeOK, Aged, RowStep
  <2>2. CASE e # r
    BY <1>0, <1>9, <2>2, OneRow DEF LeaseExpires, BackoffElapses, RowStep
  <2> QED
    BY <2>1, <2>2
<1> QED
  BY <1>1, <1>2, <1>3, <1>4, <1>5, <1>6, <1>7, <1>8, <1>9 DEF Next

-----------------------------------------------------------------------------
(* The budget of claims.  The retry count of a row pays for its claims: a  *)
(* pending row has been claimed at most retry_count times, a row in        *)
(* processing or settled once more; and a row that can be claimed has      *)
(* either a retry left or never had one.                                   *)

RowBudget(e) ==
    LET row == events[e] IN
    /\ row.status = "absent" => claims[e] = 0
    /\ row.status = "pending" => claims[e] <= row.retry_count
    /\ row.status \in {"processing", "processed", "failed"} =>
          claims[e] \in 1 .. row.retry_count + 1
    /\ row.status \in {"pending", "processing"} =>
          row.retry_count < row.max_retries \/ row.retry_count = 0
    /\ claims[e] <= RunBudget(row.max_retries)

\* A worker only works on a row that was claimed.
RanOnce(w) == workers[w].pc = "working" => claims[workers[w].event] > 0

BudgetInv == /\ LockInv
             /\ \A e \in EventIds : RowBudget(e)
             /\ \A w \in Workers : RanOnce(w)

LEMMA BudgetInvInit == Init => BudgetInv
<1> SUFFICES ASSUME Init PROVE BudgetInv
  OBVIOUS
<1>1. ASSUME NEW e \in EventIds PROVE RowBudget(e)
  <2>1. events[e] = AbsentRow /\ claims[e] = 0
    BY DEF Init
  <2> QED
    BY <2>1 DEF RowBudget, AbsentRow, RunBudget
<1>2. ASSUME NEW w \in Workers PROVE RanOnce(w)
  BY DEF Init, RanOnce, Idle
<1> QED
  BY <1>1, <1>2, LockInvInit DEF BudgetInv

LEMMA RowBudgetStep ==
    ASSUME BudgetInv, [Next]_vars, NEW e \in EventIds
    PROVE  RowBudget(e)'
<1> DEFINE row == events[e]
           n == NextRetryCount(row.retry_count)
<1>a. /\ row \in Row
      /\ row.retry_count \in Nat /\ row.max_retries \in Nat
      /\ n \in Nat /\ n = row.retry_count + 1
  BY RowColumns DEF BudgetInv, LockInv, TypeInv, TypeOK, NextRetryCount
<1>0. claims[e] \in Nat /\ RowBudget(e)
  BY DEF BudgetInv, LockInv, TypeInv, TypeOK
<1>1. RowStep(e)
  BY RowSteps DEF BudgetInv
<1>2. CASE Kept(e)
  BY <1>a, <1>0, <1>2 DEF Kept, RowBudget
<1>3. CASE Arrived(e)
  <2>1. PICK d \in Deliveries, limit \in RetryLimits : events'[e] = Inserted(d, limit)
    BY <1>3 DEF Arrived
  <2>2. limit \in Nat
    BY LimitsAssumption
  <2> QED
    BY <1>a, <1>0, <1>3, <2>1, <2>2, InsertedRow DEF Arrived, RowBudget, RunBudget
<1>4. CASE FirstClaimed(e)
  <2>1. /\ events'[e].status = "processing"
        /\ events'[e].retry_count = row.retry_count
        /\ events'[e].max_retries = row.max_retries
    <3>1. events'[e] = Leased(row, row.retry_count)
      BY <1>4 DEF FirstClaimed
    <3>2. /\ Leased(row, row.retry_count).status = "processing"
          /\ Leased(row, row.retry_count).retry_count = row.retry_count
          /\ Leased(row, row.retry_count).max_retries = row.max_retries
      BY <1>a, LeasedRow
    <3> QED
      BY <3>1, <3>2
  <2> QED
    BY <1>a, <1>0, <1>4, <2>1 DEF FirstClaimed, RowBudget, RunBudget
<1>5. CASE Reclaimed(e)
  <2>1. /\ events'[e].status = "processing"
        /\ events'[e].retry_count = n
        /\ events'[e].max_retries = row.max_retries
    <3>1. events'[e] = Leased(row, n)
      BY <1>5 DEF Reclaimed
    <3>2. /\ Leased(row, n).status = "processing"
          /\ Leased(row, n).retry_count = n
          /\ Leased(row, n).max_retries = row.max_retries
      BY <1>a, LeasedRow
    <3> QED
      BY <3>1, <3>2
  <2> QED
    BY <1>a, <1>0, <1>5, <2>1 DEF Reclaimed, Exhausted, RowBudget, RunBudget
<1>6. CASE LeaseFailed(e)
  <2>1. /\ events'[e].status = "failed"
        /\ events'[e].retry_count = n
        /\ events'[e].max_retries = row.max_retries
    <3>1. events'[e] = Closed(row, "failed", n)
      BY <1>6 DEF LeaseFailed
    <3>2. /\ Closed(row, "failed", n).status = "failed"
          /\ Closed(row, "failed", n).retry_count = n
          /\ Closed(row, "failed", n).max_retries = row.max_retries
      BY <1>a DEF Closed, Row
    <3> QED
      BY <3>1, <3>2
  <2> QED
    BY <1>a, <1>0, <1>6, <2>1 DEF LeaseFailed, RowBudget
<1>7. CASE Settled(e)
  <2>1. /\ events'[e].status \in {"processed", "failed"}
        /\ events'[e].retry_count = row.retry_count
        /\ events'[e].max_retries = row.max_retries
    <3>1. PICK s \in {"processed", "failed"} :
             events'[e] = Closed(row, s, row.retry_count)
      BY <1>7 DEF Settled
    <3>2. /\ Closed(row, s, row.retry_count).status = s
          /\ Closed(row, s, row.retry_count).retry_count = row.retry_count
          /\ Closed(row, s, row.retry_count).max_retries = row.max_retries
      BY <1>a DEF Closed, Row
    <3> QED
      BY <3>1, <3>2
  <2> QED
    BY <1>a, <1>0, <1>7, <2>1 DEF Settled, RowBudget
<1>8. CASE Retried(e)
  <2>1. claims[e] > 0 /\ claims'[e] = claims[e]
    BY <1>8 DEF BudgetInv, RanOnce, WorksOn, Retried
  <2>2. row.status \notin {"absent", "deleted"}
    BY <1>8 DEF Retried, Live
  <2>3. row.status \in {"pending", "processing", "processed", "failed"}
    BY <1>a, <1>0, <2>2, RowColumns
  <2>4. CASE Exhausted(n, row.max_retries) /\ events'[e] = Closed(row, "failed", n)
    <3>1. /\ events'[e].status = "failed"
          /\ events'[e].retry_count = n
          /\ events'[e].max_retries = row.max_retries
      BY <1>a, <2>4 DEF Closed, Row
    <3> QED
      BY <1>a, <1>0, <2>1, <2>3, <3>1 DEF RowBudget
  <2>5. CASE ~Exhausted(n, row.max_retries) /\ events'[e] = BackedOff(row, n)
    <3>1. /\ events'[e].status = "pending"
          /\ events'[e].retry_count = n
          /\ events'[e].max_retries = row.max_retries
      BY <1>a, <2>5, BackedOffRow
    <3> QED
      BY <1>a, <1>0, <2>1, <2>3, <2>5, <3>1 DEF RowBudget, Exhausted
  <2> QED
    BY <1>8, <2>4, <2>5 DEF Retried
<1>9. CASE Dropped(e)
  <2>1. /\ events'[e].status = "deleted"
        /\ events'[e].max_retries = row.max_retries
    BY <1>a, <1>9, DeletedRow DEF Dropped
  <2> QED
    BY <1>a, <1>0, <1>9, <2>1 DEF Dropped, RowBudget
<1>10. CASE Aged(e)
  <2>1. /\ events'[e].status = row.status
        /\ events'[e].retry_count = row.retry_count
        /\ events'[e].max_retries = row.max_retries
    BY <1>a, <1>10, StaleRow, DueRow DEF Aged
  <2> QED
    BY <1>a, <1>0, <1>10, <2>1 DEF Aged, RowBudget
<1> QED
  BY <1>1, <1>2, <1>3, <1>4, <1>5, <1>6, <1>7, <1>8, <1>9, <1>10 DEF RowStep

LEMMA ClaimsGrow ==
    ASSUME LockInv, [Next]_vars, NEW e \in EventIds
    PROVE  claims'[e] >= claims[e]
<1>1. RowStep(e)
  BY RowSteps
<1>2. claims[e] \in Nat
  BY DEF LockInv, TypeInv, TypeOK
<1> QED
  BY <1>1, <1>2 DEF RowStep, Kept, Arrived, FirstClaimed, Reclaimed, LeaseFailed,
                    Settled, Retried, Dropped, Aged

\* A worker that works on an event after a step has claimed it in that step
\* or worked on it before.
LEMMA WorkBegins ==
    ASSUME LockInv, [Next]_vars, NEW w \in Workers, workers'[w].pc = "working"
    PROVE  Claim(w) \/ workers'[w] = workers[w]
<1>0. workers \in [Workers -> Local]
  BY DEF LockInv, TypeInv, TypeOK
<1>1. ASSUME NEW v \in Workers, FailStale(v) \/ Settle(v) \/ Crash(v)
      PROVE  workers'[w] = workers[w]
  <2>1. workers' = [workers EXCEPT ![v] = Idle]
    BY <1>1 DEF FailStale, Settle, MarkProcessed, MarkFailedImmediately, ScheduleRetry, Crash
  <2> QED
    BY <1>0, <2>1 DEF Idle
<1>2. ASSUME NEW v \in Workers, SelectClaimable(v)
      PROVE  workers'[w] = workers[w]
  BY <1>0, <1>2 DEF SelectClaimable
<1>3. ASSUME NEW v \in Workers, Claim(v), v # w
      PROVE  workers'[w] = workers[w]
  BY <1>0, <1>3 DEF Claim
<1> QED
  BY <1>1, <1>2, <1>3
     DEF Next, Settle, vars, Connect, Disconnect, Ingest, LeaseExpires, BackoffElapses

LEMMA BudgetInvStep == BudgetInv /\ [Next]_vars => BudgetInv'
<1> SUFFICES ASSUME BudgetInv, [Next]_vars PROVE BudgetInv'
  OBVIOUS
<1>1. LockInv /\ LockInv'
  BY LockInvStep DEF BudgetInv
<1>2. \A e \in EventIds : RowBudget(e)'
  BY RowBudgetStep
<1>3. ASSUME NEW w \in Workers, workers'[w].pc = "working"
      PROVE  claims'[workers'[w].event] > 0
  <2>1. CASE Claim(w)
    <3>1. /\ workers[w].event \in EventIds
          /\ workers'[w].event = workers[w].event
          /\ claims'[workers[w].event] = claims[workers[w].event] + 1
          /\ claims[workers[w].event] \in Nat
      BY <1>1, <2>1 DEF Claim, LockInv, TypeInv, TypeOK, HoldsRow, Local
    <3> QED
      BY <3>1
  <2>2. CASE workers'[w] = workers[w]
    <3>1. workers[w].event \in EventIds /\ claims[workers[w].event] > 0
      BY <1>1, <1>3, <2>2 DEF BudgetInv, RanOnce, LockInv, TypeInv, HoldsRow
    <3>2. /\ claims'[workers[w].event] >= claims[workers[w].event]
          /\ claims[workers[w].event] \in Nat /\ claims'[workers[w].event] \in Nat
      BY <1>1, <3>1, ClaimsGrow DEF LockInv, TypeInv, TypeOK
    <3> QED
      BY <2>2, <3>1, <3>2
  <2> QED
    BY <1>1, <1>3, <2>1, <2>2, WorkBegins
<1> QED
  BY <1>1, <1>2, <1>3 DEF BudgetInv, RanOnce

LEMMA BudgetInvariance == Spec => []BudgetInv
  BY BudgetInvInit, BudgetInvStep, PTL DEF Spec

\* An event is claimed at most max_retries times (once when that is 0),
\* whatever crashes, lapsed leases and late settlements happen.
THEOREM ClaimsBounded == Spec => []ClaimBudget
<1>1. BudgetInv => ClaimBudget
  BY DEF BudgetInv, RowBudget, ClaimBudget
<1> QED
  BY <1>1, BudgetInvariance, PTL

-----------------------------------------------------------------------------
(* A row that exhausted its retries stays failed.                          *)

LEMMA ExhaustedStep ==
    ASSUME LockInv, [Next]_vars PROVE ExhaustedKept
<1> SUFFICES ASSUME NEW e \in EventIds, events[e].status = "failed",
                    events[e].retry_count >= events[e].max_retries
             PROVE  events'[e].status \in {"failed", "deleted"}
  BY DEF ExhaustedKept
<1> DEFINE row == events[e]
           n == NextRetryCount(row.retry_count)
<1>1. row \in Row
  BY DEF LockInv, TypeInv, TypeOK
<1>2. n = row.retry_count + 1 /\ n \in Nat /\ row.max_retries \in Nat
  BY <1>1, RowColumns DEF NextRetryCount
<1>3. Exhausted(n, row.max_retries)
  BY <1>1, <1>2, RowColumns DEF Exhausted
<1>4. Kept(e) \/ Retried(e) \/ Dropped(e) \/ Aged(e)
  BY RowSteps DEF RowStep, Arrived, FirstClaimed, Reclaimed, LeaseFailed, Settled
<1>5. CASE Kept(e)
  BY <1>5 DEF Kept
<1>6. CASE Retried(e)
  <2>1. events'[e] = Closed(row, "failed", n)
    BY <1>3, <1>6 DEF Retried
  <2>2. Closed(row, "failed", n).status = "failed"
    BY <1>1, <1>2 DEF Closed, Row
  <2> QED
    BY <2>1, <2>2
<1>7. CASE Dropped(e)
  BY <1>1, <1>7, DeletedRow DEF Dropped
<1>8. CASE Aged(e)
  BY <1>1, <1>8, StaleRow, DueRow DEF Aged
<1> QED
  BY <1>4, <1>5, <1>6, <1>7, <1>8

LEMMA LockInvariance == Spec => []LockInv
  BY LockInvInit, LockInvStep, PTL DEF Spec

\* A row failed by exhausting its retries is never revived, not even by the
\* unguarded ScheduleRetry of a worker that lost its lease.
THEOREM ExhaustedNeverRevived == Spec => ExhaustedStaysFailed
<1>1. LockInv /\ [Next]_vars => [ExhaustedKept]_vars
  BY ExhaustedStep
<1> QED
  BY <1>1, LockInvariance, PTL DEF Spec, ExhaustedStaysFailed

-----------------------------------------------------------------------------
(* Two workers on one event.  As long as no lease on a row ran out, at     *)
(* most one worker works on it, and none on a row that can be claimed.     *)

Unlapsed(e) ==
    ~lapsed[e] =>
        /\ events[e].locked_at # "stale"
        /\ \A v, w \in Workers : WorksOn(v, e) /\ WorksOn(w, e) => v = w
        /\ events[e].status \in {"absent", "pending"} =>
              \A w \in Workers : ~WorksOn(w, e)

OverlapInv == LockInv /\ \A e \in EventIds : Unlapsed(e)

LEMMA OverlapInvInit == Init => OverlapInv
<1> SUFFICES ASSUME Init PROVE OverlapInv
  OBVIOUS
<1>1. ASSUME NEW e \in EventIds PROVE events[e].locked_at # "stale"
  BY DEF Init, AbsentRow
<1>2. ASSUME NEW e \in EventIds, NEW w \in Workers PROVE ~WorksOn(w, e)
  BY DEF Init, Idle, WorksOn
<1> QED
  BY <1>1, <1>2, LockInvInit DEF OverlapInv, Unlapsed

LEMMA LapsedStays ==
    ASSUME LockInv, [Next]_vars, NEW e \in EventIds, lapsed[e]
    PROVE  lapsed'[e]
  BY DEF LockInv, TypeInv, TypeOK, Next, vars, Connect, Disconnect, Ingest,
         SelectClaimable, FailStale, Claim, MarkProcessed, MarkFailedImmediately,
         ScheduleRetry, Crash, LeaseExpires, BackoffElapses

LEMMA UnlapsedStep ==
    ASSUME OverlapInv, [Next]_vars, NEW e \in EventIds
    PROVE  Unlapsed(e)'
<1> SUFFICES ASSUME ~lapsed'[e]
             PROVE  /\ events'[e].locked_at # "stale"
                    /\ \A v, w \in Workers : WorksOn(v, e)' /\ WorksOn(w, e)' => v = w
                    /\ events'[e].status \in {"absent", "pending"} =>
                          \A w \in Workers : ~WorksOn(w, e)'
  BY DEF Unlapsed
<1> DEFINE row == events[e]
           n == NextRetryCount(row.retry_count)
<1>1. LockInv /\ LockInv' /\ ~lapsed[e] /\ Unlapsed(e) /\ RowStep(e)
  BY LockInvStep, LapsedStays, RowSteps DEF OverlapInv
<1>2. row \in Row /\ row.retry_count \in Nat /\ n \in Nat
  BY <1>1, RowColumns DEF LockInv, TypeInv, TypeOK, NextRetryCount
<1>3. row.locked_at # "stale"
  BY <1>1 DEF Unlapsed
<1>4. /\ Leased(row, n).locked_at = "fresh"
      /\ Leased(row, row.retry_count).locked_at = "fresh"
      /\ Leased(row, n).status = "processing"
      /\ Leased(row, row.retry_count).status = "processing"
  BY <1>2, LeasedRow
<1>5. /\ \A s : Closed(row, s, n).locked_at = "null" /\ Closed(row, s, n).status = s
      /\ \A s : /\ Closed(row, s, row.retry_count).locked_at = "null"
                /\ Closed(row, s, row.retry_count).status = s
  BY <1>2 DEF Closed, Row
<1>6. BackedOff(row, n).locked_at = "null"
  BY <1>2, BackedOffRow
<1>7. events'[e].locked_at # "stale"
  <2>1. CASE Kept(e)
    BY <1>3, <2>1 DEF Kept
  <2>2. CASE Arrived(e)
    BY <2>2, InsertedRow, LimitsAssumption DEF Arrived
  <2>3. CASE FirstClaimed(e) \/ Reclaimed(e)
    BY <1>4, <2>3 DEF FirstClaimed, Reclaimed
  <2>4. CASE LeaseFailed(e) \/ Settled(e) \/ Retried(e)
    BY <1>5, <1>6, <2>4 DEF LeaseFailed, Settled, Retried
  <2>5. CASE Dropped(e)
    BY <1>2, <1>3, <2>5, DeletedRow DEF Dropped
  <2>6. CASE Aged(e)
    BY <1>2, <1>3, <2>6, DueRow DEF Aged
  <2> QED
    BY <1>1, <2>1, <2>2, <2>3, <2>4, <2>5, <2>6 DEF RowStep
<1>8. CASE \E w \in Workers : Claim(w) /\ workers[w].event = e
  <2>1. PICK u \in Workers : Claim(u) /\ workers[u].event = e
    BY <1>8
  <2>2. row.status = "pending"
    BY <1>1, <1>3, <2>1 DEF Claim, LockInv, CopyIsRow, Claimable
  <2>3. \A w \in Workers : WorksOn(w, e)' => w = u
    BY <1>1, <2>1, <2>2 DEF Claim, Unlapsed, WorksOn, LockInv, TypeInv, TypeOK
  <2>4. events'[e].status = "processing"
    <3>1. FirstClaimed(e) \/ Reclaimed(e)
      <4>1. claims'[e] = claims[e] + 1 /\ claims[e] \in Nat
        BY <1>1, <2>1 DEF Claim, LockInv, TypeInv, TypeOK
      <4> QED
        BY <1>1, <4>1 DEF RowStep, Kept, Arrived, LeaseFailed, Settled, Retried, Dropped, Aged
    <3> QED
      BY <1>4, <3>1 DEF FirstClaimed, Reclaimed
  <2> QED
    BY <1>7, <2>3, <2>4
<1>9. CASE ~\E w \in Workers : Claim(w) /\ workers[w].event = e
  <2>1. \A w \in Workers : WorksOn(w, e)' => WorksOn(w, e)
    <3>1. SUFFICES ASSUME NEW w \in Workers, WorksOn(w, e)'
                   PROVE  WorksOn(w, e)
      OBVIOUS
    <3>2. CASE Claim(w)
      <4>1. workers'[w].event = workers[w].event
        BY <1>1, <3>2 DEF Claim, LockInv, TypeInv, TypeOK, Local
      <4> QED
        BY <1>9, <3>1, <3>2, <4>1 DEF WorksOn
    <3>3. CASE workers'[w] = workers[w]
      BY <3>1, <3>3 DEF WorksOn
    <3> QED
      BY <1>1, <3>1, <3>2, <3>3, WorkBegins DEF WorksOn
  <2>2. \A v, w \in Workers : WorksOn(v, e)' /\ WorksOn(w, e)' => v = w
    BY <1>1, <2>1 DEF Unlapsed
  <2>3. ASSUME events'[e].status \in {"absent", "pending"}, NEW w \in Workers, WorksOn(w, e)'
        PROVE  FALSE
    <3>1. CASE Retried(e)
      <4>1. PICK u \in Workers : WorksOn(u, e) /\ workers'[u] = Idle
        BY <3>1 DEF Retried
      <4>2. u = w
        BY <1>1, <2>1, <2>3, <4>1 DEF Unlapsed
      <4> QED
        BY <2>3, <4>1, <4>2 DEF WorksOn, Idle
    <3>2. CASE FirstClaimed(e) \/ Reclaimed(e)
      BY <1>4, <2>3, <3>2 DEF FirstClaimed, Reclaimed
    <3>3. CASE LeaseFailed(e) \/ Settled(e)
      BY <1>5, <2>3, <3>3 DEF LeaseFailed, Settled
    <3>4. CASE Dropped(e)
      BY <1>2, <2>3, <3>4, DeletedRow DEF Dropped
    <3>5. CASE Kept(e) \/ Aged(e)
      <4>1. events'[e].status = row.status
        BY <1>2, <3>5, StaleRow, DueRow DEF Kept, Aged
      <4> QED
        BY <1>1, <2>1, <2>3, <4>1 DEF Unlapsed
    <3>6. CASE Arrived(e)
      BY <1>1, <2>1, <2>3, <3>6 DEF Arrived, Unlapsed
    <3> QED
      BY <1>1, <3>1, <3>2, <3>3, <3>4, <3>5, <3>6 DEF RowStep
  <2> QED
    BY <1>7, <2>2, <2>3
<1> QED
  BY <1>8, <1>9

LEMMA OverlapInvStep == OverlapInv /\ [Next]_vars => OverlapInv'
  BY LockInvStep, UnlapsedStep DEF OverlapInv

\* Two workers are on one event at the same time only after a lapsed lease.
THEOREM OverlapNeedsLapse == Spec => []OverlapOnlyAfterLapse
<1>1. OverlapInv => OverlapOnlyAfterLapse
  BY DEF OverlapInv, Unlapsed, OverlapOnlyAfterLapse
<1> QED
  BY <1>1, OverlapInvInit, OverlapInvStep, PTL DEF Spec

-----------------------------------------------------------------------------
(* The queue implements DeliveryContract.                                  *)

\* A row seen as an event: its phase, its delivery, its tries and its budget.
SameView(e) == /\ PhaseOf(events'[e]) = PhaseOf(events[e])
               /\ events'[e].delivery = events[e].delivery
               /\ claims'[e] = claims[e]
               /\ BudgetOf(events'[e]) = BudgetOf(events[e])

\* A step confined to the row r that changes at most the phase of its view
\* and the number of its tries.
ViewStep(r, p, t) == /\ \A f \in EventIds : f # r => SameView(f)
                     /\ PhaseOf(events'[r]) = p
                     /\ events'[r].delivery = events[r].delivery
                     /\ claims'[r] = t
                     /\ BudgetOf(events'[r]) = BudgetOf(events[r])

LEMMA KeptView == ASSUME NEW e \in EventIds, Kept(e) PROVE SameView(e)
  BY DEF Kept, SameView

LEMMA ViewUnchanged ==
    ASSUME TypeOK, TypeOK', \A e \in EventIds : SameView(e)
    PROVE  UNCHANGED Contract!contractVars
<1>1. phases' = phases /\ accepted' = accepted /\ budgets' = budgets
  BY DEF SameView, phases, accepted, budgets
<1>2. claims' = claims
  BY DEF SameView, TypeOK
<1> QED
  BY <1>1, <1>2 DEF Contract!contractVars

LEMMA ViewUpdate ==
    ASSUME TypeOK, TypeOK', NEW r \in EventIds, NEW p, NEW t, ViewStep(r, p, t)
    PROVE  /\ phases' = [phases EXCEPT ![r] = p]
           /\ accepted' = accepted
           /\ claims' = [claims EXCEPT ![r] = t]
           /\ budgets' = budgets
  BY DEF ViewStep, SameView, phases, accepted, budgets, TypeOK

\* An id that the UNIQUE constraint does not find is not on record.
LEMMA NotOnRecord ==
    ASSUME TypeOK, NEW d \in Deliveries, NotReceived(d)
    PROVE  ~Contract!OnRecord(d)
<1> SUFFICES ASSUME NEW e \in EventIds, phases[e] \notin {"none", "gone"},
                    accepted[e] = d
             PROVE  FALSE
  BY DEF Contract!OnRecord
<1>1. PhaseOf(events[e]) \notin {"none", "gone"} /\ events[e].delivery = d
  BY DEF phases, accepted
<1>2. Live(e)
  BY <1>1 DEF PhaseOf, Live
<1> QED
  BY <1>1, <1>2 DEF NotReceived

\* Only one row changes in a step, but for the cascading delete.
LEMMA OneRowSteps ==
    ASSUME LockInv, [Next]_vars, ~Disconnect
    PROVE  \/ \A e \in EventIds : Kept(e)
           \/ \E r \in EventIds : \A f \in EventIds : f # r => Kept(f)
<1> USE DEF LockInv
<1>0. TypeInv /\ TypeOK
  BY DEF TypeInv
<1>1. CASE Connect \/ UNCHANGED vars
  BY <1>1 DEF Connect, vars, Kept
<1>2. ASSUME NEW d \in Deliveries, NEW r \in EventIds, Ingest(d, r)
      PROVE  \A f \in EventIds : f # r => Kept(f)
  BY <1>0, <1>2, OneRow DEF Ingest
<1>3. ASSUME NEW w \in Workers, SelectClaimable(w) \/ Crash(w)
      PROVE  \A e \in EventIds : Kept(e)
  BY <1>3 DEF SelectClaimable, Crash, Kept
<1>4. ASSUME NEW w \in Workers, FailStale(w) \/ Claim(w) \/ Settle(w)
      PROVE  \E r \in EventIds : \A f \in EventIds : f # r => Kept(f)
  <2> DEFINE r == workers[w].event
  <2>1. r \in EventIds
    BY <1>0, <1>4 DEF FailStale, Claim, Settle, MarkProcessed, MarkFailedImmediately,
                      ScheduleRetry, MaySettle, TypeInv, HoldsRow
  <2>2. events' = events \/ \E row : events' = [events EXCEPT ![r] = row]
    BY <1>4 DEF FailStale, Claim, Settle, MarkProcessed, MarkFailedImmediately, ScheduleRetry
  <2>3. claims' = claims \/ claims' = [claims EXCEPT ![r] = @ + 1]
    BY <1>4 DEF FailStale, Claim, Settle, MarkProcessed, MarkFailedImmediately, ScheduleRetry
  <2> QED
    BY <1>0, <2>1, <2>2, <2>3, OneRow
<1>5. ASSUME NEW r \in EventIds, LeaseExpires(r) \/ BackoffElapses(r)
      PROVE  \A f \in EventIds : f # r => Kept(f)
  BY <1>0, <1>5, OneRow DEF LeaseExpires, BackoffElapses
<1> QED
  BY <1>1, <1>2, <1>3, <1>4, <1>5 DEF Next, Settle

\* The step of one row is a step of its event, or leaves it as it is.
LEMMA RowView ==
    ASSUME BudgetInv, BudgetInv', [Next]_vars, ~Disconnect, NEW r \in EventIds,
           \A f \in EventIds : f # r => Kept(f)
    PROVE  Contract!ContractNext \/ UNCHANGED Contract!contractVars
<1> DEFINE row == events[r]
           n == NextRetryCount(row.retry_count)
<1>1. TypeOK /\ TypeOK' /\ RowStep(r) /\ RowBudget(r)
  BY RowSteps DEF BudgetInv, LockInv, TypeInv
<1>2. row \in Row /\ n \in Nat /\ row.retry_count \in Nat /\ row.max_retries \in Nat
  BY <1>1, RowColumns DEF TypeOK, NextRetryCount
<1>3. claims[r] \in Nat /\ claims'[r] \in Nat
  BY <1>1 DEF TypeOK
<1>4. /\ phases[r] = PhaseOf(row)
      /\ budgets[r] = BudgetOf(row)
  BY DEF phases, budgets
<1>5. \A f \in EventIds : f # r => SameView(f)
  BY KeptView
<1>6. CASE SameView(r)
  BY <1>1, <1>5, <1>6, ViewUnchanged
<1>7. ASSUME NEW p, NEW t, PhaseOf(events'[r]) = p, claims'[r] = t,
             events'[r].delivery = row.delivery, BudgetOf(events'[r]) = BudgetOf(row)
      PROVE  /\ phases' = [phases EXCEPT ![r] = p]
             /\ accepted' = accepted
             /\ claims' = [claims EXCEPT ![r] = t]
             /\ budgets' = budgets
  BY <1>1, <1>5, <1>7, ViewUpdate DEF ViewStep
<1>8. CASE Kept(r)
  BY <1>6, <1>8, KeptView
<1>9. CASE Arrived(r)
  <2>1. PICK d \in Deliveries, limit \in RetryLimits :
           NotReceived(d) /\ events'[r] = Inserted(d, limit)
    BY <1>9 DEF Arrived
  <2>2. limit \in Nat
    BY LimitsAssumption
  <2>3. /\ events'[r].status = "pending"
        /\ events'[r].max_retries = limit
        /\ events'[r].delivery = d
    BY <2>1, <2>2, InsertedRow
  <2>4. PhaseOf(row) = "none" /\ PhaseOf(events'[r]) = "waiting"
    BY <1>9, <2>3 DEF Arrived, PhaseOf
  <2>5. BudgetOf(events'[r]) = RunBudget(limit)
    BY <2>3 DEF BudgetOf
  <2>6. phases' = [phases EXCEPT ![r] = "waiting"]
    BY <1>5, <2>4 DEF phases, SameView
  <2>7. /\ budgets' = [budgets EXCEPT ![r] = RunBudget(limit)]
        /\ accepted' = [accepted EXCEPT ![r] = d]
    BY <1>5, <2>3, <2>5 DEF budgets, accepted, SameView
  <2>8. claims' = claims
    BY <1>1, <1>5, <1>9 DEF SameView, Arrived, TypeOK
  <2>9. RunBudget(limit) \in {RunBudget(l) : l \in RetryLimits}
    OBVIOUS
  <2>10. ~Contract!OnRecord(d)
    BY <1>1, <2>1, NotOnRecord
  <2>11. Contract!Accept(r, d)
    BY <1>4, <2>4, <2>6, <2>7, <2>8, <2>9, <2>10 DEF Contract!Accept
  <2> QED
    BY <2>11 DEF Contract!ContractNext
<1>10. CASE FirstClaimed(r) \/ Reclaimed(r)
  <2>1. PICK m \in Nat : events'[r] = Leased(row, m)
    BY <1>2, <1>10 DEF FirstClaimed, Reclaimed
  <2>2. /\ events'[r].status = "processing"
        /\ events'[r].max_retries = row.max_retries
        /\ events'[r].delivery = row.delivery
    <3>1. /\ Leased(row, m).status = "processing"
          /\ Leased(row, m).max_retries = row.max_retries
          /\ Leased(row, m).delivery = row.delivery
      BY <1>2, LeasedRow
    <3> QED
      BY <2>1, <3>1
  <2>3. row.status \in {"pending", "processing"} /\ claims'[r] = claims[r] + 1
    BY <1>10 DEF FirstClaimed, Reclaimed
  <2>4. PhaseOf(row) \in {"waiting", "running"} /\ PhaseOf(events'[r]) = "running"
    BY <2>2, <2>3 DEF PhaseOf
  <2>5. /\ BudgetOf(events'[r]) = BudgetOf(row)
        /\ BudgetOf(row) = RunBudget(row.max_retries)
    BY <2>2, <2>3 DEF BudgetOf
  <2>6. claims'[r] <= RunBudget(row.max_retries)
    BY <2>2 DEF BudgetInv, RowBudget
  <2>7. claims[r] < BudgetOf(row)
    BY <1>2, <1>3, <2>3, <2>5, <2>6 DEF RunBudget
  <2>8. /\ phases' = [phases EXCEPT ![r] = "running"]
        /\ accepted' = accepted
        /\ claims' = [claims EXCEPT ![r] = claims[r] + 1]
        /\ budgets' = budgets
    BY <1>7, <2>2, <2>3, <2>4, <2>5
  <2>9. Contract!Try(r)
    BY <1>4, <2>4, <2>7, <2>8 DEF Contract!Try
  <2> QED
    BY <2>9 DEF Contract!ContractNext
<1>11. ASSUME events'[r].status \in {"processed", "failed"},
              events'[r].max_retries = row.max_retries,
              events'[r].delivery = row.delivery,
              claims'[r] = claims[r],
              row.status \in {"pending", "processing"}, claims[r] > 0
       PROVE  Contract!ContractNext \/ UNCHANGED Contract!contractVars
  <2>1. PhaseOf(row) \in {"waiting", "running"} /\ PhaseOf(events'[r]) = "closed"
    BY <1>11 DEF PhaseOf
  <2>2. BudgetOf(events'[r]) = BudgetOf(row)
    BY <1>11 DEF BudgetOf
  <2>3. /\ phases' = [phases EXCEPT ![r] = "closed"]
        /\ accepted' = accepted
        /\ claims' = [claims EXCEPT ![r] = claims[r]]
        /\ budgets' = budgets
    BY <1>7, <1>11, <2>1, <2>2
  <2>4. claims' = claims
    BY <1>1, <2>3 DEF TypeOK
  <2>5. Contract!Close(r)
    BY <1>4, <1>11, <2>1, <2>3, <2>4 DEF Contract!Close
  <2> QED
    BY <2>5 DEF Contract!ContractNext
<1>12. CASE LeaseFailed(r) \/ Settled(r)
  <2>1. PICK s \in {"processed", "failed"}, m \in Nat : events'[r] = Closed(row, s, m)
    BY <1>2, <1>12 DEF LeaseFailed, Settled
  <2>2. /\ events'[r].status = s
        /\ events'[r].max_retries = row.max_retries
        /\ events'[r].delivery = row.delivery
    BY <1>2, <2>1 DEF Closed, Row
  <2>3. row.status = "processing" /\ claims'[r] = claims[r]
    BY <1>12 DEF LeaseFailed, Settled
  <2>4. claims[r] > 0
    BY <1>1, <1>3, <2>3 DEF RowBudget
  <2> QED
    BY <1>11, <2>2, <2>3, <2>4
<1>13. CASE Retried(r)
  <2>1. claims[r] > 0 /\ claims'[r] = claims[r]
    BY <1>13 DEF BudgetInv, RanOnce, WorksOn, Retried
  <2>2. row.status \in {"pending", "processing", "processed", "failed"}
    BY <1>2, <1>13, RowColumns DEF Retried, Live
  <2>3. CASE events'[r] = Closed(row, "failed", n)
    <3>1. /\ events'[r].status = "failed"
          /\ events'[r].max_retries = row.max_retries
          /\ events'[r].delivery = row.delivery
      BY <1>2, <2>3 DEF Closed, Row
    <3>2. CASE row.status \in {"processed", "failed"}
      <4>1. SameView(r)
        BY <2>1, <3>1, <3>2 DEF SameView, PhaseOf, BudgetOf
      <4> QED
        BY <1>6, <4>1
    <3> QED
      BY <1>11, <2>1, <2>2, <3>1, <3>2
  <2>4. CASE ~Exhausted(n, row.max_retries) /\ events'[r] = BackedOff(row, n)
    <3>1. /\ events'[r].status = "pending"
          /\ events'[r].retry_count = n
          /\ events'[r].max_retries = row.max_retries
          /\ events'[r].delivery = row.delivery
      <4>1. row \in Row /\ n \in Nat
        BY <1>2
      <4>2. /\ BackedOff(row, n).status = "pending"
            /\ BackedOff(row, n).retry_count = n
            /\ BackedOff(row, n).max_retries = row.max_retries
            /\ BackedOff(row, n).delivery = row.delivery
        BY <4>1, BackedOffRow
      <4> QED
        BY <2>4, <4>2
    <3>2. PhaseOf(row) \in {"waiting", "running", "closed"} /\ PhaseOf(events'[r]) = "waiting"
      BY <2>2, <3>1 DEF PhaseOf
    <3>3. BudgetOf(events'[r]) = BudgetOf(row) /\ BudgetOf(row) = RunBudget(row.max_retries)
      BY <2>2, <3>1 DEF BudgetOf
    <3>4. claims'[r] <= n
      BY <3>1 DEF BudgetInv, RowBudget
    <3>5. claims[r] \in 1 .. BudgetOf(row) - 1
      BY <1>2, <1>3, <2>1, <2>4, <3>3, <3>4 DEF Exhausted, RunBudget
    <3>6. /\ phases' = [phases EXCEPT ![r] = "waiting"]
          /\ accepted' = accepted
          /\ claims' = [claims EXCEPT ![r] = claims[r]]
          /\ budgets' = budgets
      BY <1>7, <2>1, <3>1, <3>2, <3>3
    <3>7. claims' = claims
      BY <1>1, <3>6 DEF TypeOK
    <3>8. Contract!Retry(r)
      BY <1>4, <3>2, <3>5, <3>6, <3>7 DEF Contract!Retry
    <3> QED
      BY <3>8 DEF Contract!ContractNext
  <2> QED
    BY <1>13, <2>3, <2>4 DEF Retried
<1>14. CASE Aged(r)
  <2>1. /\ events'[r].status = row.status
        /\ events'[r].max_retries = row.max_retries
        /\ events'[r].delivery = row.delivery
    BY <1>2, <1>14 DEF Aged, Row
  <2>2. SameView(r)
    BY <1>14, <2>1 DEF Aged, SameView, PhaseOf, BudgetOf
  <2> QED
    BY <1>6, <2>2
<1> QED
  BY <1>1, <1>8, <1>9, <1>10, <1>12, <1>13, <1>14 DEF RowStep, Dropped

LEMMA DisconnectView ==
    ASSUME LockInv, LockInv', Disconnect
    PROVE  Contract!ContractNext
<1>1. TypeOK /\ claims' = claims
  BY DEF LockInv, TypeInv, Disconnect
<1>2. ASSUME NEW e \in EventIds
      PROVE  /\ PhaseOf(events'[e]) = IF PhaseOf(events[e]) = "none" THEN "none" ELSE "gone"
             /\ BudgetOf(events'[e]) = BudgetOf(events[e])
             /\ events'[e].delivery = events[e].delivery
  <2>1. events[e] \in Row
    BY <1>1 DEF TypeOK
  <2>2. CASE Live(e)
    <3>1. /\ events'[e].status = "deleted"
          /\ events'[e].max_retries = events[e].max_retries
          /\ events'[e].delivery = events[e].delivery
      BY <2>1, <2>2, DeletedRow DEF Disconnect
    <3> QED
      BY <2>1, <2>2, <3>1, RowColumns DEF Live, PhaseOf, BudgetOf
  <2>3. CASE ~Live(e)
    <3>1. events'[e] = events[e]
      BY <2>3 DEF Disconnect
    <3> QED
      BY <2>3, <3>1 DEF Live, PhaseOf
  <2> QED
    BY <2>2, <2>3
<1>3. phases' = [e \in EventIds |-> IF phases[e] = "none" THEN "none" ELSE "gone"]
  BY <1>2 DEF phases
<1>4. budgets' = budgets /\ accepted' = accepted
  BY <1>2 DEF budgets, accepted
<1> QED
  BY <1>1, <1>3, <1>4 DEF Contract!ContractNext, Contract!DropAll

LEMMA ContractInitially == Init => Contract!ContractInit
<1> SUFFICES ASSUME Init PROVE Contract!ContractInit
  OBVIOUS
<1>1. ASSUME NEW e \in EventIds
      PROVE  /\ PhaseOf(events[e]) = "none"
             /\ events[e].delivery = None
             /\ BudgetOf(events[e]) = 0
  BY DEF Init, AbsentRow, PhaseOf, BudgetOf
<1> QED
  BY <1>1 DEF Init, phases, accepted, budgets, Contract!ContractInit

LEMMA ContractStep ==
    BudgetInv /\ BudgetInv' /\ [Next]_vars
    => Contract!ContractNext \/ UNCHANGED Contract!contractVars
<1> SUFFICES ASSUME BudgetInv, BudgetInv', [Next]_vars
             PROVE  Contract!ContractNext \/ UNCHANGED Contract!contractVars
  OBVIOUS
<1>1. CASE Disconnect
  BY <1>1, DisconnectView DEF BudgetInv
<1>2. CASE ~Disconnect
  <2>1. CASE \A e \in EventIds : Kept(e)
    BY <2>1, KeptView, ViewUnchanged DEF BudgetInv, LockInv, TypeInv
  <2>2. CASE \E r \in EventIds : \A f \in EventIds : f # r => Kept(f)
    BY <1>2, <2>2, RowView
  <2> QED
    BY <1>2, <2>1, <2>2, OneRowSteps DEF BudgetInv
<1> QED
  BY <1>1, <1>2

\* Every behaviour of the queue is one its contract allows.
THEOREM QueueImplementsContract == Spec => ImplementsContract
<1>1. BudgetInv /\ BudgetInv' /\ [Next]_vars => [Contract!ContractNext]_(Contract!contractVars)
  BY ContractStep
<1> QED
  BY <1>1, ContractInitially, BudgetInvariance, PTL
     DEF Spec, ImplementsContract, Contract!ContractSpec

(***************************************************************************)
(* II. The pipeline.                                                       *)
(***************************************************************************)

-----------------------------------------------------------------------------
(* The queue underneath.                                                   *)

LEMMA InnerSteps ==
    ASSUME NEW w \in Workers, RunStep(w) \/ StatementFails(w)
    PROVE  UNCHANGED vars
  BY DEF RunStep, StatementFails, LoadRules, CreateOrGet, Persisted, ListByEventID,
         MarkProcessing, ExecuteOne, MarkCompleted, FailAction, RetryAction, Tally

LEMMA ExecStepIsStep == [ExecNext]_execVars => [Next]_vars
<1> SUFFICES ASSUME [ExecNext]_execVars PROVE [Next]_vars
  OBVIOUS
<1>1. CASE UNCHANGED execVars
  BY <1>1 DEF execVars
<1>2. CASE Alone(Connect) \/ Alone(Disconnect)
  BY <1>2 DEF Alone, Next
<1>3. ASSUME NEW d \in Deliveries, NEW e \in EventIds, Alone(Ingest(d, e)) PROVE Next
  BY <1>3 DEF Alone, Next
<1>4. ASSUME NEW w \in Workers,
             \/ Alone(SelectClaimable(w)) \/ Alone(FailStale(w))
             \/ StartRun(w) \/ EndRun(w) \/ CrashRun(w)
      PROVE  Next
  BY <1>4 DEF Alone, StartRun, EndRun, CrashRun, Next
<1>5. ASSUME NEW w \in Workers, RunStep(w) \/ StatementFails(w) PROVE UNCHANGED vars
  BY <1>5, InnerSteps
<1>6. ASSUME NEW e \in EventIds, Alone(BackoffElapses(e)) \/ LeaseRunsOut(e) PROVE Next
  BY <1>6 DEF Alone, LeaseRunsOut, Next
<1>7. ASSUME NEW e \in EventIds, NEW i \in Intents, ActionBackoffElapses(e, i)
      PROVE  UNCHANGED vars
  BY <1>7 DEF ActionBackoffElapses
<1> QED
  BY <1>1, <1>2, <1>3, <1>4, <1>5, <1>6, <1>7 DEF ExecNext, RunStep

\* The pipeline never gets behind the queue's back: with its runs in place the
\* system behaves as EventQueue says, so that every theorem of the queue holds
\* of it.
THEOREM ExecutorIsQueue == ExecSpec => Spec
<1>1. ExecInit => Init
  BY DEF ExecInit
<1> QED
  BY <1>1, ExecStepIsStep, PTL DEF ExecSpec, Spec

-----------------------------------------------------------------------------
(* Types of the runs.                                                      *)

LEMMA OffRun == Off \in Run /\ Off.pc = "off"
  BY DEF Off, Run

LEMMA DoneRun ==
    ASSUME NEW result \in {"ok", "transient", "permanent"}
    PROVE  Done(result) \in Run /\ Done(result).pc = "done" /\ Done(result).todo = {}
  BY DEF Done, Off, Run

\* While an action is called and its outcome reported, the list is behind it.
InHand(run) == run.pc \in {"calling", "reporting"} => run.current \in Intents \ run.todo

RunsTyped == exec \in [Workers -> Run] /\ \A w \in Workers : InHand(exec[w])

LEMMA RunTyped ==
    ASSUME RunsTyped, NEW w \in Workers, NEW run \in Run, InHand(run), Goto(w, run)
    PROVE  RunsTyped'
<1>1. exec' = [exec EXCEPT ![w] = run]
  BY DEF Goto
<1>2. exec' \in [Workers -> Run]
  BY <1>1 DEF RunsTyped
<1>3. ASSUME NEW v \in Workers PROVE InHand(exec[v])'
  <2>1. exec'[v] = run \/ exec'[v] = exec[v]
    BY <1>1 DEF RunsTyped
  <2> QED
    BY <2>1 DEF RunsTyped, InHand
<1> QED
  BY <1>2, <1>3 DEF RunsTyped

\* A worker that has ended its run, for a reason.
LEMMA DoneTyped ==
    ASSUME RunsTyped, NEW w \in Workers, NEW result \in {"ok", "transient", "permanent"},
           Goto(w, Done(result))
    PROVE  RunsTyped'
  BY DoneRun, RunTyped DEF InHand

LEMMA OffTyped ==
    ASSUME RunsTyped, NEW w \in Workers, Goto(w, Off)
    PROVE  RunsTyped'
  BY OffRun, RunTyped DEF InHand

LEMMA NextActionTyped ==
    ASSUME RunsTyped, NEW w \in Workers, NextAction(w)
    PROVE  RunsTyped'
<1> DEFINE run == [exec[w] EXCEPT !.pc = "running", !.current = None, !.result = "none"]
<1>1. run \in Run /\ run.pc = "running"
  BY DEF RunsTyped, Run
<1>2. Goto(w, run)
  BY DEF NextAction
<1> HIDE DEF run
<1> QED
  BY <1>1, <1>2, RunTyped DEF InHand

\* A run that changes its list and nothing else.
LEMMA ListTyped ==
    ASSUME RunsTyped, NEW w \in Workers, NEW S \in SUBSET Intents,
           exec[w].pc \in {"ensuring", "running"}, Goto(w, [exec[w] EXCEPT !.todo = S])
    PROVE  RunsTyped'
<1> DEFINE run == [exec[w] EXCEPT !.todo = S]
<1>1. run \in Run /\ run.pc = exec[w].pc
  BY DEF RunsTyped, Run
<1> HIDE DEF run
<1> QED
  BY <1>1, RunTyped DEF InHand, run

LEMMA CallingTyped ==
    ASSUME RunsTyped, NEW w \in Workers, NEW i \in exec[w].todo,
           Goto(w, [exec[w] EXCEPT !.pc = "calling", !.todo = Without(w, i), !.current = i])
    PROVE  RunsTyped'
<1> DEFINE run == [exec[w] EXCEPT !.pc = "calling", !.todo = Without(w, i), !.current = i]
<1>1. exec[w] \in Run /\ Without(w, i) \in SUBSET Intents /\ i \in Intents
  BY DEF RunsTyped, Run, Without
<1>2. run \in Run /\ run.current = i /\ run.todo = Without(w, i)
  BY <1>1 DEF Run
<1>3. Goto(w, run)
  OBVIOUS
<1> HIDE DEF run
<1> QED
  BY <1>1, <1>2, <1>3, RunTyped DEF InHand, Without

LEMMA RunStepTyped ==
    ASSUME RunsTyped, NEW w \in Workers, RunStep(w)
    PROVE  RunsTyped'
<1>0. exec[w] \in Run
  BY DEF RunsTyped
<1>1. CASE LoadRules(w)
  <2>1. ASSUME NEW S \in SUBSET Intents, Goto(w, [Off EXCEPT !.pc = "ensuring", !.todo = S])
        PROVE  RunsTyped'
    <3> DEFINE run == [Off EXCEPT !.pc = "ensuring", !.todo = S]
    <3>1. run \in Run /\ run.pc = "ensuring"
      BY DEF Run, Off
    <3>2. Goto(w, run)
      BY <2>1
    <3> HIDE DEF run
    <3> QED
      BY <3>1, <3>2, RunTyped DEF InHand
  <2> QED
    BY <1>1, <2>1, DoneTyped DEF LoadRules
<1>2. CASE CreateOrGet(w)
  <2>1. ASSUME NEW i \in exec[w].todo, Goto(w, [exec[w] EXCEPT !.todo = @ \ {i}])
        PROVE  RunsTyped'
    <3>1. exec[w].todo \ {i} \in SUBSET Intents
      BY <1>0 DEF Run
    <3> QED
      BY <1>2, <2>1, <3>1, ListTyped DEF CreateOrGet, At
  <2> QED
    BY <1>2, <2>1, DoneTyped DEF CreateOrGet
<1>3. CASE Persisted(w)
  <2> DEFINE run == [exec[w] EXCEPT !.pc = "listing"]
  <2>1. run \in Run /\ run.pc = "listing"
    BY <1>0 DEF Run
  <2>2. Goto(w, run)
    BY <1>3 DEF Persisted
  <2> HIDE DEF run
  <2> QED
    BY <2>1, <2>2, RunTyped DEF InHand
<1>4. CASE ListByEventID(w)
  <2>1. ASSUME NEW S \in SUBSET Intents, NEW T \in SUBSET Intents,
               Goto(w, [Off EXCEPT !.pc = "running", !.todo = S, !.listed = T])
        PROVE  RunsTyped'
    <3> DEFINE run == [Off EXCEPT !.pc = "running", !.todo = S, !.listed = T]
    <3>1. run \in Run /\ run.pc = "running"
      BY DEF Run, Off
    <3>2. Goto(w, run)
      BY <2>1
    <3> HIDE DEF run
    <3> QED
      BY <3>1, <3>2, RunTyped DEF InHand
  <2> QED
    BY <1>4, <2>1, DoneTyped DEF ListByEventID
<1>5. CASE MarkProcessing(w)
  <2>1. \A i \in exec[w].todo : Without(w, i) \in SUBSET Intents
    BY <1>0 DEF Run, Without
  <2> QED
    BY <1>5, <2>1, CallingTyped, ListTyped DEF MarkProcessing, At
<1>6. CASE ExecuteOne(w)
  <2>1. PICK result \in {"ok", "transient", "permanent"} :
          Goto(w, [exec[w] EXCEPT !.pc = "reporting", !.result = result])
    BY <1>6 DEF ExecuteOne
  <2> DEFINE run == [exec[w] EXCEPT !.pc = "reporting", !.result = result]
  <2>2. run \in Run /\ run.current = exec[w].current /\ run.todo = exec[w].todo
    BY <1>0 DEF Run
  <2>3. Goto(w, run)
    BY <2>1
  <2>4. exec[w].current \in Intents \ exec[w].todo
    BY <1>6 DEF ExecuteOne, At, RunsTyped, InHand
  <2> HIDE DEF run
  <2> QED
    BY <2>2, <2>3, <2>4, RunTyped DEF InHand
<1>7. CASE MarkCompleted(w) \/ FailAction(w) \/ RetryAction(w)
  BY <1>7, NextActionTyped, DoneTyped DEF MarkCompleted, FailAction, RetryAction
<1>8. CASE Tally(w)
  <2>1. Verdict(Own(w)) \in {"ok", "transient", "permanent"}
    BY DEF Verdict
  <2> QED
    BY <1>8, <2>1, DoneTyped DEF Tally
<1> QED
  BY <1>1, <1>2, <1>3, <1>4, <1>5, <1>6, <1>7, <1>8 DEF RunStep

LEMMA RunsTypedStep ==
    ASSUME RunsTyped, [ExecNext]_execVars
    PROVE  RunsTyped'
<1>1. CASE UNCHANGED exec
  BY <1>1 DEF RunsTyped, InHand
<1>2. ASSUME NEW w \in Workers, StartRun(w) PROVE RunsTyped'
  <2> DEFINE run == [Off EXCEPT !.pc = "loading"]
  <2>1. run \in Run /\ run.pc = "loading"
    BY DEF Run, Off
  <2>2. Goto(w, run)
    BY <1>2 DEF StartRun
  <2> HIDE DEF run
  <2> QED
    BY <2>1, <2>2, RunTyped DEF InHand
<1>3. ASSUME NEW w \in Workers, StatementFails(w) PROVE RunsTyped'
  BY <1>3, DoneTyped DEF StatementFails
<1>4. ASSUME NEW w \in Workers, EndRun(w) \/ CrashRun(w) PROVE RunsTyped'
  BY <1>4, OffTyped DEF EndRun, CrashRun
<1>5. \/ UNCHANGED exec
      \/ \E w \in Workers : StartRun(w) \/ StatementFails(w) \/ EndRun(w) \/ CrashRun(w) \/ RunStep(w)
  BY DEF ExecNext, execVars, Alone, LeaseRunsOut, ActionBackoffElapses, RunStep
<1> QED
  BY <1>1, <1>2, <1>3, <1>4, <1>5, RunStepTyped

-----------------------------------------------------------------------------
(* How a run goes on: it calls an action only while the action is ahead of *)
(* it, and nothing it has behind it comes back.                            *)

\* May the run still call the action?
May(run, i) ==
    \/ run.pc \in {"loading", "ensuring", "listing"}
    \/ run.pc \in {"running", "calling", "reporting"} /\ i \in run.todo
    \/ run.pc = "calling" /\ run.current = i

Narrower(run, old) == \A i \in Intents : May(run, i) => May(old, i)

LEMMA RunGoesOn ==
    ASSUME RunsTyped, NEW w \in Workers, RunStep(w) \/ StatementFails(w)
    PROVE  /\ exec[w].pc # "off"
           /\ \E run : /\ exec' = [exec EXCEPT ![w] = run]
                       /\ run.pc # "off" /\ Narrower(run, exec[w])
<1> DEFINE old == exec[w]
           Good(run) == run.pc # "off" /\ Narrower(run, old)
           Ensuring(S) == [Off EXCEPT !.pc = "ensuring", !.todo = S]
           Running(S, T) == [Off EXCEPT !.pc = "running", !.todo = S, !.listed = T]
           Listing == [old EXCEPT !.pc = "listing"]
           Shorter(S) == [old EXCEPT !.todo = S]
           Calling(S, i) == [old EXCEPT !.pc = "calling", !.todo = S, !.current = i]
           Reporting(r) == [old EXCEPT !.pc = "reporting", !.result = r]
           After == [old EXCEPT !.pc = "running", !.current = None, !.result = "none"]
<1>0. old \in Run
  BY DEF RunsTyped
<1>1. \A result : Good(Done(result))
  BY DEF Done, Off, Narrower, May
<1>2. /\ old.pc = "loading" => \A S : Good(Ensuring(S))
      /\ old.pc = "listing" => \A S, T : Good(Running(S, T))
  BY DEF Off, Narrower, May
<1>3. old.pc = "ensuring" => Good(Listing)
  BY <1>0 DEF Run, Narrower, May
<1>4. old.pc \in {"ensuring", "running"} => \A S \in SUBSET old.todo : Good(Shorter(S))
  <2>1. \A S : Shorter(S).pc = old.pc /\ Shorter(S).todo = S
    BY <1>0 DEF Run
  <2> HIDE DEF Shorter
  <2> QED
    BY <2>1 DEF Narrower, May
<1>5. old.pc = "running" => \A S \in SUBSET old.todo, i \in old.todo : Good(Calling(S, i))
  <2>1. \A S, i : /\ Calling(S, i).pc = "calling" /\ Calling(S, i).todo = S
                  /\ Calling(S, i).current = i
    BY <1>0 DEF Run
  <2> HIDE DEF Calling
  <2> QED
    BY <2>1 DEF Narrower, May
<1>6. old.pc = "calling" => \A r : Good(Reporting(r))
  <2>1. \A r : Reporting(r).pc = "reporting" /\ Reporting(r).todo = old.todo
    BY <1>0 DEF Run
  <2> HIDE DEF Reporting
  <2> QED
    BY <2>1 DEF Narrower, May
<1>7. old.pc = "reporting" => Good(After)
  <2>1. After.pc = "running" /\ After.todo = old.todo
    BY <1>0 DEF Run
  <2> HIDE DEF After
  <2> QED
    BY <2>1 DEF Narrower, May
<1>8. \A i : old.todo \ {i} \in SUBSET old.todo /\ Without(w, i) \in SUBSET old.todo
  BY DEF Without
<1>9. old.pc # "off"
  BY DEF RunStep, StatementFails, LoadRules, CreateOrGet, Persisted, ListByEventID,
         MarkProcessing, ExecuteOne, MarkCompleted, FailAction, RetryAction, Tally, At
<1> SUFFICES \E run : exec' = [exec EXCEPT ![w] = run] /\ Good(run)
  BY <1>9
<1>10. CASE LoadRules(w)
  <2>1. /\ old.pc = "loading"
        /\ \/ \E S : exec' = [exec EXCEPT ![w] = Ensuring(S)]
           \/ \E result : exec' = [exec EXCEPT ![w] = Done(result)]
    BY <1>10, Zenon DEF LoadRules, Goto, At
  <2> HIDE DEF Ensuring, Good
  <2> QED
    BY <1>1, <1>2, <2>1
<1>11. CASE CreateOrGet(w)
  <2>1. /\ old.pc = "ensuring"
        /\ \/ \E i : exec' = [exec EXCEPT ![w] = Shorter(old.todo \ {i})]
           \/ \E result : exec' = [exec EXCEPT ![w] = Done(result)]
    BY <1>11, Zenon DEF CreateOrGet, Goto, At
  <2> HIDE DEF Shorter, Good
  <2> QED
    BY <1>1, <1>4, <1>8, <2>1
<1>12. CASE Persisted(w)
  <2>1. old.pc = "ensuring" /\ exec' = [exec EXCEPT ![w] = Listing]
    BY <1>12 DEF Persisted, Goto, At
  <2> HIDE DEF Listing, Good
  <2> QED
    BY <1>3, <2>1
<1>13. CASE ListByEventID(w)
  <2>1. /\ old.pc = "listing"
        /\ \/ \E S, T : exec' = [exec EXCEPT ![w] = Running(S, T)]
           \/ \E result : exec' = [exec EXCEPT ![w] = Done(result)]
    BY <1>13, Zenon DEF ListByEventID, Goto, At
  <2> HIDE DEF Running, Good
  <2> QED
    BY <1>1, <1>2, <2>1
<1>14. CASE MarkProcessing(w)
  <2>1. /\ old.pc = "running"
        /\ \E i \in old.todo :
             \/ exec' = [exec EXCEPT ![w] = Calling(Without(w, i), i)]
             \/ exec' = [exec EXCEPT ![w] = Shorter(Without(w, i))]
    BY <1>14, Zenon DEF MarkProcessing, Goto, At
  <2> HIDE DEF Calling, Shorter, Good
  <2> QED
    BY <1>4, <1>5, <1>8, <2>1
<1>15. CASE ExecuteOne(w)
  <2>1. /\ old.pc = "calling"
        /\ \E r : exec' = [exec EXCEPT ![w] = Reporting(r)]
    BY <1>15, Zenon DEF ExecuteOne, Goto, At
  <2> HIDE DEF Reporting, Good
  <2> QED
    BY <1>6, <2>1
<1>16. CASE MarkCompleted(w) \/ FailAction(w) \/ RetryAction(w)
  <2>1. /\ old.pc = "reporting"
        /\ \/ exec' = [exec EXCEPT ![w] = After]
           \/ \E result : exec' = [exec EXCEPT ![w] = Done(result)]
    BY <1>16, Zenon DEF MarkCompleted, FailAction, RetryAction, NextAction, Goto, At
  <2> HIDE DEF After, Good
  <2> QED
    BY <1>1, <1>7, <2>1
<1>17. CASE Tally(w) \/ StatementFails(w)
  <2>1. \E result : exec' = [exec EXCEPT ![w] = Done(result)]
    BY <1>17 DEF Tally, StatementFails, Goto
  <2> HIDE DEF Good
  <2> QED
    BY <1>1, <2>1
<1> QED
  BY <1>10, <1>11, <1>12, <1>13, <1>14, <1>15, <1>16, <1>17 DEF RunStep

-----------------------------------------------------------------------------
(* Types of the actions table and of the history.                          *)

\* A worker has a run exactly while it works, and then an event.
Engaged == \A w \in Workers : At(w, "off") <=> workers[w].pc # "working"

RunInv == TypeInv /\ RunsTyped /\ Engaged

LEMMA OwnEvent ==
    ASSUME RunInv, NEW w \in Workers, ~At(w, "off")
    PROVE  Own(w) \in EventIds /\ WorksOn(w, Own(w))
  BY DEF RunInv, Engaged, TypeInv, HoldsRow, Own, WorksOn

LEMMA EngagedStep ==
    ASSUME RunInv, [ExecNext]_execVars
    PROVE  Engaged'
<1> USE DEF RunInv
<1>0. exec \in [Workers -> Run] /\ workers \in [Workers -> Local]
  BY DEF RunsTyped, TypeInv, TypeOK
<1>1. CASE UNCHANGED <<exec, workers>>
  BY <1>1 DEF Engaged, At
<1>2. ASSUME NEW w \in Workers, SelectClaimable(w) \/ FailStale(w), UNCHANGED exec PROVE Engaged'
  <2>1. /\ workers[w].pc # "working"
        /\ \E l : l.pc # "working" /\ workers' = [workers EXCEPT ![w] = l]
    BY <1>2 DEF SelectClaimable, FailStale, Idle
  <2> QED
    BY <1>0, <1>2, <2>1 DEF Engaged, At
<1>3. ASSUME NEW w \in Workers, StartRun(w) PROVE Engaged'
  <2>1. /\ workers' = [workers EXCEPT ![w].pc = "working"]
        /\ exec' = [exec EXCEPT ![w] = [Off EXCEPT !.pc = "loading"]]
    BY <1>3 DEF StartRun, Claim, Goto
  <2>2. exec'[w].pc = "loading" /\ workers'[w].pc = "working"
    BY <1>0, <2>1 DEF Off, Local
  <2>3. \A v \in Workers : v # w => exec'[v] = exec[v] /\ workers'[v] = workers[v]
    BY <1>0, <2>1
  <2> QED
    BY <2>2, <2>3 DEF Engaged, At
<1>4. ASSUME NEW w \in Workers, EndRun(w) \/ CrashRun(w) PROVE Engaged'
  <2>1. /\ workers' = [workers EXCEPT ![w] = Idle]
        /\ exec' = [exec EXCEPT ![w] = Off]
    BY <1>4 DEF EndRun, CrashRun, MarkProcessed, MarkFailedImmediately, ScheduleRetry, Crash, Goto
  <2> QED
    BY <1>0, <2>1 DEF Engaged, At, Off, Idle
<1>5. ASSUME NEW w \in Workers, RunStep(w) \/ StatementFails(w) PROVE Engaged'
  <2>1. UNCHANGED workers
    BY <1>5, InnerSteps DEF vars
  <2>2. PICK run : exec' = [exec EXCEPT ![w] = run] /\ run.pc # "off"
    BY <1>5, RunGoesOn
  <2>3. ~At(w, "off")
    BY <1>5, RunGoesOn DEF At
  <2> QED
    BY <1>0, <2>1, <2>2, <2>3 DEF Engaged, At
<1>6. \/ UNCHANGED <<exec, workers>>
      \/ \E w \in Workers : \/ (SelectClaimable(w) \/ FailStale(w)) /\ UNCHANGED exec
                            \/ StartRun(w) \/ EndRun(w) \/ CrashRun(w)
                            \/ RunStep(w) \/ StatementFails(w)
  BY DEF ExecNext, execVars, vars, Alone, RunStep, Connect, Disconnect, Ingest, BackoffElapses,
         LeaseRunsOut, LeaseExpires, ActionBackoffElapses
<1> QED
  BY <1>1, <1>2, <1>3, <1>4, <1>5, <1>6

Counters == [EventIds -> [Intents -> Nat]]
Tables == [EventIds -> [Intents -> ActionRow]]

LEMMA CountUp ==
    ASSUME NEW f \in Counters, NEW e \in EventIds, NEW i \in Intents
    PROVE  [f EXCEPT ![e][i] = @ + 1] \in Counters
<1>1. [f[e] EXCEPT ![i] = @ + 1] \in [Intents -> Nat]
  BY DEF Counters
<1> QED
  BY <1>1 DEF Counters

LEMMA UpdateTyped ==
    ASSUME actions \in Tables, NEW e \in EventIds, NEW i \in Intents, NEW row \in ActionRow,
           Update(e, i, row)
    PROVE  actions' \in Tables
<1>1. [actions[e] EXCEPT ![i] = row] \in [Intents -> ActionRow]
  BY DEF Tables
<1> QED
  BY <1>1 DEF Tables, Update

LEMMA ActionsTypedStep ==
    ASSUME RunInv, actions \in Tables, [ExecNext]_execVars
    PROVE  actions' \in Tables
<1> USE DEF RunInv
<1>0. \A e \in EventIds, i \in Intents : actions[e][i] \in ActionRow
  BY DEF Tables
<1>1. CASE UNCHANGED actions
  BY <1>1
<1>2. ASSUME NEW w \in Workers, CreateOrGet(w) PROVE actions' \in Tables
  <2>1. exec[w].todo \in SUBSET Intents /\ Own(w) \in EventIds
    BY <1>2, OwnEvent DEF CreateOrGet, At, RunsTyped, Run
  <2>2. [NoAction EXCEPT !.status = "pending"] \in ActionRow
    BY DEF NoAction, ActionRow
  <2> QED
    BY <1>2, <2>1, <2>2, UpdateTyped DEF CreateOrGet
<1>3. ASSUME NEW w \in Workers, MarkProcessing(w) PROVE actions' \in Tables
  <2>1. exec[w].todo \in SUBSET Intents /\ Own(w) \in EventIds
    BY <1>3, OwnEvent DEF MarkProcessing, At, RunsTyped, Run
  <2>2. \A i \in Intents : [actions[Own(w)][i] EXCEPT !.status = "processing"] \in ActionRow
    BY <1>0, <2>1 DEF ActionRow
  <2> QED
    BY <1>3, <2>1, <2>2, UpdateTyped DEF MarkProcessing
<1>4. ASSUME NEW w \in Workers, MarkCompleted(w) \/ FailAction(w) \/ RetryAction(w)
      PROVE  actions' \in Tables
  <2> DEFINE row == actions[Own(w)][exec[w].current]
  <2>1. exec[w].current \in Intents /\ Own(w) \in EventIds
    BY <1>4, OwnEvent DEF MarkCompleted, FailAction, RetryAction, At, RunsTyped, InHand
  <2>2. row \in ActionRow /\ row.attempt_count \in Nat
    BY <1>0, <2>1 DEF ActionRow
  <2>3. [row EXCEPT !.status = "completed"] \in ActionRow
    BY <2>2 DEF ActionRow
  <2>4. \A n \in Nat : [row EXCEPT !.status = "failed", !.attempt_count = n] \in ActionRow
    BY <2>2 DEF ActionRow
  <2>5. \A n \in Nat : [status |-> IF n >= MaxAttempts THEN "failed" ELSE "pending",
                        attempt_count |-> n,
                        due |-> n >= MaxAttempts] \in ActionRow
    BY DEF ActionRow
  <2>6. row.attempt_count + 1 \in Nat
    BY <2>2
  <2> QED
    BY <1>4, <2>1, <2>3, <2>4, <2>5, <2>6, UpdateTyped DEF MarkCompleted, FailAction, RetryAction
<1>5. ASSUME NEW e \in EventIds, NEW i \in Intents, ActionBackoffElapses(e, i)
      PROVE  actions' \in Tables
  <2>1. [actions[e][i] EXCEPT !.due = TRUE] \in ActionRow
    BY <1>0 DEF ActionRow
  <2> QED
    BY <1>5, <2>1, UpdateTyped DEF ActionBackoffElapses
<1>6. \/ UNCHANGED actions
      \/ \E w \in Workers : \/ CreateOrGet(w) \/ MarkProcessing(w) \/ MarkCompleted(w)
                            \/ FailAction(w) \/ RetryAction(w)
      \/ \E e \in EventIds, i \in Intents : ActionBackoffElapses(e, i)
  BY DEF ExecNext, execVars, actionVars, Alone, StartRun, EndRun, CrashRun, StatementFails,
         LeaseRunsOut, LoadRules, Persisted, ListByEventID, ExecuteOne, Tally
<1> QED
  BY <1>1, <1>2, <1>3, <1>4, <1>5, <1>6

LEMMA HistoryTypedStep ==
    ASSUME RunInv, [ExecNext]_execVars,
           calls \in Counters, effects \in Counters, windows \in Counters
    PROVE  calls' \in Counters /\ effects' \in Counters /\ windows' \in Counters
<1> USE DEF RunInv
<1>1. CASE UNCHANGED <<calls, effects, windows>>
  BY <1>1
<1>2. ASSUME NEW w \in Workers, ExecuteOne(w)
      PROVE  calls' \in Counters /\ effects' \in Counters /\ windows' \in Counters
  <2> DEFINE e == Own(w)
             i == exec[w].current
  <2>1. e \in EventIds /\ i \in Intents
    BY <1>2, OwnEvent DEF ExecuteOne, At, RunsTyped, InHand
  <2>2. calls' = [calls EXCEPT ![e][i] = @ + 1] /\ windows' = windows
    BY <1>2 DEF ExecuteOne
  <2>3. PICK applied \in BOOLEAN : effects' = [effects EXCEPT ![e][i] = IF applied THEN @ + 1 ELSE @]
    BY <1>2 DEF ExecuteOne
  <2>4. effects' = [effects EXCEPT ![e][i] = @ + 1] \/ effects' = effects
    BY <2>1, <2>3 DEF Counters
  <2>5. /\ [calls EXCEPT ![e][i] = @ + 1] \in Counters
        /\ [effects EXCEPT ![e][i] = @ + 1] \in Counters
    BY <2>1, CountUp
  <2> QED
    BY <2>2, <2>4, <2>5
<1>3. ASSUME NEW w \in Workers, CutOff(w), UNCHANGED <<calls, effects>>
      PROVE  calls' \in Counters /\ effects' \in Counters /\ windows' \in Counters
  <2>1. CASE At(w, "reporting")
    <3>1. Own(w) \in EventIds /\ exec[w].current \in Intents
      BY <2>1, OwnEvent DEF At, RunsTyped, InHand
    <3> QED
      BY <1>3, <3>1, CountUp DEF CutOff
  <2> QED
    BY <1>3, <2>1 DEF CutOff
<1>4. \/ UNCHANGED <<calls, effects, windows>>
      \/ \E w \in Workers : ExecuteOne(w) \/ (CutOff(w) /\ UNCHANGED <<calls, effects>>)
  BY DEF ExecNext, execVars, actionVars, Alone, StartRun, EndRun, CrashRun, StatementFails,
         LeaseRunsOut, ActionBackoffElapses, LoadRules, CreateOrGet, Persisted, ListByEventID,
         MarkProcessing, MarkCompleted, FailAction, RetryAction, Tally
<1> QED
  BY <1>1, <1>2, <1>3, <1>4

-----------------------------------------------------------------------------
(* Type correctness.                                                       *)

\* The inductive invariant: the queue's, the types, and a run exactly while
\* its worker works on an event.
ExecInv ==
    /\ RunInv
    /\ actions \in Tables
    /\ calls \in Counters /\ effects \in Counters /\ windows \in Counters

LEMMA ExecInvInit == ExecInit => ExecInv
<1> SUFFICES ASSUME ExecInit PROVE ExecInv
  OBVIOUS
<1>1. TypeInv
  BY TypeInvInit DEF ExecInit
<1>2. RunsTyped /\ Engaged
  BY OffRun DEF ExecInit, Init, RunsTyped, InHand, Engaged, At, Idle
<1>3. NoAction \in ActionRow
  BY DEF NoAction, ActionRow
<1>4. actions \in Tables
  BY <1>3 DEF ExecInit, Tables
<1>5. Zeros \in Counters
  BY DEF Zeros, Counters
<1> QED
  BY <1>1, <1>2, <1>4, <1>5 DEF ExecInit, ExecInv, RunInv

LEMMA ExecInvStep == ExecInv /\ [ExecNext]_execVars => ExecInv'
<1> SUFFICES ASSUME ExecInv, [ExecNext]_execVars PROVE ExecInv'
  OBVIOUS
<1>1. TypeInv'
  BY ExecStepIsStep, TypeInvStep DEF ExecInv, RunInv
<1>2. RunsTyped' /\ Engaged'
  BY RunsTypedStep, EngagedStep DEF ExecInv, RunInv
<1>3. (actions \in Tables)'
  BY ActionsTypedStep DEF ExecInv, Tables
<1>4. (calls \in Counters /\ effects \in Counters /\ windows \in Counters)'
  BY HistoryTypedStep DEF ExecInv, Counters
<1> QED
  BY <1>1, <1>2, <1>3, <1>4 DEF ExecInv, RunInv

LEMMA ExecInvariance == ExecSpec => []ExecInv
<1> QED
  BY ExecInvInit, ExecInvStep, PTL DEF ExecSpec

\* Every row of the actions table, every run and every counter keeps its type,
\* and a worker has a run exactly while it works.
THEOREM ExecTypeCorrect == ExecSpec => []ExecTypeOK
<1>1. ExecInv => ExecTypeOK
  BY DEF ExecInv, RunInv, TypeInv, RunsTyped, Engaged, Tables, Counters, ExecTypeOK
<1> QED
  BY <1>1, ExecInvariance, PTL

-----------------------------------------------------------------------------
(* Calls and claims. Every claim of an event opens at most one call of each *)
(* of its actions: the run it starts calls the action once, or never.       *)

Open(e, i) == {w \in Workers : Own(w) = e /\ May(exec[w], i)}

PaidFor(e, i) == calls[e][i] + Cardinality(Open(e, i)) <= claims[e]

CallInv == ExecInv /\ \A e \in EventIds, i \in Intents : PaidFor(e, i)

LEMMA OpenFinite ==
    ASSUME NEW e, NEW i
    PROVE  IsFiniteSet(Open(e, i)) /\ Cardinality(Open(e, i)) \in Nat
<1>1. Open(e, i) \subseteq Workers
  BY DEF Open
<1> QED
  BY <1>1, WorkersAssumption, FS_Subset, FS_CardinalityType

\* A step that opens no call leaves the account as it is, or better.
LEMMA NoneOpened ==
    ASSUME ExecInv, NEW e \in EventIds, NEW i \in Intents, PaidFor(e, i),
           Open(e, i)' \subseteq Open(e, i),
           calls'[e][i] = calls[e][i], claims'[e] = claims[e]
    PROVE  PaidFor(e, i)'
<1>1. Cardinality(Open(e, i)') <= Cardinality(Open(e, i))
  BY OpenFinite, FS_Subset
<1>2. Cardinality(Open(e, i)') \in Nat /\ Cardinality(Open(e, i)) \in Nat
  BY OpenFinite, FS_Subset, FS_CardinalityType
<1>3. calls[e][i] \in Nat /\ claims[e] \in Nat
  BY DEF ExecInv, Counters, RunInv, TypeInv, TypeOK
<1> QED
  BY <1>1, <1>2, <1>3 DEF PaidFor

\* What a run may still call is no more than before, when the run goes on.
LEMMA OpenKept ==
    ASSUME RunsTyped, NEW w \in Workers, RunStep(w) \/ StatementFails(w),
           NEW e \in EventIds, NEW i \in Intents
    PROVE  Open(e, i)' \subseteq Open(e, i)
<1>1. UNCHANGED workers
  BY InnerSteps DEF vars
<1>2. PICK run : exec' = [exec EXCEPT ![w] = run] /\ Narrower(run, exec[w])
  BY RunGoesOn
<1>3. \A v \in Workers : May(exec'[v], i) => May(exec[v], i)
  BY <1>2 DEF RunsTyped, Narrower
<1> QED
  BY <1>1, <1>3 DEF Open, Own

\* An idle worker or one that has ended its run calls nothing.
LEMMA OffCallsNothing == \A i : ~May(Off, i)
  BY DEF Off, May

LEMMA PaidForStep ==
    ASSUME CallInv, [ExecNext]_execVars, NEW e \in EventIds, NEW i \in Intents
    PROVE  PaidFor(e, i)'
<1> USE DEF CallInv
<1>0. /\ PaidFor(e, i) /\ RunsTyped /\ Engaged
      /\ calls \in Counters /\ claims \in [EventIds -> Nat]
      /\ workers \in [Workers -> Local] /\ exec \in [Workers -> Run]
  BY DEF ExecInv, RunInv, TypeInv, TypeOK, RunsTyped
<1>1. CASE UNCHANGED <<exec, workers, calls, claims>>
  BY <1>1, <1>0, NoneOpened DEF Open, Own
<1>2. ASSUME NEW w \in Workers, SelectClaimable(w) \/ FailStale(w),
             UNCHANGED <<exec, calls>>
      PROVE  PaidFor(e, i)'
  <2>1. /\ workers[w].pc # "working" /\ claims' = claims
        /\ \E l : workers' = [workers EXCEPT ![w] = l]
    BY <1>2 DEF SelectClaimable, FailStale
  <2>2. ~May(exec[w], i)
    BY <1>0, <2>1 DEF Engaged, At, May
  <2>3. Open(e, i)' \subseteq Open(e, i)
    BY <1>0, <1>2, <2>1, <2>2 DEF Open, Own
  <2> QED
    BY <1>0, <1>2, <2>1, <2>3, NoneOpened
<1>3. ASSUME NEW w \in Workers, StartRun(w) PROVE PaidFor(e, i)'
  <2>1. /\ workers' = [workers EXCEPT ![w].pc = "working"]
        /\ exec' = [exec EXCEPT ![w] = [Off EXCEPT !.pc = "loading"]]
        /\ claims' = [claims EXCEPT ![Own(w)] = @ + 1]
        /\ calls' = calls
    BY <1>3 DEF StartRun, Claim, Goto, actionVars, Own
  <2>2. \A v \in Workers : Own(v)' = Own(v)
    BY <1>0, <2>1 DEF Own, Local
  <2>3. CASE Own(w) = e
    <3>1. Open(e, i)' \subseteq Open(e, i) \cup {w}
      BY <1>0, <2>1, <2>2 DEF Open
    <3>2. /\ IsFiniteSet(Open(e, i) \cup {w})
          /\ Cardinality(Open(e, i) \cup {w}) <= Cardinality(Open(e, i)) + 1
      <4>1. IsFiniteSet(Open(e, i)) /\ Cardinality(Open(e, i)) \in Nat
        BY OpenFinite
      <4>2. /\ IsFiniteSet(Open(e, i) \cup {w})
            /\ \/ Cardinality(Open(e, i) \cup {w}) = Cardinality(Open(e, i))
               \/ Cardinality(Open(e, i) \cup {w}) = Cardinality(Open(e, i)) + 1
        BY <4>1, FS_AddElement, Zenon
      <4> QED
        BY <4>1, <4>2
    <3>3. /\ Cardinality(Open(e, i)') <= Cardinality(Open(e, i) \cup {w})
          /\ Cardinality(Open(e, i)') \in Nat
          /\ Cardinality(Open(e, i) \cup {w}) \in Nat
      BY <3>1, <3>2, FS_Subset, FS_CardinalityType
    <3>4. claims'[e] = claims[e] + 1 /\ claims[e] \in Nat /\ calls[e][i] \in Nat
      BY <1>0, <2>1, <2>3 DEF Counters
    <3> QED
      BY <1>0, <2>1, <3>2, <3>3, <3>4, OpenFinite DEF PaidFor
  <2>4. CASE Own(w) # e
    <3>1. Open(e, i)' \subseteq Open(e, i)
      BY <1>0, <2>1, <2>2, <2>4 DEF Open
    <3> QED
      BY <1>0, <2>1, <2>4, <3>1, NoneOpened
  <2> QED
    BY <2>3, <2>4
<1>4. ASSUME NEW w \in Workers, EndRun(w) \/ CrashRun(w) PROVE PaidFor(e, i)'
  <2>1. /\ workers' = [workers EXCEPT ![w] = Idle]
        /\ exec' = [exec EXCEPT ![w] = Off]
        /\ UNCHANGED <<calls, claims>>
    BY <1>4 DEF EndRun, CrashRun, MarkProcessed, MarkFailedImmediately, ScheduleRetry, Crash,
         Goto, actionVars
  <2>2. Open(e, i)' \subseteq Open(e, i)
    BY <1>0, <2>1, OffCallsNothing DEF Open, Own
  <2> QED
    BY <1>0, <2>1, <2>2, NoneOpened
<1>5. ASSUME NEW w \in Workers, ExecuteOne(w) PROVE PaidFor(e, i)'
  <2>1. UNCHANGED <<workers, claims>> /\ Open(e, i)' \subseteq Open(e, i)
    BY <1>0, <1>5, InnerSteps, OpenKept DEF vars, RunStep
  <2>2. /\ calls' = [calls EXCEPT ![Own(w)][exec[w].current] = @ + 1]
        /\ At(w, "calling")
    BY <1>5 DEF ExecuteOne
  <2>3. CASE Own(w) = e /\ exec[w].current = i
    <3>1. w \in Open(e, i)
      BY <2>2, <2>3 DEF Open, May, At
    <3>2. exec'[w].pc = "reporting" /\ exec'[w].todo = exec[w].todo
      <4>1. PICK r : exec' = [exec EXCEPT ![w] = [exec[w] EXCEPT !.pc = "reporting", !.result = r]]
        BY <1>5, Zenon DEF ExecuteOne, Goto
      <4> QED
        BY <1>0, <4>1 DEF Run
    <3>3. w \notin Open(e, i)'
      BY <1>0, <2>2, <2>3, <3>2 DEF Open, May, RunsTyped, InHand, At
    <3>4. Open(e, i)' \subseteq Open(e, i) \ {w}
      BY <2>1, <3>3
    <3>5. /\ IsFiniteSet(Open(e, i) \ {w})
          /\ Cardinality(Open(e, i) \ {w}) = Cardinality(Open(e, i)) - 1
      BY <3>1, OpenFinite, FS_RemoveElement
    <3>6. /\ Cardinality(Open(e, i)') <= Cardinality(Open(e, i) \ {w})
          /\ Cardinality(Open(e, i)') \in Nat
      BY <3>4, <3>5, FS_Subset, FS_CardinalityType
    <3>7. calls'[e][i] = calls[e][i] + 1 /\ calls[e][i] \in Nat /\ claims[e] \in Nat
      BY <1>0, <2>2, <2>3 DEF Counters
    <3> QED
      BY <1>0, <2>1, <3>5, <3>6, <3>7, OpenFinite DEF PaidFor
  <2>4. CASE ~(Own(w) = e /\ exec[w].current = i)
    <3>1. calls'[e][i] = calls[e][i]
      BY <1>0, <2>2, <2>4 DEF Counters
    <3> QED
      BY <1>0, <2>1, <3>1, NoneOpened
  <2> QED
    BY <2>3, <2>4
<1>6. ASSUME NEW w \in Workers, RunStep(w) \/ StatementFails(w), ~ExecuteOne(w)
      PROVE  PaidFor(e, i)'
  <2>1. UNCHANGED <<claims, calls>>
    BY <1>6, InnerSteps DEF vars, actionVars, RunStep, StatementFails, LoadRules, CreateOrGet,
         Persisted, ListByEventID, MarkProcessing, MarkCompleted, FailAction, RetryAction, Tally
  <2>2. Open(e, i)' \subseteq Open(e, i)
    BY <1>0, <1>6, OpenKept
  <2> QED
    BY <1>0, <2>1, <2>2, NoneOpened
<1>7. \/ UNCHANGED <<exec, workers, calls, claims>>
      \/ \E w \in Workers : \/ (SelectClaimable(w) \/ FailStale(w)) /\ UNCHANGED <<exec, calls>>
                            \/ StartRun(w) \/ EndRun(w) \/ CrashRun(w) \/ ExecuteOne(w)
                            \/ (RunStep(w) \/ StatementFails(w)) /\ ~ExecuteOne(w)
  BY DEF ExecNext, execVars, vars, actionVars, Alone, RunStep, Connect, Disconnect, Ingest,
         BackoffElapses, LeaseRunsOut, LeaseExpires, ActionBackoffElapses
<1> QED
  BY <1>1, <1>2, <1>3, <1>4, <1>5, <1>6, <1>7

LEMMA CallInvInit == ExecInit => CallInv
<1> SUFFICES ASSUME ExecInit PROVE CallInv
  OBVIOUS
<1>1. ASSUME NEW e \in EventIds, NEW i \in Intents PROVE PaidFor(e, i)
  <2>1. Open(e, i) = {}
    BY OffCallsNothing DEF ExecInit, Open
  <2>2. calls[e][i] = 0 /\ claims[e] = 0
    BY DEF ExecInit, Init, Zeros
  <2> QED
    BY <2>1, <2>2, FS_EmptySet DEF PaidFor
<1> QED
  BY <1>1, ExecInvInit DEF CallInv

LEMMA CallInvStep == CallInv /\ [ExecNext]_execVars => CallInv'
<1> SUFFICES ASSUME CallInv, [ExecNext]_execVars PROVE CallInv'
  OBVIOUS
<1>1. ExecInv'
  BY ExecInvStep DEF CallInv
<1>2. (\A e \in EventIds, i \in Intents : PaidFor(e, i))'
  BY PaidForStep DEF EventIds
<1> QED
  BY <1>1, <1>2 DEF CallInv

\* An action is called at most once per claim of its event, whatever the
\* faults: no interleaving of runs, crashes, lost answers and expired leases
\* lets one run call an action twice.
THEOREM CallsPaidByClaims == ExecSpec => []CallsWithinClaims
<1>1. CallInv => CallsWithinClaims
  <2> SUFFICES ASSUME CallInv, NEW e \in EventIds, NEW i \in Intents
               PROVE  calls[e][i] <= claims[e]
    BY DEF CallsWithinClaims
  <2>1. calls[e][i] \in Nat /\ claims[e] \in Nat /\ PaidFor(e, i)
    BY DEF CallInv, ExecInv, RunInv, TypeInv, TypeOK, Counters
  <2> QED
    BY <2>1, OpenFinite DEF PaidFor
<1> QED
  BY <1>1, CallInvInit, CallInvStep, PTL DEF ExecSpec

\* EVENT_MAX_RETRIES alone bounds the calls of an action, whatever happens and
\* whatever ACTION_MAX_RETRIES says: the queue's budget carries over.
THEOREM CallsBounded ==
    ExecSpec => [](\A e \in EventIds, i \in Intents :
                     calls[e][i] <= RunBudget(events[e].max_retries))
<1> DEFINE Bounded == \A e \in EventIds, i \in Intents :
                        calls[e][i] <= RunBudget(events[e].max_retries)
<1>1. ExecInv /\ CallsWithinClaims /\ ClaimBudget => Bounded
  <2> SUFFICES ASSUME ExecInv, CallsWithinClaims, ClaimBudget,
                      NEW e \in EventIds, NEW i \in Intents
               PROVE  calls[e][i] <= RunBudget(events[e].max_retries)
    OBVIOUS
  <2>1. events[e].max_retries \in Nat /\ calls[e][i] \in Nat /\ claims[e] \in Nat
    BY DEF ExecInv, RunInv, TypeInv, TypeOK, Counters, Row
  <2>2. RunBudget(events[e].max_retries) \in Nat
    BY <2>1 DEF RunBudget
  <2>3. calls[e][i] <= claims[e] /\ claims[e] <= RunBudget(events[e].max_retries)
    BY DEF CallsWithinClaims, ClaimBudget
  <2> QED
    BY <2>1, <2>2, <2>3
<1>2. ExecSpec => []ClaimBudget
  BY ExecutorIsQueue, ClaimsBounded
<1> QED
  BY <1>1, <1>2, ExecInvariance, CallsPaidByClaims, PTL

-----------------------------------------------------------------------------
(* Runs that end within their lease, crashes, failed statements and lost   *)
(* answers included. No other worker touches the event of a run, so that   *)
(* the rows of its actions are what the run last read or wrote.            *)

\* The row of a run's event stays claimed, and the run is its only one.
Held(w) ==
    workers[w].pc = "working" =>
        /\ events[Own(w)].status \in {"processing", "deleted"}
        /\ events[Own(w)].locked_at # "stale"
        /\ \A v \in Workers : WorksOn(v, Own(w)) => v = w

StatusOf(e, i) == actions[e][i].status

\* The actions a run has on its list, and the one it is calling, are open, and
\* those it takes for claimed are.
Listed(run, i) == run.pc \in {"running", "calling", "reporting"} /\ i \in run.todo
Called(run, i) == run.pc \in {"calling", "reporting"} /\ i = run.current

RowsAwait(w) ==
    \A i \in Intents :
        /\ Listed(exec[w], i) =>
             StatusOf(Own(w), i) = IF i \in exec[w].listed THEN "processing" ELSE "pending"
        /\ Called(exec[w], i) => StatusOf(Own(w), i) = "processing"

\* A run that ended well left no action of its event undone.
AllDone(w) ==
    At(w, "done") /\ exec[w].result = "ok" /\ Live(Own(w)) =>
        \A i \in Intents : StatusOf(Own(w), i) \in {"absent", "completed"}

LeaseInv ==
    /\ ExecInv /\ LockInv
    /\ \A w \in Workers : Held(w) /\ RowsAwait(w) /\ AllDone(w)

LEMMA LeaseInvInit == ExecInit => LeaseInv
<1> SUFFICES ASSUME ExecInit PROVE LeaseInv
  OBVIOUS
<1>1. ExecInv /\ LockInv
  BY ExecInvInit, LockInvInit DEF ExecInit
<1>2. \A w \in Workers : workers[w].pc = "idle" /\ exec[w].pc = "off"
  BY DEF ExecInit, Init, Idle, Off
<1> QED
  BY <1>1, <1>2 DEF LeaseInv, Held, RowsAwait, AllDone, Listed, Called, At

\* A claim takes no event from a run, for its row is not to be claimed.
LEMMA NotClaimable ==
    ASSUME LeaseInv, NEW v \in Workers, NEW w \in Workers,
           workers[v].pc = "selected", workers[w].pc = "working"
    PROVE  workers[v].event # Own(w)
  BY DEF LeaseInv, LockInv, CopyIsRow, Claimable, Held, Own

\* While a run goes on, its event's row stays as it is, or is deleted.
LEMMA RowStays ==
    ASSUME LeaseInv, "slow" \notin Faults, [ExecNext]_execVars,
           NEW w \in Workers, workers[w].pc = "working", workers'[w] = workers[w]
    PROVE  events'[Own(w)] \in {events[Own(w)], Deleted(events[Own(w)])}
<1> DEFINE e == Own(w)
<1>0. /\ e \in EventIds /\ events \in [EventIds -> Row] /\ workers \in [Workers -> Local]
      /\ events[e].status \in {"processing", "deleted"}
  BY DEF LeaseInv, ExecInv, RunInv, TypeInv, TypeOK, HoldsRow, Own, Held
<1>1. CASE UNCHANGED events
  BY <1>1
<1>2. CASE Disconnect
  BY <1>0, <1>2 DEF Disconnect
<1>3. ASSUME NEW d \in Deliveries, NEW f \in EventIds, Ingest(d, f)
      PROVE  events'[e] = events[e]
  <2>1. f # e
    BY <1>0, <1>3 DEF Ingest, NextRow
  <2> QED
    BY <1>0, <1>3, <2>1 DEF Ingest
<1>4. ASSUME NEW v \in Workers, FailStale(v) \/ Claim(v)
      PROVE  events'[e] = events[e]
  <2>1. workers[v].event # e
    BY <1>4, NotClaimable DEF FailStale, Claim
  <2> QED
    BY <1>0, <1>4, <2>1 DEF FailStale, Claim
<1>5. ASSUME NEW v \in Workers, Settle(v)
      PROVE  events'[e] = events[e]
  <2>1. workers[v].pc = "working" /\ workers' = [workers EXCEPT ![v] = Idle]
    BY <1>5 DEF Settle, MarkProcessed, MarkFailedImmediately, ScheduleRetry, MaySettle
  <2>2. v # w
    BY <1>0, <2>1 DEF Idle
  <2>3. workers[v].event # e
    BY <2>1, <2>2 DEF LeaseInv, Held, WorksOn
  <2> QED
    BY <1>0, <1>5, <2>3 DEF Settle, MarkProcessed, MarkFailedImmediately, ScheduleRetry
<1>6. ASSUME NEW f \in EventIds, LeaseRunsOut(f)
      PROVE  events'[e] = events[e]
  <2>1. f # e
    BY <1>6 DEF LeaseRunsOut, WorksOn, Own
  <2> QED
    BY <1>0, <1>6, <2>1 DEF LeaseRunsOut, LeaseExpires
<1>7. ASSUME NEW f \in EventIds, BackoffElapses(f)
      PROVE  events'[e] = events[e]
  BY <1>0, <1>7 DEF BackoffElapses
<1>8. \/ UNCHANGED events
      \/ Disconnect
      \/ \E d \in Deliveries, f \in EventIds : Ingest(d, f)
      \/ \E v \in Workers : FailStale(v) \/ Claim(v) \/ Settle(v)
      \/ \E f \in EventIds : BackoffElapses(f) \/ LeaseRunsOut(f)
  <2>1. ASSUME NEW v \in Workers, RunStep(v) \/ StatementFails(v) PROVE UNCHANGED events
    BY <2>1, InnerSteps DEF vars
  <2> QED
    BY <2>1 DEF ExecNext, RunStep, execVars, vars, Alone, Connect, SelectClaimable, StartRun, EndRun,
         Settle, CrashRun, Crash, ActionBackoffElapses
<1> QED
  BY <1>1, <1>2, <1>3, <1>4, <1>5, <1>6, <1>7, <1>8

LEMMA HeldStep ==
    ASSUME LeaseInv, "slow" \notin Faults, [ExecNext]_execVars, NEW w \in Workers
    PROVE  Held(w)'
<1> SUFFICES ASSUME workers'[w].pc = "working" PROVE Held(w)'
  BY DEF Held
<1>0. /\ LockInv /\ [Next]_vars
      /\ workers \in [Workers -> Local] /\ events \in [EventIds -> Row]
  BY ExecStepIsStep DEF LeaseInv, LockInv, TypeInv, TypeOK
<1>1. CASE Claim(w)
  <2> DEFINE e == Own(w)
  <2>1. e \in EventIds /\ workers[w].pc = "selected"
    BY <1>0, <1>1 DEF LockInv, TypeInv, HoldsRow, Claim, Own
  <2>2. /\ Own(w)' = e
        /\ \A v \in Workers : v # w => workers'[v] = workers[v]
    BY <1>0, <1>1 DEF Claim, Own, Local
  <2>3. events'[e].status = "processing" /\ events'[e].locked_at = "fresh"
    BY <1>0, <1>1, <2>1 DEF Claim, Leased, Own, Row
  <2>4. \A v \in Workers : workers[v].pc = "working" => workers[v].event # e
    BY <2>1, NotClaimable DEF Own
  <2> QED
    BY <2>2, <2>3, <2>4 DEF Held, WorksOn
<1>2. CASE workers'[w] = workers[w]
  <2> DEFINE e == Own(w)
  <2>1. e \in EventIds /\ Own(w)' = e /\ workers[w].pc = "working"
    BY <1>0, <1>2 DEF LockInv, TypeInv, HoldsRow, Own
  <2>2. Held(w)
    BY DEF LeaseInv
  <2>3. events'[e].status \in {"processing", "deleted"} /\ events'[e].locked_at # "stale"
    <3>1. events'[e] \in {events[e], Deleted(events[e])}
      BY <1>2, <2>1, RowStays
    <3>2. Deleted(events[e]).status = "deleted" /\ Deleted(events[e]).locked_at = events[e].locked_at
      BY <1>0, <2>1 DEF Deleted, Row
    <3> QED
      BY <2>1, <2>2, <3>1, <3>2 DEF Held
  <2>4. ASSUME NEW v \in Workers, WorksOn(v, e)' PROVE v = w
    <3>1. CASE Claim(v)
      <4>1. workers'[v].event = workers[v].event /\ workers[v].pc = "selected"
        BY <1>0, <3>1 DEF Claim, Local
      <4> QED
        BY <2>1, <2>4, <4>1, NotClaimable DEF WorksOn
    <3>2. CASE workers'[v] = workers[v]
      BY <2>1, <2>2, <2>4, <3>2 DEF Held, WorksOn
    <3> QED
      BY <1>0, <2>4, <3>1, <3>2, WorkBegins DEF WorksOn
  <2> QED
    BY <2>1, <2>3, <2>4 DEF Held
<1> QED
  BY <1>0, <1>1, <1>2, WorkBegins

\* What the steps of a run do to it and to its event's actions.
Rows(w) == actions[Own(w)]
RowsKept(w) == \A j \in Intents : Rows(w)'[j] = Rows(w)[j]
OthersKept(w, i) == \A j \in Intents : j # i => Rows(w)'[j] = Rows(w)[j]

Begins(w) ==
    /\ exec[w].pc \in {"loading", "ensuring"} /\ exec'[w].pc \in {"ensuring", "listing"}
    /\ \A j \in Intents : \/ Rows(w)'[j] = Rows(w)[j]
                          \/ StatusOf(Own(w), j) = "absent" /\ Rows(w)'[j].status = "pending"
FailsRun(w) ==
    /\ exec'[w].pc = "done" /\ exec'[w].result # "ok" /\ RowsKept(w)
    /\ exec[w].pc = "reporting" =>
         ~(Live(Own(w)) /\ StatusOf(Own(w), exec[w].current) = "processing")
EndsWell(w) ==
    /\ exec[w].pc \in {"listing", "running"} /\ exec'[w].pc = "done" /\ RowsKept(w)
    /\ Live(Own(w)) => \A j \in Intents : StatusOf(Own(w), j) \in {"absent", "completed"}
Lists(w) ==
    /\ exec[w].pc = "listing" /\ exec'[w].pc = "running" /\ RowsKept(w)
    /\ \A j \in exec'[w].todo : /\ StatusOf(Own(w), j) \in {"pending", "processing"} /\ Live(Own(w))
                                /\ j \in exec'[w].listed <=> StatusOf(Own(w), j) # "pending"
Passes(w) ==
    /\ exec[w].pc = "running" /\ exec'[w].pc = "running" /\ RowsKept(w)
    /\ exec'[w].todo \subseteq exec[w].todo /\ exec'[w].listed = exec[w].listed
Takes(w, i) ==
    /\ exec[w].pc = "running" /\ exec'[w].pc = "calling"
    /\ i \in exec[w].todo /\ exec'[w].current = i /\ exec'[w].todo = exec[w].todo \ {i}
    /\ exec'[w].listed = exec[w].listed
    /\ OthersKept(w, i)
    /\ Rows(w)'[i].status = "processing" \/ (i \in exec[w].listed /\ Rows(w)'[i] = Rows(w)[i])
Calls(w) ==
    /\ exec[w].pc = "calling" /\ exec'[w].pc = "reporting" /\ RowsKept(w)
    /\ exec'[w].todo = exec[w].todo /\ exec'[w].listed = exec[w].listed
    /\ exec'[w].current = exec[w].current
Reports(w, i) ==
    /\ exec[w].pc = "reporting" /\ exec'[w].pc = "running" /\ i = exec[w].current
    /\ exec'[w].todo = exec[w].todo /\ exec'[w].listed = exec[w].listed
    /\ OthersKept(w, i)
    /\ Rows(w)'[i].status = "completed" <=> exec[w].result = "ok"

LEMMA RunStepShape ==
    ASSUME ExecInv, NEW w \in Workers, RunStep(w)
    PROVE  /\ UNCHANGED vars /\ \A v \in Workers : v # w => exec'[v] = exec[v]
           /\ exec[w].pc # "off" /\ Own(w) \in EventIds
           /\ \A e \in EventIds : e # Own(w) => actions'[e] = actions[e]
           /\ \/ Begins(w) \/ FailsRun(w) \/ EndsWell(w) \/ Lists(w) \/ Passes(w) \/ Calls(w)
              \/ \E i \in Intents : Takes(w, i) \/ Reports(w, i)
<1> DEFINE old == exec[w]
           e == Own(w)
           Shape == \/ Begins(w) \/ FailsRun(w) \/ EndsWell(w) \/ Lists(w) \/ Passes(w) \/ Calls(w)
                    \/ \E i \in Intents : Takes(w, i) \/ Reports(w, i)
<1>0. /\ UNCHANGED vars /\ UNCHANGED workers /\ old.pc # "off" /\ e \in EventIds
      /\ exec \in [Workers -> Run] /\ old \in Run /\ actions \in Tables
      /\ e' = e /\ actions[e] \in [Intents -> ActionRow]
  <2>1. UNCHANGED vars /\ old.pc # "off"
    BY InnerSteps, RunGoesOn DEF ExecInv, RunInv
  <2>2. e \in EventIds
    BY <2>1, OwnEvent DEF ExecInv, At
  <2> QED
    BY <2>1, <2>2 DEF ExecInv, RunInv, RunsTyped, vars, Own, Tables
<1>1. \A v \in Workers : v # w => exec'[v] = exec[v]
  <2>1. \E run : exec' = [exec EXCEPT ![w] = run]
    BY RunGoesOn DEF ExecInv, RunInv
  <2> QED
    BY <1>0, <2>1
<1>2. ASSUME NEW i \in Intents, NEW row, Update(e, i, row)
      PROVE  /\ \A f \in EventIds : f # e => actions'[f] = actions[f]
             /\ OthersKept(w, i) /\ Rows(w)'[i] = row
  BY <1>0, <1>2 DEF Update, Tables, OthersKept, Rows
<1>3. ASSUME UNCHANGED actions
      PROVE  /\ \A f \in EventIds : f # e => actions'[f] = actions[f]
             /\ RowsKept(w) /\ \A i \in Intents : OthersKept(w, i)
  BY <1>0, <1>3 DEF OthersKept, RowsKept, Rows
<1>4. ASSUME NEW result, Goto(w, Done(result))
      PROVE  exec'[w].pc = "done" /\ exec'[w].result = result
  BY <1>0, <1>4 DEF Goto, Done, Off
<1>12. ASSUME NEW result, result # "ok", Goto(w, Done(result)), UNCHANGED actions,
              old.pc = "reporting" => ~(Live(e) /\ StatusOf(e, old.current) = "processing")
       PROVE  FailsRun(w)
  BY <1>3, <1>4, <1>12 DEF FailsRun
<1> DEFINE Elsewhere == \A f \in EventIds : f # e => actions'[f] = actions[f]
<1> SUFFICES Elsewhere /\ Shape
  BY <1>0, <1>1
<1>5. CASE LoadRules(w)
  <2>1. UNCHANGED actions /\ old.pc = "loading"
    BY <1>5 DEF LoadRules, actionVars, At
  <2>2. CASE Goto(w, Done("permanent"))
    BY <1>3, <1>12, <2>1, <2>2
  <2>3. ASSUME NEW S, Goto(w, [Off EXCEPT !.pc = "ensuring", !.todo = S])
        PROVE  exec'[w].pc = "ensuring"
    BY <1>0, <2>3 DEF Goto, Off
  <2> QED
    BY <1>3, <1>5, <2>1, <2>2, <2>3 DEF LoadRules, Begins, RowsKept
<1>6. CASE CreateOrGet(w)
  <2> DEFINE new == [NoAction EXCEPT !.status = "pending"]
  <2>1. PICK i \in old.todo :
          \/ /\ Goto(w, [exec[w] EXCEPT !.todo = @ \ {i}])
             /\ \/ UNCHANGED actions
                \/ Update(e, i, new) /\ Live(e) /\ ~Exists(e, i)
          \/ Goto(w, Done("transient")) /\ UNCHANGED actions
    BY <1>6 DEF CreateOrGet
  <2>2. i \in Intents /\ old.pc = "ensuring" /\ new.status = "pending"
    BY <1>0, <1>6 DEF Run, CreateOrGet, At, NoAction
  <2>3. CASE Goto(w, [exec[w] EXCEPT !.todo = @ \ {i}])
    <3>1. exec'[w].pc = "ensuring"
      BY <1>0, <2>2, <2>3 DEF Goto, Run
    <3>2. CASE UNCHANGED actions
      BY <1>3, <2>2, <3>1, <3>2 DEF Begins, RowsKept
    <3>3. CASE Update(e, i, new) /\ Live(e) /\ ~Exists(e, i)
      <4>1. StatusOf(e, i) = "absent"
        BY <3>3 DEF Exists, StatusOf
      <4> HIDE DEF new
      <4>2. Begins(w)
        BY <1>2, <2>2, <3>1, <3>3, <4>1 DEF Begins, OthersKept
      <4> QED
        BY <1>2, <2>2, <3>3, <4>2
    <3>4. CASE Goto(w, Done("transient")) /\ UNCHANGED actions
      BY <1>3, <1>12, <2>2, <3>4
    <3> QED
      BY <2>1, <3>2, <3>3, <3>4
  <2>4. CASE Goto(w, Done("transient")) /\ UNCHANGED actions
    BY <1>3, <1>12, <2>2, <2>4
  <2> QED
    BY <2>1, <2>3, <2>4
<1>7. CASE Persisted(w)
  <2>1. old.pc = "ensuring" /\ exec'[w].pc = "listing" /\ UNCHANGED actions
    BY <1>0, <1>7 DEF Persisted, Goto, Run, actionVars, At
  <2> QED
    BY <1>3, <2>1 DEF Begins, RowsKept
<1>8. CASE ListByEventID(w)
  <2>1. UNCHANGED actions /\ old.pc = "listing"
    BY <1>8 DEF ListByEventID, actionVars, At
  <2> DEFINE ready == {i \in Intents : Exists(e, i) /\ Ready(actions[e][i])}
             listed == {i \in ready : actions[e][i].status # "pending"}
  <2>2. CASE Goto(w, [Off EXCEPT !.pc = "running", !.todo = ready, !.listed = listed])
    <3>1. exec'[w].pc = "running" /\ exec'[w].todo = ready /\ exec'[w].listed = listed
      BY <1>0, <2>2 DEF Goto, Off
    <3> QED
      BY <1>3, <2>1, <3>1 DEF Lists, Exists, Ready, StatusOf
  <2>3. CASE Goto(w, Done("ok")) /\ ~\E i \in Intents : Exists(e, i)
    BY <1>0, <1>3, <1>4, <2>1, <2>3 DEF EndsWell, Exists, StatusOf
  <2>4. CASE Goto(w, Done("transient"))
    BY <1>3, <1>12, <2>1, <2>4
  <2> QED
    BY <1>3, <1>8, <2>1, <2>2, <2>3, <2>4 DEF ListByEventID
<1>9. CASE MarkProcessing(w)
  <2>1. old.pc = "running"
    BY <1>9 DEF MarkProcessing, At
  <2>2. PICK i \in old.todo :
          \/ /\ Goto(w, [exec[w] EXCEPT !.pc = "calling", !.todo = Without(w, i), !.current = i])
             /\ \/ Update(e, i, [actions[e][i] EXCEPT !.status = "processing"])
                \/ i \in old.listed /\ UNCHANGED actions
          \/ Goto(w, [exec[w] EXCEPT !.todo = Without(w, i)]) /\ UNCHANGED actions
    BY <1>9 DEF MarkProcessing
  <2>3. i \in Intents /\ actions[e][i] \in ActionRow
    BY <1>0 DEF Run
  <2>4. CASE Goto(w, [exec[w] EXCEPT !.todo = Without(w, i)]) /\ UNCHANGED actions
    <3>1. exec'[w].pc = "running" /\ exec'[w].todo = old.todo \ {i} /\ exec'[w].listed = old.listed
      BY <1>0, <2>1, <2>4 DEF Goto, Run, Without
    <3> QED
      BY <1>3, <2>1, <2>4, <3>1 DEF Passes
  <2>5. CASE Goto(w, [exec[w] EXCEPT !.pc = "calling", !.todo = Without(w, i), !.current = i])
    <3>1. /\ exec'[w].pc = "calling" /\ exec'[w].todo = old.todo \ {i}
          /\ exec'[w].listed = old.listed /\ exec'[w].current = i
      BY <1>0, <2>1, <2>5 DEF Goto, Run, Without
    <3>2. CASE Update(e, i, [actions[e][i] EXCEPT !.status = "processing"])
      <4>1. [actions[e][i] EXCEPT !.status = "processing"].status = "processing"
        BY <2>3 DEF ActionRow
      <4> QED
        BY <1>2, <2>1, <2>3, <3>1, <3>2, <4>1 DEF Takes
    <3>3. CASE i \in old.listed /\ UNCHANGED actions
      BY <1>3, <2>1, <2>3, <3>1, <3>3 DEF Takes, RowsKept
    <3> QED
      BY <2>2, <2>4, <3>2, <3>3
  <2> QED
    BY <2>2, <2>4, <2>5
<1>10. CASE ExecuteOne(w)
  <2>1. UNCHANGED actions /\ old.pc = "calling"
    BY <1>10 DEF ExecuteOne, At
  <2>2. PICK r : Goto(w, [exec[w] EXCEPT !.pc = "reporting", !.result = r])
    BY <1>10 DEF ExecuteOne
  <2>3. /\ exec'[w].pc = "reporting" /\ exec'[w].todo = old.todo /\ exec'[w].listed = old.listed
        /\ exec'[w].current = old.current
    BY <1>0, <2>2 DEF Goto, Run
  <2> QED
    BY <1>3, <2>1, <2>3 DEF Calls
<1>11. CASE MarkCompleted(w) \/ FailAction(w) \/ RetryAction(w)
  <2> DEFINE i == old.current
             row == actions[e][i]
  <2>1. old.pc = "reporting" /\ i \in Intents /\ row \in ActionRow
    BY <1>0, <1>11 DEF ExecInv, RunInv, RunsTyped, InHand, MarkCompleted, FailAction, RetryAction, At
  <2>2. ASSUME NextAction(w)
        PROVE  exec'[w].pc = "running" /\ exec'[w].todo = old.todo /\ exec'[w].listed = old.listed
    BY <1>0, <2>2 DEF NextAction, Goto, Run
  <2>3. CASE /\ Goto(w, Done("transient")) /\ UNCHANGED actions
             /\ ~(Live(e) /\ row.status = "processing")
    BY <1>3, <1>12, <2>3 DEF StatusOf
  <2>4. CASE NextAction(w) /\ old.result = "ok" /\ row.status = "processing"
             /\ Update(e, i, [row EXCEPT !.status = "completed"])
    <3>1. [row EXCEPT !.status = "completed"].status = "completed"
      BY <2>1 DEF ActionRow
    <3> QED
      BY <1>2, <2>1, <2>2, <2>4, <3>1 DEF Reports, StatusOf
  <2>5. CASE NextAction(w) /\ old.result = "permanent" /\ row.status = "processing"
             /\ Update(e, i, [row EXCEPT !.status = "failed", !.attempt_count = @ + 1])
    <3>1. [row EXCEPT !.status = "failed", !.attempt_count = @ + 1].status = "failed"
      BY <2>1 DEF ActionRow
    <3> QED
      BY <1>2, <2>1, <2>2, <2>5, <3>1 DEF Reports, StatusOf
  <2>6. CASE /\ NextAction(w) /\ old.result = "transient"
             /\ \E new : new.status \in {"failed", "pending"} /\ Update(e, i, new)
    BY <1>2, <2>1, <2>2, <2>6 DEF Reports, StatusOf
  <2>7. RetryAction(w) /\ Exists(e, i) => \E new : new.status \in {"failed", "pending"} /\ Update(e, i, new)
    <3> DEFINE new == [status |-> IF row.attempt_count + 1 >= MaxAttempts THEN "failed" ELSE "pending",
                       attempt_count |-> row.attempt_count + 1,
                       due |-> row.attempt_count + 1 >= MaxAttempts]
    <3>1. new.status \in {"failed", "pending"}
      OBVIOUS
    <3>2. RetryAction(w) /\ Exists(e, i) => Update(e, i, new)
      BY DEF RetryAction
    <3> HIDE DEF new
    <3> QED
      BY <3>1, <3>2
  <2> QED
    BY <1>2, <1>3, <1>11, <2>1, <2>3, <2>4, <2>5, <2>6, <2>7
       DEF MarkCompleted, FailAction, RetryAction, Exists
<1>13. CASE Tally(w)
  <2>1. UNCHANGED actions /\ Goto(w, Done(Verdict(e))) /\ old.pc = "running"
    BY <1>13 DEF Tally, actionVars, At
  <2>2. CASE Verdict(e) = "ok"
    <3>1. \A i \in Intents : Exists(e, i) => actions[e][i].status \notin {"pending", "processing", "failed"}
      BY <2>2 DEF Verdict, Unfinished, Failed
    <3>2. \A i \in Intents : actions[e][i] \in ActionRow
      BY <1>0
    <3>3. Live(e) => \A i \in Intents : StatusOf(e, i) \in {"absent", "completed"}
      BY <3>1, <3>2 DEF Exists, StatusOf, ActionRow
    <3> QED
      BY <1>3, <1>4, <2>1, <3>3 DEF EndsWell
  <2>3. CASE Verdict(e) # "ok"
    BY <1>3, <1>12, <2>1, <2>3
  <2> QED
    BY <2>2, <2>3
<1> QED
  BY <1>5, <1>6, <1>7, <1>8, <1>9, <1>10, <1>11, <1>13 DEF RunStep

\* A step is one of the run, or cuts the run off or starts one, or leaves the
\* run and the status of its event's actions as they are.
Untouched(w) ==
    /\ workers[w].pc = "working" /\ workers'[w] = workers[w] /\ exec'[w] = exec[w]
    /\ \A i \in Intents : StatusOf(Own(w), i)' = StatusOf(Own(w), i)

LEMMA OtherRuns ==
    ASSUME LeaseInv, [ExecNext]_execVars, NEW w \in Workers, workers[w].pc = "working",
           workers'[w] = workers[w],
           \/ UNCHANGED actions
           \/ \E v \in Workers : v # w /\ RunStep(v)
           \/ \E e \in EventIds, i \in Intents : ActionBackoffElapses(e, i)
    PROVE  \A i \in Intents : StatusOf(Own(w), i)' = StatusOf(Own(w), i)
<1>0. Own(w)' = Own(w) /\ Own(w) \in EventIds /\ actions \in Tables
  BY DEF LeaseInv, ExecInv, RunInv, TypeInv, HoldsRow, Own
<1>1. CASE UNCHANGED actions
  BY <1>0, <1>1 DEF StatusOf
<1>2. ASSUME NEW v \in Workers, v # w, RunStep(v)
      PROVE  actions'[Own(w)] = actions[Own(w)]
  <2>1. ExecInv
    BY DEF LeaseInv
  <2>2. /\ exec[v].pc # "off"
        /\ \A e \in EventIds : e # Own(v) => actions'[e] = actions[e]
    BY <1>2, <2>1, RunStepShape
  <2>3. WorksOn(v, Own(v))
    BY <2>1, <2>2, OwnEvent DEF ExecInv, At
  <2>4. Own(v) # Own(w)
    BY <1>2, <2>3 DEF LeaseInv, Held
  <2> QED
    BY <1>0, <2>2, <2>4
<1>3. ASSUME NEW e \in EventIds, NEW i \in Intents, ActionBackoffElapses(e, i)
      PROVE  \A j \in Intents : StatusOf(Own(w), j)' = StatusOf(Own(w), j)
  <2> DEFINE row == [actions[e][i] EXCEPT !.due = TRUE]
  <2>1. row.status = actions[e][i].status
    BY <1>0 DEF Tables, ActionRow
  <2>2. Update(e, i, row)
    BY <1>3 DEF ActionBackoffElapses
  <2> HIDE DEF row
  <2> QED
    BY <1>0, <2>1, <2>2 DEF Update, Tables, StatusOf
<1> QED
  BY <1>0, <1>1, <1>2, <1>3 DEF StatusOf

LEMMA RunCases ==
    ASSUME LeaseInv, [ExecNext]_execVars, NEW w \in Workers
    PROVE  \/ RunStep(w)
           \/ exec'[w].pc \in {"off", "loading"}
           \/ exec'[w].pc = "done" /\ exec'[w].result = "transient"
           \/ Untouched(w)
<1>0. /\ exec \in [Workers -> Run] /\ workers \in [Workers -> Local] /\ ExecInv /\ LockInv
      /\ ExecInv' /\ [Next]_vars
  BY ExecInvStep, ExecStepIsStep DEF LeaseInv, ExecInv, RunInv, RunsTyped, TypeInv, TypeOK
<1>1. CASE StartRun(w)
  BY <1>0, <1>1 DEF StartRun, Goto, Off
<1>2. CASE EndRun(w) \/ CrashRun(w)
  BY <1>0, <1>2 DEF EndRun, CrashRun, Goto, Off
<1>3. CASE StatementFails(w)
  BY <1>0, <1>3 DEF StatementFails, Goto, Done, Off
<1>4. CASE /\ ~(StartRun(w) \/ EndRun(w) \/ CrashRun(w) \/ StatementFails(w) \/ RunStep(w))
           /\ exec'[w].pc # "off"
  <2>1. \/ UNCHANGED <<exec, actions>> /\ ~Claim(w)
        \/ \E e \in EventIds, i \in Intents : ActionBackoffElapses(e, i)
        \/ \E v \in Workers : v # w /\ RunStep(v)
        \/ \E v \in Workers : /\ v # w /\ (StartRun(v) \/ EndRun(v) \/ CrashRun(v) \/ StatementFails(v))
                              /\ UNCHANGED actions
    <3>1. ASSUME Claim(w), UNCHANGED exec PROVE FALSE
      <4>1. workers[w].pc = "selected" /\ workers'[w].pc = "working"
        BY <1>0, <3>1 DEF Claim, Local
      <4>2. At(w, "off") /\ ~At(w, "off")'
        BY <1>0, <4>1 DEF ExecInv, RunInv, Engaged
      <4> QED
        BY <3>1, <4>2 DEF At
    <3> QED
      BY <1>4, <3>1 DEF ExecNext, RunStep, execVars, actionVars, Alone, LeaseRunsOut, StartRun, EndRun,
           CrashRun, StatementFails
  <2>2. exec'[w] = exec[w]
    <3>1. ASSUME NEW v \in Workers, v # w, RunStep(v) PROVE exec'[w] = exec[w]
      BY <1>0, <3>1, RunStepShape
    <3>2. ASSUME NEW v \in Workers, v # w, StartRun(v) \/ EndRun(v) \/ CrashRun(v) \/ StatementFails(v)
          PROVE  exec'[w] = exec[w]
      BY <1>0, <3>2 DEF StartRun, EndRun, CrashRun, StatementFails, Goto
    <3> QED
      BY <2>1, <3>1, <3>2 DEF ActionBackoffElapses
  <2>3. workers[w].pc = "working" /\ workers'[w].pc = "working"
    BY <1>0, <1>4, <2>2 DEF ExecInv, RunInv, Engaged, At
  <2>4. ~Claim(w)
    BY <2>3 DEF Claim
  <2>5. workers'[w] = workers[w]
    BY <1>0, <2>3, <2>4, WorkBegins
  <2> QED
    BY <2>1, <2>2, <2>3, <2>5, OtherRuns DEF Untouched
<1> QED
  BY <1>1, <1>2, <1>3, <1>4

LEMMA RowsAwaitStep ==
    ASSUME LeaseInv, [ExecNext]_execVars, NEW w \in Workers
    PROVE  RowsAwait(w)'
<1>0. RowsAwait(w) /\ ExecInv /\ exec[w] \in Run /\ InHand(exec[w])
  BY DEF LeaseInv, ExecInv, RunInv, RunsTyped
<1>1. CASE exec'[w].pc \in {"off", "loading", "ensuring", "listing", "done"}
  BY <1>1 DEF RowsAwait, Listed, Called
<1>2. CASE Untouched(w)
  <2>1. Own(w)' = Own(w)
    BY <1>2 DEF Untouched, Own
  <2> QED
    BY <1>0, <1>2, <2>1 DEF Untouched, RowsAwait, Listed, Called
<1>3. CASE RunStep(w)
  <2>0. /\ Own(w)' = Own(w)
        /\ \A j \in Intents : StatusOf(Own(w), j)' = Rows(w)'[j].status /\ StatusOf(Own(w), j) = Rows(w)[j].status
    <3>1. Own(w)' = Own(w)
      BY <1>0, <1>3, RunStepShape DEF Own, vars
    <3> QED
      BY <3>1 DEF StatusOf, Rows
  <2>1. CASE Begins(w) \/ FailsRun(w) \/ EndsWell(w)
    BY <1>1, <2>1 DEF Begins, FailsRun, EndsWell
  <2>2. CASE Lists(w)
    BY <2>0, <2>2 DEF Lists, RowsKept, RowsAwait, Listed, Called
  <2>3. CASE Passes(w) \/ Calls(w)
    BY <1>0, <2>0, <2>3 DEF Passes, Calls, RowsKept, RowsAwait, Listed, Called
  <2>4. ASSUME NEW i \in Intents, Takes(w, i) PROVE RowsAwait(w)'
    BY <1>0, <2>0, <2>4 DEF Takes, OthersKept, RowsAwait, Listed, Called
  <2>5. ASSUME NEW i \in Intents, Reports(w, i) PROVE RowsAwait(w)'
    BY <1>0, <2>0, <2>5 DEF Reports, OthersKept, RowsAwait, Listed, Called, InHand
  <2> QED
    BY <1>0, <1>3, <2>1, <2>2, <2>3, <2>4, <2>5, RunStepShape
<1> QED
  BY <1>1, <1>2, <1>3, RunCases

LEMMA AllDoneStep ==
    ASSUME LeaseInv, "slow" \notin Faults, [ExecNext]_execVars, NEW w \in Workers
    PROVE  AllDone(w)'
<1>0. AllDone(w) /\ ExecInv
  BY DEF LeaseInv
<1>1. CASE exec'[w].pc # "done" \/ exec'[w].result # "ok"
  BY <1>1 DEF AllDone, At
<1>2. CASE Untouched(w)
  <2>1. Own(w)' = Own(w) /\ events'[Own(w)] \in {events[Own(w)], Deleted(events[Own(w)])}
    BY <1>2, RowStays DEF Untouched, Own
  <2>2. Own(w) \in EventIds /\ events \in [EventIds -> Row]
    BY <1>0, <1>2 DEF Untouched, ExecInv, RunInv, TypeInv, TypeOK, HoldsRow, Own
  <2>3. Live(Own(w))' => Live(Own(w))
    BY <2>1, <2>2 DEF Live, Deleted, Row
  <2> QED
    BY <1>0, <1>2, <2>1, <2>3 DEF Untouched, AllDone, At
<1>3. CASE RunStep(w)
  <2>1. Own(w)' = Own(w) /\ Live(Own(w))' = Live(Own(w))
    BY <1>0, <1>3, RunStepShape DEF Own, vars, Live
  <2>2. CASE EndsWell(w)
    BY <2>1, <2>2 DEF EndsWell, RowsKept, Rows, AllDone, StatusOf
  <2>3. CASE ~EndsWell(w)
    BY <1>0, <1>1, <1>3, <2>3, RunStepShape
       DEF Begins, FailsRun, Lists, Passes, Calls, Takes, Reports
  <2> QED
    BY <2>2, <2>3
<1> QED
  BY <1>1, <1>2, <1>3, RunCases

LEMMA LeaseInvStep ==
    ASSUME "slow" \notin Faults, LeaseInv, [ExecNext]_execVars
    PROVE  LeaseInv'
<1>1. ExecInv' /\ LockInv'
  BY ExecInvStep, LockInvStep, ExecStepIsStep DEF LeaseInv
<1> QED
  BY <1>1, HeldStep, RowsAwaitStep, AllDoneStep DEF LeaseInv

LEMMA LeaseInvariance ==
    ASSUME "slow" \notin Faults
    PROVE  ExecSpec => []LeaseInv
  BY LeaseInvInit, LeaseInvStep, PTL DEF ExecSpec

\* An event is marked processed only when all its actions are completed,
\* whatever crashes, failed statements and lost answers there are.
THEOREM ProcessedWhenDone ==
    ASSUME "slow" \notin Faults
    PROVE  ExecSpec => ProcessedAfterActions
<1> DEFINE DoneFirst(e) == events[e].status # "processed" /\ events'[e].status = "processed"
                           => Unfinished(e) = {} /\ Failed(e) = {}
<1>1. ASSUME LeaseInv, [ExecNext]_execVars
      PROVE  [\A e \in EventIds : DoneFirst(e)]_execVars
  <2> SUFFICES ASSUME NEW e \in EventIds, events[e].status # "processed",
                      events'[e].status = "processed"
               PROVE  Unfinished(e) = {} /\ Failed(e) = {}
    OBVIOUS
  <2>0. events \in [EventIds -> Row] /\ LockInv
    BY <1>1 DEF LeaseInv, LockInv, TypeInv, TypeOK
  <2>1. PICK w \in Workers : At(w, "done") /\ exec[w].result = "ok" /\ MarkProcessed(w) /\ Own(w) = e
    <3>1. ASSUME NEW w \in Workers, RunStep(w) \/ StatementFails(w) PROVE UNCHANGED events
      BY <3>1, InnerSteps DEF vars
    <3>2. ASSUME NEW w \in Workers, FailStale(w) \/ Claim(w) PROVE FALSE
      <4> DEFINE row == events[workers[w].event]
                 n == ClaimCount(w)
      <4>1. row \in Row /\ n \in Nat
        BY <2>0, <3>2, Counts DEF LockInv, TypeInv, HoldsRow, FailStale, Claim
      <4>2. Leased(row, n).status = "processing" /\ Closed(row, "failed", n).status = "failed"
        <5> HIDE DEF row, n
        <5> QED
          BY <4>1, LeasedRow, ClosedRow
      <4> QED
        BY <2>0, <3>2, <4>2 DEF FailStale, Claim
    <3>3. ASSUME NEW w \in Workers, MarkFailedImmediately(w) \/ ScheduleRetry(w) PROVE FALSE
      <4> DEFINE row == events[workers[w].event]
                 n == row.retry_count
                 m == NextRetryCount(n)
      <4>1. row \in Row
        BY <2>0, <3>3 DEF LockInv, TypeInv, HoldsRow, MarkFailedImmediately, ScheduleRetry, MaySettle
      <4>2. n \in Nat /\ m \in Nat
        BY <2>0, <4>1, Counts, RowColumns DEF LockInv, TypeInv
      <4> HIDE DEF row, n, m
      <4>3. Closed(row, "failed", n).status = "failed"
        BY <4>1, <4>2, ClosedRow
      <4>4. Closed(row, "failed", m).status = "failed" /\ BackedOff(row, m).status = "pending"
        BY <4>1, <4>2, ClosedRow, BackedOffRow
      <4> QED
        BY <2>0, <3>3, <4>3, <4>4 DEF MarkFailedImmediately, ScheduleRetry, row, n, m
    <3>4. ASSUME NEW w \in Workers, MarkProcessed(w) PROVE Own(w) = e
      BY <2>0, <3>4 DEF MarkProcessed, Own
    <3>5. ASSUME NEW f \in EventIds, BackoffElapses(f) \/ LeaseExpires(f) PROVE FALSE
      BY <2>0, <3>5 DEF BackoffElapses, LeaseExpires, Row
    <3>6. ASSUME NEW f \in EventIds, NEW d \in Deliveries, Ingest(d, f) PROVE FALSE
      BY <2>0, <3>6 DEF Ingest, Inserted, AbsentRow
    <3>7. ASSUME Disconnect PROVE FALSE
      BY <2>0, <3>7 DEF Disconnect, Deleted, Row
    <3> QED
      BY <1>1, <3>1, <3>2, <3>3, <3>4, <3>5, <3>6, <3>7
         DEF ExecNext, RunStep, execVars, vars, Alone, Connect, SelectClaimable, StartRun, EndRun,
             CrashRun, Crash, LeaseRunsOut, ActionBackoffElapses
  <2>2. events[e].status = "processing"
    BY <2>1 DEF MarkProcessed, Processing, Own
  <2>3. Live(e)
    BY <2>2 DEF Live
  <2>4. \A i \in Intents : StatusOf(e, i) \in {"absent", "completed"}
    BY <1>1, <2>1, <2>3 DEF LeaseInv, AllDone
  <2> QED
    BY <2>4 DEF Unfinished, Failed, StatusOf
<1> QED
  BY <1>1, LeaseInvariance, PTL DEF ExecSpec, ProcessedAfterActions

\* What a run calls is the action it has in hand, and it counts as one call.
LEMMA CallCounts ==
    ASSUME ExecInv, NEW w \in Workers, ExecuteOne(w),
           NEW e \in EventIds, NEW i \in Intents
    PROVE  LET o == Own(w)
               c == exec[w].current IN
           /\ Calls(w) /\ UNCHANGED windows /\ Called(exec[w], c) /\ o \in EventIds /\ c \in Intents
           /\ e # o \/ i # c => calls'[e][i] = calls[e][i] /\ effects'[e][i] = effects[e][i]
           /\ effects'[o][c] \in {effects[o][c], effects[o][c] + 1}
           /\ "lost" \notin Faults /\ exec'[w].result # "ok" => effects'[o][c] = effects[o][c]
<1> DEFINE o == Own(w)
           c == exec[w].current
<1>1. /\ UNCHANGED windows /\ UNCHANGED actions /\ exec[w].pc = "calling" /\ exec[w] \in Run
      /\ o \in EventIds /\ c \in Intents /\ calls \in Counters /\ effects \in Counters
      /\ exec \in [Workers -> Run] /\ Own(w)' = Own(w)
  <2>1. At(w, "calling") /\ UNCHANGED vars
    BY DEF ExecuteOne
  <2> QED
    BY <2>1, OwnEvent DEF ExecuteOne, At, ExecInv, RunInv, RunsTyped, InHand, vars, Own
<1>2. calls' = [calls EXCEPT ![o][c] = @ + 1]
  BY DEF ExecuteOne
<1>3. PICK result \in {"ok", "transient", "permanent"}, applied \in BOOLEAN :
        /\ applied = (result = "ok") \/ ("lost" \in Faults /\ result = "transient" /\ applied)
        /\ Goto(w, [exec[w] EXCEPT !.pc = "reporting", !.result = result])
        /\ effects' = [effects EXCEPT ![o][c] = IF applied THEN @ + 1 ELSE @]
  BY DEF ExecuteOne
<1>4. /\ exec'[w].pc = "reporting" /\ exec'[w].todo = exec[w].todo /\ exec'[w].result = result
      /\ exec'[w].listed = exec[w].listed /\ exec'[w].current = c
  BY <1>1, <1>3 DEF Goto, Run
<1>5. /\ e # o \/ i # c => calls'[e][i] = calls[e][i] /\ effects'[e][i] = effects[e][i]
      /\ effects'[o][c] = IF applied THEN effects[o][c] + 1 ELSE effects[o][c]
  BY <1>1, <1>2, <1>3 DEF Counters
<1>6. Calls(w) /\ Called(exec[w], c)
  BY <1>1, <1>4 DEF Calls, Called, RowsKept, Rows
<1> QED
  BY <1>1, <1>3, <1>4, <1>5, <1>6

LEMMA RunStepHistory ==
    ASSUME NEW w \in Workers, RunStep(w)
    PROVE  UNCHANGED windows /\ (ExecuteOne(w) \/ UNCHANGED <<calls, effects>>)
  BY DEF RunStep, LoadRules, CreateOrGet, Persisted, ListByEventID, MarkProcessing, ExecuteOne,
         MarkCompleted, FailAction, RetryAction, Tally, actionVars

\* Outside the runs nothing calls, and the status of an action stays.
LEMMA QueueSteps ==
    ASSUME ExecInv, [ExecNext]_execVars, ~\E w \in Workers : RunStep(w),
           NEW e \in EventIds, NEW i \in Intents
    PROVE  UNCHANGED <<calls, effects>> /\ StatusOf(e, i)' = StatusOf(e, i)
<1>1. CASE UNCHANGED <<actions, calls, effects>>
  BY <1>1 DEF StatusOf
<1>2. ASSUME NEW f \in EventIds, NEW j \in Intents, ActionBackoffElapses(f, j)
      PROVE  UNCHANGED <<calls, effects>> /\ StatusOf(e, i)' = StatusOf(e, i)
  <2> DEFINE row == [actions[f][j] EXCEPT !.due = TRUE]
  <2>1. row.status = actions[f][j].status /\ actions \in Tables
    BY DEF Tables, ActionRow, ExecInv
  <2>2. Update(f, j, row) /\ UNCHANGED <<calls, effects>>
    BY <1>2 DEF ActionBackoffElapses
  <2> HIDE DEF row
  <2> QED
    BY <2>1, <2>2 DEF Update, Tables, StatusOf
<1> QED
  BY <1>1, <1>2 DEF ExecNext, RunStep, execVars, actionVars, Alone, LeaseRunsOut, StartRun, EndRun,
       CrashRun, StatementFails

\* An action that is completed stays completed and is not called again.
THEOREM CompletedForGood ==
    ASSUME "slow" \notin Faults
    PROVE  ExecSpec => CompletedIsFinal
<1> DEFINE Final(e, i) == actions[e][i].status = "completed"
                          => actions'[e][i].status = "completed" /\ calls'[e][i] = calls[e][i]
<1>1. ASSUME LeaseInv, [ExecNext]_execVars
      PROVE  [\A e \in EventIds, i \in Intents : Final(e, i)]_execVars
  <2> SUFFICES ASSUME NEW e \in EventIds, NEW i \in Intents, StatusOf(e, i) = "completed"
               PROVE  actions'[e][i].status = "completed" /\ calls'[e][i] = calls[e][i]
    BY DEF StatusOf
  <2>0. ExecInv
    BY <1>1 DEF LeaseInv
  <2>1. ASSUME NEW w \in Workers, RunStep(w)
        PROVE  actions'[e][i].status = "completed" /\ calls'[e][i] = calls[e][i]
    <3>1. CASE Own(w) # e
      <4>1. actions'[e] = actions[e]
        BY <2>0, <2>1, <3>1, RunStepShape
      <4>2. calls'[e][i] = calls[e][i]
        BY <2>0, <2>1, <3>1, RunStepHistory, CallCounts
      <4> QED
        BY <4>1, <4>2 DEF StatusOf
    <3>2. CASE Own(w) = e
      <4>1. ~Listed(exec[w], i) /\ ~Called(exec[w], i)
        BY <1>1, <3>2 DEF LeaseInv, RowsAwait
      <4>2. calls'[e][i] = calls[e][i]
        BY <2>0, <2>1, <4>1, RunStepHistory, CallCounts
      <4>3. \/ Rows(w)'[i] = Rows(w)[i]
            \/ StatusOf(e, i) = "absent"
        BY <2>0, <2>1, <3>2, <4>1, RunStepShape
           DEF Begins, FailsRun, EndsWell, Lists, Passes, Calls, Takes, Reports, RowsKept, OthersKept,
               Listed, Called
      <4>4. Own(w)' = Own(w)
        BY <2>0, <2>1, RunStepShape DEF Own, vars
      <4> QED
        BY <3>2, <4>2, <4>3, <4>4 DEF Rows, StatusOf
    <3> QED
      BY <3>1, <3>2
  <2>2. CASE ~\E w \in Workers : RunStep(w)
    BY <1>1, <2>0, <2>2, QueueSteps DEF StatusOf
  <2> QED
    BY <2>1, <2>2
<1> QED
  BY <1>1, LeaseInvariance, PTL DEF ExecSpec, CompletedIsFinal

-----------------------------------------------------------------------------
(* Effects. A run that has called an action and not recorded the outcome   *)
(* yet holds the one effect that no window pays for; before the call, and  *)
(* whenever the row is open and no run holds that effect, all are paid for. *)

Recording(w, e, i) ==
    WorksOn(w, e) /\ At(w, "reporting") /\ exec[w].result = "ok" /\ exec[w].current = i

Ahead(w, e, i) ==
    WorksOn(w, e) /\ (Listed(exec[w], i) \/ (At(w, "calling") /\ exec[w].current = i))

Spare(e, i) == effects[e][i] <= windows[e][i]

EffectsPaid(e, i) ==
    /\ effects[e][i] <= 1 + windows[e][i]
    /\ /\ events[e].status # "deleted"
       /\ StatusOf(e, i) # "completed"
       /\ \A w \in Workers : ~Recording(w, e, i)
       => Spare(e, i)
    /\ \A w \in Workers : Ahead(w, e, i) => Spare(e, i)

EffectInv == LeaseInv /\ \A e \in EventIds, i \in Intents : EffectsPaid(e, i)

LEMMA EffectInvInit == ExecInit => EffectInv
<1> SUFFICES ASSUME ExecInit, NEW e \in EventIds, NEW i \in Intents PROVE EffectsPaid(e, i)
  BY LeaseInvInit DEF EffectInv
<1>1. effects[e][i] = 0 /\ windows[e][i] = 0
  BY DEF ExecInit, Zeros
<1> QED
  BY <1>1 DEF EffectsPaid, Spare

\* A row that is deleted stays so.
LEMMA DeletedStays ==
    ASSUME LockInv, [Next]_vars, NEW e \in EventIds, events'[e].status # "deleted"
    PROVE  events[e].status # "deleted"
<1>1. RowStep(e) /\ events[e] \in Row
  BY RowSteps DEF LockInv, TypeInv, TypeOK
<1>2. Aged(e) => events'[e].status = events[e].status
  BY <1>1, StaleRow, DueRow DEF Aged
<1> QED
  BY <1>1, <1>2 DEF RowStep, Kept, Arrived, FirstClaimed, Reclaimed, LeaseFailed, Settled, Retried,
                    Dropped, Live

\* A run that is not stepped on holds what it held.
LEMMA SameRun ==
    ASSUME LeaseInv, [ExecNext]_execVars, NEW w \in Workers, exec'[w] = exec[w],
           NEW e \in EventIds, NEW i \in Intents
    PROVE  Recording(w, e, i)' = Recording(w, e, i) /\ Ahead(w, e, i)' = Ahead(w, e, i)
<1>0. LockInv /\ [Next]_vars /\ ExecInv /\ ExecInv'
  BY ExecStepIsStep, ExecInvStep DEF LeaseInv
<1>1. CASE exec[w].pc = "off"
  BY <1>1 DEF Recording, Ahead, Listed, At
<1>2. CASE exec[w].pc # "off"
  <2>1. workers[w].pc = "working" /\ workers'[w].pc = "working"
    BY <1>0, <1>2 DEF ExecInv, RunInv, Engaged, At
  <2>2. workers'[w] = workers[w]
    BY <1>0, <2>1, WorkBegins DEF Claim
  <2> QED
    BY <2>2 DEF Recording, Ahead, WorksOn, Listed, At
<1> QED
  BY <1>1, <1>2

\* What leaves the action, its effects and its open calls alone, or takes
\* calls away, keeps the account.
LEMMA QuietEffect ==
    ASSUME NEW e \in EventIds, NEW i \in Intents, EffectsPaid(e, i),
           effects'[e][i] = effects[e][i], windows'[e][i] = windows[e][i],
           events'[e].status # "deleted" => events[e].status # "deleted",
           StatusOf(e, i)' # "completed" => StatusOf(e, i) # "completed",
           \A w \in Workers : /\ Recording(w, e, i) => Recording(w, e, i)'
                              /\ Ahead(w, e, i)' => Ahead(w, e, i)
    PROVE  EffectsPaid(e, i)'
  BY DEF EffectsPaid, Spare

LEMMA NumbersOf ==
    ASSUME ExecInv, NEW e \in EventIds, NEW i \in Intents
    PROVE  effects[e][i] \in Nat /\ windows[e][i] \in Nat
  BY DEF ExecInv, Counters

\* A step of a run, seen by an action of its own event.
LEMMA OwnStepPays ==
    ASSUME "lost" \notin Faults, LeaseInv, NEW w \in Workers, RunStep(w),
           NEW i \in Intents, EffectsPaid(Own(w), i), [ExecNext]_execVars
    PROVE  EffectsPaid(Own(w), i)'
<1> DEFINE e == Own(w)
           c == exec[w].current
<1>0. /\ ExecInv /\ UNCHANGED vars /\ e \in EventIds /\ e' = e /\ exec[w].pc # "off"
      /\ \A v \in Workers : v # w => exec'[v] = exec[v]
      /\ effects[e][i] \in Nat /\ windows[e][i] \in Nat /\ UNCHANGED windows
      /\ exec[w] \in Run /\ InHand(exec[w])
  <2>1. ExecInv
    BY DEF LeaseInv
  <2>2. UNCHANGED vars /\ e \in EventIds /\ exec[w].pc # "off" /\ \A v \in Workers : v # w => exec'[v] = exec[v]
    BY <2>1, RunStepShape
  <2> QED
    BY <2>1, <2>2, NumbersOf, RunStepHistory DEF vars, Own, ExecInv, RunInv, RunsTyped
<1>1. /\ WorksOn(w, e) /\ WorksOn(w, e)'
      /\ \A v \in Workers : WorksOn(v, e) \/ WorksOn(v, e)' => v = w
      /\ events[e].status \in {"processing", "deleted"} /\ RowsAwait(w)
      /\ events'[e] = events[e]
  <2>1. WorksOn(w, e)
    BY <1>0, OwnEvent DEF ExecInv, At
  <2>2. Held(w) /\ RowsAwait(w)
    BY DEF LeaseInv
  <2> QED
    BY <1>0, <2>1, <2>2 DEF Held, WorksOn, vars
<1>2. /\ \A v \in Workers : Recording(v, e, i) \/ Ahead(v, e, i) => v = w
      /\ \A v \in Workers : Recording(v, e, i)' \/ Ahead(v, e, i)' => v = w
  BY <1>0, <1>1 DEF Recording, Ahead
<1>3. /\ Recording(w, e, i) = (exec[w].pc = "reporting" /\ exec[w].result = "ok" /\ c = i)
      /\ Recording(w, e, i)' = (exec'[w].pc = "reporting" /\ exec'[w].result = "ok" /\ exec'[w].current = i)
      /\ Ahead(w, e, i) = (Listed(exec[w], i) \/ (exec[w].pc = "calling" /\ c = i))
      /\ Ahead(w, e, i)' = (Listed(exec'[w], i) \/ (exec'[w].pc = "calling" /\ exec'[w].current = i))
  BY <1>0, <1>1 DEF Recording, Ahead, At
<1>4. StatusOf(e, i) = Rows(w)[i].status /\ StatusOf(e, i)' = Rows(w)'[i].status
  BY <1>0 DEF StatusOf, Rows
<1> SUFFICES /\ effects'[e][i] <= 1 + windows[e][i]
             /\ /\ events[e].status # "deleted" /\ Rows(w)'[i].status # "completed"
                /\ ~Recording(w, e, i)'
                => effects'[e][i] <= windows[e][i]
             /\ Ahead(w, e, i)' => effects'[e][i] <= windows[e][i]
  BY <1>0, <1>1, <1>2, <1>4 DEF EffectsPaid, Spare
<1> DEFINE Paid == effects[e][i] <= windows[e][i]
<1>5. /\ effects[e][i] <= 1 + windows[e][i]
      /\ events[e].status # "deleted" /\ Rows(w)[i].status # "completed" /\ ~Recording(w, e, i) => Paid
      /\ Ahead(w, e, i) => Paid
  BY <1>2, <1>4 DEF EffectsPaid, Spare
<1>6. CASE ExecuteOne(w)
  <2>1. /\ Calls(w) /\ c \in Intents
        /\ i # c => effects'[e][i] = effects[e][i]
        /\ i = c => effects'[e][i] \in {effects[e][i], effects[e][i] + 1}
        /\ i = c /\ exec'[w].result # "ok" => effects'[e][i] = effects[e][i]
    BY <1>0, <1>6, CallCounts
  <2>2. /\ exec[w].pc = "calling" /\ exec'[w].pc = "reporting" /\ exec'[w].current = c
        /\ exec'[w].todo = exec[w].todo /\ Rows(w)'[i] = Rows(w)[i] /\ c \notin exec[w].todo
    BY <1>0, <2>1 DEF Calls, RowsKept, InHand
  <2>3. ~Recording(w, e, i) /\ (i = c => Ahead(w, e, i))
    BY <1>3, <2>2
  <2>4. Ahead(w, e, i)' => i # c /\ Ahead(w, e, i)
    BY <1>3, <2>2 DEF Listed
  <2> HIDE DEF e, c
  <2>5. CASE i # c
    BY <1>5, <2>1, <2>2, <2>3, <2>4, <2>5
  <2>6. CASE i = c
    <3>1. Paid /\ ~Ahead(w, e, i)'
      BY <1>5, <2>3, <2>4, <2>6
    <3>2. effects'[e][i] <= 1 + windows[e][i]
      BY <1>0, <2>1, <2>6, <3>1
    <3>3. ~Recording(w, e, i)' => effects'[e][i] = effects[e][i]
      BY <1>3, <2>1, <2>2, <2>6
    <3> QED
      BY <3>1, <3>2, <3>3
  <2> QED
    BY <2>5, <2>6
<1>7. CASE UNCHANGED effects
  <2> SUFFICES /\ /\ events[e].status # "deleted" /\ Rows(w)'[i].status # "completed"
                  /\ ~Recording(w, e, i)'
                  => Paid
               /\ Ahead(w, e, i)' => Paid
    BY <1>5, <1>7
  <2>1. CASE Begins(w)
    <3>1. Rows(w)'[i].status # "completed" => Rows(w)[i].status # "completed"
      BY <1>4, <2>1 DEF Begins
    <3> QED
      BY <1>3, <1>5, <2>1, <3>1 DEF Begins, Listed
  <2>2. CASE FailsRun(w)
    <3>1. Rows(w)'[i] = Rows(w)[i] /\ ~Ahead(w, e, i)'
      BY <1>3, <2>2 DEF FailsRun, RowsKept, Listed
    <3>2. ASSUME Recording(w, e, i) PROVE events[e].status = "deleted"
      <4>1. StatusOf(e, i) = "processing" /\ exec[w].pc = "reporting" /\ c = i
        BY <1>1, <1>3, <3>2 DEF RowsAwait, Called
      <4> QED
        BY <1>1, <2>2, <4>1 DEF FailsRun, Live
    <3> QED
      BY <1>5, <3>1, <3>2
  <2>3. CASE EndsWell(w) \/ Passes(w)
    BY <1>3, <1>5, <2>3 DEF EndsWell, Passes, RowsKept, Listed
  <2>4. CASE Lists(w)
    <3>1. Ahead(w, e, i)' => events[e].status # "deleted" /\ Rows(w)[i].status # "completed"
      BY <1>3, <1>4, <2>4 DEF Lists, Listed, Live
    <3> QED
      BY <1>3, <1>5, <2>4, <3>1 DEF Lists, RowsKept
  <2>5. CASE Calls(w)
    <3>1. Ahead(w, e, i)' => Ahead(w, e, i)
      BY <1>3, <2>5 DEF Calls, Listed
    <3>2. ~Recording(w, e, i) /\ Rows(w)'[i] = Rows(w)[i]
      BY <1>3, <2>5 DEF Calls, RowsKept
    <3> QED
      BY <1>5, <3>1, <3>2
  <2>6. ASSUME NEW j \in Intents, Takes(w, j)
        PROVE  /\ /\ events[e].status # "deleted" /\ Rows(w)'[i].status # "completed"
                  /\ ~Recording(w, e, i)'
                  => Paid
               /\ Ahead(w, e, i)' => Paid
    <3>1. i = j => Ahead(w, e, i)
      BY <1>3, <2>6 DEF Takes, Listed
    <3>2. i # j => Rows(w)'[i] = Rows(w)[i] /\ (Ahead(w, e, i)' => Ahead(w, e, i))
      BY <1>3, <2>6 DEF Takes, OthersKept, Listed
    <3>3. ~Recording(w, e, i)
      BY <1>3, <2>6 DEF Takes
    <3> QED
      BY <1>5, <3>1, <3>2, <3>3
  <2>7. ASSUME NEW j \in Intents, Reports(w, j)
        PROVE  /\ /\ events[e].status # "deleted" /\ Rows(w)'[i].status # "completed"
                  /\ ~Recording(w, e, i)'
                  => Paid
               /\ Ahead(w, e, i)' => Paid
    <3>1. Ahead(w, e, i)' => Ahead(w, e, i)
      BY <1>3, <2>7 DEF Reports, Listed
    <3>2. i # j => Rows(w)'[i] = Rows(w)[i] /\ ~Recording(w, e, i)
      BY <1>3, <2>7 DEF Reports, OthersKept
    <3>3. i = j => /\ Rows(w)[i].status = "processing"
                   /\ Rows(w)'[i].status # "completed" => ~Recording(w, e, i)
      BY <1>1, <1>3, <1>4, <2>7 DEF Reports, RowsAwait, Called
    <3> QED
      BY <1>5, <3>1, <3>2, <3>3
  <2> QED
    BY <1>0, <2>1, <2>2, <2>3, <2>4, <2>5, <2>6, <2>7, RunStepShape
<1> QED
  BY <1>6, <1>7, RunStepHistory

\* A step of a run, seen by an action of another event.
LEMMA OtherStepPays ==
    ASSUME LeaseInv, NEW w \in Workers, RunStep(w), [ExecNext]_execVars,
           NEW e \in EventIds, e # Own(w), NEW i \in Intents, EffectsPaid(e, i)
    PROVE  EffectsPaid(e, i)'
<1>0. ExecInv
  BY DEF LeaseInv
<1>1. /\ UNCHANGED vars /\ actions'[e] = actions[e]
      /\ \A v \in Workers : v # w => exec'[v] = exec[v]
  BY <1>0, RunStepShape
<1>2. effects'[e][i] = effects[e][i] /\ windows'[e][i] = windows[e][i]
  BY <1>0, RunStepHistory, CallCounts
<1>3. ~Recording(w, e, i) /\ ~Ahead(w, e, i)'
  BY <1>1 DEF Recording, Ahead, WorksOn, Own, vars
<1>4. \A v \in Workers : /\ Recording(v, e, i) => Recording(v, e, i)'
                         /\ Ahead(v, e, i)' => Ahead(v, e, i)
  BY <1>1, <1>3, SameRun
<1> QED
  BY <1>1, <1>2, <1>4, QuietEffect DEF StatusOf, vars

\* A run that is cut off leaves the effect it had not recorded to the window.
LEMMA CutOffPays ==
    ASSUME LeaseInv, [ExecNext]_execVars, NEW w \in Workers, StatementFails(w) \/ CrashRun(w),
           NEW e \in EventIds, NEW i \in Intents, EffectsPaid(e, i)
    PROVE  EffectsPaid(e, i)'
<1>0. /\ ExecInv /\ effects[e][i] \in Nat /\ windows[e][i] \in Nat
      /\ exec \in [Workers -> Run] /\ windows \in Counters
  <2>1. ExecInv
    BY DEF LeaseInv
  <2> QED
    BY <2>1, NumbersOf DEF ExecInv, RunInv, RunsTyped
<1>1. /\ UNCHANGED <<events, actions, effects>> /\ CutOff(w)
      /\ exec' = [exec EXCEPT ![w] = Off] \/ exec' = [exec EXCEPT ![w] = Done("transient")]
  BY DEF StatementFails, CrashRun, Crash, Goto, vars
<1>2. /\ \A v \in Workers : v # w => exec'[v] = exec[v]
      /\ exec'[w].pc \in {"off", "done"}
  BY <1>0, <1>1, DoneRun, OffRun
<1>3. ~Recording(w, e, i)' /\ ~Ahead(w, e, i)'
  BY <1>2 DEF Recording, Ahead, Listed, At
<1>4. CASE Recording(w, e, i)
  <2>1. windows'[e][i] = windows[e][i] + 1
    <3>1. windows' = [windows EXCEPT ![e][i] = @ + 1]
      BY <1>1, <1>4 DEF CutOff, Recording, WorksOn, Own
    <3> QED
      BY <1>0, <3>1 DEF Counters
  <2> QED
    BY <1>0, <1>1, <2>1 DEF EffectsPaid, Spare
<1>5. CASE ~Recording(w, e, i)
  <2>1. windows'[e][i] = windows[e][i]
    <3>1. CASE At(w, "reporting") /\ exec[w].result = "ok"
      <4>1. WorksOn(w, Own(w)) /\ Own(w) \in EventIds
        BY <1>0, <3>1, OwnEvent DEF ExecInv, At
      <4>2. Own(w) # e \/ exec[w].current # i
        BY <1>5, <3>1, <4>1 DEF Recording
      <4> QED
        BY <1>0, <1>1, <3>1, <4>1, <4>2 DEF CutOff, Counters
    <3> QED
      BY <1>1, <3>1 DEF CutOff
  <2>2. \A v \in Workers : /\ Recording(v, e, i) => Recording(v, e, i)'
                           /\ Ahead(v, e, i)' => Ahead(v, e, i)
    BY <1>2, <1>3, <1>5, SameRun
  <2> QED
    BY <1>1, <2>1, <2>2, QuietEffect DEF StatusOf
<1> QED
  BY <1>4, <1>5

LEMMA EffectInvStep ==
    ASSUME "slow" \notin Faults, "lost" \notin Faults, EffectInv, [ExecNext]_execVars
    PROVE  EffectInv'
<1>0. LeaseInv /\ LeaseInv' /\ ExecInv /\ LockInv /\ [Next]_vars
  BY LeaseInvStep, ExecStepIsStep DEF EffectInv, LeaseInv
<1> SUFFICES ASSUME NEW e \in EventIds, NEW i \in Intents PROVE EffectsPaid(e, i)'
  BY <1>0 DEF EffectInv, EventIds
<1>1. EffectsPaid(e, i)
  BY DEF EffectInv
<1>2. ASSUME NEW w \in Workers, RunStep(w) PROVE EffectsPaid(e, i)'
  <2>1. CASE Own(w) = e
    <3>1. EffectsPaid(Own(w), i)'
      BY <1>0, <1>1, <1>2, <2>1, OwnStepPays
    <3>2. Own(w)' = Own(w)
      BY <1>2, InnerSteps DEF vars, Own
    <3> QED
      BY <2>1, <3>1, <3>2
  <2>2. CASE Own(w) # e
    BY <1>0, <1>1, <1>2, <2>2, OtherStepPays
  <2> QED
    BY <2>1, <2>2
<1>3. ASSUME NEW w \in Workers, StatementFails(w) \/ CrashRun(w) PROVE EffectsPaid(e, i)'
  BY <1>0, <1>1, <1>3, CutOffPays
<1>4. CASE ~\E w \in Workers : RunStep(w) \/ StatementFails(w) \/ CrashRun(w)
  <2>1. UNCHANGED windows
    BY <1>4 DEF ExecNext, RunStep, execVars, actionVars, Alone, LeaseRunsOut, StartRun, EndRun,
                ActionBackoffElapses
  <2>2. UNCHANGED effects /\ StatusOf(e, i)' = StatusOf(e, i)
    BY <1>0, <1>4, QueueSteps
  <2>3. ASSUME NEW w \in Workers
        PROVE  /\ Recording(w, e, i) => Recording(w, e, i)'
               /\ Ahead(w, e, i)' => Ahead(w, e, i)
    <3>1. CASE exec'[w] = exec[w]
      BY <1>0, <3>1, SameRun
    <3>2. CASE exec'[w] # exec[w]
      <4>1. exec \in [Workers -> Run]
        BY <1>0 DEF ExecInv, RunInv, RunsTyped
      <4>2. StartRun(w) \/ EndRun(w)
        BY <1>4, <3>2, <4>1 DEF ExecNext, RunStep, execVars, Alone, LeaseRunsOut, StartRun, EndRun,
                                ActionBackoffElapses, Goto
      <4>3. exec'[w].pc \in {"loading", "off"}
        BY <4>1, <4>2 DEF StartRun, EndRun, Goto, Off
      <4>4. ~At(w, "reporting")
        <5>1. CASE StartRun(w)
          BY <1>0, <5>1 DEF StartRun, Claim, ExecInv, RunInv, Engaged, At
        <5>2. CASE EndRun(w)
          BY <5>2 DEF EndRun, At
        <5> QED
          BY <4>2, <5>1, <5>2
      <4> QED
        BY <4>3, <4>4 DEF Recording, Ahead, Listed, At
    <3> QED
      BY <3>1, <3>2
  <2> QED
    BY <1>0, <1>1, <2>1, <2>2, <2>3, QuietEffect, DeletedStays
<1> QED
  BY <1>2, <1>3, <1>4

\* ADR-008: while runs end within their lease and answers arrive, an effect is
\* repeated only through the window after a success, whatever crashes and
\* failed statements there are.
THEOREM RepeatsNeedWindows ==
    ASSUME "slow" \notin Faults, "lost" \notin Faults
    PROVE  ExecSpec => []RepeatsOnlyThroughWindow
<1>1. EffectInv => RepeatsOnlyThroughWindow
  BY DEF EffectInv, EffectsPaid, RepeatsOnlyThroughWindow
<1> QED
  BY <1>1, EffectInvInit, EffectInvStep, PTL DEF ExecSpec

=============================================================================
