---------------------------- MODULE PagingProofs ----------------------------
(* Nothing is skipped, for lists of any length, any limits and any number of *)
(* rows that come and go while they are read.                                *)
EXTENDS Paging, SequenceTheorems, TLAPS

(* A reader, and the rows it has still before it.                            *)
Readers ==
    [query: Queries, page: Nat \ {0}, seen: Seq(Ids), present: SUBSET Ids, done: BOOLEAN]

Position == Offset(reader.query, reader.page, reader.seen)
Before(id) == \E j \in 1..Len(list): j > Position /\ list[j] = id

(* No page asks for more than an answer holds.                               *)
Fits(q) == q.by = "offset" \/ Limit(q) <= Cap

Typed ==
    /\ newest \in 0..MaxRows /\ list \in Seq(Ids) /\ reader \in Readers /\ gone \in BOOLEAN
    /\ IsInjective(list) /\ \A j \in 1..Len(list): list[j] <= newest
    /\ Len(reader.seen) <= (reader.page - 1) * Cap
    /\ reader.present \subseteq ToSet(list)
StillBefore ==
    ~reader.done /\ Fits(reader.query) /\ ~gone =>
        \A id \in reader.present: id \in ToSet(reader.seen) \/ Before(id)
FullPages ==
    reader.query.source = "repositories" /\ ~reader.done =>
        Len(reader.seen) = (reader.page - 1) * Cap /\ reader.page <= MaxPages

IInv == Typed /\ StillBefore /\ FullPages /\ NothingSkipped

------------------------------------------------------------------------------
(* Numbers and lists.                                                        *)

LEMMA Numbers ==
    /\ Cap \in Nat /\ Cap >= 1 /\ MaxPages \in Nat /\ MaxPages >= 1 /\ MaxRows \in Nat
    /\ \A q \in Queries: /\ Limit(q) \in Nat /\ Limit(q) >= 1 /\ q.by \in {"page", "offset"}
                         /\ q.source = "repositories" => Limit(q) = Cap /\ q.by = "page"
                         /\ Capped(Limit(q)) \in Nat /\ Capped(Limit(q)) >= 1 /\ Capped(Limit(q)) <= Cap
                         /\ Limit(q) <= Cap => Capped(Limit(q)) = Limit(q)
<1>1. /\ Cap \in Nat /\ Cap >= 1 /\ MaxPages \in Nat /\ MaxPages >= 1 /\ MaxRows \in Nat
      /\ DefaultLimit \in Nat /\ DefaultLimit >= 1
  BY LimitsAssumption, BoundsAssumption
<1>2. ASSUME NEW q \in Queries
      PROVE  /\ Limit(q) \in Nat /\ Limit(q) >= 1 /\ q.by \in {"page", "offset"}
             /\ q.source = "repositories" => Limit(q) = Cap /\ q.by = "page"
  <2>1. /\ q.limit \in Nat /\ q.by \in {"page", "offset"}
        /\ q.source = "repositories" => q.limit = Cap /\ q.by = "page"
    BY <1>1, LimitsAssumption DEF Queries
  <2> QED
    BY <1>1, <2>1 DEF Limit
<1> QED
  BY <1>1, <1>2 DEF Capped

LEMMA Products ==
    ASSUME NEW a \in Nat \ {0}, NEW b \in Nat
    PROVE  (a - 1) * b \in Nat /\ ((a + 1) - 1) * b = (a - 1) * b + b
  OBVIOUS

\* Where a page ends.
LEMMA Ends ==
    ASSUME NEW l \in Nat, NEW offset \in Nat, NEW n \in Nat, n >= 1
    PROVE  LET m == IF offset + n < l THEN offset + n ELSE l
           IN  /\ m \in Int /\ m <= l
               /\ \A j \in 1..l: offset < j /\ j <= offset + n => j <= m
               /\ \A k \in Int: k = (IF offset + 1 <= m THEN m - (offset + 1) + 1 ELSE 0)
                      => k <= n /\ (k < n => l < offset + n) /\ (k = 0 => l <= offset)
  OBVIOUS

\* A page of a list.
LEMMA Pages ==
    ASSUME NEW s \in Seq(Ids), NEW offset \in Nat, NEW n \in Nat, n >= 1
    PROVE  LET a == SubSeq(s, offset + 1, IF offset + n < Len(s) THEN offset + n ELSE Len(s))
           IN  /\ a \in Seq(Ids) /\ Len(a) <= n
               /\ \A j \in 1..Len(s): offset < j /\ j <= offset + n => s[j] \in ToSet(a)
               /\ Len(a) < n => Len(s) < offset + n
               /\ a = <<>> => Len(s) <= offset
<1> DEFINE m == IF offset + n < Len(s) THEN offset + n ELSE Len(s)
           a == SubSeq(s, offset + 1, m)
<1>1. Len(s) \in Nat
  BY LenProperties
<1>2. \A i \in 1..Len(s): s[i] \in Ids
  BY ElementOfSeq
<1>3. /\ m \in Int /\ m <= Len(s)
      /\ \A j \in 1..Len(s): offset < j /\ j <= offset + n => j <= m
      /\ \A k \in Int: k = (IF offset + 1 <= m THEN m - (offset + 1) + 1 ELSE 0)
             => k <= n /\ (k < n => Len(s) < offset + n) /\ (k = 0 => Len(s) <= offset)
  <2> DEFINE l == Len(s)
  <2>1. l \in Nat
    BY <1>1
  <2> HIDE DEF l
  <2>2. LET e == IF offset + n < l THEN offset + n ELSE l
        IN  /\ e \in Int /\ e <= l
            /\ \A j \in 1..l: offset < j /\ j <= offset + n => j <= e
            /\ \A k \in Int: k = (IF offset + 1 <= e THEN e - (offset + 1) + 1 ELSE 0)
                   => k <= n /\ (k < n => l < offset + n) /\ (k = 0 => l <= offset)
    BY <2>1, Ends
  <2> QED
    BY <2>2, Zenon DEF l
<1> HIDE DEF m
<1>4. \A i \in (offset + 1)..m: s[i] \in Ids
  <2>1. \A i \in (offset + 1)..m: i \in 1..Len(s)
    BY <1>1, <1>3
  <2> QED
    BY <1>2, <2>1
<1>5. /\ a \in Seq(Ids) /\ Len(a) = (IF offset + 1 <= m THEN m - (offset + 1) + 1 ELSE 0)
      /\ \A i \in 1..(m - (offset + 1) + 1): a[i] = s[offset + 1 + i - 1]
  <2>1. offset + 1 \in Int /\ m \in Int
    BY <1>3
  <2> QED
    BY <1>4, <2>1, SubSeqProperties
<1> HIDE DEF a
<1>6. DOMAIN a = 1..Len(a) /\ Len(a) \in Int
  BY <1>5, LenProperties
<1>7. Len(a) <= n /\ (Len(a) < n => Len(s) < offset + n) /\ (Len(a) = 0 => Len(s) <= offset)
  BY <1>3, <1>5, <1>6
<1>8. ASSUME NEW j \in 1..Len(s), offset < j, j <= offset + n
      PROVE  s[j] \in ToSet(a)
  <2>1. j <= m /\ j \in Int
    BY <1>1, <1>3, <1>8
  <2>2. j - offset \in 1..(m - (offset + 1) + 1) /\ offset + 1 + (j - offset) - 1 = j
    BY <1>3, <1>8, <2>1
  <2>3. a[j - offset] = s[j]
    BY <1>5, <2>2
  <2>4. j - offset \in DOMAIN a
    BY <1>3, <1>5, <1>6, <2>1, <2>2
  <2> QED
    BY <2>3, <2>4 DEF ToSet
<1>9. a = <<>> => Len(a) = 0
  BY EmptySeq
<1> QED
  BY <1>5, <1>7, <1>8, <1>9 DEF a, m

\* What is added to a list at its end, or at any place, and what is taken out.
LEMMA Appended ==
    ASSUME NEW s \in Seq(Ids), NEW t \in Seq(Ids)
    PROVE  /\ s \o t \in Seq(Ids) /\ Len(s \o t) = Len(s) + Len(t)
           /\ ToSet(s) \subseteq ToSet(s \o t) /\ ToSet(t) \subseteq ToSet(s \o t)
<1>1. /\ s \o t \in Seq(Ids) /\ Len(s \o t) = Len(s) + Len(t)
      /\ \A i \in 1..(Len(s) + Len(t)): (s \o t)[i] = IF i <= Len(s) THEN s[i] ELSE t[i - Len(s)]
  BY ConcatProperties
<1>2. /\ DOMAIN s = 1..Len(s) /\ DOMAIN t = 1..Len(t) /\ DOMAIN (s \o t) = 1..Len(s \o t)
      /\ Len(s) \in Nat /\ Len(t) \in Nat
  BY <1>1, LenProperties
<1>3. ASSUME NEW i \in 1..Len(s)
      PROVE  s[i] \in ToSet(s \o t)
  <2>1. i \in DOMAIN (s \o t) /\ (s \o t)[i] = s[i]
    BY <1>1, <1>2
  <2> QED
    BY <2>1 DEF ToSet
<1>4. ASSUME NEW i \in 1..Len(t)
      PROVE  t[i] \in ToSet(s \o t)
  <2>1. Len(s) + i \in DOMAIN (s \o t) /\ (s \o t)[Len(s) + i] = t[i]
    BY <1>1, <1>2
  <2> QED
    BY <2>1 DEF ToSet
<1> QED
  BY <1>1, <1>2, <1>3, <1>4 DEF ToSet

LEMMA Inserted ==
    ASSUME NEW s \in Seq(Ids), NEW i \in 1..(Len(s) + 1), NEW e \in Ids
    PROVE  LET t == InsertAt(s, i, e)
           IN  /\ t \in Seq(Ids) /\ Len(t) = Len(s) + 1
               /\ \A j \in 1..(Len(s) + 1): t[j] = IF j < i THEN s[j] ELSE IF j = i THEN e ELSE s[j - 1]
<1> DEFINE left == SubSeq(s, 1, i - 1)
           right == SubSeq(s, i, Len(s))
<1>1. Len(s) \in Nat /\ \A k \in 1..Len(s): s[k] \in Ids
  BY LenProperties, ElementOfSeq
<1>2. left \in Seq(Ids) /\ Len(left) = i - 1 /\ \A k \in 1..(i - 1): left[k] = s[k]
  BY <1>1, SubSeqProperties
<1>3. right \in Seq(Ids) /\ Len(right) = Len(s) - i + 1 /\ \A k \in 1..(Len(s) - i + 1): right[k] = s[i + k - 1]
  BY <1>1, SubSeqProperties
<1>4. <<e>> \in Seq(Ids) /\ Len(<<e>>) = 1 /\ <<e>>[1] = e
  OBVIOUS
<1> HIDE DEF left, right
<1>5. left \o <<e>> \in Seq(Ids) /\ Len(left \o <<e>>) = i
      /\ \A k \in 1..i: (left \o <<e>>)[k] = IF k <= i - 1 THEN left[k] ELSE <<e>>[k - (i - 1)]
  BY <1>1, <1>2, <1>4, ConcatProperties
<1>6. /\ (left \o <<e>>) \o right \in Seq(Ids) /\ Len((left \o <<e>>) \o right) = Len(s) + 1
      /\ \A k \in 1..(Len(s) + 1): ((left \o <<e>>) \o right)[k]
                                   = IF k <= i THEN (left \o <<e>>)[k] ELSE right[k - i]
  <2>1. i + Len(right) = Len(s) + 1
    BY <1>1, <1>3
  <2> QED
    BY <1>3, <1>5, <2>1, ConcatProperties
<1>7. InsertAt(s, i, e) = (left \o <<e>>) \o right
  BY DEF InsertAt, left, right
<1>8. ASSUME NEW j \in 1..(Len(s) + 1)
      PROVE  InsertAt(s, i, e)[j] = IF j < i THEN s[j] ELSE IF j = i THEN e ELSE s[j - 1]
  <2>1. CASE j < i
    BY <1>1, <1>2, <1>5, <1>6, <1>7, <2>1
  <2>2. CASE j = i
    BY <1>1, <1>4, <1>5, <1>6, <1>7, <2>2
  <2>3. CASE j > i
    <3>1. j - i \in 1..(Len(s) - i + 1) /\ i + (j - i) - 1 = j - 1
      BY <1>1, <2>3
    <3> QED
      BY <1>1, <1>3, <1>6, <1>7, <2>3, <3>1
  <2> QED
    BY <1>1, <2>1, <2>2, <2>3
<1> QED
  BY <1>6, <1>7, <1>8

LEMMA Removed ==
    ASSUME NEW s \in Seq(Ids), NEW i \in 1..Len(s)
    PROVE  LET t == RemoveAt(s, i)
           IN  /\ t \in Seq(Ids) /\ Len(t) = Len(s) - 1
               /\ \A j \in 1..(Len(s) - 1): t[j] = IF j < i THEN s[j] ELSE s[j + 1]
<1> DEFINE left == SubSeq(s, 1, i - 1)
           right == SubSeq(s, i + 1, Len(s))
<1>1. Len(s) \in Nat /\ \A k \in 1..Len(s): s[k] \in Ids
  BY LenProperties, ElementOfSeq
<1>2. left \in Seq(Ids) /\ Len(left) = i - 1 /\ \A k \in 1..(i - 1): left[k] = s[k]
  BY <1>1, SubSeqProperties
<1>3. right \in Seq(Ids) /\ Len(right) = Len(s) - i /\ \A k \in 1..(Len(s) - i): right[k] = s[i + k]
  BY <1>1, SubSeqProperties
<1> HIDE DEF left, right
<1>4. /\ left \o right \in Seq(Ids) /\ Len(left \o right) = Len(s) - 1
      /\ \A k \in 1..(Len(s) - 1): (left \o right)[k] = IF k <= i - 1 THEN left[k] ELSE right[k - (i - 1)]
  <2>1. (i - 1) + Len(right) = Len(s) - 1
    BY <1>1, <1>3
  <2> QED
    <3>1. /\ left \o right \in Seq(Ids) /\ Len(left \o right) = Len(left) + Len(right)
          /\ \A k \in 1..(Len(left) + Len(right)):
               (left \o right)[k] = IF k <= Len(left) THEN left[k] ELSE right[k - Len(left)]
      BY <1>2, <1>3, ConcatProperties
    <3> QED
      BY <1>2, <2>1, <3>1
<1>5. RemoveAt(s, i) = left \o right
  BY DEF RemoveAt, left, right
<1>6. ASSUME NEW j \in 1..(Len(s) - 1)
      PROVE  RemoveAt(s, i)[j] = IF j < i THEN s[j] ELSE s[j + 1]
  <2>1. CASE j < i
    BY <1>1, <1>2, <1>4, <1>5, <2>1
  <2>2. CASE j >= i
    <3>1. j - (i - 1) \in 1..(Len(s) - i) /\ i + (j - (i - 1)) = j + 1
      BY <1>1, <2>2
    <3> QED
      BY <1>1, <1>3, <1>4, <1>5, <2>2, <3>1
  <2> QED
    BY <1>1, <2>1, <2>2
<1> QED
  BY <1>4, <1>5, <1>6

\* A row that is put into a list stands beside the others, which may be shifted.
LEMMA InsertedKeeps ==
    ASSUME NEW s \in Seq(Ids), NEW i \in 1..(Len(s) + 1), NEW e \in Ids,
           IsInjective(s), \A j \in 1..Len(s): s[j] # e
    PROVE  LET t == InsertAt(s, i, e)
           IN  /\ IsInjective(t) /\ ToSet(s) \subseteq ToSet(t)
               /\ \A j \in 1..Len(t): t[j] = e \/ \E k \in 1..Len(s): t[j] = s[k]
               /\ \A j \in 1..Len(s): \E k \in 1..Len(t): k >= j /\ t[k] = s[j]
<1> DEFINE t == InsertAt(s, i, e)
<1>1. /\ t \in Seq(Ids) /\ Len(t) = Len(s) + 1
      /\ \A j \in 1..(Len(s) + 1): t[j] = IF j < i THEN s[j] ELSE IF j = i THEN e ELSE s[j - 1]
  BY Inserted
<1>2. Len(s) \in Nat /\ DOMAIN s = 1..Len(s)
  BY LenProperties
<1> HIDE DEF t
<1>3. DOMAIN t = 1..(Len(s) + 1)
  BY <1>1, LenProperties
<1>4. ASSUME NEW a \in 1..(Len(s) + 1), NEW b \in 1..(Len(s) + 1), t[a] = t[b]
      PROVE  a = b
  <2>1. \A x, y \in 1..Len(s): s[x] = s[y] => x = y
    BY <1>2 DEF IsInjective
  <2>2. /\ a < i => t[a] = s[a] /\ a \in 1..Len(s)
        /\ a = i => t[a] = e
        /\ a > i => t[a] = s[a - 1] /\ a - 1 \in 1..Len(s)
    BY <1>1, <1>2
  <2>3. /\ b < i => t[b] = s[b] /\ b \in 1..Len(s)
        /\ b = i => t[b] = e
        /\ b > i => t[b] = s[b - 1] /\ b - 1 \in 1..Len(s)
    BY <1>1, <1>2
  <2> QED
    BY <1>2, <1>4, <2>1, <2>2, <2>3
<1>5. ASSUME NEW j \in 1..Len(s)
      PROVE  \E k \in 1..Len(t): k >= j /\ t[k] = s[j]
  <2>1. CASE j < i
    <3>1. j \in 1..Len(t) /\ j >= j /\ t[j] = s[j]
      BY <1>1, <1>2, <2>1
    <3> QED
      BY <3>1
  <2>2. CASE j >= i
    <3>1. j + 1 \in 1..Len(t) /\ j + 1 >= j /\ t[j + 1] = s[j]
      BY <1>1, <1>2, <2>2
    <3> QED
      BY <3>1
  <2> QED
    BY <1>2, <2>1, <2>2
<1>6. ASSUME NEW j \in 1..Len(t)
      PROVE  t[j] = e \/ \E k \in 1..Len(s): t[j] = s[k]
  <2>1. j < i => j \in 1..Len(s) /\ t[j] = s[j]
    BY <1>1, <1>2
  <2>2. j > i => j - 1 \in 1..Len(s) /\ t[j] = s[j - 1]
    BY <1>1, <1>2
  <2>3. j = i => t[j] = e
    BY <1>1, <1>2
  <2>4. j < i \/ j = i \/ j > i
    BY <1>1, <1>2
  <2> QED
    BY <2>1, <2>2, <2>3, <2>4
<1>7. ToSet(s) \subseteq ToSet(t)
  <2>1. \A x \in ToSet(s): \E j \in 1..Len(s): x = s[j]
    BY <1>2 DEF ToSet
  <2>2. \A k \in 1..Len(t): t[k] \in ToSet(t)
    BY <1>1, <1>3 DEF ToSet
  <2> QED
    BY <1>5, <2>1, <2>2
<1>8. IsInjective(t)
  BY <1>3, <1>4 DEF IsInjective
<1> QED
  BY <1>5, <1>6, <1>7, <1>8 DEF t

\* A list without one of its rows has the others, once each.
LEMMA RemovedKeeps ==
    ASSUME NEW s \in Seq(Ids), NEW i \in 1..Len(s), IsInjective(s)
    PROVE  LET t == RemoveAt(s, i)
           IN  /\ IsInjective(t) /\ ToSet(s) \ {s[i]} \subseteq ToSet(t)
               /\ \A j \in 1..Len(t): \E k \in 1..Len(s): t[j] = s[k] /\ k # i
<1> DEFINE t == RemoveAt(s, i)
<1>1. /\ t \in Seq(Ids) /\ Len(t) = Len(s) - 1
      /\ \A j \in 1..(Len(s) - 1): t[j] = IF j < i THEN s[j] ELSE s[j + 1]
  BY Removed
<1>2. Len(s) \in Nat /\ DOMAIN s = 1..Len(s)
  BY LenProperties
<1> HIDE DEF t
<1>3. DOMAIN t = 1..(Len(s) - 1)
  BY <1>1, LenProperties
<1>4. ASSUME NEW a \in 1..(Len(s) - 1), NEW b \in 1..(Len(s) - 1), t[a] = t[b]
      PROVE  a = b
  <2>1. \A x, y \in 1..Len(s): s[x] = s[y] => x = y
    BY <1>2 DEF IsInjective
  <2>2. /\ a < i => t[a] = s[a] /\ a \in 1..Len(s)
        /\ a >= i => t[a] = s[a + 1] /\ a + 1 \in 1..Len(s)
    BY <1>1, <1>2
  <2>3. /\ b < i => t[b] = s[b] /\ b \in 1..Len(s)
        /\ b >= i => t[b] = s[b + 1] /\ b + 1 \in 1..Len(s)
    BY <1>1, <1>2
  <2> QED
    BY <1>2, <1>4, <2>1, <2>2, <2>3
<1>5. ASSUME NEW k \in 1..Len(s), k # i
      PROVE  s[k] \in ToSet(t)
  <2>1. CASE k < i
    <3>1. k \in DOMAIN t /\ t[k] = s[k]
      BY <1>1, <1>2, <1>3, <2>1
    <3> QED
      BY <3>1 DEF ToSet
  <2>2. CASE k > i
    <3>1. k - 1 \in DOMAIN t /\ t[k - 1] = s[k]
      BY <1>1, <1>2, <1>3, <2>2
    <3> QED
      BY <3>1 DEF ToSet
  <2> QED
    BY <1>2, <1>5, <2>1, <2>2
<1>6. ASSUME NEW j \in 1..Len(t)
      PROVE  \E k \in 1..Len(s): t[j] = s[k] /\ k # i
  <2>1. j < i => j \in 1..Len(s) /\ t[j] = s[j] /\ j # i
    BY <1>1, <1>2
  <2>2. j >= i => j + 1 \in 1..Len(s) /\ t[j] = s[j + 1] /\ j + 1 # i
    BY <1>1, <1>2
  <2>3. j < i \/ j >= i
    BY <1>1, <1>2
  <2> QED
    BY <2>1, <2>2, <2>3
<1>7. ToSet(s) \ {s[i]} \subseteq ToSet(t)
  BY <1>2, <1>5 DEF ToSet
<1>8. IsInjective(t)
  BY <1>3, <1>4 DEF IsInjective
<1> QED
  BY <1>6, <1>7, <1>8 DEF t

\* What an answer holds, and where the next one begins.
LEMMA Answered ==
    ASSUME NEW q \in Queries, NEW page \in Nat \ {0}, NEW seen \in Seq(Ids), list \in Seq(Ids)
    PROVE  LET a == Answer(q, page, seen)
               o == Offset(q, page, seen)
           IN  /\ a \in Seq(Ids) /\ Len(a) <= Capped(Limit(q)) /\ o \in Nat
               /\ \A j \in 1..Len(list): j > o =>
                    \/ list[j] \in ToSet(seen \o a)
                    \/ Fits(q) => j > Offset(q, page + 1, seen \o a)
               /\ a = <<>> \/ Len(a) < Capped(Limit(q)) =>
                    \A j \in 1..Len(list): j > o => list[j] \in ToSet(seen \o a)
<1> DEFINE o == Offset(q, page, seen)
           n == Capped(Limit(q))
           a == Answer(q, page, seen)
<1>1. n \in Nat /\ n >= 1
  BY Numbers
<1>2. o \in Nat
  <2>1. Len(seen) \in Nat
    BY LenProperties
  <2>2. (page - 1) * Limit(q) \in Nat
    BY Numbers, Products
  <2> QED
    BY <2>1, <2>2 DEF Offset
<1>3. a = SubSeq(list, o + 1, IF o + n < Len(list) THEN o + n ELSE Len(list))
  BY DEF Answer
<1>4. Len(list) \in Nat
  BY LenProperties
<1> HIDE DEF a, n, o
<1>5. /\ a \in Seq(Ids) /\ Len(a) <= n
      /\ \A j \in 1..Len(list): o < j /\ j <= o + n => list[j] \in ToSet(a)
      /\ Len(a) < n => Len(list) < o + n
      /\ a = <<>> => Len(list) <= o
  BY <1>1, <1>2, <1>3, Pages
<1>6. ToSet(a) \subseteq ToSet(seen \o a) /\ Len(seen \o a) = Len(seen) + Len(a)
  BY <1>5, Appended
<1>7. ASSUME Fits(q)
      PROVE  Offset(q, page + 1, seen \o a) <= o + n
  <2>1. CASE q.by = "offset"
    <3>1. Offset(q, page + 1, seen \o a) = Len(seen \o a) /\ o = Len(seen)
      BY <2>1 DEF Offset, o
    <3>2. Len(seen) \in Nat /\ Len(a) \in Nat
      BY <1>5, LenProperties
    <3> QED
      BY <1>1, <1>5, <1>6, <3>1, <3>2
  <2>2. CASE q.by # "offset"
    <3>1. Offset(q, page + 1, seen \o a) = ((page + 1) - 1) * Limit(q) /\ o = (page - 1) * Limit(q)
      BY <2>2 DEF Offset, o
    <3>2. n = Limit(q) /\ Limit(q) \in Nat
      BY <1>7, <2>2, Numbers DEF Fits, n
    <3>3. ((page + 1) - 1) * Limit(q) = (page - 1) * Limit(q) + Limit(q)
      BY <3>2, Products
    <3> QED
      BY <1>2, <3>1, <3>2, <3>3
  <2> QED
    BY <2>1, <2>2
<1>8. Fits(q) => Offset(q, page + 1, seen \o a) \in Int
  <2>1. Len(seen \o a) \in Nat
    BY <1>5, Appended, LenProperties
  <2>2. page + 1 \in Nat \ {0}
    OBVIOUS
  <2>3. ((page + 1) - 1) * Limit(q) \in Nat
    BY <2>2, Numbers, Products
  <2> QED
    BY <2>1, <2>3 DEF Offset
<1>9. ASSUME NEW j \in 1..Len(list), j > o, list[j] \notin ToSet(seen \o a), Fits(q)
      PROVE  j > Offset(q, page + 1, seen \o a)
  <2>1. ~(j <= o + n)
    BY <1>5, <1>6, <1>9
  <2> QED
    BY <1>1, <1>2, <1>4, <1>7, <1>8, <1>9, <2>1
<1>10. ASSUME a = <<>> \/ Len(a) < n, NEW j \in 1..Len(list), j > o
       PROVE  list[j] \in ToSet(seen \o a)
  <2>1. j <= o + n
    BY <1>1, <1>2, <1>4, <1>5, <1>10
  <2> QED
    BY <1>5, <1>6, <1>10, <2>1
<1> QED
  BY <1>2, <1>5, <1>9, <1>10 DEF a, n, o

------------------------------------------------------------------------------
(* The invariant.                                                            *)

LEMMA InitInv ==
    ASSUME Init
    PROVE  IInv
<1>1. newest \in 0..MaxRows /\ newest \in Nat
  BY Numbers DEF Init
<1>2. list = [i \in 1..newest |-> newest + 1 - i] /\ gone = FALSE
  BY DEF Init
<1>3. list \in Seq(Ids)
  <2>1. \A i \in 1..newest: newest + 1 - i \in Ids
    BY <1>1, Numbers DEF Ids
  <2> QED
    BY <1>1, <1>2, <2>1
<1>4. Len(list) = newest /\ DOMAIN list = 1..newest
  BY <1>1, <1>2
<1>5. \A i \in 1..newest: list[i] = newest + 1 - i
  BY <1>2
<1>6. IsInjective(list) /\ \A j \in 1..Len(list): list[j] <= newest
  BY <1>1, <1>4, <1>5 DEF IsInjective
<1>7. ToSet(list) \subseteq Ids
  BY <1>3, <1>4, ElementOfSeq DEF ToSet
<1>8. PICK q \in Queries:
        reader = [query |-> q, page |-> 1, seen |-> <<>>, present |-> ToSet(list), done |-> FALSE]
  BY DEF Init
<1>9. /\ reader.query = q /\ reader.page = 1 /\ reader.seen = <<>> /\ reader.present = ToSet(list)
      /\ reader.done = FALSE /\ Len(reader.seen) = 0
  BY <1>8
<1>10. reader \in Readers
  <2>1. <<>> \in Seq(Ids)
    BY EmptySeq
  <2> QED
    BY <1>7, <1>8, <2>1 DEF Readers
<1>11. (reader.page - 1) * Cap = 0 /\ (reader.page - 1) * Limit(q) = 0
  BY <1>9, Numbers
<1>12. Typed
  <2>1. gone \in BOOLEAN
    BY <1>2
  <2>2. Len(reader.seen) <= (reader.page - 1) * Cap
    BY <1>9, <1>11
  <2>3. reader.present \subseteq ToSet(list)
    BY <1>9
  <2> QED
    BY <1>1, <1>3, <1>6, <1>10, <2>1, <2>2, <2>3 DEF Typed
<1>13. StillBefore
  <2>1. Position = 0
    BY <1>9, <1>11 DEF Position, Offset
  <2>2. ASSUME NEW id \in reader.present
        PROVE  Before(id)
    <3>1. PICK j \in 1..Len(list): list[j] = id
      BY <1>4, <1>9 DEF ToSet
    <3>2. j > Position
      BY <1>1, <1>4, <2>1
    <3> QED
      BY <3>1, <3>2 DEF Before
  <2> QED
    BY <2>2 DEF StillBefore
<1>14. FullPages
  BY <1>9, <1>11, Numbers DEF FullPages
<1>15. NothingSkipped
  BY <1>9 DEF NothingSkipped
<1> QED
  BY <1>12, <1>13, <1>14, <1>15 DEF IInv

\* What both readers do with an answer.
LEMMA ReadStep ==
    ASSUME IInv, ~reader.done, UNCHANGED <<list, newest, gone>>,
           NEW end \in BOOLEAN, NEW seen,
           seen = reader.seen \o Answer(reader.query, reader.page, reader.seen),
           reader' = [reader EXCEPT !.seen = seen, !.page = @ + 1, !.done = end]
    PROVE  /\ Typed' /\ StillBefore'
           /\ reader'.done = end /\ reader'.query = reader.query /\ reader'.page = reader.page + 1
           /\ Len(reader'.seen) = Len(reader.seen) + Len(Answer(reader.query, reader.page, reader.seen))
           /\ Fits(reader.query) /\ ~gone /\ (\/ Answer(reader.query, reader.page, reader.seen) = <<>>
                                              \/ Len(Answer(reader.query, reader.page, reader.seen))
                                                    < Capped(Limit(reader.query)))
                => reader'.present \subseteq ToSet(reader'.seen)
<1> DEFINE q == reader.query
           a == Answer(q, reader.page, reader.seen)
<1>1. /\ reader \in Readers /\ list \in Seq(Ids) /\ Len(reader.seen) <= (reader.page - 1) * Cap
      /\ reader.present \subseteq ToSet(list) /\ StillBefore
  BY DEF IInv, Typed
<1>2. q \in Queries /\ reader.page \in Nat \ {0} /\ reader.seen \in Seq(Ids)
  BY <1>1 DEF Readers
<1>3. /\ a \in Seq(Ids) /\ Len(a) <= Capped(Limit(q)) /\ Offset(q, reader.page, reader.seen) \in Nat
      /\ \A j \in 1..Len(list): j > Offset(q, reader.page, reader.seen) =>
           \/ list[j] \in ToSet(seen)
           \/ Fits(q) => j > Offset(q, reader.page + 1, seen)
      /\ a = <<>> \/ Len(a) < Capped(Limit(q)) =>
           \A j \in 1..Len(list): j > Offset(q, reader.page, reader.seen) => list[j] \in ToSet(seen)
  BY <1>1, <1>2, Answered
<1>4. /\ seen \in Seq(Ids) /\ Len(seen) = Len(reader.seen) + Len(a)
      /\ ToSet(reader.seen) \subseteq ToSet(seen)
  BY <1>2, <1>3, Appended
<1> HIDE DEF a
<1>6. /\ reader' \in Readers /\ reader'.query = q /\ reader'.page = reader.page + 1
      /\ reader'.seen = seen /\ reader'.present = reader.present /\ reader'.done = end
  <2>1. reader.page + 1 \in Nat \ {0}
    BY <1>2
  <2>2. reader' \in Readers
    BY <1>1, <1>4, <2>1 DEF Readers
  <2>3. /\ reader'.query = q /\ reader'.page = reader.page + 1
        /\ reader'.seen = seen /\ reader'.present = reader.present /\ reader'.done = end
    BY <1>1 DEF Readers
  <2> QED
    BY <2>2, <2>3
<1>7. Len(seen) <= ((reader.page + 1) - 1) * Cap
  <2>1. ((reader.page + 1) - 1) * Cap = (reader.page - 1) * Cap + Cap /\ (reader.page - 1) * Cap \in Nat
    BY <1>2, Numbers, Products
  <2>2. Len(a) <= Cap /\ Len(a) \in Nat /\ Len(reader.seen) \in Nat
    <3>1. Capped(Limit(q)) \in Nat /\ Capped(Limit(q)) <= Cap /\ Cap \in Nat
      BY <1>2, Numbers
    <3>2. Len(a) \in Nat /\ Len(reader.seen) \in Nat
      BY <1>2, <1>3, LenProperties
    <3> QED
      BY <1>3, <3>1, <3>2
  <2> QED
    BY <1>1, <1>4, <2>1, <2>2, Numbers
<1>8. Typed'
  <2>1. Len(reader'.seen) <= (reader'.page - 1) * Cap
    BY <1>6, <1>7
  <2>2. Typed
    BY DEF IInv
  <2> QED
    BY <1>1, <1>6, <2>1, <2>2 DEF Typed
<1>9. ASSUME Fits(q), ~gone, NEW id \in reader.present
      PROVE  \/ id \in ToSet(reader.seen)
             \/ \E j \in 1..Len(list): j > Offset(q, reader.page, reader.seen) /\ list[j] = id
  BY <1>1, <1>9 DEF StillBefore, Before, Position
<1>10. StillBefore'
  <2>1. SUFFICES ASSUME Fits(q), ~gone, NEW id \in reader.present, id \notin ToSet(seen)
                 PROVE  \E j \in 1..Len(list): j > Offset(q, reader.page + 1, seen) /\ list[j] = id
    BY <1>6 DEF StillBefore, Before, Position
  <2>2. PICK j \in 1..Len(list): j > Offset(q, reader.page, reader.seen) /\ list[j] = id
    BY <1>4, <1>9, <2>1
  <2> QED
    BY <1>3, <2>1, <2>2
<1>11. Fits(q) /\ ~gone /\ (a = <<>> \/ Len(a) < Capped(Limit(q))) => reader.present \subseteq ToSet(seen)
  <2>1. ASSUME Fits(q), ~gone, a = <<>> \/ Len(a) < Capped(Limit(q)), NEW id \in reader.present
        PROVE  id \in ToSet(seen)
    BY <1>3, <1>4, <1>9, <2>1
  <2> QED
    BY <2>1
<1> QED
  BY <1>4, <1>6, <1>8, <1>10, <1>11 DEF a

LEMMA ListActivityInv ==
    ASSUME IInv, ListActivity
    PROVE  IInv'
<1> DEFINE a == Answer(reader.query, reader.page, reader.seen)
<1>1. /\ reader.query.source = "activity" /\ ~reader.done /\ UNCHANGED <<list, newest, gone>>
      /\ reader' = [reader EXCEPT !.seen = @ \o a, !.page = @ + 1, !.done = (a = <<>>)]
  BY DEF ListActivity
<1>2. (a = <<>>) \in BOOLEAN
  OBVIOUS
<1>3. /\ Typed' /\ StillBefore'
      /\ reader'.done = (a = <<>>) /\ reader'.query = reader.query
      /\ Fits(reader.query) /\ ~gone /\ a = <<>> => reader'.present \subseteq ToSet(reader'.seen)
  BY <1>1, <1>2, ReadStep
<1>4. FullPages'
  BY <1>1, <1>3 DEF FullPages
<1>5. NothingSkipped'
  <2>1. reader.query \in Queries
    BY DEF IInv, Typed, Readers
  <2>2. Fits(reader.query) \/ (reader.query.by = "page" /\ Limit(reader.query) > Cap)
    BY <2>1, Numbers DEF Fits
  <2> QED
    BY <1>1, <1>3, <2>2 DEF NothingSkipped
<1> QED
  BY <1>3, <1>4, <1>5 DEF IInv

LEMMA ListRepositoriesInv ==
    ASSUME IInv, ListRepositories
    PROVE  IInv'
<1> DEFINE a == Answer(reader.query, reader.page, reader.seen)
           end == Len(a) < Cap \/ reader.page = MaxPages
<1>1. /\ reader.query.source = "repositories" /\ ~reader.done /\ UNCHANGED <<list, newest, gone>>
      /\ reader' = [reader EXCEPT !.seen = @ \o a, !.page = @ + 1, !.done = end]
  BY DEF ListRepositories
<1>2. end \in BOOLEAN
  OBVIOUS
<1>3. /\ reader.query \in Queries /\ reader.page \in Nat \ {0} /\ reader.seen \in Seq(Ids) /\ list \in Seq(Ids)
      /\ Len(reader.seen) = (reader.page - 1) * Cap /\ reader.page <= MaxPages
  BY <1>1 DEF IInv, Typed, Readers, FullPages
<1>4. Limit(reader.query) = Cap /\ Fits(reader.query) /\ Capped(Limit(reader.query)) = Cap
  BY <1>1, <1>3, Numbers DEF Fits, Capped
<1>5. a \in Seq(Ids) /\ Len(a) <= Cap
  BY <1>3, <1>4, Answered
<1> HIDE DEF end
<1>6. /\ Typed' /\ StillBefore'
      /\ reader'.done = end /\ reader'.query = reader.query /\ reader'.page = reader.page + 1
      /\ Len(reader'.seen) = Len(reader.seen) + Len(a)
      /\ ~gone /\ Len(a) < Cap => reader'.present \subseteq ToSet(reader'.seen)
  BY <1>1, <1>2, <1>4, ReadStep
<1>7. ~(Len(a) < Cap) => Len(reader'.seen) = reader.page * Cap
  <2>1. ((reader.page + 1) - 1) * Cap = (reader.page - 1) * Cap + Cap
    BY <1>3, Numbers, Products
  <2>2. (reader.page + 1) - 1 = reader.page
    BY <1>3
  <2>3. Len(a) \in Nat /\ Cap \in Nat
    BY <1>5, Numbers, LenProperties
  <2>4. ~(Len(a) < Cap) => Len(a) = Cap
    BY <1>5, <2>3
  <2> QED
    BY <1>3, <1>6, <2>1, <2>2, <2>4
<1>8. FullPages'
  <2>1. SUFFICES ASSUME ~end
                 PROVE  Len(reader'.seen) = (reader'.page - 1) * Cap /\ reader'.page <= MaxPages
    BY <1>6, Zenon DEF FullPages
  <2>2. ~(Len(a) < Cap) /\ reader.page # MaxPages
    BY <2>1 DEF end
  <2>3. (reader.page + 1) - 1 = reader.page /\ reader.page + 1 <= MaxPages
    BY <1>3, <2>2, Numbers
  <2> QED
    BY <1>6, <1>7, <2>2, <2>3
<1>9. NothingSkipped'
  <2>1. SUFFICES ASSUME end, ~gone, ~(reader'.present \subseteq ToSet(reader'.seen))
                 PROVE  Len(reader'.seen) = MaxPages * Cap
    BY <1>1, <1>6 DEF NothingSkipped
  <2>2. ~(Len(a) < Cap) /\ reader.page = MaxPages
    BY <1>6, <2>1 DEF end
  <2> QED
    BY <1>7, <2>2
<1> QED
  BY <1>6, <1>8, <1>9 DEF IInv

\* A list that changes under a reader who is still reading.
LEMMA InsertInv ==
    ASSUME IInv, ~reader.done, Insert
    PROVE  IInv'
<1>1. /\ newest \in 0..MaxRows /\ list \in Seq(Ids) /\ IsInjective(list)
      /\ \A j \in 1..Len(list): list[j] <= newest
  BY DEF IInv, Typed
<1>2. newest < MaxRows /\ newest' = newest + 1 /\ reader' = reader /\ gone' = gone
  BY DEF Insert
<1>3. PICK i \in 1..(Len(list) + 1): list' = InsertAt(list, i, newest + 1)
  BY DEF Insert
<1>4. newest + 1 \in Ids /\ newest \in Int /\ newest' \in 0..MaxRows
  BY <1>1, <1>2, Numbers DEF Ids
<1>5. \A j \in 1..Len(list): list[j] \in Int /\ list[j] # newest + 1
  <2>1. \A j \in 1..Len(list): list[j] \in Ids
    BY <1>1, ElementOfSeq
  <2> QED
    BY <1>1, <1>4, <2>1 DEF Ids
<1>6. list' \in Seq(Ids)
  BY <1>1, <1>3, <1>4, Inserted
<1>7. /\ IsInjective(list') /\ ToSet(list) \subseteq ToSet(list')
      /\ \A j \in 1..Len(list'): list'[j] = newest + 1 \/ \E k \in 1..Len(list): list'[j] = list[k]
      /\ \A j \in 1..Len(list): \E k \in 1..Len(list'): k >= j /\ list'[k] = list[j]
  BY <1>1, <1>3, <1>4, <1>5, InsertedKeeps
<1>8. ASSUME NEW j \in 1..Len(list')
      PROVE  list'[j] <= newest'
  <2>1. newest + 1 <= newest + 1 /\ \A k \in 1..Len(list): list[k] <= newest + 1
    BY <1>1, <1>4, <1>5
  <2> QED
    BY <1>2, <1>7, <2>1
<1>9. Typed'
  BY <1>2, <1>4, <1>6, <1>7, <1>8 DEF IInv, Typed
<1>10. StillBefore'
  <2>1. SUFFICES ASSUME NEW id, Before(id)
                 PROVE  \E k \in 1..Len(list'): k > Position /\ list'[k] = id
    BY <1>2 DEF IInv, StillBefore, Before, Position
  <2>2. PICK j \in 1..Len(list): j > Position /\ list[j] = id
    BY <2>1 DEF Before
  <2>3. PICK k \in 1..Len(list'): k >= j /\ list'[k] = list[j]
    BY <1>7, <2>2
  <2>4. Position \in Nat
    BY <1>1, Answered DEF IInv, Typed, Readers, Position
  <2>5. Len(list) \in Nat /\ Len(list') \in Nat
    BY <1>1, <1>6, LenProperties
  <2>6. k > Position
    BY <2>2, <2>3, <2>4, <2>5
  <2> QED
    BY <2>2, <2>3, <2>6
<1>11. FullPages' /\ NothingSkipped'
  BY <1>2 DEF IInv, FullPages, NothingSkipped
<1> QED
  BY <1>9, <1>10, <1>11 DEF IInv

LEMMA UpdateInv ==
    ASSUME IInv, ~reader.done, NEW i \in DOMAIN list, Update(i)
    PROVE  IInv'
<1> DEFINE t == RemoveAt(list, i)
<1>1. /\ newest \in 0..MaxRows /\ list \in Seq(Ids) /\ IsInjective(list) /\ reader \in Readers
      /\ (\A j \in 1..Len(list): list[j] <= newest) /\ reader.present \subseteq ToSet(list)
      /\ Len(reader.seen) <= (reader.page - 1) * Cap /\ gone \in BOOLEAN
  BY DEF IInv, Typed
<1>2. /\ list' = <<list[i]>> \o t /\ newest' = newest /\ gone' = gone
      /\ reader' = [reader EXCEPT !.present = @ \ {list[i]}]
  BY DEF Update
<1>3. /\ reader' \in Readers /\ reader'.query = reader.query /\ reader'.page = reader.page
      /\ reader'.seen = reader.seen /\ reader'.done = reader.done /\ reader'.present = reader.present \ {list[i]}
  BY <1>1, <1>2 DEF Readers
<1>4. i \in 1..Len(list) /\ Len(list) \in Nat /\ DOMAIN list = 1..Len(list)
  BY <1>1, LenProperties
<1>5. list[i] \in Ids
  BY <1>1, <1>4, ElementOfSeq
<1>6. /\ t \in Seq(Ids) /\ Len(t) = Len(list) - 1
      /\ \A j \in 1..(Len(list) - 1): t[j] = IF j < i THEN list[j] ELSE list[j + 1]
  BY <1>1, <1>4, Removed
<1>7. /\ IsInjective(t) /\ ToSet(list) \ {list[i]} \subseteq ToSet(t)
      /\ \A j \in 1..Len(t): \E k \in 1..Len(list): t[j] = list[k] /\ k # i
  BY <1>1, <1>4, RemovedKeeps
<1> HIDE DEF t
<1>8. <<list[i]>> \in Seq(Ids) /\ Len(<<list[i]>>) = 1 /\ <<list[i]>>[1] = list[i]
  BY <1>5
<1>9. /\ list' \in Seq(Ids) /\ Len(list') = Len(list)
      /\ list'[1] = list[i]
      /\ \A j \in 1..Len(t): list'[j + 1] = t[j]
  <2>1. /\ list' \in Seq(Ids) /\ Len(list') = 1 + Len(t)
        /\ \A k \in 1..(1 + Len(t)): list'[k] = IF k <= 1 THEN <<list[i]>>[k] ELSE t[k - 1]
    BY <1>2, <1>6, <1>8, ConcatProperties
  <2>2. Len(t) \in Nat
    BY <1>6, LenProperties
  <2>3. \A j \in 1..Len(t): j + 1 \in 1..(1 + Len(t)) /\ ~(j + 1 <= 1) /\ (j + 1) - 1 = j
    BY <2>2
  <2>4. \A j \in 1..Len(t): list'[j + 1] = t[j]
    BY <2>1, <2>3
  <2>5. list'[1] = list[i]
    BY <1>8, <2>1, <2>2
  <2>6. 1 + Len(t) = Len(list)
    BY <1>4, <1>6
  <2> QED
    BY <2>1, <2>4, <2>5, <2>6
<1>10. \A x, y \in 1..Len(list): list[x] = list[y] => x = y
  BY <1>1, <1>4 DEF IsInjective
<1>11. \A j \in 1..Len(list'): \/ j = 1 /\ list'[j] = list[i]
                               \/ /\ j - 1 \in 1..Len(t) /\ list'[j] = t[j - 1]
                                  /\ \E k \in 1..Len(list): t[j - 1] = list[k] /\ k # i
  <2>1. ASSUME NEW j \in 1..Len(list'), j # 1
        PROVE  j - 1 \in 1..Len(t) /\ list'[j] = t[j - 1]
    <3>1. j - 1 \in 1..Len(t) /\ (j - 1) + 1 = j
      BY <1>4, <1>6, <1>9, <2>1
    <3> QED
      BY <1>9, <3>1
  <2> QED
    BY <1>7, <1>9, <2>1
<1>12. DOMAIN list' = 1..Len(list')
  BY <1>9, LenProperties
<1>13. IsInjective(list')
  <2>1. SUFFICES ASSUME NEW a \in 1..Len(list'), NEW b \in 1..Len(list'), list'[a] = list'[b]
                 PROVE  a = b
    BY <1>12 DEF IsInjective
  <2>2. \A x, y \in 1..Len(t): t[x] = t[y] => x = y
    BY <1>6, <1>7, LenProperties DEF IsInjective
  <2>3. a \in Int /\ b \in Int
    BY <1>4, <1>9
  <2>4. CASE a = 1 \/ b = 1
    BY <1>4, <1>10, <1>11, <2>1, <2>4
  <2>5. CASE a # 1 /\ b # 1
    <3>1. a - 1 = b - 1
      BY <1>11, <2>1, <2>2, <2>5
    <3> QED
      BY <2>3, <3>1
  <2> QED
    BY <2>4, <2>5
<1>14. \A j \in 1..Len(list'): list'[j] <= newest'
  BY <1>1, <1>2, <1>4, <1>11
<1>15. \A x \in reader'.present: x \in ToSet(list')
  <2>1. SUFFICES ASSUME NEW x \in ToSet(t)
                 PROVE  x \in ToSet(list')
    BY <1>1, <1>3, <1>7
  <2>2. PICK j \in 1..Len(t): t[j] = x
    BY <1>6, LenProperties DEF ToSet
  <2>3. j + 1 \in DOMAIN list' /\ list'[j + 1] = x
    BY <1>4, <1>6, <1>9, <1>12, <2>2
  <2> QED
    BY <2>3 DEF ToSet
<1>16. Typed'
  <2>1. newest' \in 0..MaxRows /\ gone' \in BOOLEAN /\ Len(reader'.seen) <= (reader'.page - 1) * Cap
    BY <1>1, <1>2, <1>3
  <2>2. reader'.present \subseteq ToSet(list')
    BY <1>15
  <2> QED
    BY <1>3, <1>9, <1>13, <1>14, <2>1, <2>2 DEF Typed
<1>17. StillBefore'
  <2>1. SUFFICES ASSUME NEW id, id # list[i], Before(id)
                 PROVE  \E k \in 1..Len(list'): k > Position /\ list'[k] = id
    BY <1>2, <1>3 DEF IInv, StillBefore, Before, Position
  <2>2. PICK j \in 1..Len(list): j > Position /\ list[j] = id
    BY <2>1 DEF Before
  <2>3. Position \in Nat
    BY <1>1, Answered DEF Readers, Position
  <2>4. CASE j < i
    <3>1. j \in 1..Len(t) /\ t[j] = list[j] /\ j + 1 \in 1..Len(list') /\ j + 1 > Position
      BY <1>4, <1>6, <1>9, <2>2, <2>3, <2>4
    <3> QED
      BY <1>9, <2>2, <3>1
  <2>5. CASE j > i
    <3>1. /\ j - 1 \in 1..Len(t) /\ t[j - 1] = list[(j - 1) + 1] /\ (j - 1) + 1 = j
      BY <1>4, <1>6, <2>2, <2>5
    <3>2. list'[j] = list[j] /\ j \in 1..Len(list')
      BY <1>9, <3>1
    <3> QED
      BY <2>2, <3>2
  <2>6. j < i \/ j > i
    BY <1>4, <2>1, <2>2
  <2> QED
    BY <2>4, <2>5, <2>6
<1>18. FullPages' /\ NothingSkipped'
  BY <1>3 DEF IInv, FullPages, NothingSkipped
<1> QED
  BY <1>16, <1>17, <1>18 DEF IInv

LEMMA WithdrawInv ==
    ASSUME IInv, ~reader.done, NEW i \in DOMAIN list, Withdraw(i)
    PROVE  IInv'
<1>1. /\ newest \in 0..MaxRows /\ list \in Seq(Ids) /\ IsInjective(list) /\ reader \in Readers
      /\ (\A j \in 1..Len(list): list[j] <= newest) /\ reader.present \subseteq ToSet(list)
      /\ Len(reader.seen) <= (reader.page - 1) * Cap
  BY DEF IInv, Typed
<1>2. /\ list' = RemoveAt(list, i) /\ newest' = newest /\ gone' = TRUE
      /\ reader' = [reader EXCEPT !.present = @ \ {list[i]}]
  BY DEF Withdraw
<1>3. /\ reader' \in Readers /\ reader'.query = reader.query /\ reader'.page = reader.page
      /\ reader'.seen = reader.seen /\ reader'.done = reader.done /\ reader'.present = reader.present \ {list[i]}
  BY <1>1, <1>2 DEF Readers
<1>4. i \in 1..Len(list)
  BY <1>1, LenProperties
<1>5. list' \in Seq(Ids)
  BY <1>1, <1>2, <1>4, Removed
<1>6. /\ IsInjective(list') /\ ToSet(list) \ {list[i]} \subseteq ToSet(list')
      /\ \A j \in 1..Len(list'): \E k \in 1..Len(list): list'[j] = list[k] /\ k # i
  BY <1>1, <1>2, <1>4, RemovedKeeps
<1>7. \A j \in 1..Len(list'): list'[j] <= newest'
  BY <1>1, <1>2, <1>6
<1>8. Typed'
  BY <1>1, <1>2, <1>3, <1>5, <1>6, <1>7 DEF Typed
<1>9. StillBefore' /\ FullPages' /\ NothingSkipped'
  BY <1>2, <1>3 DEF IInv, StillBefore, FullPages, NothingSkipped
<1> QED
  BY <1>8, <1>9 DEF IInv

THEOREM Invariance == Spec => []IInv
<1>1. Init => IInv
  BY InitInv
<1>2. IInv /\ [Next]_vars => IInv'
  <2> SUFFICES ASSUME IInv, [Next]_vars
               PROVE  IInv'
    OBVIOUS
  <2>1. CASE ListActivity
    BY <2>1, ListActivityInv
  <2>2. CASE ListRepositories
    BY <2>2, ListRepositoriesInv
  <2>3. CASE ~reader.done /\ Insert
    BY <2>3, InsertInv
  <2>4. CASE ~reader.done /\ \E i \in DOMAIN list: Update(i)
    BY <2>4, UpdateInv
  <2>5. CASE ~reader.done /\ \E i \in DOMAIN list: Withdraw(i)
    BY <2>5, WithdrawInv
  <2>6. CASE UNCHANGED vars
    BY <2>6 DEF vars, IInv, Typed, StillBefore, FullPages, NothingSkipped, Before, Position
  <2> QED
    BY <2>1, <2>2, <2>3, <2>4, <2>5, <2>6 DEF Next, Changes
<1> QED
  BY <1>1, <1>2, PTL DEF Spec

(* An answer holds at most as many rows as the cap, and rows keep their types, *)
(* whatever limits are asked for: TypeOK.                                      *)
THEOREM PagingTypes == Spec => []TypeOK
<1>1. IInv => TypeOK
  BY Numbers DEF IInv, Typed, Readers, TypeOK, Ids
<1> QED
  BY <1>1, Invariance, PTL

(* However long the list and whatever is added to it or moved to its front    *)
(* while it is read, the reader that comes to its end has seen all of it that *)
(* stayed, but for the exceptions NothingSkipped names.                       *)
THEOREM PagesSkipNothing == Spec => []NothingSkipped
<1>1. IInv => NothingSkipped
  BY DEF IInv
<1> QED
  BY <1>1, Invariance, PTL

=============================================================================
