-------------------------- MODULE BackgroundProofs --------------------------
(***************************************************************************)
(* Proofs about what goes on by itself beside the requests: the log and    *)
(* the tab that tails it (LogTail), the maintenance of its partitions      *)
(* (Partitions) and the demo project (Demo), for any number of exchanges   *)
(* and instances, any sizes, any retention, any datasets, and with any     *)
(* number of failures.                                                     *)
(***************************************************************************)
EXTENDS LogTail, Partitions, Demo,
        FiniteSetTheorems, SequenceTheorems, WellFoundedInduction, TLAPS

(* A set of natural numbers that is not empty has a least one.  The        *)
(* library's induction theorems have a predicate for a parameter; that the *)
(* order is well-founded says as much of sets.                             *)
LEMMA LeastOf ==
    ASSUME NEW T, T \subseteq Nat, T # {}
    PROVE  \E m \in T : \A n \in T : m <= n
<1> DEFINE R == OpToRel(<, Nat)
<1>1. IsWellFoundedOn(R, Nat)
    BY NatLessThanWellFounded
<1>2. \A x, y \in Nat : <<x, y>> \in R <=> x < y
    BY DEF OpToRel
<1> HIDE DEF R
<1>3. PICK m \in T : \A n \in T : ~(<<n, m>> \in R)
    BY <1>1, WFMin
<1>4. \A n \in T : ~(n < m)
    BY <1>2, <1>3, Zenon
<1> QED
    BY <1>4
-----------------------------------------------------------------------------
(* The request log.                                                        *)
Increasing(s, n) == \A i, j \in 1..n : i < j => s[i] < s[j]

Orderable(S) == \E s \in [1..Cardinality(S) -> S] : Increasing(s, Cardinality(S))

LEMMA RowsAreFinite ==
    ASSUME NEW S \in SUBSET Exchanges
    PROVE  IsFiniteSet(S) /\ Cardinality(S) \in Nat /\ S \subseteq Nat
<1>1. IsFiniteSet(Exchanges) /\ Exchanges \subseteq Nat
    BY MaxExchangesAssumption, FS_Interval DEF Exchanges
<1> QED
    BY <1>1, FS_Subset, FS_CardinalityType

(* Rows can be put in order: of sets that could not be, one with the       *)
(* fewest would still, by its other rows with its least before them.       *)
LEMMA RowsAreOrderable ==
    ASSUME NEW S0 \in SUBSET Exchanges
    PROVE  Orderable(S0)
<1> DEFINE Bad == {n \in Nat : \E S \in SUBSET Exchanges : Cardinality(S) = n /\ ~Orderable(S)}
<1>1. SUFFICES ASSUME Bad # {} PROVE FALSE
    BY RowsAreFinite
<1>2. PICK n \in Bad : \A k \in Bad : n <= k
    <2>1. Bad \subseteq Nat
        OBVIOUS
    <2> HIDE DEF Bad
    <2> QED
        BY <1>1, <2>1, LeastOf
<1>3. n \in Nat
    OBVIOUS
<1>4. PICK S \in SUBSET Exchanges : Cardinality(S) = n /\ ~Orderable(S)
    BY <1>2
<1>5. IsFiniteSet(S) /\ S \subseteq Nat
    BY RowsAreFinite
<1>6. S # {}
    <2> SUFFICES ASSUME S = {} PROVE FALSE
        OBVIOUS
    <2>1. Cardinality(S) = 0
        BY FS_EmptySet
    <2>2. [i \in 1..0 |-> 0] \in [1..Cardinality(S) -> S]
        BY <2>1
    <2>3. Increasing([i \in 1..0 |-> 0], Cardinality(S))
        BY <2>1 DEF Increasing
    <2> QED
        BY <1>4, <2>2, <2>3 DEF Orderable
<1>7. PICK m \in S : \A x \in S : m <= x
    BY <1>5, <1>6, LeastOf
<1>8. Cardinality(S \ {m}) = n - 1
    BY <1>4, <1>5, FS_RemoveElement
<1>9. n - 1 \in Nat
    BY <1>8, RowsAreFinite
<1>10. Orderable(S \ {m})
    <2>1. ~(n - 1 \in Bad)
        <3> HIDE DEF Bad
        <3> QED
            BY <1>2, <1>3
    <2> QED
        BY <1>8, <1>9, <2>1
<1>11. PICK t \in [1..(n - 1) -> S \ {m}] : Increasing(t, n - 1)
    BY <1>8, <1>10 DEF Orderable
<1> DEFINE s == [i \in 1..n |-> IF i = 1 THEN m ELSE t[i - 1]]
<1> HIDE DEF Bad
<1>12. s \in [1..n -> S]
    BY <1>3, <1>9, <1>11
<1>13. Increasing(s, n)
    <2> SUFFICES ASSUME NEW i \in 1..n, NEW j \in 1..n, i < j PROVE s[i] < s[j]
        BY DEF Increasing
    <2>1. j # 1 /\ j - 1 \in 1..(n - 1) /\ s[j] = t[j - 1] /\ s[j] \in S \ {m}
        BY <1>3, <1>11
    <2>2. CASE i = 1
        <3>1. s[i] = m
            BY <2>2
        <3> HIDE DEF s
        <3>2. s[j] \in Nat /\ m \in Nat /\ m <= s[j] /\ m # s[j]
            BY <1>5, <1>7, <2>1
        <3> QED
            BY <3>1, <3>2
    <2>3. CASE i # 1
        <3>1. i - 1 \in 1..(n - 1) /\ s[i] = t[i - 1] /\ i - 1 < j - 1
            BY <1>3, <2>3
        <3> QED
            BY <1>11, <2>1, <3>1 DEF Increasing
    <2> QED
        BY <2>2, <2>3
<1> HIDE DEF s
<1> QED
    BY <1>4, <1>12, <1>13 DEF Orderable

LEMMA AscendingIs ==
    ASSUME NEW S \in SUBSET Exchanges
    PROVE  /\ Ascending(S) \in Seq(S) /\ Len(Ascending(S)) = Cardinality(S)
           /\ Increasing(Ascending(S), Cardinality(S))
           /\ \A e \in S : \E i \in 1..Cardinality(S) : Ascending(S)[i] = e
<1> DEFINE n == Cardinality(S)
           s == Ascending(S)
<1>1. IsFiniteSet(S) /\ n \in Nat /\ S \subseteq Nat
    BY RowsAreFinite
<1>2. s \in [1..n -> S] /\ Increasing(s, n)
    BY RowsAreOrderable DEF Orderable, Ascending, Increasing
<1> HIDE DEF n, s
<1>3. s \in Seq(S) /\ Len(s) = n
    BY <1>1, <1>2
<1>4. s \in Injection(1..n, S)
    <2>1. \A i, j \in 1..n : s[i] = s[j] => i = j
        <3> SUFFICES ASSUME NEW i \in 1..n, NEW j \in 1..n, s[i] = s[j], i # j PROVE FALSE
            OBVIOUS
        <3>1. s[i] \in Nat /\ s[j] \in Nat
            BY <1>1, <1>2
        <3>2. i < j \/ j < i
            BY <1>1
        <3> QED
            BY <1>2, <3>1, <3>2 DEF Increasing
    <2> QED
        BY <1>2, <2>1 DEF Injection, IsInjective
<1>5. Cardinality(1..n) = n
    BY <1>1, FS_Interval
<1>6. s \in Surjection(1..n, S)
    BY <1>1, <1>4, <1>5, FS_Injection DEF n
<1>7. \A e \in S : \E i \in 1..n : s[i] = e
    BY <1>6 DEF Surjection
<1> QED
    BY <1>2, <1>3, <1>7 DEF n, s

LEMMA FirstOfIs ==
    ASSUME NEW S, NEW s \in Seq(S), NEW limit \in Nat
    PROVE  LET k == IF limit < Len(s) THEN limit ELSE Len(s)
               r == FirstOf(s, limit)
           IN  r \in Seq(S) /\ Len(r) = k /\ \A i \in 1..k : r[i] = s[i]
<1> DEFINE k == IF limit < Len(s) THEN limit ELSE Len(s)
<1>1. Len(s) \in Nat /\ k \in 0..Len(s)
    OBVIOUS
<1>2. FirstOf(s, limit) = SubSeq(s, 1, k)
    BY DEF FirstOf
<1> HIDE DEF k
<1>3. \A i \in 1..k : s[i] \in S
    BY <1>1
<1>4. /\ SubSeq(s, 1, k) \in Seq(S)
      /\ Len(SubSeq(s, 1, k)) = IF 1 <= k THEN k - 1 + 1 ELSE 0
      /\ \A i \in 1..(k - 1 + 1) : SubSeq(s, 1, k)[i] = s[1 + i - 1]
    BY <1>1, <1>3, SubSeqProperties
<1>5. FirstOf(s, limit) \in Seq(S) /\ Len(FirstOf(s, limit)) = k
      /\ \A i \in 1..k : FirstOf(s, limit)[i] = s[i]
    BY <1>1, <1>2, <1>4
<1> QED
    BY <1>5 DEF k

(* The first rows in order: they are in order, and what is not among them  *)
(* comes after each of them.                                               *)
LEMMA FirstAscending ==
    ASSUME NEW S \in SUBSET Exchanges, NEW limit \in Nat \ {0}
    PROVE  LET r == FirstOf(Ascending(S), limit)
           IN  r \in Seq(S) /\ Increasing(r, Len(r))
<1> DEFINE s == Ascending(S)
           n == Cardinality(S)
           k == IF limit < n THEN limit ELSE n
           r == FirstOf(s, limit)
<1>1. s \in Seq(S) /\ Len(s) = n /\ n \in Nat /\ Increasing(s, n)
    BY AscendingIs, RowsAreFinite
<1>2. r \in Seq(S) /\ Len(r) = k /\ \A i \in 1..k : r[i] = s[i]
    BY <1>1, FirstOfIs
<1>3. k \in 0..n
    BY <1>1
<1> HIDE DEF n, s, k, r
<1>4. Increasing(r, Len(r))
    BY <1>1, <1>2, <1>3 DEF Increasing
<1> QED
    BY <1>2, <1>4 DEF r, s

Decreasing(s, n) == \A i, j \in 1..n : i < j => s[i] > s[j]

LEMMA DescendingIs ==
    ASSUME NEW S \in SUBSET Exchanges
    PROVE  LET s == Reverse(Ascending(S))
           IN  /\ s \in Seq(S) /\ Len(s) = Cardinality(S)
               /\ Decreasing(s, Cardinality(S))
               /\ \A e \in S : \E i \in 1..Cardinality(S) : s[i] = e
<1> DEFINE a == Ascending(S)
           n == Cardinality(S)
           s == Reverse(a)
<1>1. /\ a \in Seq(S) /\ Len(a) = n /\ n \in Nat
      /\ Increasing(a, n)
      /\ \A e \in S : \E i \in 1..n : a[i] = e
      /\ S \subseteq Nat
    BY AscendingIs, RowsAreFinite
<1> HIDE DEF a, n
<1>2. s = [i \in 1..n |-> a[(n - i) + 1]]
    BY <1>1 DEF Reverse
<1>3. \A i \in 1..n : (n - i) + 1 \in 1..n
    BY <1>1
<1>4. \A i \in 1..n : a[i] \in S
    BY <1>1
<1>5. s \in [1..n -> S]
    BY <1>2, <1>3, <1>4
<1>6. \A i \in 1..n : s[i] = a[(n - i) + 1]
    BY <1>2
<1> HIDE DEF s
<1>7. s \in Seq(S) /\ Len(s) = n
    BY <1>1, <1>5
<1>8. Decreasing(s, n)
    <2> SUFFICES ASSUME NEW i \in 1..n, NEW j \in 1..n, i < j PROVE s[i] > s[j]
        BY DEF Decreasing
    <2>1. (n - j) + 1 < (n - i) + 1
        BY <1>1
    <2>2. a[(n - j) + 1] < a[(n - i) + 1]
        BY <1>1, <1>3, <2>1 DEF Increasing
    <2>3. s[i] \in Nat /\ s[j] \in Nat
        BY <1>1, <1>5
    <2> QED
        BY <1>6, <2>2, <2>3
<1>9. ASSUME NEW e \in S PROVE \E i \in 1..n : s[i] = e
    <2>1. PICK j \in 1..n : a[j] = e
        BY <1>1
    <2>2. (n - ((n - j) + 1)) + 1 = j
        BY <1>1
    <2>3. s[(n - j) + 1] = e
        BY <1>3, <1>6, <2>1, <2>2
    <2> QED
        BY <1>3, <2>3
<1> QED
    BY <1>7, <1>8, <1>9 DEF s, n, a

(* A page goes down the log from where it begins, and leaves out only what *)
(* lies below the cursor of its Older link.                                *)
Below(b) == {e \in stored : b = NoCursor \/ e < b}

LEMMA PageIs ==
    ASSUME stored \in SUBSET Exchanges, NEW b \in Exchanges \union {NoCursor}
    PROVE  LET p == PageFor(b)
           IN  /\ p.rows \in Seq(Below(b)) /\ Len(p.rows) <= PageSize
               /\ Decreasing(p.rows, Len(p.rows))
               /\ p.newest \in Below(b) \union {NoCursor} /\ p.older \in Below(b) \union {NoCursor}
               /\ \A i \in 1..Len(p.rows) : p.rows[i] >= p.older
               /\ \A e \in Below(b) : e \in ToSet(p.rows) \/ e < p.older
<1> DEFINE S == Below(b)
           d == Reverse(Ascending(S))
           n == Cardinality(S)
           rows == FirstOf(d, PageSize + 1)
           p == PageFor(b)
<1>1. S \in SUBSET Exchanges
    BY DEF Below
<1>2. /\ d \in Seq(S) /\ Len(d) = n /\ n \in Nat
      /\ Decreasing(d, n)
      /\ \A e \in S : \E i \in 1..n : d[i] = e
      /\ S \subseteq Nat
    BY <1>1, DescendingIs, RowsAreFinite
<1>3. ExchangesByProject(b, PageSize + 1) = rows
    BY DEF ExchangesByProject, Below
<1>4. p = [rows   |-> FirstOf(rows, PageSize),
           newest |-> IF rows = <<>> THEN NoCursor ELSE rows[1],
           older  |-> IF Len(rows) > PageSize THEN rows[PageSize] ELSE NoCursor]
    BY <1>3 DEF PageFor, OlderCursor
<1> HIDE DEF S, d, n, p
<1>5. PageSize \in Nat /\ PageSize >= 1
    BY PageSizeAssumption
<1>6. /\ rows \in Seq(S)
      /\ Len(rows) = IF PageSize + 1 < n THEN PageSize + 1 ELSE n
      /\ \A i \in 1..Len(rows) : rows[i] = d[i]
    BY <1>2, <1>5, FirstOfIs
<1> HIDE DEF rows
<1>7. /\ p.rows \in Seq(S)
      /\ Len(p.rows) = IF PageSize < Len(rows) THEN PageSize ELSE Len(rows)
      /\ \A i \in 1..Len(p.rows) : p.rows[i] = rows[i]
    BY <1>4, <1>5, <1>6, FirstOfIs
<1>8. /\ Len(p.rows) \in Nat /\ Len(p.rows) <= PageSize /\ Len(p.rows) <= n
      /\ n > PageSize <=> Len(rows) > PageSize
      /\ n > PageSize => Len(p.rows) = PageSize
      /\ ~(n > PageSize) => Len(p.rows) = n
      /\ Len(p.rows) <= Len(rows)
    BY <1>2, <1>5, <1>6, <1>7
<1>9. \A i \in 1..Len(p.rows) : p.rows[i] = d[i]
    BY <1>6, <1>7, <1>8
<1>10. p.older = IF n > PageSize THEN d[PageSize] ELSE NoCursor
    BY <1>2, <1>4, <1>5, <1>6, <1>8
<1>11. Decreasing(p.rows, Len(p.rows))
    BY <1>2, <1>8, <1>9 DEF Decreasing
<1>12. \A i \in 1..n : d[i] \in S
    BY <1>2
<1>13. p.newest \in S \union {NoCursor}
    <2>1. rows # <<>> => rows[1] \in S
        BY <1>6
    <2> QED
        BY <1>4, <2>1
<1>14. p.older \in S \union {NoCursor}
    BY <1>2, <1>5, <1>10, <1>12
<1>15. ASSUME NEW i \in 1..Len(p.rows) PROVE p.rows[i] >= p.older
    <2>1. i \in 1..n /\ d[i] \in Nat /\ p.rows[i] = d[i] /\ i <= PageSize
        <3>1. i \in 1..n /\ i <= PageSize
            BY <1>2, <1>5, <1>8
        <3> QED
            BY <1>2, <1>9, <1>12, <3>1
    <2>2. CASE n > PageSize
        <3>1. PageSize \in 1..n
            BY <1>2, <1>5, <2>2
        <3>2. d[PageSize] \in Nat
            BY <1>2, <1>12, <3>1
        <3>3. i < PageSize => d[i] > d[PageSize]
            BY <1>2, <2>1, <3>1 DEF Decreasing
        <3>4. i = PageSize \/ i < PageSize
            BY <1>5, <2>1
        <3> QED
            BY <1>10, <2>1, <2>2, <3>2, <3>3, <3>4
    <2>3. CASE ~(n > PageSize)
        BY <1>10, <2>1, <2>3 DEF NoCursor
    <2> QED
        BY <2>2, <2>3
<1>16. ASSUME NEW e \in S PROVE e \in ToSet(p.rows) \/ e < p.older
    <2>1. PICK j \in 1..n : d[j] = e
        BY <1>2
    <2>2. CASE j <= Len(p.rows)
        <3>1. j \in DOMAIN p.rows /\ p.rows[j] = e
            BY <1>7, <1>8, <1>9, <2>1, <2>2
        <3> QED
            BY <3>1 DEF ToSet
    <2>3. CASE j > Len(p.rows)
        <3>1. n > PageSize /\ j > PageSize /\ PageSize \in 1..n
            BY <1>2, <1>5, <1>8, <2>3
        <3>2. d[PageSize] > d[j]
            BY <1>2, <3>1 DEF Decreasing
        <3>3. d[PageSize] \in Nat /\ e \in Nat
            BY <1>2, <1>12, <3>1
        <3> QED
            BY <1>10, <2>1, <3>1, <3>2, <3>3
    <2> QED
        BY <1>8, <2>2, <2>3
<1> QED
    BY <1>7, <1>8, <1>11, <1>13, <1>14, <1>15, <1>16 DEF S, p

(* A walk that goes down repeats nothing.                                  *)
LEMMA DownIsInjective ==
    ASSUME NEW s \in Seq(Exchanges), \A i, j \in DOMAIN s : i < j => s[i] > s[j]
    PROVE  IsInjective(s)
<1> SUFFICES ASSUME NEW i \in DOMAIN s, NEW j \in DOMAIN s, s[i] = s[j], i # j PROVE FALSE
    BY DEF IsInjective
<1>1. DOMAIN s \subseteq Nat /\ \A k \in DOMAIN s : s[k] \in Exchanges
    OBVIOUS
<1>2. s[i] \in Nat
    BY <1>1, RowsAreFinite
<1>3. i < j \/ j < i
    BY <1>1
<1> QED
    BY <1>2, <1>3

(* The instance counts as the module itself does.                          *)
LEMMA SameCount == ASSUME NEW S PROVE Log!Cardinality(S) = Cardinality(S)
BY Zenon DEF Cardinality, Log!Cardinality

(* What the log's own steps keep; a batch leaves the wait before it counts.*)
LEMMA LogStepKeeps ==
    ASSUME TailIInv, Log!HandOver \/ Log!Settle
    PROVE  /\ handedOver' \in SUBSET Exchanges /\ waiting' \in SUBSET handedOver'
           /\ stored' \in SUBSET handedOver' /\ stored \subseteq stored'
           /\ lostCount' \in 0..MaxExchanges /\ CountedAreSettled'
<1>1. /\ handedOver \in SUBSET Exchanges /\ waiting \in SUBSET handedOver
      /\ stored \in SUBSET handedOver
      /\ lostCount \in Nat /\ lostCount + Cardinality(waiting) <= Cardinality(handedOver)
      /\ MaxExchanges \in Nat
    BY MaxExchangesAssumption DEF TailIInv, TailTypeOK, CountedAreSettled
<1>2. /\ IsFiniteSet(handedOver) /\ Cardinality(handedOver) \in Nat
      /\ IsFiniteSet(waiting) /\ Cardinality(waiting) \in Nat
    BY <1>1, RowsAreFinite
<1>3. /\ handedOver' \in SUBSET Exchanges /\ waiting' \in SUBSET handedOver'
      /\ stored' \in SUBSET handedOver' /\ stored \subseteq stored'
      /\ lostCount' \in Nat /\ lostCount' + Cardinality(waiting') <= Cardinality(handedOver')
    <2>1. CASE Log!HandOver
        <3>1. PICK e \in Exchanges \ handedOver :
                  /\ handedOver' = handedOver \union {e}
                  /\ \/ waiting' = waiting \union {e} /\ lostCount' = lostCount
                     \/ lostCount' = lostCount + 1 /\ waiting' = waiting
            BY <2>1 DEF Log!HandOver
        <3>2. stored' = stored
            BY <2>1 DEF Log!HandOver
        <3>3. /\ Cardinality(handedOver \union {e}) = Cardinality(handedOver) + 1
              /\ Cardinality(waiting \union {e}) = Cardinality(waiting) + 1
            BY <1>1, <1>2, FS_AddElement
        <3> QED
            BY <1>1, <1>2, <3>1, <3>2, <3>3
    <2>2. CASE Log!Settle
        <3> \A S : Log!Cardinality(S) = Cardinality(S)
            BY SameCount
        <3>1. PICK batch \in SUBSET waiting :
                  /\ waiting' = waiting \ batch
                  /\ \/ stored' = stored \union batch /\ lostCount' = lostCount
                     \/ /\ stored' \in {stored, stored \union batch}
                        /\ lostCount' = lostCount + Cardinality(batch)
            BY <2>2 DEF Log!Settle
        <3>2. handedOver' = handedOver
            BY <2>2 DEF Log!Settle
        <3>3. /\ Cardinality(batch) \in Nat
              /\ Cardinality(waiting \ batch) = Cardinality(waiting) - Cardinality(waiting \cap batch)
              /\ waiting \cap batch = batch
            BY <1>1, <1>2, FS_Difference, FS_Subset, FS_CardinalityType
        <3>4. lostCount' \in {lostCount, lostCount + Cardinality(batch)}
            BY <3>1
        <3>5. Cardinality(waiting') = Cardinality(waiting) - Cardinality(batch)
            BY <3>1, <3>3
        <3>6. /\ lostCount' \in Nat
              /\ lostCount' + Cardinality(waiting') <= Cardinality(handedOver')
            BY <1>1, <1>2, <3>2, <3>3, <3>4, <3>5
        <3>7. /\ waiting' \in SUBSET handedOver' /\ stored' \in SUBSET handedOver'
              /\ stored \subseteq stored' /\ handedOver' \in SUBSET Exchanges
            BY <1>1, <3>1, <3>2
        <3> QED
            BY <3>6, <3>7
    <2> QED
        BY <2>1, <2>2
<1>4. Cardinality(handedOver') \in Nat /\ Cardinality(handedOver') <= MaxExchanges
      /\ Cardinality(waiting') \in Nat
    <2>1. IsFiniteSet(Exchanges) /\ Cardinality(Exchanges) = MaxExchanges
        BY <1>1, FS_Interval DEF Exchanges
    <2>2. waiting' \in SUBSET Exchanges
        BY <1>3
    <2> QED
        BY <1>3, <2>1, <2>2, FS_Subset, FS_CardinalityType
<1>5. lostCount' \in 0..MaxExchanges
    BY <1>1, <1>3, <1>4
<1> QED
    BY <1>3, <1>5 DEF CountedAreSettled

LEMMA LogStepKeepsTailIInv ==
    ASSUME TailIInv, Record \/ Flush
    PROVE  TailIInv'
<1>1. /\ handedOver' \in SUBSET Exchanges /\ waiting' \in SUBSET handedOver'
      /\ stored' \in SUBSET handedOver' /\ stored \subseteq stored'
      /\ lostCount' \in 0..MaxExchanges /\ CountedAreSettled'
    BY LogStepKeeps DEF Record, Flush
<1>2. /\ page' = page /\ visible' = visible /\ tail' = tail /\ cursor' = cursor /\ sent' = sent
      /\ connections' = connections /\ walked' = walked /\ present' = present
    BY DEF Record, Flush, tab, stream
<1>3. TailTypeOK'
    BY <1>1, <1>2 DEF TailIInv, TailTypeOK
<1>4. PagingExactlyOnce' /\ StreamInOrder' /\ CursorLeads'
    BY <1>2 DEF TailIInv, PagingExactlyOnce, StreamInOrder, CursorLeads
<1>5. WalkGoesDown'
    BY <1>1, <1>2 DEF TailIInv, WalkGoesDown
<1> QED
    BY <1>1, <1>3, <1>4, <1>5 DEF TailIInv

(* A page that is loaded sets its stream back to nothing sent.             *)
LEMMA LoadKeepsStream ==
    ASSUME TailIInv, NEW b \in Exchanges \union {NoCursor}, Load(PageFor(b)), UNCHANGED log
    PROVE  /\ page' = PageFor(b) /\ tail' = "connecting"
           /\ page'.rows \in Seq(Exchanges) /\ Len(page'.rows) <= PageSize
           /\ {page'.newest, page'.older, cursor'} \subseteq Exchanges \union {NoCursor}
           /\ visible' \in SUBSET Exchanges /\ tail' \in Tails
           /\ sent' \in Seq(Exchanges) /\ connections' \in 0..MaxConnections
           /\ StreamInOrder' /\ CursorLeads' /\ CountedAreSettled'
           /\ handedOver' \in SUBSET Exchanges /\ waiting' \in SUBSET handedOver'
           /\ stored' \in SUBSET handedOver' /\ stored' = stored /\ lostCount' \in 0..MaxExchanges
<1> DEFINE p == PageFor(b)
<1>1. stored \in SUBSET Exchanges
    BY DEF TailIInv, TailTypeOK
<1>2. /\ p.rows \in Seq(Below(b)) /\ Len(p.rows) <= PageSize
      /\ p.newest \in Below(b) \union {NoCursor} /\ p.older \in Below(b) \union {NoCursor}
    BY <1>1, PageIs
<1> HIDE DEF p
<1>3. Below(b) \subseteq Exchanges
    BY <1>1 DEF Below
<1>4. page' = p /\ visible' = ToSet(p.rows) /\ tail' = "connecting" /\ cursor' = NoCursor
      /\ sent' = <<>> /\ connections' = 0
    BY DEF Load, p
<1>5. p.rows \in Seq(Exchanges)
    BY <1>2, <1>3, SeqMonotonic
<1>6. visible' \in SUBSET Exchanges
    BY <1>4, <1>5 DEF ToSet
<1>7. 0 \in 0..MaxConnections /\ 0 < MaxConnections
    BY MaxConnectionsAssumption
<1>8. StreamInOrder' /\ CursorLeads'
    BY <1>4, <1>7 DEF StreamInOrder, CursorLeads
<1>9. /\ CountedAreSettled'
      /\ handedOver' \in SUBSET Exchanges /\ waiting' \in SUBSET handedOver'
      /\ stored' \in SUBSET handedOver' /\ stored' = stored /\ lostCount' \in 0..MaxExchanges
    BY DEF TailIInv, TailTypeOK, CountedAreSettled, log
<1> QED
    BY <1>2, <1>3, <1>4, <1>5, <1>6, <1>7, <1>8, <1>9 DEF Tails, p

(* What is left to say of a page: how it goes on with the walk.            *)
LEMMA LoadKeepsTailIInv ==
    ASSUME TailIInv, NEW b \in Exchanges \union {NoCursor}, Load(PageFor(b)), UNCHANGED log,
           walked' \in Seq(Exchanges), WalkGoesDown'
    PROVE  TailIInv'
<1>1. /\ page' = PageFor(b) /\ tail' = "connecting"
      /\ page'.rows \in Seq(Exchanges) /\ Len(page'.rows) <= PageSize
      /\ {page'.newest, page'.older, cursor'} \subseteq Exchanges \union {NoCursor}
      /\ visible' \in SUBSET Exchanges /\ tail' \in Tails
      /\ sent' \in Seq(Exchanges) /\ connections' \in 0..MaxConnections
      /\ StreamInOrder' /\ CursorLeads' /\ CountedAreSettled'
      /\ handedOver' \in SUBSET Exchanges /\ waiting' \in SUBSET handedOver'
      /\ stored' \in SUBSET handedOver' /\ stored' = stored /\ lostCount' \in 0..MaxExchanges
    BY LoadKeepsStream
<1>2. present' \in SUBSET Exchanges
    BY <1>1 DEF WalkGoesDown
<1>3. TailTypeOK'
    BY <1>1, <1>2 DEF TailTypeOK
<1>4. PagingExactlyOnce'
    <2>1. IsInjective(walked')
        BY DownIsInjective DEF WalkGoesDown
    <2>2. ASSUME page'.older = NoCursor, NEW e \in present' PROVE e \in ToSet(walked')
        <3>1. Exchanges \subseteq Nat
            BY MaxExchangesAssumption DEF Exchanges
        <3>2. e \in Nat
            BY <1>2, <3>1
        <3>3. ~(e < NoCursor)
            BY <3>2 DEF NoCursor
        <3> QED
            BY <2>2, <3>3 DEF WalkGoesDown
    <2> QED
        BY <2>1, <2>2 DEF PagingExactlyOnce
<1> QED
    BY <1>1, <1>3, <1>4 DEF TailIInv

LEMMA OpenLogKeepsTailIInv ==
    ASSUME TailIInv, OpenLog
    PROVE  TailIInv'
<1> DEFINE p == PageFor(NoCursor)
<1>1. /\ Load(p) /\ UNCHANGED log /\ page' = p /\ walked' = p.rows /\ present' = stored
      /\ stored' = stored
    BY DEF OpenLog, Load, log
<1>2. stored \in SUBSET Exchanges /\ Below(NoCursor) = stored
    BY DEF TailIInv, TailTypeOK, Below
<1>3. /\ p.rows \in Seq(stored) /\ Decreasing(p.rows, Len(p.rows))
      /\ \A i \in 1..Len(p.rows) : p.rows[i] >= p.older
      /\ \A e \in stored : e \in ToSet(p.rows) \/ e < p.older
    BY <1>2, PageIs
<1> HIDE DEF p
<1>4. DOMAIN p.rows = 1..Len(p.rows)
    BY <1>3
<1>5. WalkGoesDown'
    BY <1>1, <1>3, <1>4 DEF WalkGoesDown, Decreasing
<1>6. walked' \in Seq(Exchanges)
    BY <1>1, <1>2, <1>3, SeqMonotonic
<1> QED
    BY <1>1, <1>5, <1>6, LoadKeepsTailIInv DEF p

(* The next page continues below the last row shown.                       *)
LEMMA OpenOlderKeepsTailIInv ==
    ASSUME TailIInv, OpenOlder
    PROVE  TailIInv'
<1> DEFINE b == page.older
           p == PageFor(b)
           r == p.rows
           n == Len(walked)
<1>1. /\ b # NoCursor /\ Load(p) /\ UNCHANGED log /\ page' = p /\ walked' = walked \o r
      /\ present' = present /\ stored' = stored
    BY DEF OpenOlder, Load, log
<1>2. /\ stored \in SUBSET Exchanges /\ b \in Exchanges /\ walked \in Seq(Exchanges)
      /\ WalkGoesDown
    BY <1>1 DEF TailIInv, TailTypeOK
<1>3. /\ r \in Seq(Below(b)) /\ Decreasing(r, Len(r))
      /\ \A i \in 1..Len(r) : r[i] >= p.older
      /\ \A e \in Below(b) : e \in ToSet(r) \/ e < p.older
      /\ p.older \in Below(b) \union {NoCursor}
    BY <1>2, PageIs
<1>4. /\ Below(b) \subseteq Exchanges /\ Exchanges \subseteq Nat
      /\ \A e \in Below(b) : e < b
      /\ \A e \in stored : e < b => e \in Below(b)
    BY <1>1, <1>2, RowsAreFinite DEF Below
<1> HIDE DEF p, b
<1>5. /\ r \in Seq(Exchanges) /\ DOMAIN r = 1..Len(r) /\ Len(r) \in Nat
      /\ DOMAIN walked = 1..n /\ n \in Nat
      /\ \A i \in 1..Len(r) : r[i] \in Below(b)
      /\ \A i \in 1..n : walked[i] \in Exchanges
    BY <1>2, <1>3, <1>4, SeqMonotonic
<1> HIDE DEF r, n
<1>6. /\ walked' \in Seq(Exchanges) /\ DOMAIN walked' = 1..(n + Len(r))
      /\ \A i \in 1..n : walked'[i] = walked[i]
      /\ \A i \in (n + 1)..(n + Len(r)) : walked'[i] = r[i - n] /\ i - n \in 1..Len(r)
    <2>1. /\ walked \o r \in Seq(Exchanges) /\ Len(walked \o r) = n + Len(r)
          /\ \A i \in 1..(n + Len(r)) :
                 (walked \o r)[i] = IF i <= n THEN walked[i] ELSE r[i - n]
        BY <1>2, <1>5, ConcatProperties DEF n
    <2>2. /\ \A i \in 1..n : i \in 1..(n + Len(r)) /\ i <= n
          /\ \A i \in (n + 1)..(n + Len(r)) :
                 i \in 1..(n + Len(r)) /\ ~(i <= n) /\ i - n \in 1..Len(r)
        BY <1>5
    <2>3. DOMAIN (walked \o r) = 1..(n + Len(r))
        BY <2>1
    <2> QED
        BY <1>1, <2>1, <2>2, <2>3
<1>7. \A i \in 1..(n + Len(r)) : i \in 1..n \/ i \in (n + 1)..(n + Len(r))
    BY <1>5
<1>8. /\ \A i \in 1..n : walked[i] >= b
      /\ \A i, j \in 1..n : i < j => walked[i] > walked[j]
      /\ \A e \in present : e \in ToSet(walked) \/ e < b
      /\ present \subseteq stored
    BY <1>2, <1>5 DEF WalkGoesDown, b
<1>9. ASSUME NEW i \in DOMAIN walked', NEW j \in DOMAIN walked', i < j
      PROVE  walked'[i] > walked'[j]
    <2>1. CASE j \in 1..n
        <3>1. i \in 1..n
            BY <1>5, <1>6, <1>9, <2>1
        <3> QED
            BY <1>6, <1>8, <1>9, <2>1, <3>1
    <2>2. CASE i \in 1..n /\ j \in (n + 1)..(n + Len(r))
        <3>1. walked'[i] = walked[i] /\ walked[i] \in Nat /\ walked[i] >= b /\ b \in Nat
            BY <1>2, <1>4, <1>5, <1>6, <1>8, <2>2
        <3>2. walked'[j] \in Below(b)
            BY <1>5, <1>6, <2>2
        <3>3. walked'[j] \in Nat /\ walked'[j] < b
            BY <1>4, <3>2
        <3> QED
            BY <3>1, <3>3
    <2>3. CASE i \in (n + 1)..(n + Len(r)) /\ j \in (n + 1)..(n + Len(r))
        <3>1. i - n < j - n
            BY <1>5, <1>9, <2>3
        <3> QED
            BY <1>3, <1>6, <2>3, <3>1 DEF Decreasing
    <2> QED
        BY <1>6, <1>7, <2>1, <2>2, <2>3
<1>10. ASSUME NEW i \in DOMAIN walked' PROVE walked'[i] >= p.older
    <2>1. CASE i \in 1..n
        <3>1. walked[i] \in Nat /\ walked[i] >= b /\ b \in Nat
            BY <1>2, <1>4, <1>5, <1>8, <2>1
        <3>2. CASE p.older = NoCursor
            BY <1>6, <2>1, <3>1, <3>2 DEF NoCursor
        <3>3. CASE p.older \in Below(b)
            <4>1. p.older \in Nat /\ p.older < b
                BY <1>4, <3>3
            <4> QED
                BY <1>6, <2>1, <3>1, <4>1
        <3> QED
            BY <1>3, <3>2, <3>3
    <2>2. CASE i \in (n + 1)..(n + Len(r))
        BY <1>3, <1>6, <2>2
    <2> QED
        BY <1>6, <1>7, <2>1, <2>2
<1>11. ASSUME NEW e \in present PROVE e \in ToSet(walked') \/ e < p.older
    <2>1. CASE e \in ToSet(walked)
        <3>1. PICK i \in 1..n : walked[i] = e
            BY <1>5, <2>1 DEF ToSet
        <3>2. i \in DOMAIN walked'
            BY <1>5, <1>6
        <3> QED
            BY <1>6, <3>1, <3>2 DEF ToSet
    <2>2. CASE e < b
        <3>1. e \in Below(b)
            BY <1>4, <1>8, <2>2
        <3>2. CASE e \in ToSet(r)
            <4>1. PICK i \in 1..Len(r) : r[i] = e
                BY <1>5, <3>2 DEF ToSet
            <4>2. n + i \in (n + 1)..(n + Len(r)) /\ n + i \in DOMAIN walked' /\ (n + i) - n = i
                BY <1>5, <1>6
            <4>3. walked'[n + i] = e
                BY <1>6, <4>1, <4>2
            <4> QED
                BY <4>2, <4>3 DEF ToSet
        <3> QED
            BY <1>3, <3>1, <3>2
    <2> QED
        BY <1>8, <2>1, <2>2
<1>12. WalkGoesDown'
    BY <1>1, <1>8, <1>9, <1>10, <1>11 DEF WalkGoesDown
<1>13. Load(PageFor(b)) /\ b \in Exchanges \union {NoCursor}
    BY <1>1, <1>2 DEF p
<1> QED
    BY <1>1, <1>6, <1>12, <1>13, LoadKeepsTailIInv

LEMMA CloseTabKeepsTailIInv ==
    ASSUME TailIInv, CloseTab
    PROVE  TailIInv'
<1>1. /\ page' = NoPage /\ visible' = {} /\ tail' = "off" /\ cursor' = NoCursor /\ sent' = <<>>
      /\ connections' = 0 /\ walked' = <<>> /\ present' = {}
      /\ handedOver' = handedOver /\ waiting' = waiting /\ stored' = stored
      /\ lostCount' = lostCount
    BY DEF CloseTab, log
<1>2. NoPage.rows = <<>> /\ NoPage.newest = NoCursor /\ NoPage.older = NoCursor
    BY DEF NoPage
<1>3. 0 \in 0..MaxConnections /\ 0 <= PageSize
    BY MaxConnectionsAssumption, PageSizeAssumption
<1>4. TailTypeOK'
    BY <1>1, <1>2, <1>3 DEF TailIInv, TailTypeOK, Tails
<1>5. PagingExactlyOnce' /\ StreamInOrder' /\ CursorLeads'
    BY <1>1, <1>2 DEF PagingExactlyOnce, StreamInOrder, CursorLeads, IsInjective
<1>6. WalkGoesDown' /\ CountedAreSettled'
    BY <1>1, <1>2 DEF TailIInv, WalkGoesDown, CountedAreSettled
<1> QED
    BY <1>4, <1>5, <1>6 DEF TailIInv

(* Where a stream begins is not before the newest row of its page.         *)
LEMMA StartsFromThePage ==
    ASSUME TailIInv
    PROVE  /\ StartOfStream(page.newest) \in Exchanges \union {NoCursor}
           /\ StartOfStream(page.newest) >= page.newest
<1>1. /\ stored \in SUBSET Exchanges /\ page.newest \in Exchanges \union {NoCursor}
      /\ Exchanges \subseteq Nat
    BY MaxExchangesAssumption DEF TailIInv, TailTypeOK, Exchanges
<1>2. CASE page.newest # NoCursor
    <2>1. page.newest \in Nat
        BY <1>1, <1>2
    <2> QED
        BY <1>1, <1>2, <2>1 DEF StartOfStream
<1>3. CASE page.newest = NoCursor
    <2>1. LatestExchangeCursor \in Exchanges \union {NoCursor}
        <3>1. SUFFICES ASSUME stored # {} PROVE ExchangesByProject(NoCursor, 1)[1] \in Exchanges
            BY DEF LatestExchangeCursor
        <3> DEFINE d == Reverse(Ascending(stored))
                   rows == FirstOf(d, 1)
        <3>2. ExchangesByProject(NoCursor, 1) = rows
            <4>1. {e \in stored : NoCursor = NoCursor \/ e < NoCursor} = stored
                OBVIOUS
            <4> QED
                BY <4>1 DEF ExchangesByProject
        <3>3. /\ d \in Seq(stored) /\ Len(d) = Cardinality(stored)
              /\ Cardinality(stored) \in Nat /\ Cardinality(stored) # 0
            BY <1>1, <3>1, DescendingIs, RowsAreFinite, FS_EmptySet
        <3> HIDE DEF d
        <3>4. rows \in Seq(stored) /\ Len(rows) = IF 1 < Len(d) THEN 1 ELSE Len(d)
            BY <3>3, FirstOfIs
        <3> HIDE DEF rows
        <3>5. Len(rows) = 1
            BY <3>3, <3>4
        <3>6. rows[1] \in stored
            BY <3>4, <3>5
        <3> QED
            BY <1>1, <3>2, <3>6
    <2>2. LatestExchangeCursor >= NoCursor
        BY <1>1, <2>1 DEF NoCursor
    <2> QED
        BY <1>3, <2>1, <2>2 DEF StartOfStream
<1> QED
    BY <1>2, <1>3

LEMMA ConnectKeepsTailIInv ==
    ASSUME TailIInv, Connect
    PROVE  TailIInv'
<1>1. /\ tail = "connecting" /\ tail' = "open" /\ cursor' = StartOfStream(page.newest)
      /\ sent' = <<>> /\ connections' = connections + 1
      /\ page' = page /\ visible' = visible /\ walked' = walked /\ present' = present
      /\ handedOver' = handedOver /\ waiting' = waiting /\ stored' = stored
      /\ lostCount' = lostCount
    BY DEF Connect, log
<1>2. cursor' \in Exchanges \union {NoCursor} /\ cursor' >= page.newest
    BY <1>1, StartsFromThePage
<1>3. connections' \in 0..MaxConnections
    BY <1>1, MaxConnectionsAssumption DEF TailIInv, TailTypeOK, CursorLeads
<1>4. TailTypeOK'
    BY <1>1, <1>2, <1>3 DEF TailIInv, TailTypeOK, Tails
<1>5. StreamInOrder' /\ CursorLeads'
    BY <1>1, <1>2 DEF StreamInOrder, CursorLeads
<1>6. PagingExactlyOnce'
    BY <1>1 DEF TailIInv, PagingExactlyOnce
<1>7. WalkGoesDown' /\ CountedAreSettled'
    BY <1>1 DEF TailIInv, WalkGoesDown, CountedAreSettled
<1> QED
    BY <1>4, <1>5, <1>6, <1>7 DEF TailIInv

LEMMA EndOfStreamKeepsTailIInv ==
    ASSUME TailIInv, Refused \/ Disconnect
    PROVE  TailIInv'
<1>1. /\ tail \in {"connecting", "open"} /\ tail' \in {"connecting", "refused"} /\ sent' = <<>>
      /\ cursor' \in {cursor, NoCursor}
      /\ tail' = "connecting" => connections < MaxConnections
      /\ connections' = connections
      /\ page' = page /\ visible' = visible /\ walked' = walked /\ present' = present
      /\ handedOver' = handedOver /\ waiting' = waiting /\ stored' = stored
      /\ lostCount' = lostCount
    BY DEF Refused, Disconnect, log, TailIInv, CursorLeads
<1>2. TailTypeOK'
    BY <1>1 DEF TailIInv, TailTypeOK, Tails
<1>3. StreamInOrder' /\ CursorLeads'
    BY <1>1 DEF StreamInOrder, CursorLeads
<1>4. PagingExactlyOnce'
    BY <1>1 DEF TailIInv, PagingExactlyOnce
<1>5. WalkGoesDown' /\ CountedAreSettled'
    BY <1>1 DEF TailIInv, WalkGoesDown, CountedAreSettled
<1> QED
    BY <1>2, <1>3, <1>4, <1>5 DEF TailIInv

(* A poll sends, in order, rows from beyond the cursor, and leaves it at   *)
(* the last of them.                                                       *)
LEMMA PollKeepsTailIInv ==
    ASSUME TailIInv, Poll
    PROVE  TailIInv'
<1> DEFINE rows == ExchangesSince(cursor, StreamBatch)
           n == Len(sent)
           k == Len(rows)
<1>1. /\ tail = "open" /\ rows # <<>> /\ sent' = sent \o rows
      /\ visible' = visible \union ToSet(rows) /\ cursor' = Last(rows)
      /\ page' = page /\ tail' = tail /\ connections' = connections
      /\ walked' = walked /\ present' = present
      /\ handedOver' = handedOver /\ waiting' = waiting /\ stored' = stored
      /\ lostCount' = lostCount
    BY DEF Poll, CursorAfter, log
<1> DEFINE S == {e \in stored : e > cursor}
<1>2. S \in SUBSET Exchanges /\ stored \in SUBSET Exchanges /\ Exchanges \subseteq Nat
    <2>1. Exchanges \subseteq Nat
        BY MaxExchangesAssumption DEF Exchanges
    <2>2. stored \in SUBSET Exchanges
        BY DEF TailIInv, TailTypeOK
    <2> QED
        BY <2>1, <2>2
<1>3. rows = FirstOf(Ascending(S), StreamBatch)
    BY <1>1 DEF ExchangesSince
<1>4. rows \in Seq(S) /\ Increasing(rows, k)
    BY <1>2, <1>3, StreamBatchAssumption, FirstAscending
<1>5. /\ sent \in Seq(Exchanges) /\ cursor \in Nat /\ page.newest \in Nat
      /\ visible \in SUBSET Exchanges /\ cursor >= page.newest
      /\ \A i \in DOMAIN sent : sent[i] <= cursor
      /\ \A i, j \in DOMAIN sent : i < j => sent[i] < sent[j]
      /\ page.newest # NoCursor => \A i \in DOMAIN sent : sent[i] > page.newest
    <2>1. sent \in Seq(Exchanges) /\ visible \in SUBSET Exchanges
        BY DEF TailIInv, TailTypeOK
    <2>2. cursor \in Nat /\ page.newest \in Nat
        <3>1. cursor \in Exchanges \union {NoCursor} /\ page.newest \in Exchanges \union {NoCursor}
            BY DEF TailIInv, TailTypeOK
        <3>2. NoCursor \in Nat
            BY DEF NoCursor
        <3> QED
            BY <1>2, <3>1, <3>2
    <2>3. /\ cursor >= page.newest
          /\ \A i \in DOMAIN sent : sent[i] <= cursor
          /\ \A i, j \in DOMAIN sent : i < j => sent[i] < sent[j]
          /\ page.newest # NoCursor => \A i \in DOMAIN sent : sent[i] > page.newest
        BY <1>1 DEF TailIInv, CursorLeads, StreamInOrder
    <2> QED
        BY <2>1, <2>2, <2>3
<1>6. /\ \A e \in S : e \in Nat /\ e > cursor
      /\ S \subseteq Exchanges
    BY <1>2
<1> HIDE DEF S, rows
<1>7. /\ rows \in Seq(Exchanges) /\ DOMAIN rows = 1..k /\ k \in Nat /\ k # 0
      /\ \A i \in 1..k : rows[i] \in S
      /\ DOMAIN sent = 1..n /\ n \in Nat
      /\ \A i \in 1..n : sent[i] \in Nat
    <2>1. rows \in Seq(Exchanges)
        BY <1>4, <1>6, SeqMonotonic
    <2>2. DOMAIN rows = 1..k /\ k \in Nat /\ \A i \in 1..k : rows[i] \in S
        BY <1>4
    <2>3. k # 0
        BY <1>1, <1>4, EmptySeq
    <2>4. DOMAIN sent = 1..n /\ n \in Nat /\ \A i \in 1..n : sent[i] \in Exchanges
        BY <1>5
    <2> QED
        BY <1>2, <2>1, <2>2, <2>3, <2>4
<1> HIDE DEF n, k
<1>8. /\ sent' \in Seq(Exchanges) /\ DOMAIN sent' = 1..(n + k)
      /\ \A i \in 1..n : sent'[i] = sent[i]
      /\ \A i \in (n + 1)..(n + k) : sent'[i] = rows[i - n] /\ i - n \in 1..k
    <2>1. /\ sent \o rows \in Seq(Exchanges) /\ Len(sent \o rows) = n + k
          /\ \A i \in 1..(n + k) : (sent \o rows)[i] = IF i <= n THEN sent[i] ELSE rows[i - n]
        BY <1>5, <1>7, ConcatProperties DEF n, k
    <2>2. /\ \A i \in 1..n : i \in 1..(n + k) /\ i <= n
          /\ \A i \in (n + 1)..(n + k) : i \in 1..(n + k) /\ ~(i <= n) /\ i - n \in 1..k
        BY <1>7
    <2>3. DOMAIN (sent \o rows) = 1..(n + k)
        BY <2>1
    <2> QED
        BY <1>1, <2>1, <2>2, <2>3
<1>9. \A i \in 1..(n + k) : i \in 1..n \/ i \in (n + 1)..(n + k)
    BY <1>7
<1>10. /\ cursor' = rows[k] /\ k \in 1..k /\ cursor' \in S /\ cursor' \in Nat /\ cursor' > cursor
    <2>1. cursor' = rows[k] /\ k \in 1..k
        BY <1>1, <1>7 DEF Last, k
    <2> QED
        BY <1>6, <1>7, <2>1
<1>11. ASSUME NEW i \in 1..k PROVE rows[i] \in Nat /\ rows[i] > cursor /\ rows[i] <= cursor'
    <2>1. rows[i] \in Nat /\ rows[i] > cursor
        BY <1>6, <1>7
    <2>2. i < k => rows[i] < rows[k]
        BY <1>4, <1>10 DEF Increasing
    <2>3. i = k \/ i < k
        BY <1>7
    <2> QED
        BY <1>10, <2>1, <2>2, <2>3
<1>12. ASSUME NEW i \in DOMAIN sent', NEW j \in DOMAIN sent', i < j PROVE sent'[i] < sent'[j]
    <2>1. CASE j \in 1..n
        <3>1. i \in 1..n
            BY <1>7, <1>8, <1>12, <2>1
        <3> QED
            BY <1>5, <1>7, <1>8, <1>12, <2>1, <3>1
    <2>2. CASE i \in 1..n /\ j \in (n + 1)..(n + k)
        <3>1. sent'[i] \in Nat /\ sent'[i] <= cursor
            BY <1>5, <1>7, <1>8, <2>2
        <3>2. sent'[j] \in Nat /\ sent'[j] > cursor
            BY <1>8, <1>11, <2>2
        <3> QED
            BY <1>5, <3>1, <3>2
    <2>3. CASE i \in (n + 1)..(n + k) /\ j \in (n + 1)..(n + k)
        <3>1. i - n < j - n
            BY <1>7, <1>12, <2>3
        <3> QED
            BY <1>4, <1>8, <2>3, <3>1 DEF Increasing
    <2> QED
        BY <1>8, <1>9, <2>1, <2>2, <2>3
<1>13. ASSUME NEW i \in DOMAIN sent'
       PROVE  sent'[i] <= cursor' /\ (page.newest # NoCursor => sent'[i] > page.newest)
    <2>1. CASE i \in 1..n
        <3>1. sent'[i] \in Nat /\ sent'[i] <= cursor
            BY <1>5, <1>7, <1>8, <2>1
        <3>2. page.newest # NoCursor => sent'[i] > page.newest
            BY <1>5, <1>7, <1>8, <2>1
        <3> QED
            BY <1>5, <1>10, <3>1, <3>2
    <2>2. CASE i \in (n + 1)..(n + k)
        <3>1. sent'[i] \in Nat /\ sent'[i] > cursor /\ sent'[i] <= cursor'
            BY <1>8, <1>11, <2>2
        <3> QED
            BY <1>5, <3>1
    <2> QED
        BY <1>8, <1>9, <2>1, <2>2
<1>14. cursor' >= page.newest
    BY <1>5, <1>10
<1>15. StreamInOrder' /\ CursorLeads'
    BY <1>1, <1>12, <1>13, <1>14 DEF StreamInOrder, CursorLeads
<1>16. visible' \in SUBSET Exchanges
    BY <1>1, <1>5, <1>7 DEF ToSet
<1>17. cursor' \in Exchanges
    BY <1>6, <1>10
<1>18. TailTypeOK'
    BY <1>1, <1>8, <1>16, <1>17 DEF TailIInv, TailTypeOK
<1>19. PagingExactlyOnce'
    BY <1>1 DEF TailIInv, PagingExactlyOnce
<1>20. WalkGoesDown' /\ CountedAreSettled'
    BY <1>1 DEF TailIInv, WalkGoesDown, CountedAreSettled
<1> QED
    BY <1>15, <1>18, <1>19, <1>20 DEF TailIInv

(* The log and the tab that reads it, for any number of exchanges, sizes   *)
(* of a page and of a poll, and however often a page connects.             *)
THEOREM TailInvariant == TailSpec => []TailIInv
<1>1. TailInit => TailIInv
    <2> SUFFICES ASSUME TailInit PROVE TailIInv
        OBVIOUS
    <2>1. /\ handedOver = {} /\ waiting = {} /\ stored = {} /\ lostCount = 0
          /\ page = NoPage /\ visible = {} /\ tail = "off" /\ cursor = NoCursor /\ sent = <<>>
          /\ connections = 0 /\ walked = <<>> /\ present = {}
        BY DEF TailInit, Log!Init
    <2>2. NoPage.rows = <<>> /\ NoPage.newest = NoCursor /\ NoPage.older = NoCursor
        BY DEF NoPage
    <2>3. 0 \in 0..MaxConnections /\ 0 <= PageSize /\ 0 \in 0..MaxExchanges
        BY MaxConnectionsAssumption, PageSizeAssumption, MaxExchangesAssumption
    <2>4. TailTypeOK
        BY <2>1, <2>2, <2>3 DEF TailTypeOK, Tails
    <2>5. PagingExactlyOnce /\ StreamInOrder /\ CursorLeads
        BY <2>1, <2>2 DEF PagingExactlyOnce, StreamInOrder, CursorLeads, IsInjective
    <2>6. CountedAreSettled
        BY <2>1, FS_EmptySet DEF CountedAreSettled
    <2>7. WalkGoesDown
        BY <2>1, <2>2 DEF WalkGoesDown
    <2> QED
        BY <2>4, <2>5, <2>6, <2>7 DEF TailIInv
<1>2. TailIInv /\ [TailNext]_tailVars => TailIInv'
    <2>1. ASSUME TailIInv, UNCHANGED tailVars PROVE TailIInv'
        <3>1. UNCHANGED <<handedOver, waiting, stored, lostCount, page, visible, tail, cursor,
                          sent, connections, walked, present>>
            BY <2>1 DEF tailVars, log, tab, stream
        <3> QED
            BY <2>1, <3>1 DEF TailIInv, TailTypeOK, PagingExactlyOnce, StreamInOrder,
               CountedAreSettled, WalkGoesDown, CursorLeads
    <2> QED
        BY <2>1, LogStepKeepsTailIInv, OpenLogKeepsTailIInv, OpenOlderKeepsTailIInv,
           CloseTabKeepsTailIInv, ConnectKeepsTailIInv, EndOfStreamKeepsTailIInv,
           PollKeepsTailIInv
           DEF TailNext
<1> QED
    BY <1>1, <1>2, PTL DEF TailSpec

(* The pages of a walk down the log (handleLogList and its Older link)     *)
(* repeat no row and pass over none that was there when the walk began.    *)
THEOREM PagesExactlyOnce == TailSpec => []PagingExactlyOnce
<1>1. TailIInv => PagingExactlyOnce
    BY DEF TailIInv
<1> QED
    BY <1>1, TailInvariant, PTL

(* A stream (handleLogStream) sends its rows in order and none twice, and  *)
(* none the page had when it was loaded.                                   *)
THEOREM StreamOrdered == TailSpec => []StreamInOrder
<1>1. TailIInv => StreamInOrder
    BY DEF TailIInv
<1> QED
    BY <1>1, TailInvariant, PTL
-----------------------------------------------------------------------------
(* Partitions.                                                             *)
Job == [at : {"idle", "create", "drop"}, start : 0..MaxMonth,
        next : 0..(MaxMonth + PartitionsAhead + 1), todo : SUBSET Months]

LEMMA KeepIs == Keep \in Int /\ Keep >= 1
BY PartitionsAssumption DEF Keep, MinRetentionMonths

LEMMA PartitionsTyped ==
    ASSUME PartitionsTypeOK
    PROVE  /\ month \in 0..MaxMonth /\ partitions \subseteq Months /\ covered \subseteq Months
           /\ jobs \in [Maintainers -> Job]
           /\ \A i \in Maintainers : jobs[i] \in Job
           /\ Months \subseteq Nat /\ MaxMonth \in Nat /\ PartitionsAhead \in Nat
BY PartitionsAssumption DEF PartitionsTypeOK, Job, Months

LEMMA NextToDropIs ==
    ASSUME PartitionsTypeOK, NEW i \in Maintainers, jobs[i].todo # {}
    PROVE  NextToDrop(i) \in jobs[i].todo
<1>1. jobs[i].todo \subseteq Nat
    BY PartitionsTyped DEF Job
<1>2. \E m \in jobs[i].todo : \A n \in jobs[i].todo : m <= n
    BY <1>1, LeastOf
<1> QED
    BY <1>2 DEF NextToDrop

(* What one run's job has to be, given what month it is and what there is. *)
JobOK(job, now, there) ==
    /\ job.start <= now
    /\ \A m \in job.todo : m < Cutoff(job.start)
    /\ job.at = "create" =>
          \A m \in job.start..(job.next - 1) : m \in there \/ m < now - (Keep - 1)

LEMMA RunsAre ==
    /\ RunsAreOfTheirMonth <=> \A i \in Maintainers : JobOK(jobs[i], month, partitions)
    /\ RunsAreOfTheirMonth' <=> \A i \in Maintainers : JobOK(jobs'[i], month', partitions')
BY DEF RunsAreOfTheirMonth, JobOK

LEMMA NotRunningIs ==
    ASSUME MaxMonth \in Nat, PartitionsAhead \in Nat, NEW now \in Nat, NEW there
    PROVE  NotRunning \in Job /\ JobOK(NotRunning, now, there)
BY DEF NotRunning, Job, JobOK

(* One run goes on, and what it drops, if it does, has expired.            *)
LEMMA OneRun ==
    ASSUME PartitionsTypeOK, RunsAreOfTheirMonth, CoveredIsThere,
           NEW i \in Maintainers, NEW n \in Job, jobs' = [jobs EXCEPT ![i] = n], month' = month,
           \A m \in partitions : m \in partitions' \/ m < month - (Keep - 1),
           JobOK(n, month, partitions')
    PROVE  /\ RunsAreOfTheirMonth'
           /\ jobs' \in [Maintainers -> Job]
           /\ \A m \in covered : m \in partitions' \/ m < month - (Keep - 1)
<1>1. jobs'[i] = n /\ \A j \in Maintainers : j # i => jobs'[j] = jobs[j]
    BY PartitionsTyped
<1>2. \A j \in Maintainers : JobOK(jobs[j], month, partitions)
    BY RunsAre
<1>3. \A j \in Maintainers : j # i => JobOK(jobs'[j], month, partitions')
    <2> SUFFICES ASSUME NEW j \in Maintainers, j # i PROVE JobOK(jobs[j], month, partitions')
        BY <1>1
    <2>1. JobOK(jobs[j], month, partitions)
        BY <1>2
    <2> QED
        BY <2>1 DEF JobOK
<1>4. RunsAreOfTheirMonth'
    BY <1>1, <1>3, RunsAre
<1>5. jobs' \in [Maintainers -> Job]
    BY PartitionsTyped
<1>6. \A m \in covered : m \in partitions' \/ m < month - (Keep - 1)
    BY DEF CoveredIsThere
<1> QED
    BY <1>4, <1>5, <1>6

LEMMA EndRunKeeps ==
    ASSUME PartitionsIInv, NEW i \in Maintainers, EndRun(i), faults' \in 0..MaxFaults,
           UNCHANGED <<month, partitions, homed, strays, covered>>
    PROVE  PartitionsIInv'
<1>1. PartitionsTypeOK /\ RunsAreOfTheirMonth /\ CoveredIsThere
    BY DEF PartitionsIInv
<1>2. month \in Nat /\ NotRunning \in Job /\ JobOK(NotRunning, month, partitions)
    BY <1>1, PartitionsTyped, NotRunningIs
<1>3. RunsAreOfTheirMonth' /\ jobs' \in [Maintainers -> Job] /\ CoveredIsThere'
    BY <1>1, <1>2, OneRun DEF EndRun, CoveredIsThere
<1>4. PartitionsTypeOK'
    BY <1>1, <1>3 DEF PartitionsTypeOK, Job
<1> QED
    BY <1>3, <1>4 DEF PartitionsIInv

LEMMA WriteRowKeeps ==
    ASSUME PartitionsIInv, WriteRow PROVE PartitionsIInv'
<1>1. UNCHANGED <<month, partitions, jobs, faults, covered>>
    BY DEF WriteRow
<1>2. PICK m \in Months : \/ m \in partitions /\ homed' = homed \union {m} /\ strays' = strays
                          \/ strays' = strays \union {m} /\ homed' = homed
    BY DEF WriteRow
<1>3. PartitionsTypeOK'
    BY <1>1, <1>2 DEF PartitionsIInv, PartitionsTypeOK
<1> QED
    BY <1>1, <1>3 DEF PartitionsIInv, RunsAreOfTheirMonth, CoveredIsThere

LEMMA NextMonthKeeps ==
    ASSUME PartitionsIInv, NextMonth PROVE PartitionsIInv'
<1>1. PartitionsTypeOK /\ RunsAreOfTheirMonth /\ CoveredIsThere
    BY DEF PartitionsIInv
<1>2. /\ month' = month + 1 /\ month < MaxMonth /\ month \in Nat
      /\ UNCHANGED <<partitions, homed, strays, jobs, faults, covered>>
    BY <1>1, PartitionsTyped DEF NextMonth
<1>3. PartitionsTypeOK'
    BY <1>1, <1>2, PartitionsTyped DEF PartitionsTypeOK
<1>4. \A m \in Nat : m < month - (Keep - 1) => m < month' - (Keep - 1)
    BY <1>2, KeepIs
<1>5. CoveredIsThere'
    BY <1>1, <1>2, <1>4, PartitionsTyped DEF CoveredIsThere
<1>6. RunsAreOfTheirMonth'
    <2> SUFFICES ASSUME NEW i \in Maintainers PROVE JobOK(jobs[i], month', partitions)
        BY <1>2, RunsAre
    <2>1. JobOK(jobs[i], month, partitions) /\ jobs[i] \in Job
        BY <1>1, RunsAre, PartitionsTyped
    <2>2. jobs[i].start \in Nat /\ jobs[i].next \in Nat
        BY <2>1, PartitionsTyped, <1>1 DEF Job
    <2>3. \A m \in jobs[i].start..(jobs[i].next - 1) : m \in Nat
        BY <2>2
    <2> QED
        BY <1>2, <1>4, <2>1, <2>2, <2>3 DEF JobOK
<1> QED
    BY <1>3, <1>5, <1>6 DEF PartitionsIInv

LEMMA StartRunKeeps ==
    ASSUME PartitionsIInv, NEW i \in Maintainers, StartRun(i) PROVE PartitionsIInv'
<1>1. PartitionsTypeOK /\ RunsAreOfTheirMonth /\ CoveredIsThere
    BY DEF PartitionsIInv
<1> DEFINE n == [at |-> "create", start |-> month, next |-> month, todo |-> {}]
<1>2. /\ jobs' = [jobs EXCEPT ![i] = n]
      /\ UNCHANGED <<month, partitions, homed, strays, faults, covered>>
    BY DEF StartRun
<1>3. /\ n \in Job /\ n.start = month /\ n.next = month /\ n.todo = {}
      /\ month \in Int
    BY <1>1, PartitionsTyped DEF Job
<1> HIDE DEF n
<1>4. JobOK(n, month, partitions')
    BY <1>3 DEF JobOK
<1>5. RunsAreOfTheirMonth' /\ jobs' \in [Maintainers -> Job] /\ CoveredIsThere'
    BY <1>1, <1>2, <1>3, <1>4, OneRun DEF CoveredIsThere
<1>6. PartitionsTypeOK'
    BY <1>1, <1>2, <1>5 DEF PartitionsTypeOK, Job
<1> QED
    BY <1>5, <1>6 DEF PartitionsIInv

LEMMA CreatePartitionKeeps ==
    ASSUME PartitionsIInv, NEW i \in Maintainers, CreatePartition(i) PROVE PartitionsIInv'
<1>1. PartitionsTypeOK /\ RunsAreOfTheirMonth /\ CoveredIsThere
    BY DEF PartitionsIInv
<1> DEFINE n == [jobs[i] EXCEPT !.next = @ + 1]
<1>2. /\ jobs[i].at = "create" /\ jobs[i].next <= jobs[i].start + PartitionsAhead
      /\ partitions' = partitions \union {jobs[i].next}
      /\ UNCHANGED <<month, homed, strays, faults, covered>>
    BY DEF CreatePartition, LastToCreate
<1>3. jobs' = [jobs EXCEPT ![i] = n]
    BY <1>1, PartitionsTyped DEF CreatePartition
<1>4. /\ jobs[i] \in Job /\ jobs[i].start \in 0..MaxMonth /\ jobs[i].next \in Nat
      /\ jobs[i].next \in Months /\ jobs[i].next + 1 \in 0..(MaxMonth + PartitionsAhead + 1)
      /\ MaxMonth \in Nat /\ PartitionsAhead \in Nat
    <2>1. /\ jobs[i] \in Job /\ jobs[i].start \in 0..MaxMonth /\ jobs[i].next \in Nat
          /\ MaxMonth \in Nat /\ PartitionsAhead \in Nat
        BY <1>1, PartitionsTyped DEF Job
    <2> QED
        BY <1>2, <2>1 DEF Months
<1>5. /\ n \in Job /\ n.at = "create" /\ n.start = jobs[i].start /\ n.next = jobs[i].next + 1
      /\ n.todo = jobs[i].todo
    BY <1>2, <1>4 DEF Job
<1> HIDE DEF n
<1>6. JobOK(n, month, partitions')
    <2>1. JobOK(jobs[i], month, partitions)
        BY <1>1, RunsAre
    <2>2. \A m \in jobs[i].start..jobs[i].next : m = jobs[i].next \/ m \in jobs[i].start..(jobs[i].next - 1)
        BY <1>4
    <2>3. n.next - 1 = jobs[i].next
        BY <1>4, <1>5
    <2> QED
        BY <1>2, <1>5, <2>1, <2>2, <2>3 DEF JobOK
<1>7. RunsAreOfTheirMonth' /\ jobs' \in [Maintainers -> Job] /\ CoveredIsThere'
    BY <1>1, <1>2, <1>3, <1>5, <1>6, OneRun DEF CoveredIsThere
<1>8. PartitionsTypeOK'
    BY <1>1, <1>2, <1>4, <1>7 DEF PartitionsTypeOK, Job
<1> QED
    BY <1>7, <1>8 DEF PartitionsIInv

LEMMA ListPartitionsKeeps ==
    ASSUME PartitionsIInv, NEW i \in Maintainers, ListPartitions(i) PROVE PartitionsIInv'
<1>1. PartitionsTypeOK /\ RunsAreOfTheirMonth /\ CoveredIsThere
    BY DEF PartitionsIInv
<1> DEFINE todo == {m \in partitions : m < Cutoff(jobs[i].start)}
           n == [jobs[i] EXCEPT !.at = "drop", !.todo = todo]
           new == jobs[i].start..(jobs[i].start + PartitionsAhead)
<1>2. /\ jobs[i].at = "create" /\ jobs[i].next > jobs[i].start + PartitionsAhead
      /\ covered' = covered \union new
      /\ UNCHANGED <<month, partitions, homed, strays, faults>>
    BY DEF ListPartitions, LastToCreate
<1>3. jobs' = [jobs EXCEPT ![i] = n]
    BY <1>1, PartitionsTyped DEF ListPartitions
<1>4. /\ jobs[i] \in Job /\ jobs[i].start \in 0..MaxMonth /\ jobs[i].next \in Nat
      /\ MaxMonth \in Nat /\ PartitionsAhead \in Nat /\ todo \in SUBSET Months
    BY <1>1, PartitionsTyped DEF Job
<1>5. n \in Job /\ n.at = "drop" /\ n.start = jobs[i].start /\ n.todo = todo
    BY <1>4 DEF Job
<1>6. JobOK(jobs[i], month, partitions)
    BY <1>1, RunsAre
<1> HIDE DEF n
<1>7. JobOK(n, month, partitions')
    BY <1>5, <1>6 DEF JobOK
<1>8. \A m \in new : m \in Months /\ (m \in partitions \/ m < month - (Keep - 1))
    <2> SUFFICES ASSUME NEW m \in new
                 PROVE  m \in Months /\ m \in jobs[i].start..(jobs[i].next - 1)
        BY <1>2, <1>6 DEF JobOK
    <2> QED
        BY <1>2, <1>4 DEF Months
<1> HIDE DEF new
<1>9. RunsAreOfTheirMonth' /\ jobs' \in [Maintainers -> Job] /\ CoveredIsThere'
    BY <1>1, <1>2, <1>3, <1>5, <1>7, <1>8, OneRun DEF CoveredIsThere
<1>10. PartitionsTypeOK'
    BY <1>1, <1>2, <1>8, <1>9 DEF PartitionsTypeOK, Job
<1> QED
    BY <1>9, <1>10 DEF PartitionsIInv

(* A run drops what had expired when it began, and so has by now.          *)
LEMMA DropsTheExpired ==
    ASSUME PartitionsIInv, NEW i \in Maintainers, DropPartition(i)
    PROVE  /\ NextToDrop(i) \in jobs[i].todo
           /\ NextToDrop(i) < month - (Keep - 1)
           /\ partitions' = partitions \ {NextToDrop(i)}
<1>1. PartitionsTypeOK /\ jobs[i].todo # {} /\ partitions' = partitions \ {NextToDrop(i)}
    BY DEF PartitionsIInv, DropPartition
<1>2. NextToDrop(i) \in jobs[i].todo
    BY <1>1, NextToDropIs
<1>3. /\ jobs[i].start \in Nat /\ jobs[i].start <= month /\ month \in Nat
      /\ NextToDrop(i) \in Nat
    BY <1>1, <1>2, PartitionsTyped DEF PartitionsIInv, RunsAreOfTheirMonth, Job
<1>4. NextToDrop(i) < jobs[i].start - (Keep - 1)
    BY <1>2 DEF PartitionsIInv, RunsAreOfTheirMonth, Cutoff
<1> QED
    BY <1>1, <1>2, <1>3, <1>4, KeepIs

LEMMA DropPartitionKeeps ==
    ASSUME PartitionsIInv, NEW i \in Maintainers, DropPartition(i) PROVE PartitionsIInv'
<1>1. PartitionsTypeOK /\ RunsAreOfTheirMonth /\ CoveredIsThere
    BY DEF PartitionsIInv
<1> DEFINE n == [jobs[i] EXCEPT !.todo = @ \ {NextToDrop(i)}]
<1>2. /\ jobs[i].at = "drop" /\ homed' = homed \ {NextToDrop(i)}
      /\ UNCHANGED <<month, strays, faults, covered>>
    BY DEF DropPartition
<1>3. jobs' = [jobs EXCEPT ![i] = n]
    BY <1>1, PartitionsTyped DEF DropPartition
<1>4. n \in Job /\ n.at = "drop" /\ n.start = jobs[i].start /\ n.todo = jobs[i].todo \ {NextToDrop(i)}
    BY <1>1, <1>2, PartitionsTyped DEF Job
<1> HIDE DEF n
<1>5. JobOK(n, month, partitions')
    <2>1. JobOK(jobs[i], month, partitions)
        BY <1>1, RunsAre
    <2> QED
        BY <1>4, <2>1 DEF JobOK
<1>6. \A m \in partitions : m \in partitions' \/ m < month - (Keep - 1)
    BY DropsTheExpired
<1>7. RunsAreOfTheirMonth' /\ jobs' \in [Maintainers -> Job] /\ CoveredIsThere'
    BY <1>1, <1>2, <1>3, <1>4, <1>5, <1>6, OneRun DEF CoveredIsThere
<1>8. PartitionsTypeOK'
    BY <1>1, <1>2, <1>7, DropsTheExpired DEF PartitionsTypeOK, Job
<1> QED
    BY <1>7, <1>8 DEF PartitionsIInv

LEMMA PartitionsNextKeeps ==
    ASSUME PartitionsIInv, [PartitionsNext]_partitionVars PROVE PartitionsIInv'
<1>1. faults \in 0..MaxFaults /\ MaxFaults \in Nat
    BY PartitionsAssumption DEF PartitionsIInv, PartitionsTypeOK
<1>2. ASSUME NEW i \in Maintainers, StartRun(i) \/ RunStep(i) \/ FaultyRun(i)
      PROVE  PartitionsIInv'
    <2>1. ASSUME FinishRun(i) \/ RunFails(i) PROVE PartitionsIInv'
        BY <1>1, <2>1, EndRunKeeps DEF FinishRun, RunFails
    <2>2. ASSUME FaultyRun(i) PROVE PartitionsIInv'
        BY <1>1, <2>2, EndRunKeeps DEF FaultyRun
    <2> QED
        BY <1>2, <2>1, <2>2, StartRunKeeps, CreatePartitionKeeps, ListPartitionsKeeps,
           DropPartitionKeeps DEF RunStep
<1>3. ASSUME UNCHANGED partitionVars PROVE PartitionsIInv'
    BY <1>3 DEF partitionVars, PartitionsIInv, PartitionsTypeOK, RunsAreOfTheirMonth, CoveredIsThere
<1> QED
    BY <1>2, <1>3, WriteRowKeeps, NextMonthKeeps DEF PartitionsNext

(* What a run has on its list had expired when it began, what it has       *)
(* created is there, and a month once created has a partition until it     *)
(* expires, however runs of several instances that began in different      *)
(* months interleave.                                                      *)
THEOREM PartitionsInvariant == PartitionsSpec => []PartitionsIInv
<1>1. PartitionsInit => PartitionsIInv
    <2> SUFFICES ASSUME PartitionsInit PROVE PartitionsIInv
        OBVIOUS
    <2>1. MaxMonth \in Nat /\ PartitionsAhead \in Nat /\ MaxFaults \in Nat
        BY PartitionsAssumption
    <2>2. NotRunning \in Job /\ JobOK(NotRunning, 0, {})
        BY <2>1, NotRunningIs
    <2>3. PartitionsTypeOK
        BY <2>1, <2>2 DEF PartitionsInit, PartitionsTypeOK, Job
    <2>4. RunsAreOfTheirMonth
        BY <2>2, RunsAre DEF PartitionsInit
    <2> QED
        BY <2>3, <2>4 DEF PartitionsInit, PartitionsIInv, CoveredIsThere
<1>2. PartitionsIInv /\ [PartitionsNext]_partitionVars => PartitionsIInv'
    BY PartitionsNextKeeps
<1> QED
    BY <1>1, <1>2, PTL DEF PartitionsSpec

(* No partition inside the retention window is ever dropped, for any       *)
(* retention, also one the configuration gives as nothing or less.         *)
THEOREM WindowKept == PartitionsSpec => WindowIsKept
<1>1. PartitionsIInv /\ [PartitionsNext]_partitionVars
          => [\A m \in partitions \ partitions' : m < month - (Keep - 1)]_partitionVars
    <2> SUFFICES ASSUME PartitionsIInv, PartitionsNext, NEW m \in partitions, m \notin partitions'
                 PROVE  m < month - (Keep - 1)
        OBVIOUS
    <2>1. PICK i \in Maintainers : DropPartition(i)
        BY DEF PartitionsNext, RunStep, WriteRow, NextMonth, StartRun, CreatePartition,
               ListPartitions, FinishRun, RunFails, FaultyRun
    <2> QED
        BY <2>1, DropsTheExpired
<1> QED
    BY <1>1, PartitionsInvariant, PTL DEF PartitionsSpec, WindowIsKept

(* A row goes to the default partition only when no run got as far as      *)
(* creating its month, or when its month has expired.                      *)
THEOREM CoveredKeepsItsRows == PartitionsSpec => CoveredMonthKeepsItsRows
<1>1. PartitionsIInv /\ [PartitionsNext]_partitionVars
          => [\A m \in strays' \ strays : m \notin covered \/ m < month - (Keep - 1)]_partitionVars
    <2> SUFFICES ASSUME PartitionsIInv, PartitionsNext, NEW m \in strays', m \notin strays
                 PROVE  m \notin covered \/ m < month - (Keep - 1)
        OBVIOUS
    <2>1. WriteRow
        BY DEF PartitionsNext, RunStep, NextMonth, StartRun, CreatePartition, ListPartitions,
               DropPartition, FinishRun, RunFails, FaultyRun
    <2>2. m \notin partitions
        BY <2>1 DEF WriteRow
    <2> QED
        BY <2>2 DEF PartitionsIInv, CoveredIsThere
<1> QED
    BY <1>1, PartitionsInvariant, PTL DEF PartitionsSpec, CoveredMonthKeepsItsRows
-----------------------------------------------------------------------------
(* The demo project.                                                       *)
Places == Provisioning \union {"down", "without", "ready", "list", "reset", "wait"}
Instance == [at : Places, left : SUBSET Datasets, failed : BOOLEAN]

Provisioned == {"ready", "list", "reset", "wait"}

(* What an instance may be found doing, given whose the slug is.           *)
InstanceOK(n, owner) ==
    /\ ~n.failed
    /\ n.at \in Provisioned => owner = "demo"
    /\ n.at = "install" => owner = "free"

Contents == [Datasets -> {"absent", "seed", "dirty"}]

(* What the tables hold, apart from who is at work on them.                *)
TablesOK ==
    /\ demoUser \in BOOLEAN /\ slugOwner \in {"free", "demo", "foreign"}
    /\ contents \in Contents /\ mishaps \in 0..MaxMishaps /\ removed \subseteq Datasets
    /\ slugOwner = "demo" => \A d \in Datasets : contents[d] = "absent" => d \in removed
    /\ slugOwner # "demo" => \A d \in Datasets : contents[d] = "absent"

InstallersOK ==
    \A i, j \in Instances : instances[i].at = "install" /\ instances[j].at = "install" => i = j

LEMMA DemoIs ==
    /\ DemoIInv <=> /\ TablesOK /\ InstallersOK /\ instances \in [Instances -> Instance]
                    /\ \A i \in Instances : InstanceOK(instances[i], slugOwner)
    /\ DemoIInv' <=> /\ TablesOK' /\ InstallersOK' /\ instances' \in [Instances -> Instance]
                     /\ \A i \in Instances : InstanceOK(instances'[i], slugOwner')
<1>1. DemoTypeOK /\ NothingBefore /\ DemoIsWhole /\ OneInstalls <=>
          /\ TablesOK /\ InstallersOK /\ instances \in [Instances -> Instance]
          /\ \A i \in Instances : InstanceOK(instances[i], slugOwner)
    BY DEF DemoTypeOK, NothingBefore, DemoIsWhole, OneInstalls, SlugHeld, TablesOK, InstallersOK,
           InstanceOK, Instance, Places, Provisioned, Contents
<1>2. DemoTypeOK' /\ NothingBefore' /\ DemoIsWhole' /\ OneInstalls' <=>
          /\ TablesOK' /\ InstallersOK' /\ instances' \in [Instances -> Instance]
          /\ \A i \in Instances : InstanceOK(instances'[i], slugOwner')
    BY DEF DemoTypeOK, NothingBefore, DemoIsWhole, OneInstalls, SlugHeld, TablesOK, InstallersOK,
           InstanceOK, Instance, Places, Provisioned, Contents
<1> QED
    BY <1>1, <1>2 DEF DemoIInv

LEMMA DownIs ==
    ASSUME NEW place \in Places, NEW left \in SUBSET Datasets
    PROVE  /\ [Down EXCEPT !.at = place] \in Instance
           /\ [Down EXCEPT !.at = place].at = place /\ ~[Down EXCEPT !.at = place].failed
           /\ [Down EXCEPT !.at = place, !.left = left] \in Instance
           /\ [Down EXCEPT !.at = place, !.left = left].at = place
           /\ ~[Down EXCEPT !.at = place, !.left = left].failed
BY DEF Down, Instance

(* One instance goes on, and the slug stays whose it is.                   *)
LEMMA OneInstance ==
    ASSUME DemoIInv, NEW i \in Instances, NEW n \in Instance,
           instances' = [instances EXCEPT ![i] = n], slugOwner' = slugOwner, TablesOK',
           InstanceOK(n, slugOwner),
           n.at = "install" => instances[i].at = "install" \/ ~SlugHeld
    PROVE  DemoIInv'
<1>1. /\ InstallersOK /\ instances \in [Instances -> Instance]
      /\ \A j \in Instances : InstanceOK(instances[j], slugOwner)
    BY DemoIs
<1>2. /\ instances' \in [Instances -> Instance]
      /\ instances'[i] = n /\ \A j \in Instances : j # i => instances'[j] = instances[j]
    BY <1>1
<1>3. \A j \in Instances : InstanceOK(instances'[j], slugOwner')
    BY <1>1, <1>2
<1>4. InstallersOK'
    BY <1>1, <1>2 DEF InstallersOK, SlugHeld
<1> QED
    BY <1>2, <1>3, <1>4, DemoIs

(* It goes to another place, with nothing to do there yet.                 *)
LEMMA GotoKeeps ==
    ASSUME DemoIInv, NEW i \in Instances, NEW place \in Places \ {"install"}, Goto(i, place),
           slugOwner' = slugOwner, TablesOK', place \in Provisioned => slugOwner = "demo"
    PROVE  DemoIInv'
<1> DEFINE n == [Down EXCEPT !.at = place]
<1>1. instances' = [instances EXCEPT ![i] = n]
    BY DEF Goto
<1>2. n \in Instance /\ n.at = place /\ ~n.failed
    BY DownIs
<1> HIDE DEF n
<1>3. InstanceOK(n, slugOwner)
    BY <1>2 DEF InstanceOK
<1> QED
    BY <1>1, <1>2, <1>3, OneInstance

LEMMA SameDemoTables ==
    ASSUME DemoIInv, UNCHANGED demoTables, mishaps' \in 0..MaxMishaps
    PROVE  TablesOK' /\ slugOwner' = slugOwner
BY DemoIs DEF demoTables, TablesOK

LEMMA StepsThatOnlyMove ==
    ASSUME DemoIInv, NEW i \in Instances,
           \/ StartInstance(i) \/ Lookup(i) \/ FindOwner(i) \/ ReadBack(i) \/ StartLoop(i)
           \/ ResetDone(i) \/ ResetTick(i)
           \/ EndInstance(i) \/ ProvisioningFails(i) \/ FirstReloadFails(i) \/ ResetFails(i)
    PROVE  DemoIInv'
<1>1. mishaps \in 0..MaxMishaps /\ MaxMishaps \in Nat /\ InstanceOK(instances[i], slugOwner)
      /\ slugOwner \in {"free", "demo", "foreign"}
    BY DemoIs, DemoAssumption DEF TablesOK
<1>2. UNCHANGED demoTables /\ mishaps' \in 0..MaxMishaps
    BY <1>1 DEF StartInstance, Lookup, FindOwner, ReadBack, StartLoop, ResetDone, ResetTick,
                EndInstance, ProvisioningFails, FirstReloadFails, ResetFails
<1>3. TablesOK' /\ slugOwner' = slugOwner
    BY <1>2, SameDemoTables
<1>4. \E place \in Places \ {"install"} :
          Goto(i, place) /\ (place \in Provisioned => slugOwner = "demo")
    BY <1>1 DEF StartInstance, Lookup, FindOwner, ReadBack, StartLoop, ResetDone, ResetTick,
                EndInstance, ProvisioningFails, FirstReloadFails, ResetFails, AfterFailedReset,
                IsDemo, Places, Provisioned, Provisioning, InstanceOK
<1> QED
    BY <1>3, <1>4, GotoKeeps

LEMMA CreateOwnerKeeps ==
    ASSUME DemoIInv, NEW i \in Instances, CreateOwner(i) PROVE DemoIInv'
<1>1. TablesOK
    BY DemoIs
<1>2. TablesOK' /\ slugOwner' = slugOwner
    BY <1>1 DEF CreateOwner, TablesOK
<1>3. Goto(i, "insert") /\ "insert" \in Places \ {"install"} /\ "insert" \notin Provisioned
    BY DEF CreateOwner, Places, Provisioning, Provisioned
<1> QED
    BY <1>2, <1>3, GotoKeeps

LEMMA InsertProjectKeeps ==
    ASSUME DemoIInv, NEW i \in Instances, InsertProject(i) PROVE DemoIInv'
<1>1. TablesOK' /\ slugOwner' = slugOwner
    BY SameDemoTables, DemoIs DEF InsertProject, TablesOK
<1>2. CASE slugOwner = "free"
    <2> DEFINE n == [Down EXCEPT !.at = "install", !.left = Datasets]
    <2>1. instances' = [instances EXCEPT ![i] = n] /\ ~SlugHeld
        BY <1>2 DEF InsertProject
    <2>2. n \in Instance /\ n.at = "install" /\ ~n.failed
        BY DownIs DEF Places, Provisioning
    <2> HIDE DEF n
    <2>3. InstanceOK(n, slugOwner)
        BY <1>2, <2>2 DEF InstanceOK, Provisioned
    <2> QED
        BY <1>1, <2>1, <2>2, <2>3, OneInstance
<1>3. CASE slugOwner # "free"
    <2>1. Goto(i, "readBack") /\ "readBack" \in Places \ {"install"} /\ "readBack" \notin Provisioned
        BY <1>3 DEF InsertProject, Places, Provisioning, Provisioned
    <2> QED
        BY <1>1, <2>1, GotoKeeps
<1> QED
    BY <1>2, <1>3

(* Its list gets shorter.                                                  *)
LEMMA LeftShrinks ==
    ASSUME DemoIInv, NEW i \in Instances, NEW d \in Datasets,
           instances' = [instances EXCEPT ![i].left = @ \ {d}], slugOwner' = slugOwner, TablesOK'
    PROVE  DemoIInv'
<1> DEFINE n == [instances[i] EXCEPT !.left = @ \ {d}]
<1>1. instances \in [Instances -> Instance] /\ InstanceOK(instances[i], slugOwner)
    BY DemoIs
<1>2. instances' = [instances EXCEPT ![i] = n]
    BY <1>1
<1>3. n \in Instance /\ n.at = instances[i].at /\ n.failed = instances[i].failed
    BY <1>1 DEF Instance
<1> HIDE DEF n
<1>4. InstanceOK(n, slugOwner)
    BY <1>1, <1>3 DEF InstanceOK
<1> QED
    BY <1>2, <1>3, <1>4, OneInstance

LEMMA InstallDatasetKeeps ==
    ASSUME DemoIInv, NEW i \in Instances, InstallDataset(i) PROVE DemoIInv'
<1>1. TablesOK' /\ slugOwner' = slugOwner
    BY SameDemoTables, DemoIs DEF InstallDataset, TablesOK
<1>2. instances[i].left \subseteq Datasets
    BY DemoIs DEF Instance
<1>3. \E d \in Datasets : instances' = [instances EXCEPT ![i].left = @ \ {d}]
    BY <1>2 DEF InstallDataset
<1> QED
    BY <1>1, <1>3, LeftShrinks

LEMMA InstallFailsKeeps ==
    ASSUME DemoIInv, NEW i \in Instances, InstallFails(i) PROVE DemoIInv'
<1>1. mishaps' \in 0..MaxMishaps
    BY DemoIs, DemoAssumption DEF InstallFails, TablesOK
<1>2. TablesOK' /\ slugOwner' = slugOwner
    BY <1>1, SameDemoTables DEF InstallFails
<1>3. Goto(i, "without") /\ "without" \in Places \ {"install"} /\ "without" \notin Provisioned
    BY DEF InstallFails, AfterFailedInstall, Goto, Places, Provisioned
<1> QED
    BY <1>2, <1>3, GotoKeeps

(* The transaction that held the slug has all the datasets when it commits. *)
LEMMA CommitProjectKeeps ==
    ASSUME DemoIInv, NEW i \in Instances, CommitProject(i) PROVE DemoIInv'
<1>1. /\ TablesOK /\ InstallersOK /\ instances \in [Instances -> Instance]
      /\ \A j \in Instances : InstanceOK(instances[j], slugOwner)
    BY DemoIs
<1> DEFINE n == [Down EXCEPT !.at = "ready"]
<1>2. /\ instances[i].at = "install" /\ ~instances[i].failed /\ slugOwner = "free"
      /\ slugOwner' = "demo" /\ UNCHANGED <<demoUser, removed, mishaps>>
      /\ instances' = [instances EXCEPT ![i] = n]
    BY <1>1 DEF CommitProject, Goto, InstanceOK
<1>3. contents' = [d \in Datasets |-> "seed"]
    BY <1>2 DEF CommitProject
<1>4. TablesOK'
    BY <1>1, <1>2, <1>3 DEF TablesOK, Contents
<1>5. n \in Instance /\ n.at = "ready" /\ ~n.failed
    BY DownIs DEF Places
<1> HIDE DEF n
<1>6. /\ instances' \in [Instances -> Instance]
      /\ instances'[i] = n /\ \A j \in Instances : j # i => instances'[j] = instances[j]
    BY <1>1, <1>2, <1>5
<1>7. InstallersOK'
    BY <1>1, <1>5, <1>6 DEF InstallersOK
<1>8. ASSUME NEW j \in Instances PROVE InstanceOK(instances'[j], slugOwner')
    <2>1. CASE j = i
        BY <1>2, <1>5, <1>6, <2>1 DEF InstanceOK
    <2>2. CASE j # i
        BY <1>1, <1>2, <1>6, <2>2 DEF InstanceOK, InstallersOK
    <2> QED
        BY <2>1, <2>2
<1> QED
    BY <1>4, <1>6, <1>7, <1>8, DemoIs

LEMMA ListCollectionsKeeps ==
    ASSUME DemoIInv, NEW i \in Instances, ListCollections(i) PROVE DemoIInv'
<1> DEFINE n == [Down EXCEPT !.at = "reset", !.left = Listed]
<1>1. TablesOK' /\ slugOwner' = slugOwner
    BY SameDemoTables, DemoIs DEF ListCollections, TablesOK
<1>2. instances' = [instances EXCEPT ![i] = n] /\ slugOwner = "demo"
    BY DemoIs DEF ListCollections, InstanceOK, Provisioned
<1>3. n \in Instance /\ n.at = "reset" /\ ~n.failed
    BY DownIs DEF Places, Listed
<1> HIDE DEF n
<1>4. InstanceOK(n, slugOwner)
    BY <1>2, <1>3 DEF InstanceOK
<1> QED
    BY <1>1, <1>2, <1>3, <1>4, OneInstance

LEMMA ResetNextKeeps ==
    ASSUME DemoIInv, NEW i \in Instances, ResetNext(i) PROVE DemoIInv'
<1>1. TablesOK /\ instances[i].left \subseteq Datasets
    BY DemoIs DEF Instance
<1>2. PICK d \in Datasets :
          /\ contents' = [contents EXCEPT ![d] = IF @ = "absent" THEN @ ELSE "seed"]
          /\ instances' = [instances EXCEPT ![i].left = @ \ {d}]
    BY <1>1 DEF ResetNext
<1>3. UNCHANGED <<demoUser, slugOwner, removed, mishaps>>
    BY DEF ResetNext
<1>4. contents' \in Contents /\ \A e \in Datasets : contents'[e] = "absent" <=> contents[e] = "absent"
    BY <1>1, <1>2 DEF TablesOK, Contents
<1>5. TablesOK'
    BY <1>1, <1>3, <1>4 DEF TablesOK
<1> QED
    BY <1>2, <1>3, <1>5, LeftShrinks

(* The tables change by other hands than an instance's.                    *)
LEMMA InstancesStay ==
    ASSUME DemoIInv, instances' = instances, TablesOK',
           slugOwner' = slugOwner \/ (slugOwner # "demo" /\ ~SlugHeld)
    PROVE  DemoIInv'
<1>1. /\ InstallersOK /\ instances \in [Instances -> Instance]
      /\ \A j \in Instances : InstanceOK(instances[j], slugOwner)
    BY DemoIs
<1>2. InstallersOK'
    BY <1>1 DEF InstallersOK
<1>3. \A j \in Instances : InstanceOK(instances'[j], slugOwner')
    BY <1>1 DEF InstanceOK, SlugHeld
<1> QED
    BY <1>1, <1>2, <1>3, DemoIs

LEMMA OthersKeep ==
    ASSUME DemoIInv,
           (\E d \in Datasets : VisitorWrites(d) \/ OperatorDeletes(d)) \/ TakeSlug \/ GiveUpSlug
    PROVE  DemoIInv'
<1>1. TablesOK /\ (SlugHeld => slugOwner = "free") /\ MaxMishaps \in Nat
    BY DemoAssumption DEF DemoIInv, OneInstalls, DemoTypeOK, DemoIsWhole, NothingBefore, TablesOK,
                          Contents
<1>2. ASSUME NEW d \in Datasets, VisitorWrites(d) PROVE DemoIInv'
    <2>1. TablesOK'
        BY <1>1, <1>2 DEF VisitorWrites, TablesOK, Contents
    <2> QED
        BY <1>2, <2>1, InstancesStay DEF VisitorWrites
<1>3. ASSUME NEW d \in Datasets, OperatorDeletes(d) PROVE DemoIInv'
    <2>1. TablesOK'
        BY <1>1, <1>3 DEF OperatorDeletes, TablesOK, Contents
    <2> QED
        BY <1>3, <2>1, InstancesStay DEF OperatorDeletes
<1>4. ASSUME TakeSlug PROVE DemoIInv'
    <2>1. TablesOK'
        BY <1>1, <1>4 DEF TakeSlug, TablesOK
    <2> QED
        BY <1>4, <2>1, InstancesStay DEF TakeSlug
<1>5. ASSUME GiveUpSlug PROVE DemoIInv'
    <2>1. TablesOK' /\ slugOwner # "demo" /\ ~SlugHeld
        BY <1>1, <1>5 DEF GiveUpSlug, TablesOK
    <2> QED
        BY <1>5, <2>1, InstancesStay DEF GiveUpSlug
<1> QED
    BY <1>2, <1>3, <1>4, <1>5

LEMMA DemoNextKeeps ==
    ASSUME DemoIInv, [DemoNext]_demoVars PROVE DemoIInv'
<1>1. ASSUME UNCHANGED demoVars PROVE DemoIInv'
    <2>1. TablesOK' /\ instances' = instances /\ slugOwner' = slugOwner
        BY <1>1, DemoIs DEF demoVars, TablesOK
    <2> QED
        BY <2>1, InstancesStay
<1>2. ASSUME NEW i \in Instances,
             \/ StartInstance(i) \/ InstanceStep(i) \/ EndInstance(i)
             \/ InstallFails(i) \/ ProvisioningFails(i) \/ FirstReloadFails(i) \/ ResetFails(i)
      PROVE  DemoIInv'
    BY <1>2, StepsThatOnlyMove, CreateOwnerKeeps, InsertProjectKeeps, InstallDatasetKeeps,
       InstallFailsKeeps, CommitProjectKeeps, ListCollectionsKeeps, ResetNextKeeps DEF InstanceStep
<1> QED
    BY <1>1, <1>2, OthersKeep DEF DemoNext

(* One transaction at a time holds the demo's slug, none goes on after a   *)
(* dataset that failed, and who is past provisioning has found the demo,   *)
(* for any number of instances that start, race, fail and end.             *)
THEOREM DemoInvariant == DemoSpec => []DemoIInv
<1>1. DemoInit => DemoIInv
    <2> SUFFICES ASSUME DemoInit PROVE DemoIInv
        OBVIOUS
    <2>1. Down \in Instance /\ Down.at = "down" /\ ~Down.failed
        BY DEF Down, Instance, Places
    <2>2. TablesOK
        <3>1. contents \in Contents /\ \A d \in Datasets : contents[d] = "absent"
            BY DEF DemoInit, Contents
        <3>2. mishaps \in 0..MaxMishaps
            BY DemoAssumption DEF DemoInit
        <3>3. demoUser \in BOOLEAN
            BY Zenon DEF DemoInit
        <3> QED
            BY <3>1, <3>2, <3>3 DEF DemoInit, TablesOK
    <2>3. /\ instances \in [Instances -> Instance] /\ InstallersOK
          /\ \A i \in Instances : InstanceOK(instances[i], slugOwner)
        BY <2>1 DEF DemoInit, InstallersOK, InstanceOK, Provisioned
    <2> QED
        BY <2>2, <2>3, DemoIs
<1>2. DemoIInv /\ [DemoNext]_demoVars => DemoIInv'
    BY DemoNextKeeps
<1> QED
    BY <1>1, <1>2, PTL DEF DemoSpec

(* The demo has all its datasets but those an operator deleted, and who    *)
(* runs the reset loop found that demo and no other project of its slug.   *)
THEOREM DemoWhole == DemoSpec => []DemoIsWhole
<1>1. DemoIInv => DemoIsWhole
    BY DEF DemoIInv
<1> QED
    BY <1>1, DemoInvariant, PTL
=============================================================================
