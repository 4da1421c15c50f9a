-------------------------- MODULE RateLimitsProofs --------------------------
(***************************************************************************)
(* Proofs about the rate limits and whom they are for.  RateLimits: for    *)
(* any burst, time to live, cap on the keys, lag of a request and number   *)
(* of callers, the table is bounded, callers get what they may and no      *)
(* more, and a bucket that is forgotten was full.  ClientAddress: for any  *)
(* machines, any header a client writes and any number of hops, a caller   *)
(* is the machine the request came from.                                   *)
(***************************************************************************)
EXTENDS RateLimits, ClientAddress, FiniteSetTheorems, WellFoundedInduction, TLAPS

Bucket == [tokens : 0..Burst, last : 0..MaxClock, seen : 0..MaxClock]

(* The empty table.                                                        *)
NoBuckets == [k \in {} |-> Full(0)]

(* What the invariant says of the tables and their history.                *)
Shapes ==
    /\ DOMAIN tables = Limiters
    /\ \A l \in Limiters :
          /\ DOMAIN tables[l] \subseteq Callers
          /\ \A k \in DOMAIN tables[l] : tables[l][k] \in Bucket
          /\ l \notin enabled => tables[l] = NoBuckets
    /\ cleared \in [Limiters -> 0..MaxCleared]
    /\ admitted \in [Limiters -> [Callers -> Nat]]
    /\ rewound \in [Limiters -> [Callers -> Nat]]

Counted == Shapes /\ TableBounded /\ TablesAccount

CallShapes ==
    /\ calls \in [Handlers -> [at : {"idle", "api", "mockIP", "mockProject"},
                               caller : Callers \union {NoCaller},
                               slug : Projects \union UnknownSlugs \union {NoCaller[2]},
                               now : 0..MaxClock]]
    /\ CallsTimely

LEMMA Whole ==
    LimitsIInv <=> enabled \subseteq Limiters /\ clock \in 0..MaxClock /\ Counted /\ CallShapes
BY DEF LimitsIInv, LimitsTypeOK, Counted, Shapes, CallShapes, Bucket, NoBuckets

LEMMA WholeAfter ==
    LimitsIInv' <=> enabled' \subseteq Limiters /\ clock' \in 0..MaxClock /\ Counted' /\ CallShapes'
BY DEF LimitsIInv, LimitsTypeOK, Counted, Shapes, CallShapes, Bucket, NoBuckets
-----------------------------------------------------------------------------
(* What a bucket holds, and what is left of it.                            *)
LEMMA AvailableIs ==
    ASSUME NEW b \in Bucket, NEW now \in Nat
    PROVE  /\ Available(b, now) \in 0..Burst
           /\ b.tokens <= Available(b, now)
           /\ Available(b, now) <= b.tokens + (IF now > b.last THEN now - b.last ELSE 0)
BY LimitsAssumption DEF Bucket, Available, Least

LEMMA SpendIs ==
    ASSUME NEW b \in Bucket, NEW now \in 0..MaxClock
    PROVE  /\ Spend(b, now) \in Bucket
           /\ Spend(b, now).seen = now
           /\ Available(b, now) >= 1 =>
                 /\ Spend(b, now).last = now
                 /\ Spend(b, now).tokens = Available(b, now) - 1
           /\ ~(Available(b, now) >= 1) =>
                 Spend(b, now).last = b.last /\ Spend(b, now).tokens = 0 /\ b.tokens = 0
<1>1. /\ now \in Nat /\ b.tokens \in 0..Burst /\ b.last \in 0..MaxClock
      /\ Burst \in Nat /\ MaxClock \in Nat
    BY LimitsAssumption DEF Bucket
<1>2. /\ Available(b, now) \in 0..Burst
      /\ b.tokens <= Available(b, now)
    BY <1>1, AvailableIs
<1>3. CASE Available(b, now) >= 1
    <2>1. Spend(b, now) = [tokens |-> Available(b, now) - 1, last |-> now, seen |-> now]
        BY <1>3 DEF Spend
    <2>2. Available(b, now) - 1 \in 0..Burst
        BY <1>1, <1>2, <1>3
    <2> QED
        BY <1>3, <2>1, <2>2 DEF Bucket
<1>4. CASE ~(Available(b, now) >= 1)
    <2>1. b.tokens = 0
        BY <1>1, <1>2, <1>4
    <2>2. Spend(b, now) = [b EXCEPT !.seen = now]
        BY <1>4 DEF Spend
    <2> QED
        BY <1>4, <2>1, <2>2 DEF Bucket
<1> QED
    BY <1>3, <1>4

LEMMA FullIs ==
    ASSUME NEW now \in 0..MaxClock
    PROVE  /\ Full(now) \in Bucket
           /\ Full(now).tokens = Burst /\ Full(now).last = now /\ Full(now).seen = now
           /\ Available(Full(now), now) = Burst /\ Burst >= 1
BY LimitsAssumption DEF Full, Bucket, Available, Least
-----------------------------------------------------------------------------
(* Making room: what stays is as it was, what goes is expired or goes with *)
(* all the rest, and there is room for one more.                           *)
LEMMA SweptIs ==
    ASSUME NEW T, IsFiniteSet(DOMAIN T), NEW now, NEW S, S = Swept(T, now)
    PROVE  /\ IsFiniteSet(DOMAIN S) /\ Cardinality(DOMAIN S) <= Cardinality(DOMAIN T)
           /\ \A k : k \in DOMAIN S <=> k \in DOMAIN T /\ ~Expired(T[k], now)
           /\ \A k \in DOMAIN S : S[k] = T[k]
<1>1. /\ \A k : k \in DOMAIN S <=> k \in DOMAIN T /\ ~Expired(T[k], now)
      /\ \A k \in DOMAIN S : S[k] = T[k]
    BY DEF Swept
<1>2. DOMAIN S \subseteq DOMAIN T
    BY <1>1
<1> QED
    BY <1>1, <1>2, FS_Subset

LEMMA RoomIs ==
    ASSUME NEW T, IsFiniteSet(DOMAIN T), Cardinality(DOMAIN T) <= MaxKeys, NEW key, NEW now,
           NEW R, R = MakeRoom(T, key, now)
    PROVE  /\ IsFiniteSet(DOMAIN R)
           /\ \A k \in DOMAIN R : k \in DOMAIN T /\ R[k] = T[k]
           /\ \A k \in DOMAIN T \ DOMAIN R :
                 key \notin DOMAIN T /\ (Clears(T, key, now) \/ Expired(T[k], now))
           /\ Clears(T, key, now) => key \notin DOMAIN T
           /\ Cardinality(DOMAIN R \union {key}) <= MaxKeys
           /\ IsFiniteSet(DOMAIN R \union {key})
<1> DEFINE S == Swept(T, now)
<1>1. /\ IsFiniteSet(DOMAIN S)
      /\ \A k : k \in DOMAIN S <=> k \in DOMAIN T /\ ~Expired(T[k], now)
      /\ \A k \in DOMAIN S : S[k] = T[k]
    BY SweptIs
<1>2. MaxKeys \in Nat /\ MaxKeys >= 1
    BY LimitsAssumption
<1>3. ASSUME NEW D, IsFiniteSet(D), (key \in D /\ Cardinality(D) <= MaxKeys) \/ Cardinality(D) < MaxKeys
      PROVE  IsFiniteSet(D \union {key}) /\ Cardinality(D \union {key}) <= MaxKeys
    <2>1. /\ IsFiniteSet(D \union {key}) /\ Cardinality(D) \in Nat
          /\ \/ Cardinality(D \union {key}) = Cardinality(D) /\ key \in D
             \/ Cardinality(D \union {key}) = Cardinality(D) + 1
        BY <1>3, FS_AddElement, FS_CardinalityType
    <2> QED
        BY <1>2, <1>3, <2>1
<1>4. CASE ~Crowded(T, key)
    <2>1. R = T /\ ~Clears(T, key, now)
        BY <1>4 DEF MakeRoom, Clears
    <2>2. key \in DOMAIN T \/ Cardinality(DOMAIN T) < MaxKeys
        BY <1>2, <1>4, FS_CardinalityType DEF Crowded
    <2> QED
        BY <1>3, <2>1, <2>2
<1>5. CASE Crowded(T, key) /\ Cardinality(DOMAIN S) < MaxKeys
    <2>1. R = S
        BY <1>5 DEF MakeRoom
    <2>2. ~Clears(T, key, now)
        BY <1>1, <1>2, <1>5, FS_CardinalityType DEF Clears
    <2>3. key \notin DOMAIN T
        BY <1>5 DEF Crowded
    <2> HIDE DEF S
    <2> QED
        BY <1>1, <1>3, <1>5, <2>1, <2>2, <2>3
<1>6. CASE Crowded(T, key) /\ ~(Cardinality(DOMAIN S) < MaxKeys)
    <2>1. DOMAIN R = {}
        BY <1>6 DEF MakeRoom
    <2>2. Clears(T, key, now)
        BY <1>1, <1>2, <1>6, FS_CardinalityType DEF Clears
    <2>3. key \notin DOMAIN T
        BY <1>6 DEF Crowded
    <2>4. IsFiniteSet({}) /\ Cardinality({}) < MaxKeys
        BY <1>2, FS_EmptySet
    <2> QED
        BY <1>3, <2>1, <2>2, <2>3, <2>4
<1> QED
    BY <1>4, <1>5, <1>6
-----------------------------------------------------------------------------
(* One more emptying of the table is worth a burst and the lag.            *)
LEMMA OneMore ==
    ASSUME NEW n \in Nat
    PROVE  /\ (Burst + MaxLag) * (n + 1) = (Burst + MaxLag) * n + Burst + MaxLag
           /\ (Burst + MaxLag) * n \in Nat
<1>1. \A a, x \in Nat : a * (x + 1) = a * x + a /\ a * x \in Nat
    OBVIOUS
<1> DEFINE a == Burst + MaxLag
           m == a * n
<1>2. Burst \in Nat /\ MaxLag \in Nat /\ a \in Nat
    BY LimitsAssumption
<1>3. a * (n + 1) = m + a /\ m \in Nat
    BY <1>1, <1>2, Zenon
<1> HIDE DEF m
<1>4. m + a = m + Burst + MaxLag
    BY <1>2, <1>3
<1> QED
    BY <1>3, <1>4, Zenon DEF m

LEMMA AllowanceIs ==
    ASSUME Shapes, NEW l \in Limiters, NEW k \in Callers
    PROVE  /\ Allowance(l, k) \in Nat /\ Allowance(l, k) >= Burst
           /\ cleared[l] \in Nat /\ admitted[l][k] \in Nat /\ rewound[l][k] \in Nat
<1>1. cleared[l] \in Nat /\ rewound[l][k] \in Nat /\ admitted[l][k] \in Nat
    BY LimitsAssumption DEF Shapes
<1> QED
    BY <1>1, OneMore, LimitsAssumption DEF Allowance

(* A bucket that expired was full, and its caller may have a full one.     *)
LEMMA ExpiredWasFull ==
    ASSUME Counted, clock \in 0..MaxClock, NEW l \in Limiters, NEW k \in DOMAIN tables[l],
           NEW now \in Nat, now <= clock, Expired(tables[l][k], now)
    PROVE  MayHaveFull(l, k) /\ Available(tables[l][k], clock) = Burst
<1> DEFINE b == tables[l][k]
           A == Allowance(l, k)
           a == admitted[l][k]
<1>1. k \in Callers /\ b \in Bucket /\ BucketAccounts(l, k)
    BY DEF Counted, Shapes, TablesAccount
<1>2. A \in Nat /\ a \in Nat
    BY <1>1, AllowanceIs DEF Counted
<1>3. /\ b.tokens \in Nat /\ b.tokens <= Burst /\ b.last \in Nat /\ b.seen \in Nat /\ clock \in Nat
      /\ Burst \in Nat /\ Burst >= 1 /\ TTL \in Nat /\ MaxLag \in Nat /\ TTL >= Burst + 2 * MaxLag
    BY <1>1, LimitsAssumption DEF Bucket
<1>4. /\ b.last <= b.seen + MaxLag /\ now - b.seen >= TTL
      /\ b.tokens + a <= A + b.last
    BY <1>1 DEF BucketAccounts, Expired
<1> HIDE DEF A, a, b
<1>5. Available(b, clock) = Burst
    <2>1. b.last + Burst <= clock /\ clock > b.last
        BY <1>3, <1>4
    <2>2. b.tokens + (clock - b.last) >= Burst
        BY <1>3, <2>1
    <2> QED
        BY <1>3, <2>1, <2>2 DEF Available, Least
<1>6. a + Burst + MaxLag <= A + clock
    BY <1>2, <1>3, <1>4
<1> QED
    BY <1>5, <1>6 DEF MayHaveFull, A, a, b

(* Allow.  Whoever's bucket it is not is left as it was, or left full.     *)
LEMMA AllowKeeps ==
    ASSUME Counted, clock \in 0..MaxClock, NEW l \in Limiters, l \in enabled, NEW c \in Callers,
           NEW now \in 0..MaxClock, now <= clock, clock <= now + MaxLag,
           Allow(l, c, now), UNCHANGED <<enabled, clock>>
    PROVE  /\ Counted'
           /\ admitted'[l][c] = admitted[l][c] => admitted[l][c] >= Burst
           /\ cleared'[l] = cleared[l] =>
                 \A k \in DOMAIN tables[l] \ DOMAIN tables'[l] :
                     Available(tables[l][k], clock) = Burst
           /\ \A m \in Limiters : m # l => tables'[m] = tables[m]
<1> DEFINE T == tables[l]
           R == MakeRoom(T, c, now)
           b == BucketOf(R, c, now)
           wiped == Clears(T, c, now)
           ok == Available(b, now) >= 1
<1>1. /\ IsFiniteSet(DOMAIN T) /\ Cardinality(DOMAIN T) <= MaxKeys
      /\ DOMAIN T \subseteq Callers /\ \A k \in DOMAIN T : T[k] \in Bucket
    BY DEF Counted, Shapes, TableBounded, TablesAccount
<1>0. R = MakeRoom(T, c, now) /\ wiped = Clears(T, c, now)
    OBVIOUS
<1>2. /\ IsFiniteSet(DOMAIN R)
      /\ \A k \in DOMAIN R : k \in DOMAIN T /\ R[k] = T[k]
      /\ \A k \in DOMAIN T \ DOMAIN R : c \notin DOMAIN T /\ (wiped \/ Expired(T[k], now))
      /\ wiped => c \notin DOMAIN T
      /\ Cardinality(DOMAIN R \union {c}) <= MaxKeys
      /\ IsFiniteSet(DOMAIN R \union {c})
    <2> HIDE DEF T, R, wiped
    <2> QED
        BY <1>0, <1>1, RoomIs
<1>3. /\ wiped => cleared[l] < MaxCleared
      /\ tables' = [tables EXCEPT ![l] =
                       [k \in DOMAIN R \union {c} |-> IF k = c THEN Spend(b, now) ELSE R[k]]]
      /\ cleared' = [cleared EXCEPT ![l] = @ + (IF wiped THEN 1 ELSE 0)]
      /\ IF ok
         THEN /\ admitted' = [admitted EXCEPT ![l][c] = @ + 1]
              /\ rewound' = [rewound EXCEPT ![l][c] =
                                @ + (IF now < b.last THEN b.last - now ELSE 0)]
         ELSE UNCHANGED <<admitted, rewound>>
    BY DEF Allow, LimitKey
<1> HIDE DEF R, wiped
<1>4. /\ b \in Bucket
      /\ IF c \in DOMAIN T THEN c \in DOMAIN R /\ b = T[c] ELSE c \notin DOMAIN R /\ b = Full(now)
    BY <1>1, <1>2, FullIs DEF BucketOf
<1> HIDE DEF b
<1>5. /\ DOMAIN tables' = Limiters /\ DOMAIN tables'[l] = DOMAIN R \union {c}
      /\ tables'[l][c] = Spend(b, now)
      /\ \A k \in DOMAIN R : k # c => tables'[l][k] = T[k]
      /\ \A m \in Limiters : m # l => tables'[m] = tables[m]
    BY <1>2, <1>3 DEF Counted, Shapes
<1>6. /\ Spend(b, now) \in Bucket
      /\ Spend(b, now).seen = now
      /\ ok => Spend(b, now).last = now /\ Spend(b, now).tokens = Available(b, now) - 1
      /\ ~ok => Spend(b, now).last = b.last /\ Spend(b, now).tokens = 0 /\ b.tokens = 0
    BY <1>4, SpendIs
<1>7. /\ cleared \in [Limiters -> 0..MaxCleared] /\ MaxCleared \in Nat
      /\ admitted \in [Limiters -> [Callers -> Nat]]
      /\ rewound \in [Limiters -> [Callers -> Nat]]
    BY LimitsAssumption DEF Counted, Shapes
<1>8. /\ cleared' \in [Limiters -> 0..MaxCleared]
      /\ cleared'[l] = cleared[l] + (IF wiped THEN 1 ELSE 0)
      /\ \A m \in Limiters : m # l => cleared'[m] = cleared[m]
    BY <1>3, <1>7
<1>9. b.last \in Nat /\ now \in Nat /\ b.last <= MaxClock /\ MaxClock \in Nat
    BY <1>4, LimitsAssumption DEF Bucket
<1> DEFINE back == IF now < b.last THEN b.last - now ELSE 0
<1>10. back \in Nat
    BY <1>9
<1>11. /\ admitted' \in [Limiters -> [Callers -> Nat]]
       /\ admitted'[l][c] = admitted[l][c] + (IF ok THEN 1 ELSE 0)
       /\ \A m \in Limiters, k \in Callers : m # l \/ k # c => admitted'[m][k] = admitted[m][k]
    BY <1>3, <1>7
<1>12. /\ rewound' \in [Limiters -> [Callers -> Nat]]
       /\ rewound'[l][c] = rewound[l][c] + (IF ok THEN back ELSE 0)
       /\ \A m \in Limiters, k \in Callers : m # l \/ k # c => rewound'[m][k] = rewound[m][k]
    <2> HIDE DEF back
    <2>1. IF ok THEN rewound' = [rewound EXCEPT ![l][c] = @ + back] ELSE rewound' = rewound
        BY <1>3 DEF back
    <2>2. CASE ok
        BY <1>7, <1>10, <2>1, <2>2
    <2>3. CASE ~ok
        BY <1>7, <2>1, <2>3
    <2> QED
        BY <2>2, <2>3
<1>13. Shapes'
    <2>1. DOMAIN tables'[l] \subseteq Callers /\ \A k \in DOMAIN tables'[l] : tables'[l][k] \in Bucket
        BY <1>1, <1>2, <1>5, <1>6
    <2> QED
        BY <1>5, <1>8, <1>11, <1>12, <2>1 DEF Counted, Shapes
<1>14. TableBounded'
    BY <1>2, <1>5 DEF Counted, TableBounded
<1>15. \A k \in Callers : Allowance(l, k)' =
           Allowance(l, k) + (IF wiped THEN Burst + MaxLag ELSE 0)
                           + (IF k = c /\ ok THEN back ELSE 0)
    <2> HIDE DEF ok, back
    <2>1. TAKE k \in Callers
    <2> DEFINE B == Burst + MaxLag
    <2>2. /\ B * (cleared[l] + 1) = B * cleared[l] + Burst + MaxLag
          /\ B * cleared[l] \in Nat
          /\ Burst \in Nat /\ MaxLag \in Nat
          /\ cleared[l] + 0 = cleared[l]
        BY <1>7, OneMore, LimitsAssumption
    <2>3. Allowance(l, k)' = Burst + B * cleared'[l] + rewound'[l][k]
        BY DEF Allowance
    <2>4. B * cleared'[l] = B * cleared[l] + (IF wiped THEN Burst + MaxLag ELSE 0)
        BY <1>8, <2>2
    <2>5. rewound'[l][k] = rewound[l][k] + (IF k = c /\ ok THEN back ELSE 0)
        BY <1>7, <1>12
    <2>6. rewound[l][k] \in Nat
        BY <1>7
    <2> HIDE DEF B
    <2> QED
        BY <1>10, <2>2, <2>3, <2>4, <2>5, <2>6 DEF Allowance, B
<1>16. /\ \A k \in Callers : Allowance(l, k) \in Nat /\ admitted[l][k] \in Nat /\ Allowance(l, k) >= Burst
       /\ Burst \in Nat /\ Burst >= 1 /\ MaxLag \in Nat /\ clock \in Nat /\ clock' = clock
    BY AllowanceIs, LimitsAssumption DEF Counted
<1>17. \A k \in Callers : IF k \in DOMAIN T THEN BucketAccounts(l, k) ELSE MayHaveFull(l, k)
    BY DEF Counted, TablesAccount
<1> HIDE DEF back
<1>18. back = IF now < b.last THEN b.last - now ELSE 0
    BY DEF back
<1>19. BucketAccounts(l, c)' /\ (ok \/ admitted[l][c] >= Burst)
    <2> DEFINE A == Allowance(l, c)
               a == admitted[l][c]
               n == Spend(b, now)
    <2>1. /\ b.tokens \in Nat /\ b.tokens <= Burst /\ b.last <= clock
          /\ n.last \in Nat /\ n.tokens \in Nat
        BY <1>4, <1>6, <1>9, <1>16, <1>17, FullIs DEF Bucket, BucketAccounts
    <2>2. /\ Burst <= b.tokens + a
          /\ b.tokens + a <= A + (IF wiped THEN Burst + MaxLag ELSE 0) + b.last
        <3>1. CASE c \in DOMAIN T
            BY <1>2, <1>4, <1>9, <1>16, <1>17, <3>1 DEF BucketAccounts
        <3>2. CASE c \notin DOMAIN T
            <4>1. b.tokens = Burst /\ b.last = now /\ MayHaveFull(l, c)
                BY <1>4, <1>17, <3>2, FullIs
            <4>2. a = 0 \/ a + Burst + MaxLag <= A + clock
                BY <4>1 DEF MayHaveFull
            <4> HIDE DEF A, a
            <4> QED
                BY <1>9, <1>16, <4>1, <4>2 DEF A, a
        <3> QED
            BY <3>1, <3>2
    <2>3. /\ Available(b, now) \in 0..Burst /\ b.tokens <= Available(b, now)
          /\ Available(b, now) <= b.tokens + (IF now > b.last THEN now - b.last ELSE 0)
        BY <1>4, <1>9, AvailableIs
    <2>4. A \in Nat /\ a \in Nat
        BY <1>16
    <2>5. /\ Allowance(l, c)' = A + (IF wiped THEN Burst + MaxLag ELSE 0) + (IF ok THEN back ELSE 0)
          /\ admitted'[l][c] = a + (IF ok THEN 1 ELSE 0)
          /\ tables'[l][c] = n
        BY <1>5, <1>11, <1>15
    <2> HIDE DEF A, a, n
    <2>6. n.last <= clock /\ n.seen <= clock /\ n.last <= n.seen + MaxLag
        BY <1>6, <1>9, <1>16, <2>1 DEF n
    <2>7. Burst <= n.tokens + admitted'[l][c]
        BY <1>6, <1>16, <2>1, <2>2, <2>3, <2>4, <2>5 DEF n
    <2>8. n.tokens + admitted'[l][c] <= Allowance(l, c)' + n.last
        <3> DEFINE w == IF wiped THEN Burst + MaxLag ELSE 0
        <3>1. w \in Nat
            BY <1>16
        <3> HIDE DEF w
        <3>2. b.tokens + a <= A + w + b.last
            BY <2>2 DEF w
        <3>3. Allowance(l, c)' = A + w + (IF ok THEN back ELSE 0)
            BY <2>5 DEF w
        <3>4. CASE ok
            BY <1>6, <1>9, <1>18, <2>1, <2>3, <2>4, <2>5, <3>1, <3>2, <3>3, <3>4 DEF n
        <3>5. CASE ~ok
            BY <1>6, <1>9, <2>1, <2>4, <2>5, <3>1, <3>2, <3>3, <3>5 DEF n
        <3> QED
            BY <3>4, <3>5
    <2>9. ok \/ a >= Burst
        BY <1>6, <1>16, <2>2, <2>4
    <2>10. BucketAccounts(l, c)'
        BY <1>16, <2>5, <2>6, <2>7, <2>8 DEF BucketAccounts
    <2> QED
        BY <2>9, <2>10 DEF a
<1>20. ASSUME NEW k \in DOMAIN R, k # c PROVE BucketAccounts(l, k)'
    <2> DEFINE A == Allowance(l, k)
               a == admitted[l][k]
    <2>1. k \in Callers /\ BucketAccounts(l, k) /\ T[k] \in Bucket
        BY <1>1, <1>2, <1>17
    <2>2. /\ Allowance(l, k)' = A + (IF wiped THEN Burst + MaxLag ELSE 0)
          /\ admitted'[l][k] = a /\ tables'[l][k] = T[k] /\ A \in Nat /\ a \in Nat
        BY <1>5, <1>11, <1>15, <1>16, <1>20, <2>1
    <2>3. T[k].tokens \in Nat /\ T[k].last \in Nat
        BY <2>1, LimitsAssumption DEF Bucket
    <2> QED
        BY <1>16, <2>1, <2>2, <2>3 DEF BucketAccounts
<1>21. ASSUME NEW k \in Callers, k # c, k \notin DOMAIN R PROVE MayHaveFull(l, k)'
    <2> DEFINE A == Allowance(l, k)
               a == admitted[l][k]
    <2>1. /\ Allowance(l, k)' = A + (IF wiped THEN Burst + MaxLag ELSE 0)
          /\ admitted'[l][k] = a /\ A \in Nat /\ a \in Nat
        BY <1>11, <1>15, <1>16, <1>21
    <2>2. CASE k \in DOMAIN T /\ wiped
        <3>1. BucketAccounts(l, k) /\ T[k].tokens \in Nat /\ T[k].last \in Nat
            BY <1>1, <1>17, <2>2, LimitsAssumption DEF Bucket
        <3>2. T[k].tokens + a <= A + T[k].last /\ T[k].last <= clock
            BY <3>1 DEF BucketAccounts
        <3> HIDE DEF A, a
        <3>3. a + Burst + MaxLag <= Allowance(l, k)' + clock
            BY <1>16, <2>1, <2>2, <3>1, <3>2
        <3> QED
            BY <1>16, <2>1, <3>3 DEF MayHaveFull
    <2>3. MayHaveFull(l, k) => MayHaveFull(l, k)'
        BY <1>16, <2>1 DEF MayHaveFull
    <2>4. CASE ~(k \in DOMAIN T /\ wiped)
        <3>1. MayHaveFull(l, k)
            BY <1>2, <1>9, <1>17, <1>21, <2>4, ExpiredWasFull
        <3> QED
            BY <2>3, <3>1
    <2> QED
        BY <2>2, <2>4
<1>22. ASSUME NEW m \in Limiters, m # l, NEW k \in Callers
       PROVE  IF k \in DOMAIN tables'[m] THEN BucketAccounts(m, k)' ELSE MayHaveFull(m, k)'
    <2>1. /\ tables'[m] = tables[m] /\ cleared'[m] = cleared[m]
          /\ admitted'[m][k] = admitted[m][k] /\ rewound'[m][k] = rewound[m][k]
        BY <1>5, <1>8, <1>11, <1>12, <1>22
    <2>2. Allowance(m, k)' = Allowance(m, k)
        BY <2>1 DEF Allowance
    <2>3. IF k \in DOMAIN tables[m] THEN BucketAccounts(m, k) ELSE MayHaveFull(m, k)
        BY DEF Counted, TablesAccount
    <2> QED
        BY <1>16, <2>1, <2>2, <2>3 DEF BucketAccounts, MayHaveFull
<1>23. TablesAccount'
    <2>1. ASSUME NEW m \in Limiters PROVE IsFiniteSet(DOMAIN tables'[m])
        BY <1>2, <1>5 DEF Counted, TablesAccount
    <2>2. ASSUME NEW k \in Callers
          PROVE  IF k \in DOMAIN tables'[l] THEN BucketAccounts(l, k)' ELSE MayHaveFull(l, k)'
        BY <1>5, <1>19, <1>20, <1>21
    <2> QED
        BY <1>22, <2>1, <2>2 DEF TablesAccount
<1>24. admitted'[l][c] = admitted[l][c] => admitted[l][c] >= Burst
    BY <1>7, <1>11, <1>19
<1>25. ASSUME cleared'[l] = cleared[l], NEW k \in DOMAIN T \ DOMAIN tables'[l]
       PROVE  Available(T[k], clock) = Burst
    <2>1. ~wiped
        BY <1>7, <1>8, <1>25
    <2>2. k \in DOMAIN T \ DOMAIN R
        BY <1>5
    <2> QED
        BY <1>2, <1>9, <2>1, <2>2, ExpiredWasFull
<1> QED
    BY <1>5, <1>13, <1>14, <1>23, <1>24, <1>25 DEF Counted

(* The sweep, the passing of time, and whatever leaves the tables alone.   *)
LEMMA SweepKeeps ==
    ASSUME Counted, clock \in 0..MaxClock, NEW l \in Limiters, Sweep(l)
    PROVE  /\ Counted'
           /\ \A k \in DOMAIN tables[l] \ DOMAIN tables'[l] :
                  Available(tables[l][k], clock) = Burst
           /\ \A m \in Limiters : m # l => tables'[m] = tables[m]
<1> DEFINE T == tables[l]
           S == Swept(T, clock)
<1>1. /\ IsFiniteSet(DOMAIN T) /\ Cardinality(DOMAIN T) <= MaxKeys
      /\ DOMAIN T \subseteq Callers /\ \A k \in DOMAIN T : T[k] \in Bucket
    BY DEF Counted, Shapes, TableBounded, TablesAccount
<1>2. /\ IsFiniteSet(DOMAIN S) /\ Cardinality(DOMAIN S) <= Cardinality(DOMAIN T)
      /\ \A k : k \in DOMAIN S <=> k \in DOMAIN T /\ ~Expired(T[k], clock)
      /\ \A k \in DOMAIN S : S[k] = T[k]
    BY <1>1, SweptIs
<1>3. /\ l \in enabled /\ tables' = [tables EXCEPT ![l] = S]
      /\ UNCHANGED <<enabled, clock, cleared, admitted, rewound>>
    BY DEF Sweep
<1> HIDE DEF S
<1>4. /\ DOMAIN tables' = Limiters /\ tables'[l] = S
      /\ \A m \in Limiters : m # l => tables'[m] = tables[m]
    BY <1>3 DEF Counted, Shapes
<1>5. /\ Cardinality(DOMAIN S) \in Nat /\ Cardinality(DOMAIN T) \in Nat
      /\ MaxKeys \in Nat /\ clock \in Nat
    BY <1>1, <1>2, FS_CardinalityType, LimitsAssumption
<1>6. Shapes'
    BY <1>1, <1>2, <1>3, <1>4 DEF Counted, Shapes
<1>7. TableBounded'
    BY <1>1, <1>2, <1>4, <1>5 DEF Counted, TableBounded
<1>8. \A k \in DOMAIN T \ DOMAIN S : MayHaveFull(l, k) /\ Available(T[k], clock) = Burst
    BY <1>2, <1>5, ExpiredWasFull
<1>9. ASSUME NEW m \in Limiters, NEW k \in Callers
      PROVE  IF k \in DOMAIN tables'[m] THEN BucketAccounts(m, k)' ELSE MayHaveFull(m, k)'
    <2>1. Allowance(m, k)' = Allowance(m, k)
        BY <1>3 DEF Allowance
    <2>2. IF k \in DOMAIN tables[m] THEN BucketAccounts(m, k) ELSE MayHaveFull(m, k)
        BY DEF Counted, TablesAccount
    <2>3. k \in DOMAIN tables'[m] => k \in DOMAIN tables[m] /\ tables'[m][k] = tables[m][k]
        BY <1>2, <1>4
    <2>4. k \notin DOMAIN tables'[m] => MayHaveFull(m, k)
        BY <1>4, <1>8, <2>2
    <2> QED
        BY <1>3, <2>1, <2>2, <2>3, <2>4 DEF BucketAccounts, MayHaveFull
<1>10. TablesAccount'
    BY <1>2, <1>4, <1>9 DEF Counted, TablesAccount
<1> QED
    BY <1>4, <1>6, <1>7, <1>8, <1>10 DEF Counted

LEMMA TimeKeeps ==
    ASSUME Counted, clock \in Nat, clock' \in Nat, clock' >= clock,
           UNCHANGED <<enabled, tables, cleared, admitted, rewound>>
    PROVE  Counted'
<1>1. Shapes' /\ TableBounded'
    BY DEF Counted, Shapes, TableBounded
<1>2. ASSUME NEW m \in Limiters, NEW k \in Callers
      PROVE  IF k \in DOMAIN tables'[m] THEN BucketAccounts(m, k)' ELSE MayHaveFull(m, k)'
    <2>1. Allowance(m, k)' = Allowance(m, k)
        BY DEF Allowance
    <2>2. IF k \in DOMAIN tables[m] THEN BucketAccounts(m, k) ELSE MayHaveFull(m, k)
        BY DEF Counted, TablesAccount
    <2>3. Allowance(m, k) \in Nat /\ admitted[m][k] \in Nat /\ Burst \in Nat /\ MaxLag \in Nat
        BY AllowanceIs, LimitsAssumption DEF Counted
    <2>4. k \in DOMAIN tables[m] =>
              tables[m][k].last \in Nat /\ tables[m][k].seen \in Nat /\ tables[m][k].tokens \in Nat
        BY LimitsAssumption DEF Counted, Shapes, Bucket
    <2>5. MayHaveFull(m, k) => MayHaveFull(m, k)'
        BY <2>1, <2>3 DEF MayHaveFull
    <2>6. k \in DOMAIN tables[m] /\ BucketAccounts(m, k) => BucketAccounts(m, k)'
        BY <2>1, <2>3, <2>4 DEF BucketAccounts
    <2> QED
        BY <2>2, <2>5, <2>6
<1>3. TablesAccount'
    BY <1>2 DEF Counted, TablesAccount
<1> QED
    BY <1>1, <1>3 DEF Counted

(* A handler that waits for a limiter, or is done with it.                 *)
LEMMA WaitKeeps ==
    ASSUME CallShapes, clock \in 0..MaxClock, NEW h \in Handlers,
           NEW place \in {"api", "mockIP", "mockProject"}, place \in enabled \/ place = "mockIP",
           NEW caller \in Callers, NEW slug \in Projects \union UnknownSlugs \union {NoCaller[2]},
           Wait(h, place, caller, slug), UNCHANGED <<enabled, clock>>
    PROVE  CallShapes'
<1> DEFINE call == [at |-> place, caller |-> caller, slug |-> slug, now |-> clock]
<1>1. calls' = [calls EXCEPT ![h] = call]
    BY DEF Wait
<1>2. call \in [at : {"idle", "api", "mockIP", "mockProject"},
                caller : Callers \union {NoCaller},
                slug : Projects \union UnknownSlugs \union {NoCaller[2]}, now : 0..MaxClock]
    OBVIOUS
<1>3. call.at = place /\ call.caller = caller /\ call.now = clock
    OBVIOUS
<1>4. clock \in Nat /\ MaxLag \in Nat
    BY LimitsAssumption
<1> HIDE DEF call
<1>5. calls' \in [Handlers -> [at : {"idle", "api", "mockIP", "mockProject"},
                               caller : Callers \union {NoCaller},
                               slug : Projects \union UnknownSlugs \union {NoCaller[2]},
                               now : 0..MaxClock]]
    BY <1>1, <1>2 DEF CallShapes
<1>6. \A g \in Handlers : calls'[g] = IF g = h THEN call ELSE calls[g]
    BY <1>1 DEF CallShapes
<1>7. CallsTimely'
    BY <1>3, <1>4, <1>6 DEF CallShapes, CallsTimely
<1> QED
    BY <1>5, <1>7 DEF CallShapes

LEMMA EndKeeps ==
    ASSUME CallShapes, NEW h \in Handlers, EndCall(h), UNCHANGED <<enabled, clock>>
    PROVE  CallShapes'
<1>1. calls' = [calls EXCEPT ![h] = Idling]
    BY DEF EndCall
<1>2. /\ Idling \in [at : {"idle", "api", "mockIP", "mockProject"},
                     caller : Callers \union {NoCaller},
                     slug : Projects \union UnknownSlugs \union {NoCaller[2]}, now : 0..MaxClock]
      /\ Idling.at = "idle"
    BY LimitsAssumption DEF Idling
<1>3. calls' \in [Handlers -> [at : {"idle", "api", "mockIP", "mockProject"},
                               caller : Callers \union {NoCaller},
                               slug : Projects \union UnknownSlugs \union {NoCaller[2]},
                               now : 0..MaxClock]]
    BY <1>1, <1>2 DEF CallShapes
<1>4. \A g \in Handlers : calls'[g] = IF g = h THEN Idling ELSE calls[g]
    BY <1>1 DEF CallShapes
<1>5. CallsTimely'
    BY <1>2, <1>4 DEF CallShapes, CallsTimely
<1> QED
    BY <1>3, <1>5 DEF CallShapes
-----------------------------------------------------------------------------
(* What a step may never do: the two action properties.                    *)
Forgets ==
    \A l \in Limiters : cleared'[l] = cleared[l] =>
        \A k \in DOMAIN tables[l] \ DOMAIN tables'[l] : Available(tables[l][k], clock) = Burst

Refuses ==
    \A h \in Handlers :
        LET call == calls[h]
        IN  /\ call.at \in enabled
            /\ call # calls'[h]
            /\ admitted'[call.at][call.caller] = admitted[call.at][call.caller]
            => admitted[call.at][call.caller] >= Burst

(* A request that asks a limiter.                                          *)
LEMMA AskKeeps ==
    ASSUME LimitsIInv, NEW h \in Handlers, calls[h].at \in Limiters, calls[h].at \in enabled,
           Allow(calls[h].at, calls[h].caller, calls[h].now), UNCHANGED <<enabled, clock>>,
           \A g \in Handlers : g # h => calls'[g] = calls[g]
    PROVE  Counted' /\ Forgets /\ Refuses
<1> DEFINE l == calls[h].at
           c == calls[h].caller
           now == calls[h].now
<1>1. /\ Counted /\ clock \in 0..MaxClock /\ CallShapes
    BY Whole
<1>2. /\ l \in Limiters /\ l \in enabled /\ c \in Callers /\ now \in 0..MaxClock
      /\ now <= clock /\ clock <= now + MaxLag /\ Allow(l, c, now)
    BY <1>1 DEF CallShapes, CallsTimely, Limiters
<1>3. /\ Counted'
      /\ admitted'[l][c] = admitted[l][c] => admitted[l][c] >= Burst
      /\ cleared'[l] = cleared[l] =>
            \A k \in DOMAIN tables[l] \ DOMAIN tables'[l] : Available(tables[l][k], clock) = Burst
      /\ \A m \in Limiters : m # l => tables'[m] = tables[m]
    <2> HIDE DEF l, c, now
    <2> QED
        BY <1>1, <1>2, AllowKeeps
<1>4. Forgets
    BY <1>3 DEF Forgets
<1>5. Refuses
    BY <1>3 DEF Refuses
<1> QED
    BY <1>3, <1>4, <1>5

(* One that asks none.                                                     *)
LEMMA LeavesTables ==
    ASSUME LimitsIInv, Untouched, enabled' = enabled, clock' \in Nat, clock' >= clock,
           \A g \in Handlers : calls'[g] # calls[g] => calls[g].at \notin enabled
    PROVE  Counted' /\ Forgets /\ Refuses
<1>1. Counted /\ clock \in Nat
    BY Whole, LimitsAssumption
<1>2. Counted'
    BY <1>1, TimeKeeps DEF Untouched
<1>3. Forgets
    BY DEF Forgets, Untouched
<1>4. Refuses
    BY DEF Refuses
<1> QED
    BY <1>2, <1>3, <1>4

LEMMA OthersStay ==
    ASSUME CallShapes, NEW h \in Handlers, NEW place, NEW caller, NEW slug,
           Wait(h, place, caller, slug) \/ EndCall(h)
    PROVE  \A g \in Handlers : g # h => calls'[g] = calls[g]
BY DEF CallShapes, Wait, EndCall

LEMMA GoOnKeeps ==
    ASSUME LimitsIInv, NEW h \in Handlers, calls[h].at = "mockIP", GoOn(h),
           UNCHANGED <<enabled, clock>>
    PROVE  CallShapes' /\ \A g \in Handlers : g # h => calls'[g] = calls[g]
<1>1. CallShapes /\ clock \in 0..MaxClock
    BY Whole
<1>2. CASE "mockProject" \in enabled /\ calls[h].slug \in Projects
    <2>1. Wait(h, "mockProject", <<"project", calls[h].slug>>, calls[h].slug)
        BY <1>2 DEF GoOn
    <2>2. <<"project", calls[h].slug>> \in Callers
        BY <1>2 DEF Callers
    <2> QED
        BY <1>1, <1>2, <2>1, <2>2, WaitKeeps, OthersStay
<1>3. CASE ~("mockProject" \in enabled /\ calls[h].slug \in Projects)
    <2>1. EndCall(h)
        BY <1>3 DEF GoOn
    <2> QED
        BY <1>1, <2>1, EndKeeps, OthersStay
<1> QED
    BY <1>2, <1>3

LEMMA StepDoes ==
    ASSUME LimitsIInv, LimitsNext
    PROVE  LimitsIInv' /\ Forgets /\ Refuses
<1>1. /\ enabled \subseteq Limiters /\ clock \in 0..MaxClock /\ Counted /\ CallShapes
      /\ clock \in Nat /\ MaxClock \in Nat /\ MaxLag \in Nat
    BY Whole, LimitsAssumption
<1>2. ASSUME NEW h \in Handlers, ArriveAPI(h) \/ ArriveMock(h)
      PROVE  LimitsIInv' /\ Forgets /\ Refuses
    <2>1. /\ UNCHANGED <<enabled, clock>> /\ Untouched
          /\ calls[h].at = "idle"
        BY <1>2 DEF ArriveAPI, ArriveMock
    <2>2. PICK place \in {"api", "mockIP"}, caller \in Callers,
               slug \in Projects \union UnknownSlugs \union {NoCaller[2]} :
              Wait(h, place, caller, slug) /\ (place \in enabled \/ place = "mockIP")
        <3>1. CASE ArriveAPI(h)
            <4>1. PICK caller \in APICallers : Wait(h, "api", caller, NoCaller[2])
                BY <3>1 DEF ArriveAPI
            <4>2. caller \in Callers /\ "api" \in enabled
                BY <3>1 DEF APICallers, Callers, ArriveAPI
            <4> QED
                BY <4>1, <4>2
        <3>2. CASE ArriveMock(h)
            <4>1. PICK a \in Addresses, slug \in Projects \union UnknownSlugs :
                      Wait(h, "mockIP", <<"address", a>>, slug)
                BY <3>2 DEF ArriveMock
            <4>2. <<"address", a>> \in Callers
                BY DEF Callers
            <4> QED
                BY <4>1, <4>2
        <3> QED
            BY <1>2, <3>1, <3>2
    <2>3. CallShapes' /\ \A g \in Handlers : g # h => calls'[g] = calls[g]
        BY <1>1, <2>1, <2>2, WaitKeeps, OthersStay
    <2>4. "idle" \notin enabled
        BY <1>1 DEF Limiters
    <2>5. Counted' /\ Forgets /\ Refuses
        BY <1>1, <2>1, <2>3, <2>4, LeavesTables
    <2> QED
        BY <1>1, <2>1, <2>3, <2>5, WholeAfter
<1>3. ASSUME NEW h \in Handlers, AllowAPI(h) \/ AllowMockProject(h)
      PROVE  LimitsIInv' /\ Forgets /\ Refuses
    <2>1. /\ UNCHANGED <<enabled, clock>> /\ EndCall(h)
          /\ calls[h].at \in {"api", "mockProject"}
          /\ Allow(calls[h].at, calls[h].caller, calls[h].now)
        BY <1>3 DEF AllowAPI, AllowMockProject
    <2>2. calls[h].at \in enabled /\ calls[h].at \in Limiters
        BY <1>1, <2>1 DEF CallShapes, CallsTimely
    <2>3. CallShapes' /\ \A g \in Handlers : g # h => calls'[g] = calls[g]
        BY <1>1, <2>1, EndKeeps, OthersStay
    <2>4. Counted' /\ Forgets /\ Refuses
        BY <2>1, <2>2, <2>3, AskKeeps
    <2> QED
        BY <1>1, <2>1, <2>3, <2>4, WholeAfter
<1>4. ASSUME NEW h \in Handlers, AllowMockIP(h)
      PROVE  LimitsIInv' /\ Forgets /\ Refuses
    <2>1. UNCHANGED <<enabled, clock>> /\ calls[h].at = "mockIP"
        BY <1>4 DEF AllowMockIP
    <2>2. GoOn(h) \/ EndCall(h)
        BY <1>4, Zenon DEF AllowMockIP
    <2>3. CallShapes' /\ \A g \in Handlers : g # h => calls'[g] = calls[g]
        BY <1>1, <2>1, <2>2, GoOnKeeps, EndKeeps, OthersStay
    <2>4. CASE "mockIP" \in enabled
        <3>1. Allow("mockIP", calls[h].caller, calls[h].now)
            BY <1>4, <2>4, Zenon DEF AllowMockIP
        <3> QED
            BY <1>1, <2>1, <2>3, <2>4, <3>1, AskKeeps, WholeAfter
    <2>5. CASE "mockIP" \notin enabled
        <3>1. Untouched
            BY <1>4, <2>5, Zenon DEF AllowMockIP
        <3>2. Counted' /\ Forgets /\ Refuses
            BY <1>1, <2>1, <2>3, <2>5, <3>1, LeavesTables
        <3> QED
            BY <1>1, <2>1, <2>3, <3>2, WholeAfter
    <2> QED
        BY <2>4, <2>5
<1>5. ASSUME NEW l \in Limiters, Sweep(l)
      PROVE  LimitsIInv' /\ Forgets /\ Refuses
    <2>1. UNCHANGED <<enabled, clock, calls>>
        BY <1>5 DEF Sweep
    <2>2. CallShapes' /\ Refuses
        BY <1>1, <2>1 DEF CallShapes, CallsTimely, Refuses
    <2>3. Counted' /\ Forgets
        BY <1>1, <1>5, SweepKeeps DEF Forgets
    <2> QED
        BY <1>1, <2>1, <2>2, <2>3, WholeAfter
<1>6. CASE Tick
    <2>1. /\ clock' = clock + 1 /\ clock' \in 0..MaxClock
          /\ UNCHANGED <<enabled, tables, cleared, calls, admitted, rewound>>
        BY <1>1, <1>6 DEF Tick
    <2>2. CallsTimely'
        <3>1. \A h \in Handlers : calls[h].at # "idle" => clock - calls[h].now < MaxLag
            BY <1>6 DEF Tick
        <3>2. \A h \in Handlers : calls[h].now \in Nat
            BY <1>1 DEF CallShapes
        <3> QED
            BY <1>1, <2>1, <3>1, <3>2 DEF CallShapes, CallsTimely
    <2>3. Counted' /\ Forgets /\ Refuses
        BY <1>1, <2>1, LeavesTables DEF Untouched
    <2> QED
        BY <1>1, <2>1, <2>2, <2>3, WholeAfter DEF CallShapes
<1> QED
    BY <1>2, <1>3, <1>4, <1>5, <1>6 DEF LimitsNext

LEMMA InitEstablishes == LimitsInit => LimitsIInv
<1> SUFFICES ASSUME LimitsInit PROVE LimitsIInv
    OBVIOUS
<1>1. /\ Burst \in Nat /\ MaxKeys \in Nat /\ MaxClock \in Nat /\ MaxCleared \in Nat
      /\ DOMAIN NoBuckets = {}
    BY LimitsAssumption DEF NoBuckets
<1>2. /\ DOMAIN tables = Limiters /\ \A l \in Limiters : tables[l] = NoBuckets
    BY DEF LimitsInit, NoBuckets
<1> HIDE DEF NoBuckets
<1>3. Shapes
    BY <1>1, <1>2 DEF LimitsInit, Shapes
<1>4. IsFiniteSet({}) /\ Cardinality({}) = 0
    BY FS_EmptySet
<1>5. TableBounded
    BY <1>1, <1>2, <1>4 DEF TableBounded
<1>6. TablesAccount
    BY <1>1, <1>2, <1>4 DEF LimitsInit, TablesAccount, MayHaveFull
<1>7. /\ Idling \in [at : {"idle", "api", "mockIP", "mockProject"},
                     caller : Callers \union {NoCaller},
                     slug : Projects \union UnknownSlugs \union {NoCaller[2]}, now : 0..MaxClock]
      /\ Idling.at = "idle"
    BY <1>1 DEF Idling
<1>8. CallShapes
    BY <1>7 DEF LimitsInit, CallShapes, CallsTimely
<1> QED
    BY <1>1, <1>3, <1>5, <1>6, <1>8, Whole DEF LimitsInit, Counted

LEMMA StutterKeeps == LimitsIInv /\ UNCHANGED limitsVars => LimitsIInv'
<1> SUFFICES ASSUME LimitsIInv, UNCHANGED limitsVars PROVE LimitsIInv'
    OBVIOUS
<1>1. Counted /\ CallShapes /\ clock \in Nat /\ clock \in 0..MaxClock /\ enabled \subseteq Limiters
    BY Whole, LimitsAssumption
<1>2. UNCHANGED <<enabled, clock, tables, cleared, calls, admitted, rewound>>
    BY DEF limitsVars
<1>3. Counted'
    BY <1>1, <1>2, TimeKeeps
<1>4. CallShapes'
    BY <1>1, <1>2 DEF CallShapes, CallsTimely
<1> QED
    BY <1>1, <1>2, <1>3, <1>4, WholeAfter

(* The invariant the properties follow from: each bucket accounts for all  *)
(* that its caller was ever let through, and a caller without one is owed  *)
(* a full one.                                                             *)
THEOREM LimitsInvariant == LimitsSpec => []LimitsIInv
<1>1. LimitsIInv /\ [LimitsNext]_limitsVars => LimitsIInv'
    BY StepDoes, StutterKeeps
<1> QED
    BY <1>1, InitEstablishes, PTL DEF LimitsSpec

(* Buckets, counts and requests are what they should be.                   *)
THEOREM LimitsTypeCorrect == LimitsSpec => []LimitsTypeOK
<1>1. LimitsIInv => LimitsTypeOK
    BY DEF LimitsIInv
<1> QED
    BY <1>1, LimitsInvariant, PTL

(* The table of a limiter never holds more than its cap.                   *)
THEOREM TablesBounded == LimitsSpec => []TableBounded
<1>1. LimitsIInv => TableBounded
    BY DEF LimitsIInv
<1> QED
    BY <1>1, LimitsInvariant, PTL

(* No caller is let through more often than its allowance and the time     *)
(* that has passed, through every sweep and every emptying of the table.   *)
THEOREM NoMoreThanAllowed == LimitsSpec => []AdmissionsBounded
<1>1. LimitsIInv => AdmissionsBounded
    <2> SUFFICES ASSUME LimitsIInv, NEW l \in Limiters, NEW c \in Callers
                 PROVE  admitted[l][c] <= Allowance(l, c) + clock
        BY DEF AdmissionsBounded
    <2>1. Counted /\ clock \in Nat /\ Burst \in Nat /\ MaxLag \in Nat
        BY Whole, LimitsAssumption
    <2>2. Allowance(l, c) \in Nat /\ admitted[l][c] \in Nat
        BY <2>1, AllowanceIs DEF Counted
    <2>3. CASE c \in DOMAIN tables[l]
        <3>1. BucketAccounts(l, c) /\ tables[l][c].tokens \in Nat /\ tables[l][c].last \in Nat
            BY <2>1, <2>3, LimitsAssumption DEF Counted, TablesAccount, Shapes, Bucket
        <3> QED
            BY <2>1, <2>2, <3>1 DEF BucketAccounts
    <2>4. CASE c \notin DOMAIN tables[l]
        <3>1. MayHaveFull(l, c)
            BY <2>1, <2>4 DEF Counted, TablesAccount
        <3> QED
            BY <2>1, <2>2, <3>1 DEF MayHaveFull
    <2> QED
        BY <2>3, <2>4
<1> QED
    BY <1>1, LimitsInvariant, PTL

(* A bucket that a sweep forgets was full, so that a new one in its place  *)
(* answers the same.                                                       *)
THEOREM OnlyFullBucketsForgotten == LimitsSpec => NothingForgotten
<1>1. LimitsIInv /\ [LimitsNext]_limitsVars =>
          [\A l \in Limiters : cleared'[l] = cleared[l] =>
              \A k \in DOMAIN tables[l] \ DOMAIN tables'[l] :
                  Available(tables[l][k], clock) = Burst]_limitsVars
    BY StepDoes DEF Forgets
<1> QED
    BY <1>1, LimitsInvariant, PTL DEF LimitsSpec, NothingForgotten

(* Whoever is refused has had a burst of its own.                          *)
THEOREM RefusalsAreOnesOwn == LimitsSpec => RefusedForItsOwn
<1>1. LimitsIInv /\ [LimitsNext]_limitsVars =>
          [\A h \in Handlers :
              LET call == calls[h]
              IN  /\ call.at \in enabled
                  /\ call # calls'[h]
                  /\ admitted'[call.at][call.caller] = admitted[call.at][call.caller]
                  => admitted[call.at][call.caller] >= Burst]_limitsVars
    BY StepDoes DEF Refuses
<1> QED
    BY <1>1, LimitsInvariant, PTL DEF LimitsSpec, RefusedForItsOwn
-----------------------------------------------------------------------------
(* Whose limit it is: the machines whose word about others is taken.       *)
LEMMA WhoIsTrusted ==
    /\ \A m \in Strangers : ~Trusted(m) /\ m # Unreadable
    /\ \A m \in Proxies \union Mapped : Trusted(m) /\ m # Unreadable
    /\ \A m \in Machines : m \in Strangers \/ m \in Proxies \union Mapped
BY AddressAssumption DEF Trusted, Machines

LEMMA ShortHeadersWhole ==
    ASSUME NEW h \in Seq(Entries), Len(h) <= MaxForwardedHops
    PROVE  ForwardedHops(h) = h
<1>1. ForwardedHops(h) = SubSeq(h, 1, Len(h)) \/ (Len(h) = MaxForwardedHops /\ ForwardedHops(h) = h)
    BY AddressAssumption DEF ForwardedHops
<1> QED
    BY <1>1

(* The walk ends at the last entry that is not one of ours.                *)
LEMMA WalkEndsAt ==
    ASSUME NEW h \in Seq(Entries), NEW k \in DOMAIN h, NEW start,
           h[k] # Unreadable, ~Trusted(h[k]),
           \A j \in DOMAIN h : j > k => h[j] # Unreadable /\ Trusted(h[j])
    PROVE  Walk(start, h) = h[k]
<1> DEFINE ends == {i \in DOMAIN h : EndsWalk(h[i])}
           last == CHOOSE i \in ends : \A j \in ends : j <= i
<1>1. k \in ends /\ \A j \in ends : j <= k
    <2>1. k \in ends
        BY DEF EndsWalk
    <2>2. ASSUME NEW j \in ends PROVE j <= k
        <3>1. j \in DOMAIN h /\ EndsWalk(h[j]) /\ j \in Nat /\ k \in Nat
            OBVIOUS
        <3>2. ~(j > k)
            BY <3>1 DEF EndsWalk
        <3> QED
            BY <3>1, <3>2
    <2> QED
        BY <2>1, <2>2
<1>2. ends \subseteq Nat
    OBVIOUS
<1> HIDE DEF ends
<1>3. last = k
    <2>1. last \in ends /\ \A j \in ends : j <= last
        BY <1>1
    <2> QED
        BY <1>1, <1>2, <2>1
<1>4. h # <<>> /\ ends # {}
    BY <1>1
<1> QED
    BY <1>3, <1>4 DEF Walk, ends

(* What the server resolves of a header within the limit.                  *)
LEMMA Resolved ==
    ASSUME AddressTypeOK, OnlyOursSince, Len(header) <= MaxForwardedHops
    PROVE  ResolveClientIP(peer, header) = origin
<1>1. header \in Seq(Entries) /\ peer \in Machines /\ origin \in Strangers
    BY DEF AddressTypeOK
<1>2. ForwardedHops(header) = header
    BY <1>1, ShortHeadersWhole
<1>3. CASE peer \in Strangers
    BY <1>3, WhoIsTrusted DEF OnlyOursSince, ResolveClientIP
<1>4. CASE peer \notin Strangers
    <2>1. PICK k \in DOMAIN header :
              /\ header[k] = origin
              /\ \A j \in DOMAIN header : j > k => header[j] # Unreadable /\ Trusted(header[j])
        BY <1>4 DEF OnlyOursSince
    <2>2. Walk(peer, header) = origin
        BY <1>1, <2>1, WhoIsTrusted, WalkEndsAt
    <2>3. Trusted(peer)
        BY <1>1, <1>4, WhoIsTrusted
    <2> QED
        BY <1>2, <2>2, <2>3 DEF ResolveClientIP
<1> QED
    BY <1>3, <1>4

(* A set of positions in a header has a last one.                          *)
LEMMA GreatestOf ==
    ASSUME NEW N \in Nat, NEW T, T \subseteq 1..N, T # {}
    PROVE  \E m \in T : \A n \in T : n <= m
<1> DEFINE R == OpToRel(<, Nat)
           D == {N - n : n \in T}
<1>1. IsWellFoundedOn(R, Nat)
    BY NatLessThanWellFounded
<1>2. \A x, y \in Nat : <<x, y>> \in R <=> x < y
    BY DEF OpToRel
<1>3. D \subseteq Nat /\ D # {}
    OBVIOUS
<1> HIDE DEF R
<1>4. PICK d \in D : \A e \in D : ~(<<e, d>> \in R)
    <2> HIDE DEF D
    <2> QED
        BY <1>1, <1>3, WFMin
<1>5. \A e \in D : ~(e < d)
    <2> HIDE DEF D
    <2> QED
        BY <1>2, <1>3, <1>4, Zenon
<1>6. PICK m \in T : d = N - m
    OBVIOUS
<1>7. \A n \in T : ~(N - n < N - m)
    BY <1>5, <1>6
<1> QED
    BY <1>7

(* Whatever the header, a request is attributed to some machine.           *)
LEMMA WalkTyped ==
    ASSUME NEW h \in Seq(Entries), NEW start \in Machines
    PROVE  Walk(start, h) \in Machines
<1> DEFINE ends == {i \in DOMAIN h : EndsWalk(h[i])}
           final == IF ends = {} THEN 1 ELSE CHOOSE i \in ends : \A j \in ends : j <= i
<1>1. CASE h = <<>>
    BY <1>1 DEF Walk
<1>2. CASE h # <<>>
    <2>1. DOMAIN h = 1..Len(h) /\ Len(h) \in Nat /\ Len(h) >= 1
        BY <1>2
    <2>2. /\ final \in 1..Len(h)
          /\ \A j \in 1..Len(h) : j > final => h[j] # Unreadable
        <3>1. CASE ends = {}
            BY <2>1, <3>1 DEF EndsWalk
        <3>2. CASE ends # {}
            <4>1. \E m \in ends : \A n \in ends : n <= m
                <5>1. ends \subseteq 1..Len(h)
                    BY <2>1
                <5> HIDE DEF ends
                <5> QED
                    BY <2>1, <3>2, <5>1, GreatestOf
            <4>2. final \in ends /\ \A n \in ends : n <= final
                <5> HIDE DEF ends
                <5> QED
                    BY <3>2, <4>1
            <4> HIDE DEF final
            <4>3. ASSUME NEW j \in 1..Len(h), j > final PROVE h[j] # Unreadable
                <5>1. final \in Nat /\ j \in Nat /\ j \notin ends
                    BY <2>1, <4>2, <4>3
                <5> QED
                    BY <2>1, <5>1 DEF EndsWalk
            <4> QED
                BY <2>1, <4>2, <4>3
        <3> QED
            BY <3>1, <3>2
    <2>3. \A j \in 1..Len(h) : h[j] # Unreadable => h[j] \in Machines
        BY <2>1 DEF Entries
    <2>4. Walk(start, h) = IF h[final] # Unreadable THEN h[final]
                           ELSE IF final = Len(h) THEN start ELSE h[final + 1]
        BY <1>2 DEF Walk
    <2> HIDE DEF final
    <2>5. final \in 1..Len(h)
        BY <2>2
    <2>6. \A i \in 1..Len(h) : i # Len(h) => i + 1 \in 1..Len(h) /\ i + 1 > i
        <3>1. \A n \in Nat : \A i \in 1..n : i # n => i + 1 \in 1..n /\ i + 1 > i
            OBVIOUS
        <3> QED
            BY <2>1, <3>1, Zenon
    <2> QED
        BY <2>2, <2>3, <2>4, <2>5, <2>6
<1> QED
    BY <1>1, <1>2

LEMMA ResolvedTyped ==
    ASSUME AddressTypeOK
    PROVE  ResolveClientIP(peer, header) \in Machines
<1>1. ForwardedHops(header) \in Seq(Entries)
    BY AddressAssumption DEF AddressTypeOK, ForwardedHops
<1> QED
    BY <1>1, WalkTyped DEF AddressTypeOK, ResolveClientIP

LEMMA ClaimsAreHeaders == Claims \subseteq Seq(Entries)
BY AddressAssumption DEF Claims

(* A proxy of ours names who it has the request from.                      *)
LEMMA ForwardedByOurs ==
    ASSUME AddressTypeOK, OnlyOursSince, ForwardTrusted
    PROVE  OnlyOursSince'
<1>1. /\ header \in Seq(Entries) /\ peer \in Machines /\ origin' = origin
      /\ peer' \in Proxies \union Mapped /\ header' = Append(header, peer)
    BY DEF AddressTypeOK, ForwardTrusted
<1>2. peer' \notin Strangers
    BY <1>1, WhoIsTrusted
<1>3. /\ DOMAIN header = 1..Len(header) /\ DOMAIN header' = 1..(Len(header) + 1)
      /\ Len(header) \in Nat
      /\ \A j \in 1..Len(header) : header'[j] = header[j]
      /\ header'[Len(header) + 1] = peer
    BY <1>1 DEF Entries
<1>4. SUFFICES \E k \in DOMAIN header' :
                   /\ header'[k] = origin
                   /\ \A j \in DOMAIN header' :
                          j > k => header'[j] # Unreadable /\ Trusted(header'[j])
    BY <1>1, <1>2 DEF OnlyOursSince, Trusted
<1>5. CASE peer \in Strangers
    <2>1. header'[Len(header) + 1] = origin
        BY <1>3, <1>5 DEF OnlyOursSince
    <2> QED
        BY <1>3, <2>1
<1>6. CASE peer \notin Strangers
    <2>1. PICK k \in DOMAIN header :
              /\ header[k] = origin
              /\ \A j \in DOMAIN header : j > k => header[j] # Unreadable /\ Trusted(header[j])
        BY <1>6 DEF OnlyOursSince
    <2>2. peer # Unreadable /\ Trusted(peer)
        BY <1>1, <1>6, WhoIsTrusted
    <2>3. ASSUME NEW j \in DOMAIN header', j > k
          PROVE  header'[j] # Unreadable /\ Trusted(header'[j])
        <3>1. j \in DOMAIN header \/ j = Len(header) + 1
            BY <1>3
        <3> QED
            BY <1>3, <2>1, <2>2, <2>3, <3>1
    <2> QED
        BY <1>3, <2>1, <2>3
<1> QED
    BY <1>5, <1>6

LEMMA AddressStep ==
    ASSUME AddressIInv, [AddressNext]_addressVars PROVE AddressIInv'
<1>1. AddressTypeOK /\ OnlyOursSince /\ AttributedToOrigin
    BY DEF AddressIInv
<1>2. Unresolved \notin Machines /\ Strangers \subseteq Machines
      /\ Proxies \union Mapped \subseteq Machines /\ Machines \subseteq Entries
    BY AddressAssumption DEF Unresolved, Machines, Entries
<1>3. ASSUME NextRequest PROVE AddressIInv'
    <2>1. /\ peer' \in Strangers /\ origin' = peer' /\ header' \in Seq(Entries)
          /\ client' = Unresolved
        BY <1>3, ClaimsAreHeaders DEF NextRequest
    <2> QED
        BY <1>2, <2>1 DEF AddressIInv, AddressTypeOK, OnlyOursSince, AttributedToOrigin
<1>4. ASSUME ForwardTrusted PROVE AddressIInv'
    <2>1. /\ peer' \in Machines /\ header' \in Seq(Entries) /\ UNCHANGED <<origin, client>>
          /\ client = Unresolved
        BY <1>1, <1>2, <1>4 DEF ForwardTrusted, AddressTypeOK
    <2>2. AddressTypeOK' /\ AttributedToOrigin'
        BY <1>1, <2>1 DEF AddressTypeOK, AttributedToOrigin
    <2> QED
        BY <1>1, <1>4, <2>2, ForwardedByOurs DEF AddressIInv
<1>5. ASSUME ForwardStranger PROVE AddressIInv'
    <2>1. /\ peer' \in Strangers /\ origin' = peer' /\ client' = client /\ client = Unresolved
          /\ header' \in Seq(Entries)
        <3>1. header \in Seq(Entries) /\ Append(header, peer) \in Seq(Entries) /\ <<>> \in Seq(Entries)
            BY <1>1, <1>2 DEF AddressTypeOK
        <3> QED
            BY <1>5, <3>1 DEF ForwardStranger
    <2> QED
        BY <1>1, <1>2, <2>1 DEF AddressIInv, AddressTypeOK, OnlyOursSince, AttributedToOrigin
<1>6. ASSUME WithClientIP PROVE AddressIInv'
    <2>1. client' = ResolveClientIP(peer, header) /\ UNCHANGED <<header, peer, origin>>
        BY <1>6 DEF WithClientIP
    <2>2. AddressTypeOK'
        BY <1>1, <2>1, ResolvedTyped DEF AddressTypeOK
    <2>3. OnlyOursSince'
        BY <1>1, <2>1 DEF OnlyOursSince
    <2>4. AttributedToOrigin'
        BY <1>1, <2>1, Resolved DEF AttributedToOrigin
    <2> QED
        BY <2>2, <2>3, <2>4 DEF AddressIInv
<1>7. ASSUME UNCHANGED addressVars PROVE AddressIInv'
    BY <1>1, <1>7 DEF addressVars, AddressIInv, AddressTypeOK, OnlyOursSince, AttributedToOrigin
<1> QED
    BY <1>3, <1>4, <1>5, <1>6, <1>7 DEF AddressNext

(* The header names the machine the request is to be attributed to, and    *)
(* behind it none but our proxies, whatever strangers wrote before.        *)
THEOREM AddressInvariant == AddressSpec => []AddressIInv
<1>1. AddressInit => AddressIInv
    BY ClaimsAreHeaders, WhoIsTrusted DEF AddressInit, AddressIInv, AddressTypeOK, OnlyOursSince,
       AttributedToOrigin, Machines
<1>2. AddressIInv /\ [AddressNext]_addressVars => AddressIInv'
    BY AddressStep
<1> QED
    BY <1>1, <1>2, PTL DEF AddressSpec

(* A request is attributed to the machine that handed it to our proxies,   *)
(* as long as the header is not longer than the walk reads.                *)
THEOREM AttributedCorrectly == AddressSpec => []AttributedToOrigin
<1>1. AddressIInv => AttributedToOrigin
    BY DEF AddressIInv
<1> QED
    BY <1>1, AddressInvariant, PTL
=============================================================================
