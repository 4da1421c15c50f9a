--------------------------- MODULE RecorderProofs ---------------------------
(***************************************************************************)
(* Proofs about Recorder, for any number of exchanges, any buffer and any  *)
(* batch size: what is counted, what a clean shutdown leaves behind, and   *)
(* that the recorder is a RequestLog.                                      *)
(***************************************************************************)
EXTENDS Recorder, SequenceTheorems, FiniteSetTheorems, TLAPS

(* Sequences as the queue and the batch use them.                          *)
(* An element put at the end is all that is added.                         *)
LEMMA AppendElements ==
    ASSUME NEW S, NEW s \in Seq(S), NEW e \in S
    PROVE  /\ Append(s, e) \in Seq(S)
           /\ Len(Append(s, e)) = Len(s) + 1
           /\ Elements(Append(s, e)) = Elements(s) \union {e}
           /\ Distinct(s) /\ e \notin Elements(s) => Distinct(Append(s, e))
<1>1. /\ Append(s, e) \in Seq(S) /\ Len(Append(s, e)) = Len(s) + 1
      /\ Len(s) \in Nat
      /\ DOMAIN s = 1..Len(s) /\ DOMAIN Append(s, e) = 1..(Len(s) + 1)
      /\ \A i \in 1..Len(s) : Append(s, e)[i] = s[i]
      /\ Append(s, e)[Len(s) + 1] = e
    BY AppendProperties, LenProperties
<1>2. 1..(Len(s) + 1) = (1..Len(s)) \union {Len(s) + 1}
    BY <1>1
<1>3. Elements(Append(s, e)) = Elements(s) \union {e}
    BY <1>1, <1>2 DEF Elements
<1>4. ASSUME Distinct(s), e \notin Elements(s)
      PROVE  Distinct(Append(s, e))
    BY <1>1, <1>2, <1>4 DEF Distinct, Elements
<1> QED
    BY <1>1, <1>3, <1>4

(* The element taken from the front is all that goes.                      *)
LEMMA TailElements ==
    ASSUME NEW S, NEW s \in Seq(S), s # <<>>
    PROVE  /\ Head(s) \in S /\ Head(s) \in Elements(s)
           /\ Tail(s) \in Seq(S)
           /\ Len(Tail(s)) = Len(s) - 1
           /\ Elements(s) = Elements(Tail(s)) \union {Head(s)}
           /\ Distinct(s) => Distinct(Tail(s)) /\ Head(s) \notin Elements(Tail(s))
<1>1. /\ Head(s) \in S /\ Tail(s) \in Seq(S) /\ Len(Tail(s)) = Len(s) - 1
      /\ \A i \in 1..Len(Tail(s)) : Tail(s)[i] = s[i + 1]
    BY HeadTailProperties
<1>2. /\ Len(s) \in Nat /\ Len(s) > 0
      /\ DOMAIN s = 1..Len(s) /\ DOMAIN Tail(s) = 1..(Len(s) - 1)
      /\ Head(s) = s[1]
    BY <1>1, LenProperties, EmptySeq
<1>3. /\ \A i \in 1..Len(s) : i = 1 \/ (i - 1 \in 1..(Len(s) - 1) /\ s[i] = Tail(s)[i - 1])
      /\ \A i \in 1..(Len(s) - 1) : i + 1 \in 1..Len(s) /\ Tail(s)[i] = s[i + 1]
    BY <1>1, <1>2
<1>4. Head(s) \in Elements(s) /\ Elements(s) = Elements(Tail(s)) \union {Head(s)}
    <2>1. 1 \in 1..Len(s)
        BY <1>2
    <2>2. ASSUME NEW i \in 1..Len(s)
          PROVE  s[i] \in Elements(Tail(s)) \union {Head(s)}
        <3>1. i = 1 \/ (i - 1 \in DOMAIN Tail(s) /\ s[i] = Tail(s)[i - 1])
            BY <1>2, <1>3
        <3> QED
            BY <1>2, <3>1 DEF Elements
    <2>3. Elements(Tail(s)) \union {Head(s)} \subseteq Elements(s)
        BY <1>2, <1>3, <2>1 DEF Elements
    <2> QED
        BY <1>2, <2>1, <2>2, <2>3 DEF Elements
<1>5. ASSUME Distinct(s)
      PROVE  Distinct(Tail(s)) /\ Head(s) \notin Elements(Tail(s))
    <2>1. ASSUME NEW i \in 1..(Len(s) - 1), NEW j \in 1..(Len(s) - 1), Tail(s)[i] = Tail(s)[j]
          PROVE  i = j
        <3>1. i + 1 = j + 1
            BY <1>2, <1>3, <1>5, <2>1 DEF Distinct
        <3> QED
            BY <3>1
    <2>2. ASSUME NEW i \in 1..(Len(s) - 1), Tail(s)[i] = Head(s)
          PROVE  FALSE
        <3>1. i + 1 = 1
            BY <1>2, <1>3, <1>5, <2>2 DEF Distinct
        <3> QED
            BY <3>1
    <2> QED
        BY <1>2, <2>1, <2>2 DEF Distinct, Elements
<1> QED
    BY <1>1, <1>4, <1>5

(* Without repetition there are as many elements as places.                *)
LEMMA LenIsCount ==
    ASSUME NEW S, NEW s \in Seq(S), Distinct(s)
    PROVE  IsFiniteSet(Elements(s)) /\ Cardinality(Elements(s)) = Len(s)
<1>1. Len(s) \in Nat /\ DOMAIN s = 1..Len(s) /\ s \in [1..Len(s) -> Elements(s)]
    BY LenProperties DEF Elements
<1>2. s \in Bijection(1..Len(s), Elements(s))
    BY <1>1 DEF Distinct, Elements, Bijection, Injection, Surjection, IsInjective
<1>3. ExistsBijection(1..Len(s), Elements(s))
    BY <1>2 DEF ExistsBijection
<1>4. IsFiniteSet(Elements(s))
    BY <1>1, <1>3, FS_NatBijection
<1> QED
    BY <1>1, <1>3, <1>4, FS_CountingElements

LEMMA EmptyElements == Elements(<<>>) = {} /\ Len(<<>>) = 0 /\ Distinct(<<>>)
BY DEF Elements, Distinct

(* What the queue and the batch hold after a step.                         *)
LEMMA AfterStep ==
    /\ HeldOnce' <=> /\ Distinct(queue') /\ Distinct(batch')
                     /\ Elements(queue') \intersect Elements(batch') = {}
    /\ Waiting' = Elements(queue') \union Elements(batch')
BY DEF HeldOnce, Waiting, Distinct, Elements
-----------------------------------------------------------------------------
(* What is lost or stored by now, and what of it nobody will find.         *)
Settled == At("recorded") \ Waiting

Missing == At("recorded") \ (Waiting \union stored)

LEMMA FiniteSets ==
    ASSUME RecorderTypeOK
    PROVE  /\ IsFiniteSet(Exchanges)
           /\ \A S \in SUBSET Exchanges : IsFiniteSet(S) /\ Cardinality(S) \in Nat
           /\ At("recorded") \subseteq Exchanges
           /\ Elements(queue) \subseteq Exchanges /\ Elements(batch) \subseteq Exchanges
           /\ Dropped \in Nat
<1>1. IsFiniteSet(Exchanges)
    BY MaxExchangesAssumption, FS_Interval DEF Exchanges
<1>2. \A S \in SUBSET Exchanges : IsFiniteSet(S) /\ Cardinality(S) \in Nat
    BY <1>1, FS_Subset, FS_CardinalityType
<1>3. \A i \in DOMAIN queue : queue[i] \in Exchanges
    BY LenProperties, ElementOfSeq DEF RecorderTypeOK
<1>4. \A i \in DOMAIN batch : batch[i] \in Exchanges
    BY LenProperties, ElementOfSeq DEF RecorderTypeOK
<1> QED
    BY <1>1, <1>2, <1>3, <1>4 DEF RecorderTypeOK, At, Elements, Dropped

LEMMA TypeInit == RecorderInit => RecorderTypeOK
<1>1. <<>> \in Seq(Exchanges) /\ Len(<<>>) <= Buffer
    BY EmptySeq, BufferAssumption
<1> SUFFICES ASSUME RecorderInit PROVE RecorderTypeOK
    OBVIOUS
<1>2. /\ queue \in Seq(Exchanges) /\ Len(queue) <= Buffer
      /\ batch \in Seq(Exchanges)
    BY <1>1, Zenon DEF RecorderInit
<1>3. request \in [Exchanges -> Stages] /\ worker \in Steps /\ main \in Mains
    BY DEF RecorderInit, Stages, Steps, Mains
<1> QED
    BY <1>2, <1>3 DEF RecorderInit, RecorderTypeOK

LEMMA TypeStep == RecorderTypeOK /\ [RecorderNext]_recorderVars => RecorderTypeOK'
<1> SUFFICES ASSUME RecorderTypeOK, [RecorderNext]_recorderVars PROVE RecorderTypeOK'
    OBVIOUS
<1> USE DEF process
<1>1. ASSUME NEW e \in Exchanges, Accept(e) \/ Stamp(e)
      PROVE  RecorderTypeOK'
    <2>1. request' \in [Exchanges -> Stages]
        BY <1>1 DEF Accept, Stamp, RecorderTypeOK, Stages
    <2> QED
        BY <1>1, <2>1 DEF Accept, Stamp, RecorderTypeOK
<1>2. ASSUME NEW e \in Exchanges, Record(e)
      PROVE  RecorderTypeOK'
    <2>1. request' \in [Exchanges -> Stages]
        BY <1>2 DEF Record, RecorderTypeOK, Stages
    <2>2. queue' \in Seq(Exchanges) /\ Len(queue') <= Buffer
        <3>1. queue \in Seq(Exchanges) /\ Len(queue) <= Buffer
            BY DEF RecorderTypeOK
        <3>2. /\ Append(queue, e) \in Seq(Exchanges)
              /\ Len(Append(queue, e)) = Len(queue) + 1 /\ Len(queue) \in Nat
            BY <3>1, AppendElements, LenProperties
        <3> QED
            BY <1>2, <3>1, <3>2, BufferAssumption DEF Record, HasRoom
    <2>3. dropped' \in Nat
        BY <1>2 DEF Record, Drop, RecorderTypeOK
    <2> QED
        BY <1>2, <2>1, <2>2, <2>3 DEF Record, RecorderTypeOK
<1>3. ASSUME Receive \/ DrainOne
      PROVE  RecorderTypeOK'
    <2>1. queue \in Seq(Exchanges) /\ batch \in Seq(Exchanges) /\ queue # <<>>
        BY <1>3 DEF Receive, DrainOne, RecorderTypeOK
    <2>2. queue' \in Seq(Exchanges) /\ Len(queue') = Len(queue) - 1 /\ Len(queue) \in Nat
        <3>1. /\ Tail(queue) \in Seq(Exchanges) /\ Len(Tail(queue)) = Len(queue) - 1
              /\ Len(queue) \in Nat
            BY <2>1, TailElements, LenProperties
        <3> QED
            BY <1>3, <3>1 DEF Receive, DrainOne
    <2>3. batch' \in Seq(Exchanges)
        <3>1. Head(queue) \in Exchanges
            BY <2>1, TailElements
        <3>2. Append(batch, Head(queue)) \in Seq(Exchanges)
            BY <2>1, <3>1, AppendElements
        <3> QED
            BY <1>3, <3>2 DEF Receive, DrainOne
    <2>4. worker' \in Steps
        BY <1>3 DEF Receive, DrainOne, RecorderTypeOK, Steps
    <2> QED
        BY <1>3, <2>2, <2>3, <2>4, BufferAssumption DEF Receive, DrainOne, RecorderTypeOK
<1>4. CASE TickIdle \/ Tick \/ Stop \/ Drained
    BY <1>4 DEF TickIdle, Tick, Stop, Drained, ReportDrops, RecorderTypeOK, Steps
<1>5. CASE FlushInLoop \/ FlushLast
    <2>1. Len(batch) \in Nat /\ Elements(batch) \subseteq Exchanges
        BY LenProperties, FiniteSets DEF RecorderTypeOK
    <2>2. failed' \in Nat /\ stored' \subseteq Exchanges
        BY <1>5, <2>1 DEF FlushInLoop, FlushLast, Written, GivenUp, RecorderTypeOK
    <2>3. batch' \in Seq(Exchanges) /\ reported' \in Nat /\ worker' \in Steps
        <3>1. batch' = <<>> /\ <<>> \in Seq(Exchanges)
            BY <1>5, EmptySeq DEF FlushInLoop, FlushLast, BatchEmptied
        <3>2. reported' \in Nat /\ worker' \in Steps
            BY <1>5, <2>2 DEF FlushInLoop, FlushLast, ReportDrops, RecorderTypeOK, Steps
        <3> QED
            BY <3>1, <3>2, Zenon
    <2> QED
        BY <1>5, <2>2, <2>3 DEF FlushInLoop, FlushLast, RecorderTypeOK
<1>6. CASE Main
    BY <1>6 DEF Main, Signal, ShutdownReturns, ShutdownTimesOut, StopRecorder, Wait,
       ServeFails, Leave, handling, RecorderTypeOK, Mains
<1>7. CASE UNCHANGED recorderVars
    BY <1>7 DEF recorderVars, RecorderTypeOK
<1> QED
    BY <1>1, <1>2, <1>3, <1>4, <1>5, <1>6, <1>7 DEF RecorderNext, Handle, Run
-----------------------------------------------------------------------------
(* A step that moves none of the exchanges changes no account of them.     *)
LEMMA AccountKept ==
    ASSUME EveryLossIsCounted, HeldOnce, At("recorded")' = At("recorded"),
           UNCHANGED <<queue, batch, dropped, failed, stored>>
    PROVE  EveryLossIsCounted' /\ HeldOnce'
<1>1. At("recorded")' = At("recorded") /\ Waiting' = Waiting /\ Dropped' = Dropped
    BY DEF Waiting, Elements, Dropped
<1>2. HeldOnce'
    BY AfterStep DEF HeldOnce
<1> QED
    BY <1>1, <1>2 DEF EveryLossIsCounted

(* Record: the exchange waits, or one more is lost and one more counted.   *)
LEMMA RecordCounts ==
    ASSUME RecorderIInv, NEW e \in Exchanges, Record(e)
    PROVE  EveryLossIsCounted' /\ HeldOnce'
<1>1. /\ RecorderTypeOK /\ EveryLossIsCounted /\ HeldOnce
      /\ UNCHANGED <<failed, batch, stored>>
      /\ queue \in Seq(Exchanges)
    BY DEF RecorderIInv, Record, RecorderTypeOK
<1>2. e \notin At("recorded") /\ At("recorded")' = At("recorded") \union {e}
    BY <1>1 DEF Record, At, RecorderTypeOK
<1>3. e \notin Waiting /\ e \notin stored
    BY <1>1, <1>2 DEF EveryLossIsCounted
<1>4. CASE HasRoom
    <2>1. queue' = Append(queue, e) /\ dropped' = dropped
        BY <1>4 DEF Record
    <2>2. /\ Elements(queue') = Elements(queue) \union {e} /\ Len(queue') = Len(queue) + 1
          /\ Distinct(queue')
        BY <1>1, <1>3, <2>1, AppendElements DEF HeldOnce, Waiting
    <2>3. Waiting' = Waiting \union {e}
        BY <1>1, <2>2, AfterStep DEF Waiting
    <2>4. Cardinality(Waiting') = Cardinality(Waiting) + 1
        BY <1>1, <1>3, <2>3, FiniteSets, FS_AddElement DEF Waiting
    <2>5. Settled' = Settled /\ Missing' = Missing /\ Dropped' = Dropped
        BY <1>1, <1>2, <1>3, <2>1, <2>3 DEF Settled, Missing, Dropped
    <2>6. Len(queue) \in Nat /\ Len(batch) \in Nat
        BY <1>1, LenProperties DEF RecorderTypeOK
    <2>7. Len(queue') + Len(batch') = Cardinality(Waiting')
        BY <1>1, <2>2, <2>4, <2>6 DEF EveryLossIsCounted
    <2>8. /\ (Waiting \union stored)' \subseteq At("recorded")'
          /\ (Waiting \intersect stored)' = {}
        BY <1>1, <1>2, <1>3, <2>3 DEF EveryLossIsCounted
    <2>9. Cardinality(Missing') <= Dropped' /\ Dropped' <= Cardinality(Settled')
        BY <1>1, <2>5 DEF EveryLossIsCounted, Missing, Settled
    <2>10. EveryLossIsCounted'
        BY <2>7, <2>8, <2>9 DEF EveryLossIsCounted, Settled, Missing
    <2>11. HeldOnce'
        BY <1>1, <1>3, <2>2, AfterStep DEF HeldOnce, Waiting
    <2> QED
        BY <2>10, <2>11
<1>5. CASE ~HasRoom
    <2>1. queue' = queue /\ dropped' = dropped + 1
        BY <1>5 DEF Record, Drop
    <2>2. Waiting' = Waiting /\ Dropped' = Dropped + 1
        BY <1>1, <2>1 DEF Waiting, Elements, Dropped, RecorderTypeOK
    <2>3. Settled' = Settled \union {e} /\ Missing' = Missing \union {e}
        BY <1>1, <1>2, <1>3, <2>2 DEF Settled, Missing
    <2>4. /\ IsFiniteSet(Settled) /\ Cardinality(Settled) \in Nat /\ e \notin Settled
          /\ IsFiniteSet(Missing) /\ Cardinality(Missing) \in Nat /\ e \notin Missing
        BY <1>1, <1>2, FiniteSets DEF Settled, Missing
    <2>5. /\ Cardinality(Settled') = Cardinality(Settled) + 1
          /\ Cardinality(Missing') = Cardinality(Missing) + 1
        BY <2>3, <2>4, FS_AddElement
    <2>6. Cardinality(Missing) <= Dropped /\ Dropped <= Cardinality(Settled) /\ Dropped \in Nat
        BY <1>1, FiniteSets DEF EveryLossIsCounted, Settled, Missing
    <2>7. Cardinality(Missing') <= Dropped' /\ Dropped' <= Cardinality(Settled')
        BY <2>2, <2>4, <2>5, <2>6
    <2>8. EveryLossIsCounted'
        BY <1>1, <1>2, <1>3, <2>1, <2>2, <2>7 DEF EveryLossIsCounted, Settled, Missing
    <2> QED
        BY <1>1, <2>1, <2>8, AfterStep DEF HeldOnce
<1> QED
    BY <1>4, <1>5

(* From the queue into the batch: it waits all the same.                   *)
LEMMA ReceiveCounts ==
    ASSUME RecorderIInv, Receive \/ DrainOne
    PROVE  EveryLossIsCounted' /\ HeldOnce'
<1>1. /\ RecorderTypeOK /\ EveryLossIsCounted /\ HeldOnce
      /\ UNCHANGED <<request, dropped, failed, stored>>
      /\ queue \in Seq(Exchanges) /\ batch \in Seq(Exchanges) /\ queue # <<>>
      /\ batch' = Append(batch, Head(queue)) /\ queue' = Tail(queue)
    BY DEF RecorderIInv, Receive, DrainOne, RecorderTypeOK
<1>2. /\ Head(queue) \in Exchanges
      /\ Elements(queue) = Elements(queue') \union {Head(queue)}
      /\ Head(queue) \notin Elements(queue')
      /\ Distinct(queue') /\ Len(queue') = Len(queue) - 1
    BY <1>1, TailElements DEF HeldOnce
<1>3. Head(queue) \notin Elements(batch)
    BY <1>1, <1>2 DEF HeldOnce
<1>4. /\ Elements(batch') = Elements(batch) \union {Head(queue)}
      /\ Distinct(batch') /\ Len(batch') = Len(batch) + 1
    BY <1>1, <1>2, <1>3, AppendElements DEF HeldOnce
<1>5. Waiting' = Waiting
    BY <1>2, <1>4, AfterStep DEF Waiting
<1>6. Len(queue') + Len(batch') = Len(queue) + Len(batch)
    BY <1>1, <1>2, <1>4, LenProperties
<1>7. HeldOnce'
    BY <1>1, <1>2, <1>4, AfterStep DEF HeldOnce
<1>8. At("recorded")' = At("recorded") /\ Dropped' = Dropped
    BY <1>1 DEF At, Dropped
<1> QED
    BY <1>1, <1>5, <1>6, <1>7, <1>8 DEF EveryLossIsCounted

(* A batch written or given up: everything in it is stored or counted.     *)
LEMMA FlushCounts ==
    ASSUME RecorderIInv, FlushInLoop \/ FlushLast
    PROVE  EveryLossIsCounted' /\ HeldOnce'
<1> DEFINE B == Elements(batch)
<1>1. /\ RecorderTypeOK /\ EveryLossIsCounted /\ HeldOnce
      /\ UNCHANGED <<request, queue, dropped>> /\ batch' = <<>>
      /\ queue \in Seq(Exchanges) /\ batch \in Seq(Exchanges)
    BY DEF RecorderIInv, FlushInLoop, FlushLast, BatchEmptied, RecorderTypeOK
<1>2. /\ IsFiniteSet(B) /\ Cardinality(B) = Len(batch) /\ Len(batch) \in Nat
      /\ IsFiniteSet(Elements(queue)) /\ Cardinality(Elements(queue)) = Len(queue)
    BY <1>1, LenIsCount, LenProperties DEF HeldOnce
<1>3. /\ Waiting' = Elements(queue) /\ Waiting = Elements(queue) \union B
      /\ Elements(queue) \intersect B = {} /\ HeldOnce'
    BY <1>1, AfterStep, EmptyElements DEF Waiting, HeldOnce
<1>4. Len(queue') + Len(batch') = Cardinality(Waiting')
    <2>1. Len(queue') = Len(queue) /\ Len(batch') = 0 /\ Len(queue) \in Nat
        BY <1>1, EmptyElements, LenProperties
    <2> QED
        BY <1>2, <1>3, <2>1
<1>5. At("recorded")' = At("recorded")
    BY <1>1 DEF At
<1>6. /\ Waiting \union stored \subseteq At("recorded") /\ Waiting \intersect stored = {}
      /\ Cardinality(Missing) <= Dropped /\ Dropped <= Cardinality(Settled)
    BY <1>1 DEF EveryLossIsCounted, Missing, Settled
<1>7. stored' = stored \/ stored' = stored \union B
    BY DEF FlushInLoop, FlushLast, Written, GivenUp
<1>8. /\ (Waiting \union stored)' \subseteq At("recorded")'
      /\ (Waiting \intersect stored)' = {}
    BY <1>3, <1>5, <1>6, <1>7
<1>9. /\ Settled' = Settled \union B /\ Settled \intersect B = {}
      /\ Missing' \subseteq Missing \union B /\ Missing \intersect B = {}
    BY <1>3, <1>5, <1>6, <1>7 DEF Settled, Missing
<1>10. /\ IsFiniteSet(Settled) /\ Cardinality(Settled) \in Nat
       /\ IsFiniteSet(Missing) /\ Cardinality(Missing) \in Nat
       /\ Dropped \in Nat
    BY <1>1, FiniteSets DEF Settled, Missing
<1>11. /\ Cardinality(Settled \union B) = Cardinality(Settled) + Len(batch)
       /\ IsFiniteSet(Missing \union B)
       /\ Cardinality(Missing \union B) = Cardinality(Missing) + Len(batch)
    <2>1. ASSUME NEW S, IsFiniteSet(S), Cardinality(S) \in Nat, S \intersect B = {}
          PROVE  /\ IsFiniteSet(S \union B)
                 /\ Cardinality(S \union B) = Cardinality(S) + Len(batch)
        <3>1. /\ IsFiniteSet(S \union B)
              /\ Cardinality(S \union B)
                     = Cardinality(S) + Cardinality(B) - Cardinality(S \intersect B)
            BY <1>2, <2>1, FS_Union, Zenon
        <3>2. Cardinality(S \intersect B) = 0
            BY <2>1, FS_EmptySet
        <3> QED
            BY <1>2, <2>1, <3>1, <3>2
    <2> QED
        BY <1>9, <1>10, <2>1
<1>12. CASE stored' = stored \union B /\ failed' = failed
    <2>1. Missing' = Missing /\ Dropped' = Dropped
        BY <1>1, <1>3, <1>5, <1>6, <1>12 DEF Missing, Dropped
    <2>2. Cardinality(Missing') <= Dropped' /\ Dropped' <= Cardinality(Settled')
        BY <1>2, <1>6, <1>9, <1>10, <1>11, <2>1
    <2> QED
        BY <1>3, <1>4, <1>8, <2>2 DEF EveryLossIsCounted, Missing, Settled
<1>13. CASE failed' = failed + Len(batch)
    <2>1. Dropped' = Dropped + Len(batch)
        BY <1>1, <1>2, <1>13 DEF Dropped, RecorderTypeOK
    <2>2. Cardinality(Missing') \in Nat /\ Cardinality(Missing') <= Cardinality(Missing) + Len(batch)
        BY <1>9, <1>11, FS_Subset, FS_CardinalityType
    <2>3. Cardinality(Missing') <= Dropped' /\ Dropped' <= Cardinality(Settled')
        BY <1>2, <1>6, <1>9, <1>10, <1>11, <2>1, <2>2
    <2> QED
        BY <1>3, <1>4, <1>8, <2>3 DEF EveryLossIsCounted, Missing, Settled
<1> QED
    BY <1>12, <1>13 DEF FlushInLoop, FlushLast, Written, GivenUp
-----------------------------------------------------------------------------
LEMMA InitEstablishesIInv == RecorderInit => RecorderIInv
<1> SUFFICES ASSUME RecorderInit PROVE RecorderIInv
    OBVIOUS
<1>1. RecorderTypeOK
    BY TypeInit
<1>2. At("recorded") = {} /\ Elements(queue) = {} /\ Elements(batch) = {} /\ Waiting = {}
    BY EmptyElements DEF RecorderInit, At, Waiting
<1>3. Len(queue) = 0 /\ Len(batch) = 0 /\ HeldOnce
    BY <1>2, EmptyElements DEF RecorderInit, HeldOnce
<1>4. EveryLossIsCounted
    BY <1>2, <1>3, FS_EmptySet DEF RecorderInit, EveryLossIsCounted, Dropped
<1>5. BatchAtWork /\ BatchBounded /\ SettledInOrder
    BY EmptyElements, BatchAssumption DEF RecorderInit, BatchAtWork, BatchBounded, SettledInOrder
<1> QED
    BY <1>1, <1>3, <1>4, <1>5 DEF RecorderIInv

LEMMA HandlerKeepsIInv ==
    ASSUME RecorderIInv, RecorderTypeOK', NEW e \in Exchanges, Handle(e)
    PROVE  RecorderIInv'
<1> USE DEF process
<1>1. RecorderTypeOK /\ EveryLossIsCounted /\ HeldOnce /\ BatchAtWork /\ BatchBounded /\ SettledInOrder
    BY DEF RecorderIInv
<1>2. UNCHANGED <<worker, batch, reported, main, cancelled, clean>>
    BY DEF Handle, Accept, Stamp, Record
<1>3. BatchAtWork' /\ BatchBounded'
    BY <1>1, <1>2 DEF BatchAtWork, BatchBounded
<1>4. ~clean
    BY <1>1 DEF Handle, Accept, Stamp, Record, SettledInOrder, At
<1>5. SettledInOrder'
    BY <1>1, <1>2, <1>4 DEF SettledInOrder
<1>6. CASE Accept(e) \/ Stamp(e)
    <2>1. At("recorded")' = At("recorded") /\ UNCHANGED <<queue, batch, dropped, failed, stored>>
        BY <1>1, <1>6 DEF Accept, Stamp, At, RecorderTypeOK
    <2> QED
        BY <1>1, <1>3, <1>5, <2>1, AccountKept DEF RecorderIInv
<1>7. CASE Record(e)
    BY <1>3, <1>5, <1>7, RecordCounts DEF RecorderIInv
<1> QED
    BY <1>6, <1>7 DEF Handle

LEMMA RunKeepsIInv == ASSUME RecorderIInv, RecorderTypeOK', Run PROVE RecorderIInv'
<1> USE DEF process
<1>1. RecorderTypeOK /\ EveryLossIsCounted /\ HeldOnce /\ BatchAtWork /\ BatchBounded /\ SettledInOrder
    BY DEF RecorderIInv
<1>2. UNCHANGED <<request, main, cancelled, clean>> /\ main # "exited"
    BY DEF Run, Receive, TickIdle, Tick, Stop, FlushInLoop, DrainOne, Drained, FlushLast, Alive
<1>3. \A stage : At(stage)' = At(stage)
    BY <1>2 DEF At
<1>4. EveryLossIsCounted' /\ HeldOnce'
    <2>1. CASE TickIdle \/ Tick \/ Stop \/ Drained
        <3>1. UNCHANGED <<queue, batch, dropped, failed, stored>>
            BY <2>1 DEF TickIdle, Tick, Stop, Drained
        <3> QED
            BY <1>1, <1>3, <3>1, AccountKept
    <2> QED
        BY <2>1, ReceiveCounts, FlushCounts DEF Run
<1>5. BatchAtWork'
    <2>1. CASE Receive \/ DrainOne
        <3>1. batch' # <<>>
            BY <1>1, <2>1, TailElements, AppendProperties DEF Receive, DrainOne, RecorderTypeOK
        <3> QED
            BY <1>1, <1>2, <2>1, <3>1 DEF BatchAtWork, Receive, DrainOne
    <2>2. CASE TickIdle \/ Tick \/ Stop \/ Drained
        BY <1>1, <1>2, <2>2 DEF BatchAtWork, TickIdle, Tick, Stop, Drained
    <2>3. CASE FlushInLoop \/ FlushLast
        BY <1>1, <1>2, <2>3 DEF BatchAtWork, FlushInLoop, FlushLast, BatchEmptied
    <2> QED
        BY <2>1, <2>2, <2>3 DEF Run
<1>6. BatchBounded'
    <2> USE BatchAssumption
    <2>1. CASE Receive
        <3>1. Len(batch') = Len(batch) + 1 /\ Len(batch) < Batch /\ Len(batch) \in Nat
            BY <1>1, <2>1, TailElements, AppendProperties DEF Receive, RecorderTypeOK, BatchBounded
        <3> QED
            BY <2>1, <3>1 DEF Receive, BatchBounded
    <2>2. CASE TickIdle \/ Tick \/ Stop \/ Drained \/ DrainOne
        <3>1. Len(batch) \in Nat
            BY <1>1 DEF RecorderTypeOK
        <3> QED
            BY <1>1, <2>2, <3>1 DEF BatchBounded, TickIdle, Tick, Stop, Drained, DrainOne
    <2>3. CASE FlushInLoop \/ FlushLast
        BY <2>3, EmptyElements DEF BatchBounded, FlushInLoop, FlushLast, BatchEmptied
    <2> QED
        BY <2>1, <2>2, <2>3 DEF Run
<1>7. SettledInOrder'
    <2>1. CASE FlushLast
        <3>1. worker = "writeLast" /\ queue' = queue /\ reported' = Dropped'
            BY <2>1 DEF FlushLast, Dropped
        <3> QED
            BY <1>1, <1>2, <1>3, <3>1 DEF SettledInOrder
    <2>2. CASE Drained
        BY <1>1, <1>2, <1>3, <2>2 DEF SettledInOrder, Drained, QueueEmpty
    <2>3. CASE Receive \/ TickIdle \/ Tick \/ Stop \/ FlushInLoop \/ DrainOne
        <3>1. worker \notin {"writeLast", "stopped"} /\ worker' \notin {"writeLast", "stopped"}
            BY <2>3 DEF Receive, TickIdle, Tick, Stop, FlushInLoop, DrainOne
        <3> QED
            BY <1>1, <1>2, <1>3, <3>1 DEF SettledInOrder
    <2> QED
        BY <2>1, <2>2, <2>3 DEF Run
<1> QED
    BY <1>4, <1>5, <1>6, <1>7 DEF RecorderIInv

LEMMA MainKeepsIInv == ASSUME RecorderIInv, RecorderTypeOK', Main PROVE RecorderIInv'
<1>1. RecorderTypeOK /\ EveryLossIsCounted /\ HeldOnce /\ BatchAtWork /\ BatchBounded /\ SettledInOrder
    BY DEF RecorderIInv
<1>2. UNCHANGED handling
    BY DEF Main, Signal, ShutdownReturns, ShutdownTimesOut, StopRecorder, Wait, ServeFails, Leave
<1>3. /\ \A stage : At(stage)' = At(stage)
      /\ Dropped' = Dropped /\ UNCHANGED <<queue, batch, worker, reported>>
    BY <1>2 DEF handling, At, Dropped
<1>4. EveryLossIsCounted' /\ HeldOnce'
    BY <1>1, <1>2, <1>3, AccountKept DEF handling
<1>5. BatchAtWork' /\ BatchBounded'
    BY <1>1, <1>3 DEF BatchAtWork, BatchBounded, Main, Signal, ShutdownReturns, ShutdownTimesOut,
       StopRecorder, Wait, ServeFails, Leave
<1>6. SettledInOrder'
    BY <1>1, <1>3 DEF SettledInOrder, BatchAtWork, Main, Signal, ShutdownReturns,
       ShutdownTimesOut, StopRecorder, Wait, ServeFails, Leave
<1> QED
    BY <1>4, <1>5, <1>6 DEF RecorderIInv

LEMMA StepKeepsIInv == RecorderIInv /\ [RecorderNext]_recorderVars => RecorderIInv'
<1> SUFFICES ASSUME RecorderIInv, [RecorderNext]_recorderVars PROVE RecorderIInv'
    OBVIOUS
<1>1. RecorderTypeOK'
    BY TypeStep DEF RecorderIInv
<1>2. CASE UNCHANGED recorderVars
    <2>1. /\ \A stage : At(stage)' = At(stage)
          /\ Dropped' = Dropped
        BY <1>2 DEF recorderVars, At, Dropped
    <2>2. EveryLossIsCounted' /\ HeldOnce'
        BY <1>2, <2>1, AccountKept DEF RecorderIInv, recorderVars
    <2> QED
        BY <1>1, <1>2, <2>1, <2>2 DEF RecorderIInv, recorderVars, BatchAtWork, BatchBounded,
           SettledInOrder
<1> QED
    BY <1>1, <1>2, HandlerKeepsIInv, RunKeepsIInv, MainKeepsIInv DEF RecorderNext

(* Between the handlers, the queue, the batch and the two counters nothing *)
(* is held twice, and a shutdown without a deadline missed leaves run in   *)
(* the order the rest relies on.                                           *)
THEOREM RecorderInvariant == RecorderSpec => []RecorderIInv
BY InitEstablishesIInv, StepKeepsIInv, PTL DEF RecorderSpec

(* The recorder's queue, batch and counters keep their types; the channel  *)
(* never holds more than opts.Buffer, and outside the drain and the write  *)
(* that ends it the batch never more than opts.Batch.                      *)
THEOREM TypeCorrect == RecorderSpec => [](RecorderTypeOK /\ BatchBounded)
<1>1. RecorderIInv => RecorderTypeOK /\ BatchBounded
    BY DEF RecorderIInv
<1> QED
    BY <1>1, RecorderInvariant, PTL

(* Whatever Record, Run and a failing database do, and in whatever order:  *)
(* what was handed over waits, is stored, or is counted in Dropped().      *)
THEOREM LossesCounted == RecorderSpec => []EveryLossIsCounted
<1>1. RecorderIInv => EveryLossIsCounted
    BY DEF RecorderIInv
<1> QED
    BY <1>1, RecorderInvariant, PTL

(* After Shutdown returned nil, the process does not exit before the queue *)
(* is empty, the last batch settled and every drop reported.               *)
THEOREM CleanExit == RecorderSpec => []CleanExitSettlesAll
<1>1. RecorderIInv => CleanExitSettlesAll
    BY DEF RecorderIInv, SettledInOrder, BatchAtWork, CleanExitSettlesAll
<1> QED
    BY <1>1, RecorderInvariant, PTL
-----------------------------------------------------------------------------
(* The refinement: Record hands over, a flush settles, and every other     *)
(* step is nothing to a reader of the log.                                 *)
LEMMA Invisible ==
    ASSUME At("recorded")' = At("recorded"), Waiting' = Waiting, Dropped' = Dropped,
           stored' = stored
    PROVE  UNCHANGED Log!vars
BY DEF Log!vars

(* The instance counts as the module itself does.                          *)
LEMMA SameCount == ASSUME NEW S PROVE Log!Cardinality(S) = Cardinality(S)
BY Zenon DEF Cardinality, Log!Cardinality

LEMMA RecordHandsOver ==
    ASSUME RecorderIInv, NEW e \in Exchanges, Record(e)
    PROVE  Log!HandOver
<1>1. /\ RecorderTypeOK /\ EveryLossIsCounted /\ queue \in Seq(Exchanges)
      /\ UNCHANGED <<failed, batch, stored>>
    BY DEF RecorderIInv, Record, RecorderTypeOK
<1>2. e \in Exchanges \ At("recorded") /\ At("recorded")' = At("recorded") \union {e}
    BY <1>1 DEF Record, At, RecorderTypeOK
<1>3. CASE HasRoom
    <2>1. queue' = Append(queue, e) /\ dropped' = dropped
        BY <1>3 DEF Record
    <2>2. Elements(queue') = Elements(queue) \union {e}
        BY <1>1, <2>1, AppendElements
    <2>3. Waiting' = Waiting \union {e} /\ Dropped' = Dropped
        BY <1>1, <2>1, <2>2, AfterStep DEF Waiting, Dropped
    <2> QED
        BY <1>1, <1>2, <2>3 DEF Log!HandOver
<1>4. CASE ~HasRoom
    <2>1. queue' = queue /\ dropped' = dropped + 1
        BY <1>4 DEF Record, Drop
    <2>2. Waiting' = Waiting /\ Dropped' = Dropped + 1
        BY <1>1, <2>1 DEF Waiting, Elements, Dropped, RecorderTypeOK
    <2> QED
        BY <1>1, <1>2, <2>2 DEF Log!HandOver
<1> QED
    BY <1>3, <1>4

LEMMA FlushSettles ==
    ASSUME RecorderIInv, FlushInLoop \/ FlushLast
    PROVE  [Log!Next]_(Log!vars)
<1> DEFINE B == Elements(batch)
<1>1. /\ RecorderTypeOK /\ HeldOnce /\ BatchAtWork
      /\ UNCHANGED <<request, queue, dropped>> /\ batch' = <<>>
      /\ queue \in Seq(Exchanges) /\ batch \in Seq(Exchanges)
    BY DEF RecorderIInv, FlushInLoop, FlushLast, BatchEmptied, RecorderTypeOK
<1>2. Waiting' = Waiting \ B /\ B \in SUBSET Waiting /\ At("recorded")' = At("recorded")
    BY <1>1, AfterStep, EmptyElements DEF Waiting, HeldOnce, At
<1>3. Log!Cardinality(B) = Len(batch)
    BY <1>1, LenIsCount, SameCount DEF HeldOnce
<1>4. \/ stored' = stored \union B /\ failed' = failed
      \/ batch # <<>> /\ stored' \in {stored, stored \union B} /\ failed' = failed + Len(batch)
    BY <1>1 DEF FlushInLoop, FlushLast, Written, GivenUp, BatchAtWork
<1>5. \/ stored' = stored \union B /\ Dropped' = Dropped
      \/ /\ batch # <<>> /\ stored' \in {stored, stored \union B}
         /\ Dropped' = Dropped + Log!Cardinality(B)
    <2>1. Len(batch) \in Nat
        BY <1>1, LenProperties
    <2> QED
        BY <1>1, <1>3, <1>4, <2>1 DEF Dropped, RecorderTypeOK
<1>6. CASE batch = <<>>
    BY <1>2, <1>5, <1>6, EmptyElements, Invisible
<1>7. CASE batch # <<>>
    <2>1. B # {}
        BY <1>1, <1>7, TailElements
    <2>2. Log!Settle
        BY <1>2, <1>5, <2>1 DEF Log!Settle
    <2> QED
        BY <2>2 DEF Log!Next
<1> QED
    BY <1>6, <1>7

LEMMA StepRefines == RecorderIInv /\ [RecorderNext]_recorderVars => [Log!Next]_(Log!vars)
<1> SUFFICES ASSUME RecorderIInv, [RecorderNext]_recorderVars PROVE [Log!Next]_(Log!vars)
    OBVIOUS
<1>1. CASE UNCHANGED <<queue, batch, dropped, failed, stored>> /\ At("recorded")' = At("recorded")
    <2>1. Waiting' = Waiting /\ Dropped' = Dropped
        BY <1>1 DEF Waiting, Elements, Dropped
    <2> QED
        BY <1>1, <2>1, Invisible
<1>2. ASSUME NEW e \in Exchanges, Handle(e)
      PROVE  [Log!Next]_(Log!vars)
    <2>1. CASE Accept(e) \/ Stamp(e)
        <3>1. At("recorded")' = At("recorded")
            BY <2>1 DEF RecorderIInv, RecorderTypeOK, Accept, Stamp, At
        <3> QED
            BY <1>1, <2>1, <3>1 DEF Accept, Stamp
    <2> QED
        BY <1>2, <2>1, RecordHandsOver DEF Handle, Log!Next
<1>3. CASE Receive \/ DrainOne
    <2>1. /\ queue \in Seq(Exchanges) /\ batch \in Seq(Exchanges) /\ queue # <<>>
          /\ batch' = Append(batch, Head(queue)) /\ queue' = Tail(queue)
          /\ UNCHANGED <<request, dropped, failed, stored>>
        BY <1>3 DEF RecorderIInv, RecorderTypeOK, Receive, DrainOne
    <2>2. Elements(batch') \union Elements(queue') = Elements(batch) \union Elements(queue)
        BY <2>1, TailElements, AppendElements
    <2>3. Waiting' = Waiting /\ Dropped' = Dropped /\ At("recorded")' = At("recorded")
        BY <2>1, <2>2, AfterStep DEF Waiting, Dropped, At
    <2> QED
        BY <2>1, <2>3, Invisible
<1>4. CASE FlushInLoop \/ FlushLast
    BY <1>4, FlushSettles
<1>5. CASE TickIdle \/ Tick \/ Stop \/ Drained
    BY <1>1, <1>5 DEF TickIdle, Tick, Stop, Drained, At
<1>6. CASE Main
    BY <1>1, <1>6 DEF Main, Signal, ShutdownReturns, ShutdownTimesOut, StopRecorder, Wait,
       ServeFails, Leave, handling, At
<1>7. CASE UNCHANGED recorderVars
    BY <1>1, <1>7 DEF recorderVars, At
<1> QED
    BY <1>2, <1>3, <1>4, <1>5, <1>6, <1>7 DEF RecorderNext, Run

LEMMA InitRefines == RecorderInit => Log!Init
<1> SUFFICES ASSUME RecorderInit PROVE Log!Init
    OBVIOUS
<1>1. At("recorded") = {} /\ Waiting = {}
    BY EmptyElements DEF RecorderInit, At, Waiting
<1> QED
    BY <1>1 DEF RecorderInit, Log!Init, Dropped

(* A reader of the log and of the "could not be recorded" count sees every *)
(* exchange handed over settled at most once, batch by batch, and nothing  *)
(* stored or counted taken back: the two goroutines, the bounded channel   *)
(* and the shutdown add nothing to what RequestLog promises.               *)
THEOREM Refinement == RecorderSpec => ImplementsRequestLog
<1>1. RecorderIInv /\ [RecorderNext]_recorderVars => [Log!Next]_(Log!vars)
    BY StepRefines
<1> QED
    BY <1>1, InitRefines, RecorderInvariant, PTL DEF RecorderSpec, ImplementsRequestLog, Log!Spec
=============================================================================
