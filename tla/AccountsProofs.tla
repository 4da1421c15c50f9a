--------------------------- MODULE AccountsProofs ---------------------------
(***************************************************************************)
(* Proofs about Accounts, for any number of visitors, accounts, tokens and *)
(* session tokens: whose session a token stands for, what stays closed,    *)
(* who sees a secret and what a deleted account may still do.              *)
(***************************************************************************)
EXTENDS Accounts, FiniteSetTheorems, TLAPS

Visit == [at : {"idle", "handle", "renew", "respond", "bearer", "act"},
          sid : Sids \union {NoSid}, values : Values,
          modified : BOOLEAN, user : Users \union {Nobody},
          token : Tokens \union {NoToken}, late : BOOLEAN]

(* What the invariant takes for granted everywhere.                        *)
Typed == AccountsTypeOK /\ HistoryTypeOK

LEMMA VisitsTyped == Typed => visits \in [Visitors -> Visit] /\ \A v \in Visitors : visits[v] \in Visit
BY DEF Typed, AccountsTypeOK, Visit

LEMMA RestingIs ==
    /\ Resting \in Visit /\ Resting.at = "idle" /\ Resting.sid = NoSid /\ Resting.values = Blank
    /\ Resting.user = Nobody /\ Blank \in Values /\ Blank.user = Nobody /\ Blank.secret = NoToken
BY DEF Resting, Visit, Blank, Values

(* One visit changes.                                                      *)
LEMMA OneVisit ==
    ASSUME Typed, NEW v \in Visitors, NEW n \in Visit, visits' = [visits EXCEPT ![v] = n]
    PROVE  /\ visits' \in [Visitors -> Visit]
           /\ visits'[v] = n
           /\ \A w \in Visitors : w # v => visits'[w] = visits[w]
BY VisitsTyped
-----------------------------------------------------------------------------
(* Session tokens.                                                         *)
SidsOK == TokenStandsForOneVisitor /\ CopiesAreTheSessions /\ ClosedStaysClosed /\ ClosedIsForgotten

LEMMA LiveIs ==
    ASSUME Typed, NEW s \in Sids
    PROVE  /\ Live(s) <=> sessions[s] # NoSession
           /\ Live(s) => sessions[s] \in Values /\ sessions[s].user \in Users \union {Nobody}
           /\ s # NoSid
<1>1. sessions[s] \in Values \union {NoSession} /\ NoSid \notin Sids
    BY AccountsAssumption DEF Typed, AccountsTypeOK
<1> QED
    BY <1>1 DEF Live, Values

(* A request goes on with the session it has, or without one.              *)
LEMMA MoveKeepsSids ==
    ASSUME Typed, SidsOK, NEW v \in Visitors, NEW n \in Visit,
           visits' = [visits EXCEPT ![v] = n], UNCHANGED <<sessions, meant, closed>>,
           \/ n.sid = NoSid
           \/ n.sid = visits[v].sid /\ n.values.user = visits[v].values.user
                /\ visits[v].at \in {"handle", "renew"}
    PROVE  SidsOK'
<1>1. /\ visits'[v] = n
      /\ \A w \in Visitors : w # v => visits'[w] = visits[w]
    BY OneVisit
<1>2. TokenStandsForOneVisitor' /\ ClosedStaysClosed'
    BY DEF SidsOK, TokenStandsForOneVisitor, ClosedStaysClosed, Live
<1>3. \A w \in Visitors : visits'[w].sid = NoSid \/ visits'[w].sid = visits[w].sid
    BY <1>1
<1>4. ClosedIsForgotten'
    BY <1>3, AccountsAssumption DEF SidsOK, ClosedIsForgotten, Typed, HistoryTypeOK
<1>5. CopiesAreTheSessions'
    <2> SUFFICES ASSUME NEW w \in Visitors, visits'[w].sid # NoSid
                 PROVE  \/ meant[visits'[w].sid] = visits'[w].values.user
                        \/ /\ meant[visits'[w].sid] = NoSid
                           /\ visits'[w].at = "respond" /\ visits'[w].modified
                           /\ \A u \in Visitors \ {w} : visits'[u].sid # visits'[w].sid
        BY DEF CopiesAreTheSessions
    <2>1. CASE w = v
        BY <1>1, <2>1 DEF SidsOK, CopiesAreTheSessions
    <2>2. CASE w # v
        BY <1>1, <1>3, <2>2 DEF SidsOK, CopiesAreTheSessions
    <2> QED
        BY <2>1, <2>2
<1> QED
    BY <1>2, <1>4, <1>5 DEF SidsOK

(* A session token nobody has ever used.                                   *)
Fresh(s) ==
    /\ s \in Sids /\ s # NoSid /\ ~Live(s) /\ meant[s] = NoSid
    /\ \A v \in Visitors : visits[v].sid # s

LEMMA NewSidIsFresh ==
    ASSUME Typed, RoomForSids, Owing # {}
    PROVE  Fresh(NewSid) /\ NewSid \notin Used
<1>1. Owing \subseteq Visitors /\ IsFiniteSet(Owing)
    BY AccountsAssumption, FS_Subset DEF Owing
<1>2. IsFiniteSet(Sids \ Used)
    BY AccountsAssumption, FS_Subset
<1>3. Cardinality(Owing) \in Nat /\ Cardinality(Owing) # 0 /\ Cardinality(Sids \ Used) \in Nat
    BY <1>1, <1>2, FS_EmptySet, FS_CardinalityType
<1>4. Sids \ Used # {}
    BY <1>2, <1>3, FS_EmptySet DEF RoomForSids
<1>5. NewSid \in Sids /\ NewSid \notin Used
    BY <1>4 DEF NewSid
<1>6. ~Live(NewSid) /\ meant[NewSid] = NoSid /\ \A v \in Visitors : visits[v].sid # NewSid
    BY <1>5 DEF Used
<1> QED
    BY <1>5, <1>6, AccountsAssumption DEF Fresh

(* A session ends, and its request goes on without one or under a token    *)
(* that is new.                                                            *)
LEMMA CloseKeepsSids ==
    ASSUME Typed, SidsOK, NEW v \in Visitors, NEW n \in Visit, NEW s,
           visits' = [visits EXCEPT ![v] = n], meant' = meant,
           sessions' = Delete(s), closed' = Closing(v, s),
           s = NoSid \/ (s \in Sids /\ meant[s] # NoSid),
           n.sid = NoSid \/ (Fresh(n.sid) /\ n.at = "respond" /\ n.modified)
    PROVE  SidsOK'
<1>1. /\ visits'[v] = n
      /\ \A w \in Visitors : w # v => visits'[w] = visits[w]
    BY OneVisit
<1>2. \A t \in Sids : sessions'[t] = IF t = s THEN NoSession ELSE sessions[t]
    BY AccountsAssumption DEF Delete, Typed, AccountsTypeOK
<1>3. \A t \in Sids : (Live(t))' <=> t # s /\ Live(t)
    BY <1>2 DEF Live
<1>4. \A t \in closed' : t \in Sids /\ (t \in closed \/ (t = s /\ t # NoSid /\ Others(v, s) = {}))
    <2>1. closed' = closed \/ (s # NoSid /\ Others(v, s) = {} /\ closed' = closed \union {s})
        BY DEF Closing
    <2>2. closed \subseteq Sids
        BY DEF Typed, HistoryTypeOK
    <2> QED
        BY <2>1, <2>2
<1>5. TokenStandsForOneVisitor'
    BY <1>2, <1>3 DEF SidsOK, TokenStandsForOneVisitor
<1>6. ClosedStaysClosed'
    BY <1>3, <1>4 DEF SidsOK, ClosedStaysClosed
<1>7. n.sid # NoSid => meant[n.sid] = NoSid
    BY DEF Fresh
<1>8. ClosedIsForgotten'
    <2> SUFFICES ASSUME NEW t \in closed'
                 PROVE  meant[t] # NoSid /\ \A w \in Visitors : visits'[w].sid # t
        BY DEF ClosedIsForgotten
    <2>1. t # NoSid /\ meant[t] # NoSid
        BY <1>4, AccountsAssumption DEF SidsOK, ClosedIsForgotten
    <2>2. visits'[v].sid # t
        BY <1>1, <1>7, <2>1
    <2>3. \A w \in Visitors : w # v => visits[w].sid # t
        BY <1>4 DEF SidsOK, ClosedIsForgotten, Others
    <2> QED
        BY <1>1, <2>1, <2>2, <2>3
<1>9. CopiesAreTheSessions'
    <2> SUFFICES ASSUME NEW w \in Visitors, visits'[w].sid # NoSid
                 PROVE  \/ meant[visits'[w].sid] = visits'[w].values.user
                        \/ /\ meant[visits'[w].sid] = NoSid
                           /\ visits'[w].at = "respond" /\ visits'[w].modified
                           /\ \A u \in Visitors \ {w} : visits'[u].sid # visits'[w].sid
        BY DEF CopiesAreTheSessions
    <2>1. CASE w = v
        BY <1>1, <2>1 DEF Fresh
    <2>2. CASE w # v
        <3>1. visits'[w] = visits[w] /\ visits[w].sid # n.sid
            BY <1>1, <2>2 DEF Fresh
        <3> QED
            BY <1>1, <3>1 DEF SidsOK, CopiesAreTheSessions
    <2> QED
        BY <2>1, <2>2
<1> QED
    BY <1>5, <1>6, <1>8, <1>9 DEF SidsOK

(* A request stores its copy.                                              *)
LEMMA StoreKeepsSids ==
    ASSUME Typed, SidsOK, NEW v \in Visitors, NEW s \in Sids,
           s = visits[v].sid \/ (visits[v].sid = NoSid /\ Fresh(s)),
           visits' = [visits EXCEPT ![v] = Resting], closed' = closed,
           sessions' = [sessions EXCEPT ![s] = visits[v].values],
           meant' = [meant EXCEPT ![s] = IF @ = NoSid THEN visits[v].values.user ELSE @]
    PROVE  SidsOK'
<1>1. /\ visits'[v].sid = NoSid
      /\ \A w \in Visitors : w # v => visits'[w] = visits[w]
    BY OneVisit, RestingIs
<1>2. /\ visits[v].values \in Values /\ visits[v].values # NoSession
      /\ visits[v].values.user # NoSid /\ s # NoSid
    BY VisitsTyped, AccountsAssumption DEF Visit, Values
<1>3. \A t \in Sids : sessions'[t] = IF t = s THEN visits[v].values ELSE sessions[t]
    BY DEF Typed, AccountsTypeOK
<1>4. meant'[s] = visits[v].values.user
    BY <1>2 DEF Typed, HistoryTypeOK, SidsOK, CopiesAreTheSessions, Fresh
<1>5. \A t \in Sids : t # s => meant'[t] = meant[t]
    BY DEF Typed, HistoryTypeOK
<1>6. s \notin closed
    BY <1>2 DEF SidsOK, ClosedIsForgotten, Fresh
<1>7. TokenStandsForOneVisitor'
    BY <1>3, <1>4, <1>5 DEF SidsOK, TokenStandsForOneVisitor, Live
<1>8. closed' \subseteq Sids /\ s \notin closed'
    BY <1>6 DEF Typed, HistoryTypeOK
<1>9. ClosedStaysClosed'
    BY <1>3, <1>8 DEF SidsOK, ClosedStaysClosed, Live
<1>10. ClosedIsForgotten'
    BY <1>1, <1>5, <1>8, AccountsAssumption DEF SidsOK, ClosedIsForgotten
<1>11. CopiesAreTheSessions'
    <2> SUFFICES ASSUME NEW w \in Visitors, visits'[w].sid # NoSid
                 PROVE  \/ meant'[visits'[w].sid] = visits'[w].values.user
                        \/ /\ meant'[visits'[w].sid] = NoSid
                           /\ visits'[w].at = "respond" /\ visits'[w].modified
                           /\ \A u \in Visitors \ {w} : visits'[u].sid # visits'[w].sid
        BY DEF CopiesAreTheSessions
    <2>1. w # v /\ visits'[w] = visits[w] /\ visits[w].sid \in Sids
        BY <1>1, VisitsTyped DEF Visit
    <2>2. CASE visits[w].sid = s
        <3>1. visits[v].sid = s
            BY <2>1, <2>2 DEF Fresh
        <3>2. meant[s] = visits[w].values.user /\ meant[s] = visits[v].values.user
            BY <1>2, <2>1, <2>2, <3>1 DEF SidsOK, CopiesAreTheSessions
        <3> QED
            BY <1>4, <2>1, <2>2, <3>2
    <2>3. CASE visits[w].sid # s
        <3>1. meant'[visits[w].sid] = meant[visits[w].sid]
            BY <1>5, <2>1, <2>3
        <3>2. \A u \in Visitors \ {w} : visits[u].sid # visits[w].sid => visits'[u].sid # visits'[w].sid
            BY <1>1, <2>1
        <3> QED
            BY <2>1, <3>1, <3>2 DEF SidsOK, CopiesAreTheSessions
    <2> QED
        BY <2>2, <2>3
<1> QED
    BY <1>7, <1>9, <1>10, <1>11 DEF SidsOK

(* A request loads the session its token names.                            *)
LEMMA LoadKeepsSids ==
    ASSUME Typed, SidsOK, NEW v \in Visitors, NEW n \in Visit,
           visits' = [visits EXCEPT ![v] = n], UNCHANGED <<sessions, meant, closed>>,
           n.sid \in Sids, Live(n.sid), n.values = sessions[n.sid]
    PROVE  SidsOK'
<1>1. /\ visits'[v] = n
      /\ \A w \in Visitors : w # v => visits'[w] = visits[w]
    BY OneVisit
<1>2. TokenStandsForOneVisitor' /\ ClosedStaysClosed'
    BY DEF SidsOK, TokenStandsForOneVisitor, ClosedStaysClosed, Live
<1>3. n.sid \notin closed /\ meant[n.sid] = n.values.user /\ meant[n.sid] # NoSid
    BY LiveIs, AccountsAssumption DEF SidsOK, ClosedStaysClosed, TokenStandsForOneVisitor
<1>4. ClosedIsForgotten'
    BY <1>1, <1>3 DEF SidsOK, ClosedIsForgotten
<1>5. CopiesAreTheSessions'
    <2> SUFFICES ASSUME NEW w \in Visitors, visits'[w].sid # NoSid
                 PROVE  \/ meant[visits'[w].sid] = visits'[w].values.user
                        \/ /\ meant[visits'[w].sid] = NoSid
                           /\ visits'[w].at = "respond" /\ visits'[w].modified
                           /\ \A u \in Visitors \ {w} : visits'[u].sid # visits'[w].sid
        BY DEF CopiesAreTheSessions
    <2>1. CASE w = v
        BY <1>1, <1>3, <2>1
    <2>2. CASE w # v
        BY <1>1, <1>3, <2>2 DEF SidsOK, CopiesAreTheSessions
    <2> QED
        BY <2>1, <2>2
<1> QED
    BY <1>2, <1>4, <1>5 DEF SidsOK
-----------------------------------------------------------------------------
(* There is a new session token for every request that may need one.       *)
LEMMA UsedIs ==
    /\ \A s \in Sids : s \in Used <=>
           Live(s) \/ meant[s] # NoSid \/ \E v \in Visitors : visits[v].sid = s
    /\ \A s \in Sids : s \in Used' <=>
           (Live(s))' \/ meant'[s] # NoSid \/ \E v \in Visitors : visits'[v].sid = s
BY DEF Used

LEMMA OwingIs ==
    /\ \A v \in Visitors : v \in Owing <=>
           \/ visits[v].at \in {"handle", "renew"}
           \/ visits[v].at = "respond" /\ visits[v].sid = NoSid
    /\ \A v \in Visitors : v \in Owing' <=>
           \/ visits'[v].at \in {"handle", "renew"}
           \/ visits'[v].at = "respond" /\ visits'[v].sid = NoSid
    /\ Owing \subseteq Visitors /\ Owing' \subseteq Visitors
BY DEF Owing

LEMMA Counts ==
    ASSUME NEW u
    PROVE  /\ IsFiniteSet(Owing) /\ IsFiniteSet(Owing') /\ IsFiniteSet(Sids \ u)
           /\ Cardinality(Owing) \in Nat /\ Cardinality(Owing') \in Nat
           /\ Cardinality(Sids \ u) \in Nat
<1>1. IsFiniteSet(Owing) /\ IsFiniteSet(Owing') /\ IsFiniteSet(Sids \ u)
    BY OwingIs, AccountsAssumption, FS_Subset
<1> QED
    BY <1>1, FS_CardinalityType

LEMMA RoomStays ==
    ASSUME RoomForSids, Owing' \subseteq Owing, \A s \in Sids : s \in Used' => s \in Used
    PROVE  RoomForSids'
<1>1. Cardinality(Owing') <= Cardinality(Owing)
    BY Counts, FS_Subset
<1>2. Sids \ Used \subseteq Sids \ Used'
    OBVIOUS
<1>3. Cardinality(Sids \ Used) <= Cardinality(Sids \ Used')
    BY <1>2, Counts, FS_Subset
<1>4. /\ Cardinality(Owing) \in Nat /\ Cardinality(Owing') \in Nat
      /\ Cardinality(Sids \ Used) \in Nat /\ Cardinality(Sids \ Used') \in Nat
    BY Counts
<1> QED
    BY <1>1, <1>3, <1>4 DEF RoomForSids

LEMMA RoomTaken ==
    ASSUME RoomForSids, NEW v \in Owing, Owing' \subseteq Owing \ {v}, NEW n,
           \A s \in Sids : s \in Used' => s \in Used \/ s = n
    PROVE  RoomForSids'
<1>1. Cardinality(Owing \ {v}) = Cardinality(Owing) - 1 /\ IsFiniteSet(Owing \ {v})
    BY Counts, FS_RemoveElement
<1>2. Cardinality(Owing') <= Cardinality(Owing \ {v})
    BY <1>1, FS_Subset
<1>3. (Sids \ Used) \ {n} \subseteq Sids \ Used'
    OBVIOUS
<1>4. /\ IsFiniteSet((Sids \ Used) \ {n})
      /\ Cardinality((Sids \ Used) \ {n}) \in {Cardinality(Sids \ Used), Cardinality(Sids \ Used) - 1}
    BY Counts, FS_RemoveElement
<1>5. Cardinality((Sids \ Used) \ {n}) <= Cardinality(Sids \ Used')
    BY <1>3, Counts, FS_Subset
<1>6. /\ Cardinality(Owing) \in Nat /\ Cardinality(Owing') \in Nat
      /\ Cardinality(Sids \ Used) \in Nat /\ Cardinality(Sids \ Used') \in Nat
    BY Counts
<1> QED
    BY <1>1, <1>2, <1>4, <1>5, <1>6 DEF RoomForSids

LEMMA RoomGiven ==
    ASSUME SidRoom, NEW v \in Visitors, Owing' \subseteq Owing \union {v},
           visits[v].at = "idle", \A s \in Sids : s \in Used' => s \in Used
    PROVE  RoomForSids'
<1> DEFINE B == {w \in Visitors : visits[w].at # "idle"}
<1>1. IsFiniteSet(B) /\ v \notin B /\ Owing \subseteq B
    <2>1. B \subseteq Visitors /\ v \notin B
        OBVIOUS
    <2>2. Owing \subseteq B
        BY DEF Owing
    <2> QED
        BY <2>1, <2>2, AccountsAssumption, FS_Subset
<1>2. Cardinality(B) < Cardinality(Sids \ Used)
    BY DEF SidRoom
<1> HIDE DEF B
<1>3. IsFiniteSet(B \union {v}) /\ Cardinality(B \union {v}) = Cardinality(B) + 1
    BY <1>1, FS_AddElement
<1>4. Owing' \subseteq B \union {v}
    BY <1>1
<1>5. Cardinality(Owing') <= Cardinality(B \union {v})
    BY <1>3, <1>4, FS_Subset
<1>6. Sids \ Used \subseteq Sids \ Used'
    OBVIOUS
<1>7. Cardinality(Sids \ Used) <= Cardinality(Sids \ Used')
    BY <1>6, Counts, FS_Subset
<1>8. /\ Cardinality(B) \in Nat /\ Cardinality(Owing') \in Nat
      /\ Cardinality(Sids \ Used) \in Nat /\ Cardinality(Sids \ Used') \in Nat
    BY <1>1, Counts, FS_CardinalityType
<1> QED
    BY <1>2, <1>3, <1>5, <1>7, <1>8 DEF RoomForSids
-----------------------------------------------------------------------------
(* Secrets.                                                                *)
SecretOK(k) == NotBeforeMinted(k) /\ WithItsOwner(k) /\ InOnePlace(k) /\ GoneOnceShown(k)

LEMMA SecretsAre ==
    /\ SecretsKept <=> \A k \in Tokens : SecretOK(k)
    /\ SecretsKept' <=> \A k \in Tokens : SecretOK(k)'
BY DEF SecretsKept, SecretOK

(* The rows of the others are what they were.                              *)
LEMMA SameRows ==
    ASSUME sessions' = sessions, NEW t \in Sids, NEW k
    PROVE  InRow(t, k)' <=> InRow(t, k)
BY DEF InRow, Live

LEMMA RowsDeleted ==
    ASSUME Typed, NEW s, sessions' = Delete(s), NEW t \in Sids, NEW k
    PROVE  /\ InRow(t, k)' <=> t # s /\ InRow(t, k)
           /\ t # s => sessions'[t] = sessions[t]
           /\ (Live(t))' <=> t # s /\ Live(t)
BY AccountsAssumption DEF InRow, Live, Delete, Typed, AccountsTypeOK

LEMMA RowStored ==
    ASSUME Typed, NEW v \in Visitors, NEW s \in Sids,
           sessions' = [sessions EXCEPT ![s] = visits[v].values], NEW t \in Sids, NEW k
    PROVE  /\ InRow(t, k)' <=> IF t = s THEN InCopy(v, k) ELSE InRow(t, k)
           /\ sessions'[t] = IF t = s THEN visits[v].values ELSE sessions[t]
           /\ (Live(t))' <=> t = s \/ Live(t)
<1>1. visits[v].values # NoSession /\ s # NoSid
    BY VisitsTyped, AccountsAssumption DEF Visit
<1> QED
    BY <1>1 DEF InRow, InCopy, Live, Typed, AccountsTypeOK

(* A request goes on with the copy it has.                                 *)
LEMMA SameCopyKeepsSecret ==
    ASSUME Typed, NEW k \in Tokens, SecretOK(k), NEW v \in Visitors, NEW n \in Visit,
           visits' = [visits EXCEPT ![v] = n], visits[v].at # "respond",
           n.sid = visits[v].sid, n.values = visits[v].values,
           UNCHANGED <<sessions, minted, shown, overlapped, carried>>
    PROVE  SecretOK(k)'
<1>1. visits'[v] = n /\ \A w \in Visitors : w # v => visits'[w] = visits[w]
    BY OneVisit
<1>2. \A w \in Visitors : visits'[w].sid = visits[w].sid /\ visits'[w].values = visits[w].values
    BY <1>1
<1>3. \A w \in Visitors : InCopy(w, k)' <=> InCopy(w, k)
    BY <1>2 DEF InCopy
<1>4. \A t \in Sids : InRow(t, k)' <=> InRow(t, k)
    BY SameRows
<1>5. NotBeforeMinted(k)' /\ WithItsOwner(k)'
    BY <1>2, <1>3, <1>4 DEF SecretOK, NotBeforeMinted, WithItsOwner
<1>6. InOnePlace(k)'
    BY <1>2, <1>3, <1>4 DEF SecretOK, InOnePlace
<1>7. GoneOnceShown(k)'
    BY <1>1, <1>3, <1>4 DEF SecretOK, GoneOnceShown
<1> QED
    BY <1>5, <1>6, <1>7 DEF SecretOK

(* A session is destroyed, and the request's copy with it.                 *)
LEMMA BlankKeepsSecret ==
    ASSUME Typed, NEW k \in Tokens, SecretOK(k), NEW v \in Visitors, NEW n \in Visit, NEW s,
           visits' = [visits EXCEPT ![v] = n], visits[v].at # "respond",
           n.sid = NoSid, n.values = Blank, sessions' = Delete(s),
           UNCHANGED <<minted, shown, carried>>, overlapped \subseteq overlapped'
    PROVE  SecretOK(k)'
<1>1. visits'[v] = n /\ \A w \in Visitors : w # v => visits'[w] = visits[w]
    BY OneVisit
<1>2. \A w \in Visitors : InCopy(w, k)' <=> w # v /\ InCopy(w, k)
    BY <1>1, RestingIs, AccountsAssumption DEF InCopy
<1>3. \A t \in Sids : /\ InRow(t, k)' <=> t # s /\ InRow(t, k)
                      /\ t # s => sessions'[t] = sessions[t]
    BY RowsDeleted
<1>4. \A w \in Visitors : w = v \/ visits'[w].sid = visits[w].sid
    BY <1>1
<1>5. NotBeforeMinted(k)' /\ WithItsOwner(k)'
    BY <1>1, <1>2, <1>3 DEF SecretOK, NotBeforeMinted, WithItsOwner
<1>6. NoSid \notin Sids
    BY AccountsAssumption
<1>7. InOnePlace(k)'
    BY <1>1, <1>2, <1>3, <1>6 DEF SecretOK, InOnePlace
<1>8. GoneOnceShown(k)'
    BY <1>1, <1>2, <1>3 DEF SecretOK, GoneOnceShown
<1> QED
    BY <1>5, <1>7, <1>8 DEF SecretOK

(* Logging in: the values go on under a new token, for another account.    *)
LEMMA LogInKeepsSecret ==
    ASSUME Typed, NEW k \in Tokens, SecretOK(k), NEW v \in Visitors, NEW n \in Visit,
           visits' = [visits EXCEPT ![v] = n], visits[v].at # "respond",
           Fresh(n.sid), n.values.secret = visits[v].values.secret,
           sessions' = Delete(visits[v].sid),
           UNCHANGED <<minted, shown, overlapped>>,
           carried' = carried \union {visits[v].values.secret}
    PROVE  SecretOK(k)'
<1>1. visits'[v] = n /\ \A w \in Visitors : w # v => visits'[w] = visits[w]
    BY OneVisit
<1>2. \A w \in Visitors : InCopy(w, k)' <=> InCopy(w, k)
    BY <1>1 DEF InCopy
<1>3. \A t \in Sids : /\ InRow(t, k)' <=> t # visits[v].sid /\ InRow(t, k)
                      /\ t # visits[v].sid => sessions'[t] = sessions[t]
    BY RowsDeleted
<1>4. /\ n.sid \in Sids /\ n.sid # NoSid /\ ~InRow(n.sid, k)
      /\ \A w \in Visitors : visits[w].sid # n.sid
    BY DEF Fresh, InRow
<1>5. NotBeforeMinted(k)'
    BY <1>2, <1>3 DEF SecretOK, NotBeforeMinted
<1>6. WithItsOwner(k)'
    <2>1. k \notin carried' => k \notin carried /\ ~InCopy(v, k)
        BY DEF InCopy
    <2> QED
        BY <1>1, <1>2, <1>3, <2>1 DEF SecretOK, WithItsOwner
<1>7. InOnePlace(k)'
    BY <1>1, <1>2, <1>3, <1>4 DEF SecretOK, InOnePlace
<1>8. GoneOnceShown(k)'
    BY <1>1, <1>2, <1>3 DEF SecretOK, GoneOnceShown
<1> QED
    BY <1>5, <1>6, <1>7, <1>8 DEF SecretOK

(* A request stores its copy, or has nothing to store.                     *)
LEMMA StoreKeepsSecret ==
    ASSUME Typed, NEW k \in Tokens, SecretOK(k), NEW v \in Visitors, NEW s \in Sids,
           s = visits[v].sid \/ (visits[v].sid = NoSid /\ Fresh(s)),
           visits' = [visits EXCEPT ![v] = Resting],
           sessions' = [sessions EXCEPT ![s] = visits[v].values],
           UNCHANGED <<minted, shown, overlapped, carried>>
    PROVE  SecretOK(k)'
<1>1. visits'[v] = Resting /\ \A w \in Visitors : w # v => visits'[w] = visits[w]
    BY OneVisit, RestingIs
<1>2. \A w \in Visitors : InCopy(w, k)' <=> w # v /\ InCopy(w, k)
    BY <1>1, RestingIs, AccountsAssumption DEF InCopy
<1>3. \A t \in Sids : /\ InRow(t, k)' <=> IF t = s THEN InCopy(v, k) ELSE InRow(t, k)
                      /\ sessions'[t] = IF t = s THEN visits[v].values ELSE sessions[t]
    BY RowStored
<1>4. /\ NoSid \notin Sids /\ visits'[v].sid = NoSid
      /\ Fresh(s) => \A w \in Visitors : visits[w].sid # s
    BY <1>1, RestingIs, AccountsAssumption DEF Fresh
<1>5. NotBeforeMinted(k)' /\ WithItsOwner(k)'
    BY <1>1, <1>2, <1>3 DEF SecretOK, NotBeforeMinted, WithItsOwner
<1>6. InOnePlace(k)'
    BY <1>1, <1>2, <1>3, <1>4 DEF SecretOK, InOnePlace
<1>7. GoneOnceShown(k)'
    BY <1>1, <1>2, <1>3, <1>4 DEF SecretOK, GoneOnceShown
<1> QED
    BY <1>5, <1>6, <1>7 DEF SecretOK

LEMMA RestKeepsSecret ==
    ASSUME Typed, NEW k \in Tokens, SecretOK(k), NEW v \in Visitors, ~visits[v].modified,
           visits' = [visits EXCEPT ![v] = Resting],
           UNCHANGED <<sessions, minted, shown, overlapped, carried>>
    PROVE  SecretOK(k)'
<1>1. visits'[v] = Resting /\ \A w \in Visitors : w # v => visits'[w] = visits[w]
    BY OneVisit, RestingIs
<1>2. \A w \in Visitors : InCopy(w, k)' <=> w # v /\ InCopy(w, k)
    BY <1>1, RestingIs, AccountsAssumption DEF InCopy
<1>3. \A t \in Sids : InRow(t, k)' <=> InRow(t, k)
    BY SameRows
<1>4. NoSid \notin Sids /\ visits'[v].sid = NoSid
    BY <1>1, RestingIs, AccountsAssumption
<1>5. NotBeforeMinted(k)' /\ WithItsOwner(k)'
    BY <1>1, <1>2, <1>3 DEF SecretOK, NotBeforeMinted, WithItsOwner
<1>6. InOnePlace(k)'
    BY <1>1, <1>2, <1>3, <1>4 DEF SecretOK, InOnePlace
<1>7. GoneOnceShown(k)'
    BY <1>1, <1>2, <1>3 DEF SecretOK, GoneOnceShown
<1> QED
    BY <1>5, <1>6, <1>7 DEF SecretOK

(* A session is loaded: who shares it from now on is written down.         *)
LEMMA LoadKeepsSecret ==
    ASSUME Typed, NEW k \in Tokens, SecretOK(k), NEW v \in Visitors, NEW n \in Visit,
           visits' = [visits EXCEPT ![v] = n], visits[v].at # "respond",
           visits[v].sid = NoSid, n.sid \in Sids, Live(n.sid), n.values = sessions[n.sid],
           UNCHANGED <<sessions, minted, shown, carried>>, overlapped \subseteq overlapped',
           Others(v, n.sid) # {} =>
               /\ sessions[n.sid].secret \in overlapped'
               /\ \A w \in Others(v, n.sid) : visits[w].values.secret \in overlapped'
    PROVE  SecretOK(k)'
<1> DEFINE s == n.sid
<1>1. visits'[v] = n /\ \A w \in Visitors : w # v => visits'[w] = visits[w]
    BY OneVisit
<1>2. \A w \in Visitors : InCopy(w, k)' <=> IF w = v THEN InRow(s, k) ELSE InCopy(w, k)
    BY <1>1 DEF InCopy, InRow
<1>3. \A t \in Sids : InRow(t, k)' <=> InRow(t, k)
    BY SameRows
<1>4. /\ NoSid \notin Sids /\ s # NoSid /\ s \in Sids
      /\ \A w \in Visitors : w \in Others(v, s) <=> w # v /\ visits[w].sid = s
    BY AccountsAssumption DEF Others
<1> HIDE DEF s
<1>5. NotBeforeMinted(k)' /\ WithItsOwner(k)'
    BY <1>1, <1>2, <1>3, <1>4 DEF SecretOK, NotBeforeMinted, WithItsOwner, InRow, s
<1>6. ASSUME k \notin overlapped'
      PROVE  /\ k \notin overlapped
             /\ InRow(s, k) => \A w \in Visitors : w # v => visits[w].sid # s
             /\ \A w \in Visitors : w # v /\ visits[w].sid = s => ~InCopy(w, k)
    BY <1>4, <1>6 DEF InRow, InCopy, s
<1>7. InOnePlace(k)'
    <2> SUFFICES ASSUME k \notin overlapped'
                 PROVE  /\ \A u, w \in Visitors : InCopy(u, k)' /\ InCopy(w, k)' => u = w
                        /\ \A t, r \in Sids : InRow(t, k)' /\ InRow(r, k)' => t = r
                        /\ \A u \in Visitors, t \in Sids :
                               InCopy(u, k)' /\ InRow(t, k)' => visits'[u].sid = t
                        /\ \A u, w \in Visitors :
                               InCopy(u, k)' /\ visits'[u].sid # NoSid
                                   /\ visits'[w].sid = visits'[u].sid => u = w
                        /\ \A t \in Sids, u, w \in Visitors :
                               InRow(t, k)' /\ visits'[u].sid = t /\ visits'[w].sid = t => u = w
        BY DEF InOnePlace
    <2>1. /\ \A u, w \in Visitors : InCopy(u, k) /\ InCopy(w, k) => u = w
          /\ \A t, r \in Sids : InRow(t, k) /\ InRow(r, k) => t = r
          /\ \A u \in Visitors, t \in Sids : InCopy(u, k) /\ InRow(t, k) => visits[u].sid = t
          /\ \A u, w \in Visitors :
                 InCopy(u, k) /\ visits[u].sid # NoSid /\ visits[w].sid = visits[u].sid => u = w
          /\ \A t \in Sids, u, w \in Visitors :
                 InRow(t, k) /\ visits[u].sid = t /\ visits[w].sid = t => u = w
        BY <1>6 DEF SecretOK, InOnePlace
    <2>2. visits'[v].sid = s /\ \A w \in Visitors : w # v => visits'[w].sid = visits[w].sid
        BY <1>1 DEF s
    <2> QED
        BY <1>2, <1>3, <1>4, <1>6, <2>1, <2>2
<1>8. GoneOnceShown(k)'
    <2>1. \A w \in Visitors : visits[w].at = "respond" => w # v /\ visits'[w] = visits[w]
        BY <1>1
    <2> QED
        BY <1>2, <1>3, <1>4, <1>6, <2>1 DEF SecretOK, GoneOnceShown
<1> QED
    BY <1>5, <1>7, <1>8 DEF SecretOK

(* A secret is minted, of the account whose session the request has.       *)
LEMMA CreateKeepsSecret ==
    ASSUME Typed, NEW k \in Tokens, SecretOK(k), NEW v \in Visitors, NEW n \in Visit,
           visits' = [visits EXCEPT ![v] = n], visits[v].at # "respond",
           n.sid = visits[v].sid, n.values.user = visits[v].values.user,
           NEW c \in Tokens, n.values.secret = c, minted[c] = Nobody, SecretOK(c),
           visits[v].values.user \in Users,
           minted' = [minted EXCEPT ![c] = visits[v].values.user],
           UNCHANGED <<sessions, shown, carried>>, overlapped \subseteq overlapped',
           Others(v, visits[v].sid) # {} => c \in overlapped'
    PROVE  SecretOK(k)'
<1>1. visits'[v] = n /\ \A w \in Visitors : w # v => visits'[w] = visits[w]
    BY OneVisit
<1>2. \A w \in Visitors : InCopy(w, k)' <=> IF w = v THEN k = c ELSE InCopy(w, k)
    BY <1>1 DEF InCopy
<1>3. \A t \in Sids : InRow(t, k)' <=> InRow(t, k)
    BY SameRows
<1>4. minted'[k] = IF k = c THEN visits[v].values.user ELSE minted[k]
    BY DEF Typed, HistoryTypeOK
<1>5. \A w \in Visitors : visits'[w].sid = visits[w].sid /\ visits'[w].values.user = visits[w].values.user
    BY <1>1
<1>6. k = c => /\ \A w \in Visitors : ~InCopy(w, k)
               /\ \A t \in Sids : ~InRow(t, k)
               /\ shown[k].times = 0 /\ shown[k].to = {}
    BY DEF SecretOK, NotBeforeMinted
<1>7. \A w \in Visitors : w \in Others(v, visits[v].sid)
                              <=> w # v /\ visits[v].sid # NoSid /\ visits[w].sid = visits[v].sid
    BY DEF Others
<1>8. NotBeforeMinted(k)'
    <2>1. visits[v].values.user # Nobody
        BY AccountsAssumption
    <2> QED
        BY <1>2, <1>3, <1>4, <2>1 DEF SecretOK, NotBeforeMinted
<1>9. WithItsOwner(k)'
    BY <1>2, <1>3, <1>4, <1>5, <1>6 DEF SecretOK, WithItsOwner
<1>10. InOnePlace(k)'
    <2>1. CASE k = c
        BY <1>2, <1>3, <1>5, <1>6, <1>7, <2>1 DEF InOnePlace
    <2>2. CASE k # c
        BY <1>2, <1>3, <1>5, <2>2 DEF SecretOK, InOnePlace
    <2> QED
        BY <2>1, <2>2
<1>11. GoneOnceShown(k)'
    <2>1. \A w \in Visitors : visits[w].at = "respond" => w # v /\ visits'[w] = visits[w]
        BY <1>1
    <2> QED
        BY <1>2, <1>3, <1>6, <2>1 DEF SecretOK, GoneOnceShown
<1> QED
    BY <1>8, <1>9, <1>10, <1>11 DEF SecretOK

(* The page of the tokens shows the secret that is there, and no other.    *)
LEMMA ShowKeepsSecret ==
    ASSUME Typed, NEW k \in Tokens, SecretOK(k), NEW v \in Visitors, NEW n \in Visit,
           visits' = [visits EXCEPT ![v] = n], visits[v].at # "respond",
           n.sid = visits[v].sid, n.values.user = visits[v].values.user,
           n.values.secret = NoToken, n.at = "respond", n.modified,
           visits[v].user = visits[v].values.user,
           IF visits[v].values.secret = NoToken THEN shown' = shown
           ELSE shown' = [shown EXCEPT ![visits[v].values.secret] =
                             [times |-> IF @.times = 2 THEN 2 ELSE @.times + 1,
                              to |-> @.to \union {visits[v].user}]],
           UNCHANGED <<sessions, minted, overlapped, carried>>
    PROVE  SecretOK(k)'
<1>1. visits'[v] = n /\ \A w \in Visitors : w # v => visits'[w] = visits[w]
    BY OneVisit
<1>2. \A w \in Visitors : InCopy(w, k)' <=> w # v /\ InCopy(w, k)
    BY <1>1, AccountsAssumption DEF InCopy
<1>3. \A t \in Sids : InRow(t, k)' <=> InRow(t, k)
    BY SameRows
<1>4. \A w \in Visitors : visits'[w].sid = visits[w].sid /\ visits'[w].values.user = visits[w].values.user
    BY <1>1
<1>5. /\ shown[k].times \in 0..2
      /\ ~InCopy(v, k) => shown'[k] = shown[k]
      /\ InCopy(v, k) =>
            /\ shown'[k].times = (IF shown[k].times = 2 THEN 2 ELSE shown[k].times + 1)
            /\ shown'[k].to = shown[k].to \union {visits[v].user}
    BY AccountsAssumption DEF InCopy, Typed, HistoryTypeOK
<1>6. NotBeforeMinted(k)'
    BY <1>2, <1>3, <1>5 DEF SecretOK, NotBeforeMinted
<1>7. WithItsOwner(k)'
    BY <1>2, <1>3, <1>4, <1>5 DEF SecretOK, WithItsOwner
<1>8. InOnePlace(k)'
    BY <1>2, <1>3, <1>4 DEF SecretOK, InOnePlace
<1>9. GoneOnceShown(k)'
    <2>1. \A w \in Visitors : visits[w].at = "respond" => w # v /\ visits'[w] = visits[w]
        BY <1>1
    <2>2. CASE InCopy(v, k) /\ k \notin overlapped
        <3>1. shown[k].times = 0
            BY <1>5, <2>2 DEF SecretOK, GoneOnceShown
        <3>2. /\ \A w \in Visitors : ~InCopy(w, k)'
              /\ \A t \in Sids : InRow(t, k) => visits[v].sid = t
            BY <1>2, <2>2 DEF SecretOK, InOnePlace
        <3> QED
            BY <1>1, <1>3, <1>5, <2>2, <3>1, <3>2 DEF GoneOnceShown
    <2>3. CASE ~InCopy(v, k) /\ k \notin overlapped
        BY <1>2, <1>3, <1>5, <2>1, <2>3 DEF SecretOK, GoneOnceShown
    <2> QED
        BY <2>2, <2>3 DEF GoneOnceShown
<1> QED
    BY <1>6, <1>7, <1>8, <1>9 DEF SecretOK
-----------------------------------------------------------------------------
(* The steps.                                                              *)
LEMMA Whole ==
    AccountsIInv <=> /\ Typed /\ ActsForItsSession /\ SidsOK /\ RoomForSids
                     /\ SecretsKept /\ DeletedActsNoMore
BY DEF AccountsIInv, Typed, SidsOK

LEMMA WholeAfter ==
    AccountsIInv' <=> /\ Typed' /\ ActsForItsSession' /\ SidsOK' /\ RoomForSids'
                      /\ SecretsKept' /\ DeletedActsNoMore'
BY DEF AccountsIInv, Typed, SidsOK

(* What every request may be found doing, given the accounts there are.    *)
VisitOK(n, us) ==
    /\ n.at \in {"idle", "bearer", "act"} => n.sid = NoSid /\ n.values = Blank
    /\ n.at = "handle" => n.user = n.values.user
    /\ n.at = "bearer" => n.token \in Tokens
    /\ n.at \in {"handle", "renew", "act"} /\ n.user \notin us \union {Nobody} => n.late

LEMMA ActorsAre ==
    /\ ActsForItsSession /\ DeletedActsNoMore <=>
          /\ \A v \in Visitors : VisitOK(visits[v], users)
          /\ \A k \in Tokens : apiTokens[k] \in users \union {Nobody}
    /\ ActsForItsSession' /\ DeletedActsNoMore' <=>
          /\ \A v \in Visitors : VisitOK(visits'[v], users')
          /\ \A k \in Tokens : apiTokens'[k] \in users' \union {Nobody}
BY DEF ActsForItsSession, DeletedActsNoMore, VisitOK

LEMMA ActorsKept ==
    ASSUME Typed, ActsForItsSession, DeletedActsNoMore, NEW v \in Visitors, NEW n \in Visit,
           visits' = [visits EXCEPT ![v] = n], users \subseteq users', VisitOK(n, users'),
           \A k \in Tokens : apiTokens'[k] \in users' \union {Nobody}
    PROVE  ActsForItsSession' /\ DeletedActsNoMore'
<1>1. visits'[v] = n /\ \A w \in Visitors : w # v => visits'[w] = visits[w]
    BY OneVisit
<1>2. \A w \in Visitors : VisitOK(visits[w], users) => VisitOK(visits[w], users')
    BY DEF VisitOK
<1> QED
    BY <1>1, <1>2, ActorsAre

TablesTyped ==
    /\ users \subseteq registered /\ registered \subseteq Users
    /\ apiTokens \in [Tokens -> Users \union {Nobody}]
    /\ expired \subseteq Tokens

LEMMA TypedParts ==
    /\ Typed <=> /\ TablesTyped /\ sessions \in [Sids -> Values \union {NoSession}]
                 /\ visits \in [Visitors -> Visit] /\ HistoryTypeOK
    /\ Typed' <=> /\ TablesTyped' /\ sessions' \in [Sids -> Values \union {NoSession}]
                  /\ visits' \in [Visitors -> Visit] /\ HistoryTypeOK'
BY DEF Typed, AccountsTypeOK, TablesTyped, Visit

(* Most steps: the request goes on with the copy it has, if any.           *)
LEMMA SameCopyKeeps ==
    ASSUME AccountsIInv, NEW v \in Visitors, NEW n \in Visit,
           visits' = [visits EXCEPT ![v] = n], visits[v].at # "respond",
           n.sid = visits[v].sid, n.values = visits[v].values,
           UNCHANGED <<sessions, minted, meant, closed, shown, overlapped, carried>>,
           TablesTyped', users \subseteq users', VisitOK(n, users'),
           \A k \in Tokens : apiTokens'[k] \in users' \union {Nobody},
           \/ visits[v].at = "idle" /\ SidRoom
           \/ visits[v].at \in {"handle", "renew"}
           \/ n.at \notin {"handle", "renew", "respond"}
    PROVE  AccountsIInv'
<1>1. Typed /\ ActsForItsSession /\ SidsOK /\ RoomForSids /\ SecretsKept /\ DeletedActsNoMore
    BY Whole
<1>2. visits'[v] = n /\ \A w \in Visitors : w # v => visits'[w] = visits[w]
    BY <1>1, OneVisit
<1>3. visits' \in [Visitors -> Visit]
    BY <1>1, OneVisit
<1>4. Typed'
    BY <1>1, <1>3, TypedParts DEF HistoryTypeOK
<1>5. visits[v].at \in {"handle", "renew"} \/ n.sid = NoSid
    BY <1>1, VisitsTyped DEF ActsForItsSession, Visit
<1>6. SidsOK'
    BY <1>1, <1>5, MoveKeepsSids
<1>7. \A s \in Sids : s \in Used' => s \in Used
    BY <1>2, UsedIs DEF Live
<1>8. Owing' \subseteq Owing \union {v}
    BY <1>2, OwingIs
<1>9. RoomForSids'
    <2>1. CASE visits[v].at = "idle" /\ SidRoom
        BY <1>7, <1>8, <2>1, RoomGiven
    <2>2. CASE visits[v].at \in {"handle", "renew"} \/ n.at \notin {"handle", "renew", "respond"}
        <3>1. Owing' \subseteq Owing
            BY <1>2, <1>8, <2>2, OwingIs
        <3> QED
            BY <1>1, <1>7, <3>1, RoomStays
    <2> QED
        BY <2>1, <2>2
<1>10. SecretsKept'
    BY <1>1, SecretsAre, SameCopyKeepsSecret
<1>11. ActsForItsSession' /\ DeletedActsNoMore'
    BY <1>1, ActorsKept
<1> QED
    BY <1>4, <1>6, <1>9, <1>10, <1>11, WholeAfter

(* A response is being written, of a request with that session.            *)
LEMMA RespondIs ==
    ASSUME NEW v, NEW visit, visit.sid \in Sids \union {NoSid}, visit.values \in Values,
           visit.modified \in BOOLEAN, Respond(v, visit), NEW us
    PROVE  \E n \in Visit :
              /\ visits' = [visits EXCEPT ![v] = n]
              /\ n.at = "respond" /\ n.sid = visit.sid /\ n.values = visit.values
              /\ n.modified = visit.modified
              /\ VisitOK(n, us)
<1> DEFINE n == [Resting EXCEPT !.at = "respond", !.sid = visit.sid,
                                !.values = visit.values, !.modified = visit.modified]
<1>1. visits' = [visits EXCEPT ![v] = n]
    BY DEF Respond
<1>2. /\ n \in Visit /\ n.at = "respond" /\ n.sid = visit.sid /\ n.values = visit.values
      /\ n.modified = visit.modified
    BY DEF Resting, Visit
<1> HIDE DEF n
<1>3. VisitOK(n, us)
    BY <1>2 DEF VisitOK
<1> QED
    BY <1>1, <1>2, <1>3

(* The tables stay as they are.                                            *)
LEMMA SameTables ==
    ASSUME Typed, ActsForItsSession, UNCHANGED accountTables
    PROVE  /\ TablesTyped' /\ users' = users
           /\ \A k \in Tokens : apiTokens'[k] \in users' \union {Nobody}
BY TypedParts DEF accountTables, TablesTyped, ActsForItsSession

LEMMA LoadNewKeeps ==
    ASSUME AccountsIInv, NEW v \in Visitors, LoadNew(v)
    PROVE  AccountsIInv'
<1> DEFINE n == [Resting EXCEPT !.at = "handle"]
<1>1. Typed /\ ActsForItsSession
    BY Whole
<1>2. /\ visits' = [visits EXCEPT ![v] = n] /\ visits[v].at = "idle" /\ SidRoom
      /\ UNCHANGED accountTables
      /\ UNCHANGED <<sessions, minted, meant, closed, shown, overlapped, carried>>
    BY DEF LoadNew, history, accountTables
<1>3. /\ n \in Visit /\ n.at = "handle" /\ n.sid = NoSid /\ n.values = Blank /\ n.user = Nobody
      /\ Blank.user = Nobody
    BY DEF Resting, Visit, Blank, Values
<1> HIDE DEF n
<1>4. VisitOK(n, users')
    BY <1>3 DEF VisitOK
<1>5. visits[v].sid = NoSid /\ visits[v].values = Blank
    BY <1>1, <1>2 DEF ActsForItsSession
<1> QED
    BY <1>1, <1>2, <1>3, <1>4, <1>5, SameTables, SameCopyKeeps

LEMMA HandleUnchangedKeeps ==
    ASSUME AccountsIInv, NEW v \in Visitors, HandleUnchanged(v)
    PROVE  AccountsIInv'
<1>1. Typed /\ ActsForItsSession
    BY Whole
<1>2. /\ Respond(v, visits[v]) /\ visits[v].at \in {"handle", "renew"}
      /\ UNCHANGED accountTables
      /\ UNCHANGED <<sessions, minted, meant, closed, shown, overlapped, carried>>
    BY DEF HandleUnchanged, history, accountTables
<1>3. /\ visits[v].sid \in Sids \union {NoSid} /\ visits[v].values \in Values
      /\ visits[v].modified \in BOOLEAN
    BY <1>1, VisitsTyped DEF Visit
<1>4. PICK n \in Visit : /\ visits' = [visits EXCEPT ![v] = n]
                         /\ n.sid = visits[v].sid /\ n.values = visits[v].values
                         /\ VisitOK(n, users')
    BY <1>2, <1>3, RespondIs
<1> QED
    BY <1>1, <1>2, <1>4, SameTables, SameCopyKeeps

LEMMA RequireUserKeeps ==
    ASSUME AccountsIInv, NEW v \in Visitors, RequireUser(v)
    PROVE  AccountsIInv'
<1>1. Typed /\ ActsForItsSession
    BY Whole
<1>2. /\ visits[v].at = "handle" /\ UNCHANGED accountTables
      /\ UNCHANGED <<sessions, minted, meant, closed, shown, overlapped, carried>>
    BY DEF RequireUser, history, accountTables
<1>3. PICK told \in {TRUE, visits[v].modified} : Respond(v, [visits[v] EXCEPT !.modified = told])
    BY DEF RequireUser
<1> DEFINE visit == [visits[v] EXCEPT !.modified = told]
<1>4. /\ visit.sid = visits[v].sid /\ visit.sid \in Sids \union {NoSid}
      /\ visit.values = visits[v].values /\ visit.values \in Values /\ visit.modified \in BOOLEAN
      /\ Respond(v, visit)
    BY <1>1, <1>3, VisitsTyped DEF Visit
<1> HIDE DEF visit
<1>5. PICK n \in Visit : /\ visits' = [visits EXCEPT ![v] = n]
                         /\ n.sid = visits[v].sid /\ n.values = visits[v].values
                         /\ VisitOK(n, users')
    BY <1>4, RespondIs
<1> QED
    BY <1>1, <1>2, <1>5, SameTables, SameCopyKeeps

LEMMA HandleRegisterKeeps ==
    ASSUME AccountsIInv, NEW v \in Visitors, HandleRegister(v)
    PROVE  AccountsIInv'
<1>1. Typed /\ ActsForItsSession
    BY Whole
<1>2. /\ visits[v].at = "handle" /\ apiTokens' = apiTokens /\ expired' = expired
      /\ UNCHANGED <<sessions, minted, meant, closed, shown, overlapped, carried>>
    BY DEF HandleRegister, history
<1>3. PICK u \in Users \ registered :
          /\ registered' = registered \union {u} /\ users' = users \union {u}
          /\ visits' = [visits EXCEPT ![v].at = "renew", ![v].user = u]
    BY DEF HandleRegister
<1> DEFINE n == [visits[v] EXCEPT !.at = "renew", !.user = u]
<1>4. visits' = [visits EXCEPT ![v] = n]
    BY <1>1, <1>3, VisitsTyped
<1>5. /\ n \in Visit /\ n.at = "renew" /\ n.user = u
      /\ n.sid = visits[v].sid /\ n.values = visits[v].values
    BY <1>1, VisitsTyped DEF Visit
<1> HIDE DEF n
<1>6. VisitOK(n, users')
    BY <1>3, <1>5 DEF VisitOK
<1>7. TablesTyped' /\ users \subseteq users' /\ \A k \in Tokens : apiTokens'[k] \in users' \union {Nobody}
    BY <1>1, <1>2, <1>3, TypedParts DEF TablesTyped, ActsForItsSession
<1> QED
    BY <1>2, <1>4, <1>5, <1>6, <1>7, SameCopyKeeps

LEMMA HandleLoginKeeps ==
    ASSUME AccountsIInv, NEW v \in Visitors, HandleLogin(v)
    PROVE  AccountsIInv'
<1>1. Typed /\ ActsForItsSession
    BY Whole
<1>2. /\ visits[v].at = "handle" /\ UNCHANGED accountTables
      /\ UNCHANGED <<sessions, minted, meant, closed, shown, overlapped, carried>>
    BY DEF HandleLogin, history, accountTables
<1>3. PICK u \in users : visits' = [visits EXCEPT ![v].at = "renew", ![v].user = u]
    BY DEF HandleLogin
<1> DEFINE n == [visits[v] EXCEPT !.at = "renew", !.user = u]
<1>4. visits' = [visits EXCEPT ![v] = n]
    BY <1>1, <1>3, VisitsTyped
<1>5. u \in Users
    BY <1>1, TypedParts DEF TablesTyped
<1>6. /\ n \in Visit /\ n.at = "renew" /\ n.user = u
      /\ n.sid = visits[v].sid /\ n.values = visits[v].values
    BY <1>1, <1>5, VisitsTyped DEF Visit
<1> HIDE DEF n
<1>7. VisitOK(n, users')
    BY <1>1, <1>2, <1>6, SameTables DEF VisitOK
<1> QED
    BY <1>1, <1>2, <1>4, <1>6, <1>7, SameTables, SameCopyKeeps

LEMMA HandleTokenDeleteKeeps ==
    ASSUME AccountsIInv, NEW v \in Visitors, HandleTokenDelete(v)
    PROVE  AccountsIInv'
<1>1. Typed /\ ActsForItsSession
    BY Whole
<1>2. /\ visits[v].at = "handle"
      /\ UNCHANGED <<registered, users, expired>>
      /\ UNCHANGED <<sessions, minted, meant, closed, shown, overlapped, carried>>
    BY DEF HandleTokenDelete, history
<1> DEFINE visit == [visits[v] EXCEPT !.modified = TRUE]
<1>3. /\ visit.sid = visits[v].sid /\ visit.sid \in Sids \union {NoSid}
      /\ visit.values = visits[v].values /\ visit.values \in Values /\ visit.modified \in BOOLEAN
      /\ Respond(v, visit)
    BY <1>1, VisitsTyped DEF Visit, HandleTokenDelete
<1> HIDE DEF visit
<1>4. PICK n \in Visit : /\ visits' = [visits EXCEPT ![v] = n]
                         /\ n.sid = visits[v].sid /\ n.values = visits[v].values
                         /\ VisitOK(n, users')
    BY <1>3, RespondIs
<1>5. apiTokens' = apiTokens \/ \E k \in Tokens : apiTokens' = [apiTokens EXCEPT ![k] = Nobody]
    BY DEF HandleTokenDelete
<1>6. TablesTyped' /\ \A k \in Tokens : apiTokens'[k] \in users' \union {Nobody}
    BY <1>1, <1>2, <1>5, TypedParts DEF TablesTyped, ActsForItsSession
<1> QED
    BY <1>2, <1>4, <1>6, SameCopyKeeps

LEMMA ArriveBearerKeeps ==
    ASSUME AccountsIInv, NEW v \in Visitors, ArriveBearer(v)
    PROVE  AccountsIInv'
<1>1. Typed /\ ActsForItsSession
    BY Whole
<1>2. /\ visits[v].at = "idle" /\ UNCHANGED accountTables
      /\ UNCHANGED <<sessions, minted, meant, closed, shown, overlapped, carried>>
    BY DEF ArriveBearer, history, accountTables
<1>3. PICK k \in Tokens :
          visits' = [visits EXCEPT ![v] = [Resting EXCEPT !.at = "bearer", !.token = k]]
    BY DEF ArriveBearer
<1> DEFINE n == [Resting EXCEPT !.at = "bearer", !.token = k]
<1>4. n \in Visit /\ n.at = "bearer" /\ n.sid = NoSid /\ n.values = Blank
    BY DEF Resting, Visit, Blank, Values
<1>5. n.token = k /\ visits' = [visits EXCEPT ![v] = n]
    BY <1>3 DEF Resting
<1> HIDE DEF n
<1>6. VisitOK(n, users')
    BY <1>4, <1>5 DEF VisitOK
<1>7. visits[v].sid = NoSid /\ visits[v].values = Blank
    BY <1>1, <1>2 DEF ActsForItsSession
<1> QED
    BY <1>1, <1>2, <1>4, <1>5, <1>6, <1>7, SameTables, SameCopyKeeps

LEMMA RestKeeps ==
    ASSUME AccountsIInv, NEW v \in Visitors, visits[v].at \in {"bearer", "act"},
           visits' = [visits EXCEPT ![v] = Resting], UNCHANGED accountTables,
           UNCHANGED <<sessions, minted, meant, closed, shown, overlapped, carried>>
    PROVE  AccountsIInv'
<1>1. Typed /\ ActsForItsSession
    BY Whole
<1>2. visits[v].sid = NoSid /\ visits[v].values = Blank
    BY <1>1 DEF ActsForItsSession
<1>3. VisitOK(Resting, users')
    BY RestingIs DEF VisitOK
<1> QED
    BY <1>1, <1>2, <1>3, RestingIs, SameTables, SameCopyKeeps

LEMMA AuthenticateKeeps ==
    ASSUME AccountsIInv, NEW v \in Visitors, AuthenticateAPIToken(v)
    PROVE  AccountsIInv'
<1>1. Typed /\ ActsForItsSession
    BY Whole
<1>2. /\ visits[v].at = "bearer" /\ UNCHANGED accountTables
      /\ UNCHANGED <<sessions, minted, meant, closed, shown, overlapped, carried>>
    BY DEF AuthenticateAPIToken, history, accountTables
<1>3. CASE visits' = [visits EXCEPT ![v] = Resting]
    BY <1>2, <1>3, RestKeeps
<1>4. CASE /\ Authenticates(visits[v].token)
           /\ visits' = [visits EXCEPT ![v].at = "act", ![v].user = apiTokens[visits[v].token]]
    <2> DEFINE u == apiTokens[visits[v].token]
               n == [visits[v] EXCEPT !.at = "act", !.user = u]
    <2>1. visits[v].token \in Tokens
        BY <1>1, <1>2 DEF ActsForItsSession
    <2>2. u \in users /\ u \in Users
        BY <1>1, <1>4, <2>1, TypedParts DEF Authenticates, ActsForItsSession, TablesTyped
    <2>3. visits' = [visits EXCEPT ![v] = n]
        BY <1>1, <1>4, VisitsTyped
    <2> HIDE DEF u
    <2>4. /\ n \in Visit /\ n.at = "act" /\ n.user = u
          /\ n.sid = visits[v].sid /\ n.values = visits[v].values
        BY <1>1, <2>2, VisitsTyped DEF Visit
    <2> HIDE DEF n
    <2>5. n.sid = NoSid /\ n.values = Blank
        BY <1>1, <1>2, <2>4 DEF ActsForItsSession
    <2>6. VisitOK(n, users')
        BY <1>1, <1>2, <2>2, <2>4, <2>5, SameTables DEF VisitOK
    <2> QED
        BY <1>1, <1>2, <2>3, <2>4, <2>6, SameTables, SameCopyKeeps
<1> QED
    BY <1>3, <1>4 DEF AuthenticateAPIToken

LEMMA ActKeeps ==
    ASSUME AccountsIInv, NEW v \in Visitors, ActAsBearer(v)
    PROVE  AccountsIInv'
<1>1. /\ visits[v].at = "act" /\ visits' = [visits EXCEPT ![v] = Resting]
      /\ UNCHANGED accountTables
      /\ UNCHANGED <<sessions, minted, meant, closed, shown, overlapped, carried>>
    BY DEF ActAsBearer, history, accountTables
<1> QED
    BY <1>1, RestKeeps

(* The steps that move, end or store a session, or a secret.               *)
LEMMA HandleTokenCreateKeeps ==
    ASSUME AccountsIInv, NEW v \in Visitors, HandleTokenCreate(v)
    PROVE  AccountsIInv'
<1>1. Typed /\ ActsForItsSession /\ SidsOK /\ RoomForSids /\ SecretsKept /\ DeletedActsNoMore
    BY Whole
<1>2. /\ visits[v].at = "handle" /\ visits[v].user \in users
      /\ UNCHANGED <<registered, users, expired, sessions, meant, closed, shown, carried>>
    BY DEF HandleTokenCreate
<1>3. PICK k \in Tokens :
          /\ minted[k] = Nobody
          /\ apiTokens' = [apiTokens EXCEPT ![k] = visits[v].user]
          /\ minted' = [minted EXCEPT ![k] = visits[v].user]
          /\ Respond(v, [visits[v] EXCEPT !.values.secret = k, !.modified = TRUE])
          /\ overlapped' = IF Others(v, visits[v].sid) # {} THEN overlapped \union {k}
                           ELSE overlapped
    BY DEF HandleTokenCreate
<1>4. /\ visits[v].user = visits[v].values.user /\ visits[v].user \in Users
      /\ visits[v].sid \in Sids \union {NoSid}
    BY <1>1, <1>2, VisitsTyped, TypedParts DEF ActsForItsSession, TablesTyped, Visit
<1> DEFINE visit == [visits[v] EXCEPT !.values.secret = k, !.modified = TRUE]
<1>5. /\ visit.sid = visits[v].sid /\ visit.values \in Values /\ visit.modified \in BOOLEAN
      /\ visit.values.user = visits[v].values.user /\ visit.values.secret = k
      /\ Respond(v, visit)
    BY <1>1, <1>3, VisitsTyped DEF Visit, Values
<1> HIDE DEF visit
<1>6. PICK n \in Visit : /\ visits' = [visits EXCEPT ![v] = n]
                         /\ n.at = "respond" /\ n.sid = visits[v].sid
                         /\ n.values = visit.values /\ VisitOK(n, users')
    BY <1>4, <1>5, RespondIs
<1>7. n.values.user = visits[v].values.user /\ n.values.secret = k
    BY <1>5, <1>6
<1>8. visits'[v] = n /\ \A w \in Visitors : w # v => visits'[w] = visits[w]
    BY <1>1, <1>6, OneVisit
<1>9. Typed'
    <2>1. TablesTyped' /\ HistoryTypeOK'
        BY <1>1, <1>2, <1>3, <1>4, TypedParts DEF TablesTyped, HistoryTypeOK
    <2> QED
        BY <1>1, <1>2, <1>6, <2>1, OneVisit, TypedParts
<1>10. SidsOK'
    BY <1>1, <1>2, <1>6, <1>7, MoveKeepsSids
<1>11. RoomForSids'
    <2>1. Owing' \subseteq Owing
        BY <1>2, <1>8, OwingIs
    <2>2. \A s \in Sids : s \in Used' => s \in Used
        BY <1>2, <1>6, <1>8, UsedIs DEF Live
    <2> QED
        BY <1>1, <2>1, <2>2, RoomStays
<1>12. SecretsKept'
    <2>1. /\ minted' = [minted EXCEPT ![k] = visits[v].values.user]
          /\ overlapped \subseteq overlapped'
          /\ Others(v, visits[v].sid) # {} => k \in overlapped'
        BY <1>3, <1>4
    <2>2. visits[v].values.user \in Users /\ visits[v].at # "respond"
        BY <1>2, <1>4
    <2>3. \A j \in Tokens : SecretOK(j)
        BY <1>1, SecretsAre
    <2>4. \A j \in Tokens : SecretOK(j)'
        BY <1>1, <1>2, <1>3, <1>6, <1>7, <2>1, <2>2, <2>3, CreateKeepsSecret
    <2> QED
        BY <2>4, SecretsAre
<1>13. ActsForItsSession' /\ DeletedActsNoMore'
    <2>1. \A j \in Tokens : apiTokens'[j] \in users' \union {Nobody}
        BY <1>1, <1>2, <1>3, TypedParts DEF ActsForItsSession, TablesTyped
    <2> QED
        BY <1>1, <1>2, <1>6, <2>1, ActorsKept
<1> QED
    BY <1>9, <1>10, <1>11, <1>12, <1>13, WholeAfter

LEMMA HandleTokenListKeeps ==
    ASSUME AccountsIInv, NEW v \in Visitors, HandleTokenList(v)
    PROVE  AccountsIInv'
<1>1. Typed /\ ActsForItsSession /\ SidsOK /\ RoomForSids /\ SecretsKept /\ DeletedActsNoMore
    BY Whole
<1>2. /\ visits[v].at = "handle" /\ Respond(v, PopSecret(visits[v]))
      /\ UNCHANGED accountTables
      /\ UNCHANGED <<sessions, minted, meant, closed, overlapped, carried>>
      /\ visits[v].user # Nobody
    BY DEF HandleTokenList, accountTables
<1>3. IF visits[v].values.secret = NoToken THEN shown' = shown
      ELSE shown' = [shown EXCEPT ![visits[v].values.secret] =
                        [times |-> IF @.times = 2 THEN 2 ELSE @.times + 1,
                         to |-> @.to \union {visits[v].user}]]
    BY DEF HandleTokenList
<1>4. visits[v].user = visits[v].values.user /\ visits[v].sid \in Sids \union {NoSid}
    BY <1>1, <1>2, VisitsTyped DEF ActsForItsSession, Visit
<1> DEFINE visit == PopSecret(visits[v])
<1>5. /\ visit.sid = visits[v].sid /\ visit.values \in Values /\ visit.modified \in BOOLEAN
      /\ visit.values.user = visits[v].values.user /\ visit.values.secret = NoToken
      /\ Respond(v, visit)
    BY <1>1, <1>2, VisitsTyped DEF Visit, Values, PopSecret
<1>5a. visit.modified
    BY <1>1, VisitsTyped DEF Visit, PopSecret
<1> HIDE DEF visit
<1>6. PICK n \in Visit : /\ visits' = [visits EXCEPT ![v] = n]
                         /\ n.at = "respond" /\ n.sid = visits[v].sid
                         /\ n.modified = visit.modified
                         /\ n.values = visit.values /\ VisitOK(n, users')
    BY <1>4, <1>5, RespondIs
<1>7. n.values.user = visits[v].values.user /\ n.values.secret = NoToken /\ n.modified
    BY <1>5a, <1>5, <1>6
<1>8. visits'[v] = n /\ \A w \in Visitors : w # v => visits'[w] = visits[w]
    BY <1>1, <1>6, OneVisit
<1>9. Typed'
    <2>1. shown' \in [Tokens -> [times : 0..2, to : SUBSET Users]]
        <3>1. /\ shown \in [Tokens -> [times : 0..2, to : SUBSET Users]]
              /\ visits[v].values.secret \in Tokens \union {NoToken}
              /\ visits[v].user \in Users
            BY <1>1, <1>2, VisitsTyped DEF Typed, HistoryTypeOK, Visit, Values
        <3>2. CASE visits[v].values.secret = NoToken
            BY <1>3, <3>1, <3>2
        <3>3. CASE visits[v].values.secret # NoToken
            <4> DEFINE r == shown[visits[v].values.secret]
                       q == [times |-> IF r.times = 2 THEN 2 ELSE r.times + 1,
                             to |-> r.to \union {visits[v].user}]
            <4>1. r \in [times : 0..2, to : SUBSET Users]
                BY <3>1, <3>3
            <4>2. q \in [times : 0..2, to : SUBSET Users]
                BY <3>1, <4>1
            <4>3. shown' = [shown EXCEPT ![visits[v].values.secret] = q]
                BY <1>3, <3>3
            <4> HIDE DEF q
            <4> QED
                BY <3>1, <4>2, <4>3
        <3> QED
            BY <3>2, <3>3
    <2>2. HistoryTypeOK'
        BY <1>1, <1>2, <2>1 DEF Typed, HistoryTypeOK
    <2> QED
        BY <1>1, <1>2, <1>6, <2>2, OneVisit, SameTables, TypedParts
<1>10. SidsOK'
    BY <1>1, <1>2, <1>6, <1>7, MoveKeepsSids
<1>11. RoomForSids'
    <2>1. Owing' \subseteq Owing
        BY <1>2, <1>8, OwingIs
    <2>2. \A s \in Sids : s \in Used' => s \in Used
        BY <1>2, <1>6, <1>8, UsedIs DEF Live
    <2> QED
        BY <1>1, <2>1, <2>2, RoomStays
<1>12. SecretsKept'
    <2>1. \A j \in Tokens : SecretOK(j)
        BY <1>1, SecretsAre
    <2>2. visits[v].at # "respond"
        BY <1>2
    <2>3. \A j \in Tokens : SecretOK(j)'
        BY <1>1, <1>2, <1>3, <1>4, <1>6, <1>7, <2>1, <2>2, ShowKeepsSecret
    <2> QED
        BY <2>3, SecretsAre
<1>13. ActsForItsSession' /\ DeletedActsNoMore'
    BY <1>1, <1>2, <1>6, SameTables, ActorsKept
<1> QED
    BY <1>9, <1>10, <1>11, <1>12, <1>13, WholeAfter

LEMMA ClosingTyped ==
    ASSUME Typed, NEW v \in Visitors, NEW n \in Visit, NEW s \in Sids \union {NoSid},
           visits' = [visits EXCEPT ![v] = n], sessions' = Delete(s), closed' = Closing(v, s),
           TablesTyped', UNCHANGED <<meant, minted, shown>>
    PROVE  Typed'
<1>1. sessions' \in [Sids -> Values \union {NoSession}]
    BY DEF Delete, Typed, AccountsTypeOK
<1>2. closed' \subseteq Sids
    BY DEF Closing, Typed, HistoryTypeOK
<1>3. HistoryTypeOK'
    BY <1>2 DEF Typed, HistoryTypeOK
<1> QED
    BY <1>1, <1>3, OneVisit, TypedParts

LEMMA LoadSessionKeeps ==
    ASSUME AccountsIInv, NEW v \in Visitors, LoadSession(v)
    PROVE  AccountsIInv'
<1>1. Typed /\ ActsForItsSession /\ SidsOK /\ RoomForSids /\ SecretsKept /\ DeletedActsNoMore
    BY Whole
<1>2. /\ visits[v].at = "idle" /\ SidRoom /\ UNCHANGED accountTables
      /\ UNCHANGED <<minted, meant, shown, carried>>
    BY DEF LoadSession, accountTables
<1>3. visits[v].sid = NoSid /\ visits[v].values = Blank
    BY <1>1, <1>2 DEF ActsForItsSession
<1>4. PICK s \in Sids :
          /\ Live(s)
          /\ LET values == sessions[s]
                 found == [Resting EXCEPT !.at = "handle", !.sid = s, !.values = values,
                                          !.modified = TRUE, !.user = values.user]
             IN  /\ IF values.user = Nobody \/ UserExists(values.user)
                    THEN /\ visits' = [visits EXCEPT ![v] = found]
                         /\ UNCHANGED <<sessions, closed>>
                    ELSE /\ visits' = [visits EXCEPT ![v] = [Destroyed(found) EXCEPT !.user = Nobody]]
                         /\ sessions' = Delete(s)
                         /\ closed' = Closing(v, s)
                 /\ overlapped' = IF Others(v, s) = {} THEN overlapped
                                  ELSE overlapped \union {values.secret}
                                           \union {visits[w].values.secret : w \in Others(v, s)}
    BY DEF LoadSession
<1>5. /\ sessions[s] \in Values /\ sessions[s].user \in Users \union {Nobody} /\ s # NoSid
      /\ meant[s] # NoSid
    BY <1>1, <1>4, LiveIs, AccountsAssumption DEF SidsOK, TokenStandsForOneVisitor
<1>6. /\ overlapped \subseteq overlapped'
      /\ Others(v, s) # {} =>
            /\ sessions[s].secret \in overlapped'
            /\ \A w \in Others(v, s) : visits[w].values.secret \in overlapped'
    BY <1>4
<1>7. Owing' \subseteq Owing \union {v}
    <2>1. PICK n : visits' = [visits EXCEPT ![v] = n]
        BY <1>4
    <2>2. \A w \in Visitors : w # v => visits'[w] = visits[w]
        BY <1>1, <2>1, VisitsTyped
    <2> QED
        BY <2>2, OwingIs
<1>8. \A j \in Tokens : SecretOK(j)
    BY <1>1, SecretsAre
<1>9. CASE sessions[s].user = Nobody \/ UserExists(sessions[s].user)
    <2> DEFINE n == [Resting EXCEPT !.at = "handle", !.sid = s, !.values = sessions[s],
                                    !.modified = TRUE, !.user = sessions[s].user]
    <2>1. visits' = [visits EXCEPT ![v] = n] /\ UNCHANGED <<sessions, closed>>
        BY <1>4, <1>9
    <2>2. /\ n \in Visit /\ n.at = "handle" /\ n.sid = s /\ n.values = sessions[s]
          /\ n.user = sessions[s].user
        BY <1>5 DEF Resting, Visit
    <2> HIDE DEF n
    <2>3. visits'[v] = n /\ \A w \in Visitors : w # v => visits'[w] = visits[w]
        BY <1>1, <2>1, <2>2, OneVisit
    <2>4. VisitOK(n, users')
        BY <1>1, <1>2, <1>9, <2>2, SameTables DEF VisitOK, UserExists
    <2>5. Typed'
        <3>1. HistoryTypeOK'
            BY <1>1, <1>2, <2>1 DEF Typed, HistoryTypeOK
        <3> QED
            BY <1>1, <1>2, <2>1, <2>2, <3>1, OneVisit, SameTables, TypedParts
    <2>6. SidsOK'
        BY <1>1, <1>2, <1>4, <2>1, <2>2, LoadKeepsSids
    <2>7. RoomForSids'
        <3>1. \A t \in Sids : t \in Used' => t \in Used
            BY <1>2, <1>4, <2>1, <2>2, <2>3, UsedIs DEF Live
        <3> QED
            BY <1>2, <1>7, <3>1, RoomGiven
    <2>8. SecretsKept'
        <3>1. \A j \in Tokens : SecretOK(j)'
            BY <1>1, <1>2, <1>3, <1>4, <1>6, <1>8, <2>1, <2>2, LoadKeepsSecret
        <3> QED
            BY <3>1, SecretsAre
    <2>9. ActsForItsSession' /\ DeletedActsNoMore'
        BY <1>1, <1>2, <2>1, <2>2, <2>4, SameTables, ActorsKept
    <2> QED
        BY <2>5, <2>6, <2>7, <2>8, <2>9, WholeAfter
<1>10. CASE ~(sessions[s].user = Nobody \/ UserExists(sessions[s].user))
    <2> DEFINE found == [Resting EXCEPT !.at = "handle", !.sid = s, !.values = sessions[s],
                                        !.modified = TRUE, !.user = sessions[s].user]
               n == [Destroyed(found) EXCEPT !.user = Nobody]
    <2>1. /\ visits' = [visits EXCEPT ![v] = n] /\ sessions' = Delete(s) /\ closed' = Closing(v, s)
        BY <1>4, <1>10
    <2>2. /\ n \in Visit /\ n.at = "handle" /\ n.sid = NoSid /\ n.values = Blank
          /\ n.user = Nobody /\ Blank.user = Nobody
        <3>1. found \in Visit /\ found.at = "handle"
            BY <1>5 DEF Resting, Visit
        <3> HIDE DEF found
        <3> QED
            BY <3>1, RestingIs DEF Destroyed, Visit
    <2> HIDE DEF n
    <2>3. visits'[v] = n /\ \A w \in Visitors : w # v => visits'[w] = visits[w]
        BY <1>1, <2>1, <2>2, OneVisit
    <2>4. VisitOK(n, users')
        BY <2>2 DEF VisitOK
    <2>5. Typed'
        BY <1>1, <1>2, <2>1, <2>2, SameTables, ClosingTyped
    <2>6. SidsOK'
        BY <1>1, <1>2, <1>5, <2>1, <2>2, CloseKeepsSids
    <2>7. RoomForSids'
        <3>1. \A t \in Sids : (Live(t))' => Live(t)
            BY <1>1, <2>1, RowsDeleted
        <3>2. \A t \in Sids : t \in Used' => t \in Used
            BY <1>2, <2>2, <2>3, <3>1, UsedIs, AccountsAssumption
        <3> QED
            BY <1>2, <1>7, <3>2, RoomGiven
    <2>8. SecretsKept'
        <3>1. \A j \in Tokens : SecretOK(j)'
            BY <1>1, <1>2, <1>6, <1>8, <2>1, <2>2, BlankKeepsSecret
        <3> QED
            BY <3>1, SecretsAre
    <2>9. ActsForItsSession' /\ DeletedActsNoMore'
        BY <1>1, <1>2, <2>1, <2>2, <2>4, SameTables, ActorsKept
    <2> QED
        BY <2>5, <2>6, <2>7, <2>8, <2>9, WholeAfter
<1> QED
    BY <1>9, <1>10

(* A request that is being handled has a session that stands for somebody. *)
LEMMA HandledIsMeant ==
    ASSUME Typed, SidsOK, NEW v \in Visitors, visits[v].at \in {"handle", "renew"}
    PROVE  visits[v].sid = NoSid \/ (visits[v].sid \in Sids /\ meant[visits[v].sid] # NoSid)
<1>1. /\ visits[v].sid \in Sids \union {NoSid}
      /\ visits[v].values.user \in Users \union {Nobody}
    BY VisitsTyped DEF Visit, Values
<1> QED
    BY <1>1, AccountsAssumption DEF SidsOK, CopiesAreTheSessions

LEMMA LogInKeeps ==
    ASSUME AccountsIInv, NEW v \in Visitors, LogIn(v)
    PROVE  AccountsIInv'
<1>1. Typed /\ ActsForItsSession /\ SidsOK /\ RoomForSids /\ SecretsKept /\ DeletedActsNoMore
    BY Whole
<1>2. /\ visits[v].at = "renew"
      /\ Respond(v, [visits[v] EXCEPT !.sid = NewSid, !.modified = TRUE,
                                      !.values.user = visits[v].user])
      /\ sessions' = Delete(visits[v].sid) /\ closed' = Closing(v, visits[v].sid)
      /\ carried' = carried \union {visits[v].values.secret}
      /\ UNCHANGED accountTables /\ UNCHANGED <<minted, meant, shown, overlapped>>
    BY DEF LogIn, RenewToken, accountTables
<1>3. v \in Owing
    BY <1>2, OwingIs
<1>4. Fresh(NewSid) /\ NewSid \in Sids /\ NewSid # NoSid
    BY <1>1, <1>3, NewSidIsFresh DEF Fresh
<1> DEFINE visit == [visits[v] EXCEPT !.sid = NewSid, !.modified = TRUE,
                                      !.values.user = visits[v].user]
<1>5. /\ visit.sid = NewSid /\ visit.values \in Values /\ visit.modified \in BOOLEAN
      /\ visit.values.secret = visits[v].values.secret
      /\ Respond(v, visit)
    BY <1>1, <1>2, VisitsTyped DEF Visit, Values
<1>6. visit.modified
    BY <1>1, VisitsTyped DEF Visit
<1> HIDE DEF visit
<1>7. PICK n \in Visit : /\ visits' = [visits EXCEPT ![v] = n]
                         /\ n.at = "respond" /\ n.sid = NewSid
                         /\ n.modified = visit.modified
                         /\ n.values = visit.values /\ VisitOK(n, users')
    BY <1>4, <1>5, RespondIs
<1>8. n.values.secret = visits[v].values.secret /\ n.modified
    BY <1>5, <1>6, <1>7
<1>9. visits'[v] = n /\ \A w \in Visitors : w # v => visits'[w] = visits[w]
    BY <1>1, <1>7, OneVisit
<1>10. visits[v].sid \in Sids \union {NoSid} /\ visits[v].at # "respond"
    BY <1>1, <1>2, VisitsTyped DEF Visit
<1>11. Typed'
    BY <1>1, <1>2, <1>7, <1>10, SameTables, ClosingTyped
<1>12. SidsOK'
    BY <1>1, <1>2, <1>4, <1>7, <1>8, HandledIsMeant, CloseKeepsSids
<1>13. RoomForSids'
    <2>1. Owing' \subseteq Owing \ {v}
        BY <1>4, <1>7, <1>9, OwingIs
    <2>2. \A t \in Sids : (Live(t))' => Live(t)
        BY <1>1, <1>2, RowsDeleted
    <2>3. \A t \in Sids : t \in Used' => t \in Used \/ t = NewSid
        BY <1>2, <1>7, <1>9, <2>2, UsedIs
    <2> QED
        BY <1>1, <1>3, <2>1, <2>3, RoomTaken
<1>14. SecretsKept'
    <2>1. \A j \in Tokens : SecretOK(j)
        BY <1>1, SecretsAre
    <2>2. \A j \in Tokens : SecretOK(j)'
        BY <1>1, <1>2, <1>4, <1>7, <1>8, <1>10, <2>1, LogInKeepsSecret
    <2> QED
        BY <2>2, SecretsAre
<1>15. ActsForItsSession' /\ DeletedActsNoMore'
    BY <1>1, <1>2, <1>7, SameTables, ActorsKept
<1> QED
    BY <1>11, <1>12, <1>13, <1>14, <1>15, WholeAfter

LEMMA HandleLogoutKeeps ==
    ASSUME AccountsIInv, NEW v \in Visitors, HandleLogout(v)
    PROVE  AccountsIInv'
<1>1. Typed /\ ActsForItsSession /\ SidsOK /\ RoomForSids /\ SecretsKept /\ DeletedActsNoMore
    BY Whole
<1>2. /\ visits[v].at = "handle" /\ Respond(v, [LogOut(visits[v]) EXCEPT !.modified = TRUE])
      /\ sessions' = Delete(visits[v].sid) /\ closed' = Closing(v, visits[v].sid)
      /\ UNCHANGED accountTables /\ UNCHANGED <<minted, meant, shown, overlapped, carried>>
    BY DEF HandleLogout, accountTables
<1> DEFINE visit == [LogOut(visits[v]) EXCEPT !.modified = TRUE]
<1>3. /\ visit.sid = NoSid /\ visit.values = Blank /\ visit.modified \in BOOLEAN
      /\ visit.values \in Values /\ Respond(v, visit)
    BY <1>1, <1>2, VisitsTyped, RestingIs DEF Visit, LogOut, Destroyed
<1> HIDE DEF visit
<1>4. visit.sid \in Sids \union {NoSid}
    BY <1>3
<1>5. PICK n \in Visit : /\ visits' = [visits EXCEPT ![v] = n]
                         /\ n.at = "respond" /\ n.sid = NoSid
                         /\ n.values = Blank /\ VisitOK(n, users')
    BY <1>3, <1>4, RespondIs
<1>6. visits'[v] = n /\ \A w \in Visitors : w # v => visits'[w] = visits[w]
    BY <1>1, <1>5, OneVisit
<1>7. visits[v].sid \in Sids \union {NoSid} /\ visits[v].at # "respond"
    BY <1>1, <1>2, VisitsTyped DEF Visit
<1>8. Typed'
    BY <1>1, <1>2, <1>5, <1>7, SameTables, ClosingTyped
<1>9. SidsOK'
    BY <1>1, <1>2, <1>5, HandledIsMeant, CloseKeepsSids
<1>10. RoomForSids'
    <2>1. Owing' \subseteq Owing
        BY <1>2, <1>6, OwingIs
    <2>2. \A t \in Sids : (Live(t))' => Live(t)
        BY <1>1, <1>2, RowsDeleted
    <2>3. \A t \in Sids : t \in Used' => t \in Used
        BY <1>2, <1>5, <1>6, <2>2, UsedIs, AccountsAssumption
    <2> QED
        BY <1>1, <2>1, <2>3, RoomStays
<1>11. SecretsKept'
    <2>1. \A j \in Tokens : SecretOK(j)
        BY <1>1, SecretsAre
    <2>2. \A j \in Tokens : SecretOK(j)'
        BY <1>1, <1>2, <1>5, <1>7, <2>1, BlankKeepsSecret
    <2> QED
        BY <2>2, SecretsAre
<1>12. ActsForItsSession' /\ DeletedActsNoMore'
    BY <1>1, <1>2, <1>5, SameTables, ActorsKept
<1> QED
    BY <1>8, <1>9, <1>10, <1>11, <1>12, WholeAfter

LEMMA CommitKeeps ==
    ASSUME AccountsIInv, NEW v \in Visitors, Commit(v)
    PROVE  AccountsIInv'
<1>1. Typed /\ ActsForItsSession /\ SidsOK /\ RoomForSids /\ SecretsKept /\ DeletedActsNoMore
    BY Whole
<1>2. /\ visits[v].at = "respond" /\ visits' = [visits EXCEPT ![v] = Resting]
      /\ UNCHANGED accountTables /\ UNCHANGED <<minted, closed, shown, overlapped, carried>>
    BY DEF Commit, accountTables
<1>3. visits'[v] = Resting /\ \A w \in Visitors : w # v => visits'[w] = visits[w]
    BY <1>1, <1>2, OneVisit, RestingIs
<1>4. /\ visits[v].sid \in Sids \union {NoSid} /\ visits[v].values \in Values
      /\ visits[v].values.user \in Users \union {Nobody}
    BY <1>1, VisitsTyped DEF Visit, Values
<1>5. ActsForItsSession' /\ DeletedActsNoMore'
    <2>1. VisitOK(Resting, users')
        BY RestingIs DEF VisitOK
    <2> QED
        BY <1>1, <1>2, <2>1, RestingIs, SameTables, ActorsKept
<1>6. Owing' \subseteq Owing \ {v}
    BY <1>3, OwingIs, RestingIs
<1>7. \A j \in Tokens : SecretOK(j)
    BY <1>1, SecretsAre
<1>8. CASE ~visits[v].modified
    <2>1. UNCHANGED <<sessions, meant>>
        BY <1>8 DEF Commit
    <2>2. Typed'
        <3>1. HistoryTypeOK'
            BY <1>1, <1>2, <2>1 DEF Typed, HistoryTypeOK
        <3> QED
            BY <1>1, <1>2, <2>1, <3>1, RestingIs, OneVisit, SameTables, TypedParts
    <2>3. SidsOK'
        BY <1>1, <1>2, <2>1, RestingIs, MoveKeepsSids
    <2>4. RoomForSids'
        <3>1. \A t \in Sids : t \in Used' => t \in Used
            BY <1>3, <2>1, RestingIs, UsedIs, AccountsAssumption DEF Live
        <3> QED
            BY <1>1, <1>6, <3>1, RoomStays
    <2>5. \A j \in Tokens : SecretOK(j)'
        BY <1>1, <1>2, <1>7, <1>8, <2>1, RestKeepsSecret
    <2> QED
        BY <1>5, <2>2, <2>3, <2>4, <2>5, SecretsAre, WholeAfter
<1>9. CASE visits[v].modified
    <2> DEFINE s == IF visits[v].sid = NoSid THEN NewSid ELSE visits[v].sid
    <2>1. /\ sessions' = [sessions EXCEPT ![s] = visits[v].values]
          /\ meant' = [meant EXCEPT ![s] = IF @ = NoSid THEN visits[v].values.user ELSE @]
        BY <1>9 DEF Commit
    <2>2. /\ s \in Sids
          /\ s = visits[v].sid \/ (visits[v].sid = NoSid /\ Fresh(s))
          /\ visits[v].sid = NoSid => v \in Owing
        <3>1. CASE visits[v].sid = NoSid
            <4>1. v \in Owing
                BY <1>2, <3>1, OwingIs
            <4> QED
                BY <1>1, <3>1, <4>1, NewSidIsFresh DEF Fresh
        <3>2. CASE visits[v].sid # NoSid
            BY <1>4, <3>2
        <3> QED
            BY <3>1, <3>2
    <2> HIDE DEF s
    <2>3. Typed'
        <3>1. sessions' \in [Sids -> Values \union {NoSession}]
            BY <1>1, <1>4, <2>1, <2>2 DEF Typed, AccountsTypeOK
        <3>2. HistoryTypeOK'
            BY <1>1, <1>2, <1>4, <2>1, <2>2 DEF Typed, HistoryTypeOK
        <3> QED
            BY <1>1, <1>2, <3>1, <3>2, RestingIs, OneVisit, SameTables, TypedParts
    <2>4. SidsOK'
        BY <1>1, <1>2, <2>1, <2>2, StoreKeepsSids
    <2>5. RoomForSids'
        <3>1. \A t \in Sids : t \in Used' => t \in Used \/ t = s
            <4>1. \A t \in Sids : (Live(t))' => Live(t) \/ t = s
                BY <1>1, <2>1, <2>2, RowStored
            <4>2. \A t \in Sids : t # s => meant'[t] = meant[t]
                BY <1>1, <2>1 DEF Typed, HistoryTypeOK
            <4> QED
                BY <1>3, <4>1, <4>2, RestingIs, UsedIs, AccountsAssumption
        <3>2. CASE visits[v].sid = NoSid
            BY <1>1, <1>6, <2>2, <3>1, <3>2, RoomTaken
        <3>3. CASE visits[v].sid # NoSid
            <4>1. s \in Used
                BY <2>2, <3>3, UsedIs
            <4> QED
                BY <1>1, <1>6, <3>1, <4>1, RoomStays
        <3> QED
            BY <3>2, <3>3
    <2>6. \A j \in Tokens : SecretOK(j)'
        BY <1>1, <1>2, <1>7, <2>1, <2>2, StoreKeepsSecret
    <2> QED
        BY <1>5, <2>3, <2>4, <2>5, <2>6, SecretsAre, WholeAfter
<1> QED
    BY <1>8, <1>9

(* Nothing happens to any request's session.                               *)
LEMMA SessionsStay ==
    ASSUME AccountsIInv, visits' \in [Visitors -> Visit],
           \A w \in Visitors : /\ visits'[w].at = visits[w].at /\ visits'[w].sid = visits[w].sid
                               /\ visits'[w].values = visits[w].values
                               /\ visits'[w].modified = visits[w].modified
                               /\ VisitOK(visits'[w], users'),
           UNCHANGED <<sessions, minted, meant, closed, shown, overlapped, carried>>,
           TablesTyped', \A k \in Tokens : apiTokens'[k] \in users' \union {Nobody}
    PROVE  AccountsIInv'
<1>1. Typed /\ ActsForItsSession /\ SidsOK /\ RoomForSids /\ SecretsKept /\ DeletedActsNoMore
    BY Whole
<1>2. Typed'
    BY <1>1, TypedParts DEF HistoryTypeOK
<1>3. SidsOK'
    <2>1. TokenStandsForOneVisitor' /\ ClosedStaysClosed' /\ ClosedIsForgotten'
        BY <1>1 DEF SidsOK, TokenStandsForOneVisitor, ClosedStaysClosed, ClosedIsForgotten,
                    Live, Typed, HistoryTypeOK
    <2>2. CopiesAreTheSessions'
        <3> SUFFICES ASSUME NEW w \in Visitors, visits'[w].sid # NoSid
                     PROVE  \/ meant[visits'[w].sid] = visits'[w].values.user
                            \/ /\ meant[visits'[w].sid] = NoSid
                               /\ visits'[w].at = "respond" /\ visits'[w].modified
                               /\ \A u \in Visitors \ {w} : visits'[u].sid # visits'[w].sid
            BY DEF CopiesAreTheSessions
        <3> QED
            BY <1>1 DEF SidsOK, CopiesAreTheSessions
    <2> QED
        BY <2>1, <2>2 DEF SidsOK
<1>4. RoomForSids'
    <2>1. Owing' \subseteq Owing
        BY OwingIs
    <2>2. \A t \in Sids : t \in Used' => t \in Used
        BY UsedIs DEF Live
    <2> QED
        BY <1>1, <2>1, <2>2, RoomStays
<1>5. ASSUME NEW k \in Tokens, SecretOK(k) PROVE SecretOK(k)'
    <2>1. /\ \A w \in Visitors : InCopy(w, k)' <=> InCopy(w, k)
          /\ \A t \in Sids : InRow(t, k)' <=> InRow(t, k)
        BY DEF InCopy, InRow, Live
    <2>2. NotBeforeMinted(k)' /\ WithItsOwner(k)'
        BY <1>5, <2>1 DEF SecretOK, NotBeforeMinted, WithItsOwner
    <2>3. InOnePlace(k)'
        BY <1>5, <2>1 DEF SecretOK, InOnePlace
    <2>4. GoneOnceShown(k)'
        BY <1>5, <2>1 DEF SecretOK, GoneOnceShown
    <2> QED
        BY <2>2, <2>3, <2>4 DEF SecretOK
<1>6. SecretsKept'
    BY <1>1, <1>5, SecretsAre
<1>7. ActsForItsSession' /\ DeletedActsNoMore'
    BY ActorsAre
<1> QED
    BY <1>2, <1>3, <1>4, <1>6, <1>7, WholeAfter

LEMMA ExpireTokenKeeps ==
    ASSUME AccountsIInv, ExpireToken
    PROVE  AccountsIInv'
<1>1. Typed /\ ActsForItsSession /\ DeletedActsNoMore
    BY Whole
<1>2. /\ UNCHANGED <<registered, users, apiTokens, visits>>
      /\ UNCHANGED <<sessions, minted, meant, closed, shown, overlapped, carried>>
      /\ \E k \in Tokens : expired' = expired \union {k}
    BY DEF ExpireToken, history
<1>3. TablesTyped' /\ visits' \in [Visitors -> Visit]
    BY <1>1, <1>2, TypedParts DEF TablesTyped
<1>4. \A w \in Visitors : VisitOK(visits'[w], users')
    BY <1>1, <1>2, ActorsAre
<1>5. \A k \in Tokens : apiTokens'[k] \in users' \union {Nobody}
    BY <1>1, <1>2 DEF ActsForItsSession
<1> QED
    BY <1>2, <1>3, <1>4, <1>5, SessionsStay

LEMMA DeleteAccountKeeps ==
    ASSUME AccountsIInv, DeleteAccount
    PROVE  AccountsIInv'
<1>1. Typed /\ ActsForItsSession /\ DeletedActsNoMore
    BY Whole
<1>2. UNCHANGED <<registered, expired, sessions, minted, meant, closed, shown, overlapped, carried>>
    BY DEF DeleteAccount, history
<1>3. PICK u \in users :
          /\ users' = users \ {u}
          /\ apiTokens' = [k \in Tokens |-> IF apiTokens[k] = u THEN Nobody ELSE apiTokens[k]]
          /\ visits' = [w \in Visitors |->
                 IF visits[w].user = u THEN [visits[w] EXCEPT !.late = TRUE] ELSE visits[w]]
    BY DEF DeleteAccount
<1>4. ASSUME NEW w \in Visitors
      PROVE  /\ visits'[w] \in Visit /\ visits'[w].at = visits[w].at
             /\ visits'[w].sid = visits[w].sid /\ visits'[w].values = visits[w].values
             /\ visits'[w].modified = visits[w].modified
             /\ visits'[w].user = visits[w].user /\ visits'[w].token = visits[w].token
             /\ visits[w].user # u => visits'[w] = visits[w]
    <2>1. visits[w] \in Visit
        BY <1>1, VisitsTyped
    <2>2. CASE visits[w].user = u
        <3>1. visits'[w] = [visits[w] EXCEPT !.late = TRUE]
            BY <1>3, <2>2
        <3> QED
            BY <2>1, <2>2, <3>1 DEF Visit
    <2>3. CASE visits[w].user # u
        <3>1. visits'[w] = visits[w]
            BY <1>3, <2>3
        <3> QED
            BY <2>1, <2>3, <3>1
    <2> QED
        BY <2>2, <2>3
<1>5. ASSUME NEW w \in Visitors, visits[w].user = u PROVE visits'[w].late
    <2>1. visits'[w] = [visits[w] EXCEPT !.late = TRUE] /\ visits[w] \in Visit
        BY <1>1, <1>3, <1>5, VisitsTyped
    <2> QED
        BY <2>1 DEF Visit
<1>6. visits' \in [Visitors -> Visit]
    BY <1>3, <1>4
<1>7. ASSUME NEW w \in Visitors PROVE VisitOK(visits'[w], users')
    <2>1. VisitOK(visits[w], users)
        BY <1>1, ActorsAre
    <2>2. CASE visits[w].user = u
        <3>1. visits'[w].late
            BY <1>5, <2>2
        <3> QED
            BY <1>4, <2>1, <3>1 DEF VisitOK
    <2>3. CASE visits[w].user # u
        BY <1>3, <1>4, <2>1, <2>3 DEF VisitOK
    <2> QED
        BY <2>2, <2>3
<1>8. TablesTyped' /\ \A k \in Tokens : apiTokens'[k] \in users' \union {Nobody}
    BY <1>1, <1>2, <1>3, TypedParts DEF TablesTyped, ActsForItsSession
<1> QED
    BY <1>2, <1>4, <1>6, <1>7, <1>8, SessionsStay

LEMMA AccountsInitKeeps ==
    ASSUME AccountsInit PROVE AccountsIInv
<1>1. /\ users = {} /\ registered = {} /\ closed = {} /\ expired = {}
      /\ \A s \in Sids : sessions[s] = NoSession /\ meant[s] = NoSid
      /\ \A v \in Visitors : visits[v] = Resting
      /\ \A k \in Tokens : /\ apiTokens[k] = Nobody /\ minted[k] = Nobody
                           /\ shown[k].times = 0 /\ shown[k].to = {}
    BY DEF AccountsInit
<1>2. Typed
    <2>1. TablesTyped
        BY DEF AccountsInit, TablesTyped
    <2>2. HistoryTypeOK
        <3>1. [times |-> 0, to |-> {}] \in [times : 0..2, to : SUBSET Users]
            OBVIOUS
        <3> QED
            BY <3>1 DEF AccountsInit, HistoryTypeOK
    <2>3. sessions \in [Sids -> Values \union {NoSession}] /\ visits \in [Visitors -> Visit]
        BY RestingIs DEF AccountsInit
    <2> QED
        BY <2>1, <2>2, <2>3, TypedParts
<1>3. SidsOK
    BY <1>1, RestingIs DEF SidsOK, TokenStandsForOneVisitor, CopiesAreTheSessions,
                           ClosedStaysClosed, ClosedIsForgotten, Live
<1>4. RoomForSids
    <2>1. Owing = {}
        BY <1>1, OwingIs, RestingIs
    <2> QED
        BY <2>1, Counts, FS_EmptySet DEF RoomForSids
<1>5. SecretsKept
    <2> SUFFICES ASSUME NEW k \in Tokens PROVE SecretOK(k)
        BY SecretsAre
    <2>1. \A v \in Visitors : ~InCopy(v, k)
        BY <1>1, RestingIs, AccountsAssumption DEF InCopy
    <2>2. \A s \in Sids : ~InRow(s, k)
        BY <1>1 DEF InRow, Live
    <2> QED
        BY <1>1, <2>1, <2>2 DEF SecretOK, NotBeforeMinted, WithItsOwner, InOnePlace, GoneOnceShown
<1>6. ActsForItsSession /\ DeletedActsNoMore
    BY <1>1, RestingIs DEF ActsForItsSession, DeletedActsNoMore
<1> QED
    BY <1>2, <1>3, <1>4, <1>5, <1>6, Whole

LEMMA AccountsStep ==
    ASSUME AccountsIInv, [AccountsNext]_accountsVars PROVE AccountsIInv'
<1>1. ASSUME NEW v \in Visitors,
             \/ LoadNew(v) \/ LoadSession(v) \/ Handle(v) \/ Commit(v)
             \/ ArriveBearer(v) \/ AuthenticateAPIToken(v) \/ ActAsBearer(v)
      PROVE  AccountsIInv'
    <2>1. ASSUME Handle(v) PROVE AccountsIInv'
        BY <2>1, HandleUnchangedKeeps, RequireUserKeeps, HandleRegisterKeeps, HandleLoginKeeps,
           LogInKeeps, HandleLogoutKeeps, HandleTokenCreateKeeps, HandleTokenListKeeps,
           HandleTokenDeleteKeeps DEF Handle
    <2> QED
        BY <1>1, <2>1, LoadNewKeeps, LoadSessionKeeps, CommitKeeps, ArriveBearerKeeps,
           AuthenticateKeeps, ActKeeps
<1>2. ASSUME UNCHANGED accountsVars PROVE AccountsIInv'
    <2>1. Typed /\ ActsForItsSession /\ DeletedActsNoMore
        BY Whole
    <2>2. /\ UNCHANGED <<registered, users, apiTokens, expired, visits>>
          /\ UNCHANGED <<sessions, minted, meant, closed, shown, overlapped, carried>>
        BY <1>2 DEF accountsVars
    <2>3. TablesTyped' /\ visits' \in [Visitors -> Visit]
        BY <2>1, <2>2, TypedParts DEF TablesTyped
    <2>4. /\ \A w \in Visitors : VisitOK(visits'[w], users')
          /\ \A k \in Tokens : apiTokens'[k] \in users' \union {Nobody}
        BY <2>1, <2>2, ActorsAre
    <2> QED
        BY <2>2, <2>3, <2>4, SessionsStay
<1> QED
    BY <1>1, <1>2, ExpireTokenKeeps, DeleteAccountKeeps DEF AccountsNext

(* Whatever the requests do in whatever order, with accounts deleted and   *)
(* tokens expiring among them, the conjunction the properties follow from  *)
(* holds: copies are of the session their token stands for, ended sessions *)
(* are in nobody's hands, and a secret is where its history says.          *)
THEOREM AccountsInvariant == AccountsSpec => []AccountsIInv
<1>1. AccountsInit => AccountsIInv
    BY AccountsInitKeeps
<1>2. AccountsIInv /\ [AccountsNext]_accountsVars => AccountsIInv'
    BY AccountsStep
<1> QED
    BY <1>1, <1>2, PTL DEF AccountsSpec

(* The tables, the sessions and the requests keep their types.             *)
THEOREM AccountsTypeCorrect == AccountsSpec => []AccountsTypeOK
<1>1. AccountsIInv => AccountsTypeOK
    BY DEF AccountsIInv
<1> QED
    BY <1>1, AccountsInvariant, PTL

(* A session token stands for one visitor from beginning to end: logging   *)
(* in renews it, logging out ends it, and a stale copy that is stored over *)
(* a newer one is still its own visitor's.                                 *)
THEOREM OneVisitorPerToken == AccountsSpec => []TokenStandsForOneVisitor
<1>1. AccountsIInv => TokenStandsForOneVisitor
    BY DEF AccountsIInv
<1> QED
    BY <1>1, AccountsInvariant, PTL

(* A session that ended with nobody else at work on it never comes back.   *)
THEOREM NoSessionReturns == AccountsSpec => []ClosedStaysClosed
<1>1. AccountsIInv => ClosedStaysClosed
    BY DEF AccountsIInv
<1> QED
    BY <1>1, AccountsInvariant, PTL

(* A new token's secret is shown once and to its owner, but for a session  *)
(* two requests worked on at once and one somebody logged in over.         *)
THEOREM SecretsAreTheOwners == AccountsSpec => []SecretShownOnceToOwner
<1>1. AccountsIInv => SecretShownOnceToOwner
    <2> SUFFICES ASSUME AccountsIInv, NEW k \in Tokens
                 PROVE  /\ shown[k].times > 1 => k \in overlapped
                        /\ shown[k].to \subseteq {minted[k]} \/ k \in carried
        BY DEF SecretShownOnceToOwner
    <2>1. WithItsOwner(k) /\ GoneOnceShown(k) /\ shown[k].times \in 0..2
        BY DEF AccountsIInv, SecretsKept, HistoryTypeOK
    <2> QED
        BY <2>1 DEF WithItsOwner, GoneOnceShown
<1> QED
    BY <1>1, AccountsInvariant, PTL

(* What still runs in a deleted account's name started before.             *)
THEOREM DeletedStop == AccountsSpec => []DeletedActsNoMore
<1>1. AccountsIInv => DeletedActsNoMore
    BY DEF AccountsIInv
<1> QED
    BY <1>1, AccountsInvariant, PTL
=============================================================================
