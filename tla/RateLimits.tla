----------------------------- MODULE RateLimits -----------------------------
(***************************************************************************)
(* The three rate limiters (internal/ratelimit/ratelimit.go) and what they *)
(* are asked for by concurrent requests (internal/web/ratelimit.go,        *)
(* internal/web/apiauth.go): mock traffic by client address and then by    *)
(* project, the management API by credential.                              *)
(*                                                                         *)
(* Time is counted in the time one token takes to come back.  A request    *)
(* reads the clock before it has the limiter's lock, so that requests are  *)
(* counted in another order than they looked at the clock.                 *)
(*                                                                         *)
(* golang.org/x/time/rate is external: a bucket refills with time up to    *)
(* its burst, an earlier time than its last refills nothing, and a refusal *)
(* leaves it as it was.  The variables "admitted" and "rewound" are        *)
(* history: no guard reads them.                                           *)
(***************************************************************************)
EXTENDS Integers, FiniteSets

CONSTANTS
    Handlers,       \* concurrent requests, one at a time each
    Addresses,      \* what withClientIP resolves requests to
    Projects,       \* slugs the route table has a project for
    UnknownSlugs,   \* slugs it has none for
    Presented,      \* well-formed bearer tokens callers present
    SessionUsers,   \* accounts with a session
    Burst,          \* Burst(perSecond)
    TTL,            \* DefaultTTL
    MaxKeys,        \* DefaultMaxKeys
    MaxClock,       \* bound: when the model's time ends
    MaxCleared,     \* bound: how often a table is emptied
    MaxLag          \* bound: how long a request waits for the lock

(* A bucket untouched for the TTL has long refilled, even for requests     *)
(* that waited: the burst is at most 20 seconds' worth, the TTL a minute.  *)
ASSUME LimitsAssumption ==
    /\ Burst \in Nat \ {0} /\ MaxKeys \in Nat \ {0}
    /\ TTL \in Nat /\ MaxLag \in Nat /\ MaxClock \in Nat /\ MaxCleared \in Nat
    /\ TTL >= Burst + 2 * MaxLag
ASSUME SlugsAssumption == Projects \intersect UnknownSlugs = {}

Limiters == {"mockIP", "mockProject", "api"}
-----------------------------------------------------------------------------
VARIABLES
    enabled,        \* the limiters with a rate above zero; the others are nil
    clock,          \* time.Now
    tables,         \* each limiter's buckets, by key
    cleared,        \* each limiter's count of emptied tables
    calls,          \* what each handler is doing
    admitted,       \* history: the requests a limiter let through, by caller
    rewound         \* history: how far the caller's bucket was set back in time

limitsVars == <<enabled, clock, tables, cleared, calls, admitted, rewound>>

(* Whom the limiter is meant to count: the credential, or the address of a *)
(* request without one, or the project.                                    *)
Callers ==
    ({"address"} \X Addresses) \union ({"project"} \X Projects)
        \union ({"token"} \X Presented) \union ({"user"} \X SessionUsers)

NoCaller == <<"none", "none">>

(* remoteIP, mockProjectSlug and apiLimitKey.                              *)
LimitKeyOfTheAddress(caller) ==
    IF caller[1] = "token" THEN <<"address", CHOOSE a \in Addresses : TRUE>> ELSE caller

LimitKey(caller) == caller
-----------------------------------------------------------------------------
Least(a, b) == IF a < b THEN a ELSE b

Full(now) == [tokens |-> Burst, last |-> now, seen |-> now]

(* What a bucket holds at a time: rate.Limiter's advance.                  *)
AvailableUncapped(b, now) == b.tokens + (IF now > b.last THEN now - b.last ELSE 0)
Available(b, now) == Least(Burst, b.tokens + (IF now > b.last THEN now - b.last ELSE 0))

ExpiredEarly(b, now) == now - b.seen >= Burst - 1
Expired(b, now) == now - b.seen >= TTL

(* sweepLocked.                                                            *)
Swept(table, now) == [k \in {j \in DOMAIN table : ~Expired(table[j], now)} |-> table[k]]

(* makeRoom: expired buckets first, then all of them.                      *)
Crowded(table, key) == key \notin DOMAIN table /\ Cardinality(DOMAIN table) >= MaxKeys

MakeRoomAfterwards(table, key, now) == table

MakeRoom(table, key, now) ==
    IF ~Crowded(table, key) THEN table
    ELSE IF Cardinality(DOMAIN Swept(table, now)) < MaxKeys THEN Swept(table, now)
    ELSE [k \in {} |-> Full(now)]

Clears(table, key, now) ==
    Crowded(table, key) /\ Cardinality(DOMAIN Swept(table, now)) >= MaxKeys

BucketOf(table, key, now) == IF key \in DOMAIN table THEN table[key] ELSE Full(now)

(* AllowN: seen is the caller's time, and so is last if it was let through. *)
SpendWithoutMarking(b, now) ==
    IF Available(b, now) >= 1
    THEN [tokens |-> Available(b, now) - 1, last |-> b.last, seen |-> now]
    ELSE [b EXCEPT !.seen = now]

Spend(b, now) ==
    IF Available(b, now) >= 1
    THEN [tokens |-> Available(b, now) - 1, last |-> now, seen |-> now]
    ELSE [b EXCEPT !.seen = now]
-----------------------------------------------------------------------------
Idling == [at |-> "idle", caller |-> NoCaller, slug |-> NoCaller[2], now |-> 0]

Wait(h, place, caller, slug) ==
    calls' = [calls EXCEPT ![h] = [at |-> place, caller |-> caller, slug |-> slug, now |-> clock]]

EndCall(h) == calls' = [calls EXCEPT ![h] = Idling]

(* Allow, from the lock on: made room for, found or made, spent from.      *)
(* What a limiter that is off admits is not counted.                       *)
Allow(limiter, caller, now) ==
    LET table == tables[limiter]
        key == LimitKey(caller)
        room == MakeRoom(table, key, now)
        b == BucketOf(room, key, now)
    IN  /\ Clears(table, key, now) => cleared[limiter] < MaxCleared
        /\ tables' = [tables EXCEPT ![limiter] =
                         [k \in DOMAIN room \union {key} |->
                             IF k = key THEN Spend(b, now) ELSE room[k]]]
        /\ cleared' = [cleared EXCEPT ![limiter] = @ + (IF Clears(table, key, now) THEN 1 ELSE 0)]
        /\ IF Available(b, now) >= 1
           THEN /\ admitted' = [admitted EXCEPT ![limiter][caller] = @ + 1]
                /\ rewound' = [rewound EXCEPT ![limiter][caller] =
                                  @ + (IF now < b.last THEN b.last - now ELSE 0)]
           ELSE UNCHANGED <<admitted, rewound>>

Allowed(limiter, caller, now) ==
    Available(BucketOf(MakeRoom(tables[limiter], LimitKey(caller), now), LimitKey(caller), now),
              now) >= 1

Untouched == UNCHANGED <<tables, cleared, admitted, rewound>>
-----------------------------------------------------------------------------
(* requireAPIUser: counted under its credential before anybody looks at    *)
(* the credential itself.                                                  *)
APICallers ==
    ({"address"} \X Addresses) \union ({"token"} \X Presented) \union ({"user"} \X SessionUsers)

ArriveAPI(h) ==
    /\ calls[h].at = "idle"
    /\ "api" \in enabled
    /\ \E caller \in APICallers : Wait(h, "api", caller, NoCaller[2])
    /\ Untouched /\ UNCHANGED <<enabled, clock>>

(* allowAPI.  Behind it is AuthenticateAPIToken, or a 401, or a handler.   *)
AllowAPI(h) ==
    /\ calls[h].at = "api"
    /\ Allow("api", calls[h].caller, calls[h].now)
    /\ EndCall(h)
    /\ UNCHANGED <<enabled, clock>>

(* limitMock: by address first.                                            *)
ArriveMock(h) ==
    /\ calls[h].at = "idle"
    /\ enabled \intersect {"mockIP", "mockProject"} # {}
    /\ \E a \in Addresses, slug \in Projects \union UnknownSlugs :
          Wait(h, "mockIP", <<"address", a>>, slug)
    /\ Untouched /\ UNCHANGED <<enabled, clock>>

(* Of a request let through, the project is counted if the route table     *)
(* knows it; a refused one is counted nowhere else.                        *)
GoOn(h) ==
    IF "mockProject" \in enabled /\ calls[h].slug \in Projects
    THEN Wait(h, "mockProject", <<"project", calls[h].slug>>, calls[h].slug)
    ELSE EndCall(h)

AllowMockIP(h) ==
    /\ calls[h].at = "mockIP"
    /\ IF "mockIP" \in enabled
       THEN /\ Allow("mockIP", calls[h].caller, calls[h].now)
            /\ IF Allowed("mockIP", calls[h].caller, calls[h].now) THEN GoOn(h) ELSE EndCall(h)
       ELSE GoOn(h) /\ Untouched
    /\ UNCHANGED <<enabled, clock>>

AllowMockProject(h) ==
    /\ calls[h].at = "mockProject"
    /\ Allow("mockProject", calls[h].caller, calls[h].now)
    /\ EndCall(h)
    /\ UNCHANGED <<enabled, clock>>

(* Run: the sweep of a limiter that is on.                                 *)
Sweep(limiter) ==
    /\ limiter \in enabled
    /\ tables' = [tables EXCEPT ![limiter] = Swept(@, clock)]
    /\ UNCHANGED <<enabled, clock, cleared, calls, admitted, rewound>>

(* Time passes, and no request waits longer than MaxLag.                   *)
Tick ==
    /\ clock < MaxClock
    /\ \A h \in Handlers : calls[h].at # "idle" => clock - calls[h].now < MaxLag
    /\ clock' = clock + 1
    /\ UNCHANGED <<enabled, tables, cleared, calls, admitted, rewound>>

(* newLimiters: a rate of zero makes none.                                 *)
LimitsInit ==
    /\ enabled \in SUBSET Limiters
    /\ clock = 0
    /\ tables = [l \in Limiters |-> [k \in {} |-> Full(0)]]
    /\ cleared = [l \in Limiters |-> 0]
    /\ calls = [h \in Handlers |-> Idling]
    /\ admitted = [l \in Limiters |-> [c \in Callers |-> 0]]
    /\ rewound = [l \in Limiters |-> [c \in Callers |-> 0]]

LimitsNext ==
    \/ \E h \in Handlers :
          ArriveAPI(h) \/ AllowAPI(h) \/ ArriveMock(h) \/ AllowMockIP(h) \/ AllowMockProject(h)
    \/ \E l \in Limiters : Sweep(l)
    \/ Tick

LimitsSpec == LimitsInit /\ [][LimitsNext]_limitsVars
-----------------------------------------------------------------------------
LimitsTypeOK ==
    /\ enabled \subseteq Limiters
    /\ clock \in 0..MaxClock
    /\ \A l \in Limiters :
          /\ DOMAIN tables[l] \subseteq Callers
          /\ \A k \in DOMAIN tables[l] :
                tables[l][k] \in [tokens : 0..Burst, last : 0..MaxClock, seen : 0..MaxClock]
          /\ l \notin enabled => tables[l] = [k \in {} |-> Full(0)]
    /\ cleared \in [Limiters -> 0..MaxCleared]
    /\ calls \in [Handlers -> [at : {"idle", "api", "mockIP", "mockProject"},
                               caller : Callers \union {NoCaller},
                               slug : Projects \union UnknownSlugs \union {NoCaller[2]},
                               now : 0..MaxClock]]
    /\ admitted \in [Limiters -> [Callers -> Nat]]
    /\ rewound \in [Limiters -> [Callers -> Nat]]

(* The table never holds more than its cap, whoever asks and in whatever   *)
(* order: "a limiter that grows past its cap while deciding whether it may *)
(* is not a bounded limiter" (Allow, makeRoom).                            *)
TableBounded == \A l \in Limiters : Cardinality(DOMAIN tables[l]) <= MaxKeys

(* Over all its life, through sweeps and new buckets, a caller gets no     *)
(* more than one burst and what the time gives back, but for the time its  *)
(* bucket was set back by requests that overtook one another between clock *)
(* and lock, and, each time the table was emptied, for a burst and as much *)
(* as a request that looked at the clock before that can set it back.      *)
Allowance(l, c) == Burst + (Burst + MaxLag) * cleared[l] + rewound[l][c]

AdmissionsBounded ==
    \A l \in Limiters, c \in Callers : admitted[l][c] <= Allowance(l, c) + clock

(* "Recreating it on the next request gives exactly the same answer as     *)
(* keeping it would have" (DefaultTTL): a bucket leaves the table full,    *)
(* unless the whole table is emptied.                                      *)
NothingForgotten ==
    [][\A l \in Limiters : cleared'[l] = cleared[l] =>
          \A k \in DOMAIN tables[l] \ DOMAIN tables'[l] : Available(tables[l][k], clock) = Burst
      ]_limitsVars

(* A caller is refused for its own requests alone: one that has used less  *)
(* than a burst since the start is let through, whatever others do (the    *)
(* keys of apiLimitKey and limitMock; "a refusal handed to the wrong       *)
(* client is worse than a request too many served", makeRoom).             *)
RefusedForItsOwn ==
    [][\A h \in Handlers :
          LET call == calls[h]
          IN  /\ call.at \in enabled
              /\ call # calls'[h]
              /\ admitted'[call.at][call.caller] = admitted[call.at][call.caller]
              => admitted[call.at][call.caller] >= Burst
      ]_limitsVars
-----------------------------------------------------------------------------
(* The strengthening the proofs use.  A request under way is of a limiter  *)
(* that is on, and has not waited longer than it may.                      *)
CallsTimely ==
    \A h \in Handlers :
        calls[h].at # "idle" =>
            /\ calls[h].caller \in Callers
            /\ calls[h].at \in {"api", "mockProject"} => calls[h].at \in enabled
            /\ calls[h].now <= clock /\ clock <= calls[h].now + MaxLag

(* A bucket accounts for all its caller was let through: what it holds and *)
(* what was taken from it is a burst at least, and no more than came in.   *)
BucketAccounts(l, c) ==
    LET b == tables[l][c] IN
    /\ b.last <= clock /\ b.seen <= clock /\ b.last <= b.seen + MaxLag
    /\ Burst <= b.tokens + admitted[l][c]
    /\ b.tokens + admitted[l][c] <= Allowance(l, c) + b.last

(* A caller without one can be given a full bucket, even by a request that *)
(* looked at the clock MaxLag ago.                                         *)
MayHaveFull(l, c) ==
    admitted[l][c] = 0 \/ admitted[l][c] + Burst + MaxLag <= Allowance(l, c) + clock

TablesAccount ==
    \A l \in Limiters :
        /\ IsFiniteSet(DOMAIN tables[l])
        /\ \A c \in Callers :
               IF c \in DOMAIN tables[l] THEN BucketAccounts(l, c) ELSE MayHaveFull(l, c)

LimitsIInv ==
    /\ LimitsTypeOK /\ DOMAIN tables = Limiters
    /\ TableBounded /\ CallsTimely /\ TablesAccount
=============================================================================
