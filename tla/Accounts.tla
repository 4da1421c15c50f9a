------------------------------ MODULE Accounts ------------------------------
(***************************************************************************)
(* Accounts, sessions and API tokens under concurrent requests             *)
(* (internal/web/session.go, auth.go, tokens.go, apiauth.go, csrf.go and   *)
(* internal/core/user.go, token.go).                                       *)
(*                                                                         *)
(* The session manager, github.com/alexedwards/scs, is external, and is    *)
(* what makes requests interleave: a request works on a copy of its        *)
(* session, loaded when it starts, and the first write of its response     *)
(* stores the whole copy under its token.  With an idle timeout set, as it *)
(* is here, that happens for every session that was found, changed or not. *)
(*                                                                         *)
(* Of a session's values the account and the secret of a new API token are *)
(* kept; messages and the page to go on to are left out, but that a        *)
(* message makes an anonymous visitor a session is not.  Passwords and     *)
(* CSRF tokens are right or wrong.  "meant", "closed", "shown",            *)
(* "overlapped", "carried" and a request's "late" are history.             *)
(***************************************************************************)
EXTENDS Integers, FiniteSets

CONSTANTS
    Visitors,       \* concurrent requests, one at a time each
    Users,          \* accounts that may come to be registered
    Tokens,         \* API tokens that may come to be minted
    Sids,           \* session tokens the manager may generate
    Nobody, NoToken, NoSid, NoSession

Blank == [user |-> Nobody, secret |-> NoToken]
Values == [user : Users \union {Nobody}, secret : Tokens \union {NoToken}]

ASSUME AccountsAssumption ==
    /\ Nobody \notin Users /\ NoToken \notin Tokens
    /\ NoSid \notin Sids \union Users \union {Nobody}
    /\ NoSession \notin Values
    /\ IsFiniteSet(Visitors) /\ IsFiniteSet(Sids)
-----------------------------------------------------------------------------
VARIABLES
    registered,     \* every account there ever was
    users,          \* the users table
    sessions,       \* the sessions table, by session token
    apiTokens,      \* the api_tokens table: each token's owner, or Nobody
    expired,        \* the tokens whose expires_at has passed
    visits,         \* each visitor's request
    meant,          \* history: whose session a session token was first
    closed,         \* history: session tokens ended with no other request on them
    minted,         \* history: each token's owner, however long it lived
    shown,          \* history: each secret's showings, and to whom
    overlapped,     \* history: secrets in a session two requests had at once
    carried         \* history: secrets in a session somebody logged in over

accountsVars == <<registered, users, sessions, apiTokens, expired, visits, meant, closed,
                  minted, shown, overlapped, carried>>

accountTables == <<registered, users, apiTokens, expired, minted>>
history == <<meant, closed, shown, overlapped, carried>>

Resting == [at |-> "idle", sid |-> NoSid, values |-> Blank,
            modified |-> FALSE, user |-> Nobody, token |-> NoToken, late |-> FALSE]

Live(s) == s # NoSid /\ sessions[s] # NoSession

Used == {s \in Sids : Live(s) \/ meant[s] # NoSid} \union {visits[v].sid : v \in Visitors}

(* A bound: a request starts while there is a new session token for it.    *)
SidRoom ==
    Cardinality({v \in Visitors : visits[v].at # "idle"}) < Cardinality(Sids \ Used)

(* Generated tokens are all alike, so one stands for any.                  *)
NewSid == CHOOSE s \in Sids : s \notin Used

(* The other requests that work on a copy of the session.                  *)
Others(v, s) == {w \in Visitors \ {v} : s # NoSid /\ visits[w].sid = s}
-----------------------------------------------------------------------------
(* Destroy: the row goes, and the copy becomes a new session.              *)
Destroyed(visit) == [visit EXCEPT !.sid = NoSid, !.values = Blank, !.modified = FALSE]

Delete(s) == IF s = NoSid THEN sessions ELSE [sessions EXCEPT ![s] = NoSession]

Closing(v, s) == IF s = NoSid \/ Others(v, s) # {} THEN closed ELSE closed \union {s}

(* withUser: the account is looked up on every request, and a session of a *)
(* deleted one is destroyed.                                               *)
UserExistedAtLogin(u) == TRUE
UserExists(u) == u \in users

(* LoadAndSave and withUser, which only read between them what nobody but  *)
(* DeleteAccount writes.  A token that names no session gives a new one    *)
(* without a token.                                                        *)
LoadNew(v) ==
    /\ visits[v].at = "idle"
    /\ SidRoom
    /\ visits' = [visits EXCEPT ![v] = [Resting EXCEPT !.at = "handle"]]
    /\ UNCHANGED <<accountTables, sessions, history>>

LoadSession(v) ==
    /\ visits[v].at = "idle"
    /\ SidRoom
    /\ \E s \in {t \in Sids : Live(t)} :
          LET values == sessions[s]
              found == [Resting EXCEPT !.at = "handle", !.sid = s, !.values = values,
                                       !.modified = TRUE, !.user = values.user]
          IN  /\ IF values.user = Nobody \/ UserExists(values.user)
                 THEN /\ visits' = [visits EXCEPT ![v] = found]
                      /\ UNCHANGED <<sessions, closed>>
                 ELSE /\ visits' = [visits EXCEPT ![v] = [Destroyed(found) EXCEPT !.user = Nobody]]
                      /\ sessions' = Delete(s)
                      /\ closed' = Closing(v, s)
              /\ overlapped' = IF Others(v, s) = {} THEN overlapped
                               ELSE overlapped \union {values.secret}
                                        \union {visits[w].values.secret : w \in Others(v, s)}
    /\ UNCHANGED <<accountTables, meant, shown, carried>>

(* The handler is done, and what is left of it is the session's copy.      *)
Respond(v, visit) ==
    visits' = [visits EXCEPT ![v] = [Resting EXCEPT !.at = "respond", !.sid = visit.sid,
                                       !.values = visit.values, !.modified = visit.modified]]

(* A request that changes nothing: withCSRF refuses it, its form is wrong, *)
(* a query fails, or it only reads.  Its session is stored all the same.   *)
HandleUnchanged(v) ==
    /\ visits[v].at \in {"handle", "renew"}
    /\ Respond(v, visits[v])
    /\ UNCHANGED <<accountTables, sessions, history>>
-----------------------------------------------------------------------------
(* requireUser: a message for the anonymous, and off to the login form;    *)
(* requireAPIUser, of a request with no bearer token: 401 and no message.  *)
RequireUser(v) ==
    /\ visits[v].at = "handle"
    /\ visits[v].user = Nobody
    /\ \E told \in {TRUE, visits[v].modified} : Respond(v, [visits[v] EXCEPT !.modified = told])
    /\ UNCHANGED <<accountTables, sessions, history>>

(* handleRegister: the unique index decides; a taken address is refused.   *)
HandleRegister(v) ==
    /\ visits[v].at = "handle"
    /\ \E u \in Users \ registered :
          /\ registered' = registered \union {u}
          /\ users' = users \union {u}
          /\ visits' = [visits EXCEPT ![v].at = "renew", ![v].user = u]
    /\ UNCHANGED <<apiTokens, expired, minted, sessions, history>>

(* handleLogin, Authenticate: also over a session that is logged in.       *)
HandleLogin(v) ==
    /\ visits[v].at = "handle"
    /\ \E u \in users : visits' = [visits EXCEPT ![v].at = "renew", ![v].user = u]
    /\ UNCHANGED <<accountTables, sessions, history>>

(* logIn.  RenewToken deletes the old row and keeps the values.            *)
RenewTokenSkipped(v) == IF visits[v].sid = NoSid THEN NewSid ELSE visits[v].sid
RenewToken(v) == NewSid

LogIn(v) ==
    /\ visits[v].at = "renew"
    /\ Respond(v, [visits[v] EXCEPT !.sid = RenewToken(v), !.modified = TRUE,
                                    !.values.user = visits[v].user])
    /\ sessions' = Delete(visits[v].sid)
    /\ closed' = Closing(v, visits[v].sid)
    /\ carried' = carried \union {visits[v].values.secret}
    /\ UNCHANGED <<accountTables, meant, shown, overlapped>>

(* handleLogout, logOut: the message goes on a new session.                *)
LogOutByForgetting(visit) == [visit EXCEPT !.values.user = Nobody]
LogOut(visit) == Destroyed(visit)

HandleLogout(v) ==
    /\ visits[v].at = "handle"
    /\ Respond(v, [LogOut(visits[v]) EXCEPT !.modified = TRUE])
    /\ sessions' = Delete(visits[v].sid)
    /\ closed' = Closing(v, visits[v].sid)
    /\ UNCHANGED <<accountTables, meant, shown, overlapped, carried>>
-----------------------------------------------------------------------------
(* handleTokenCreate: the row, with its foreign key to the account, and    *)
(* the secret into the session for the page that shows it.                 *)
HandleTokenCreate(v) ==
    /\ visits[v].at = "handle"
    /\ visits[v].user \in users
    /\ \E k \in Tokens :
          /\ minted[k] = Nobody
          /\ apiTokens' = [apiTokens EXCEPT ![k] = visits[v].user]
          /\ minted' = [minted EXCEPT ![k] = visits[v].user]
          /\ Respond(v, [visits[v] EXCEPT !.values.secret = k, !.modified = TRUE])
          /\ overlapped' = IF Others(v, visits[v].sid) # {} THEN overlapped \union {k}
                           ELSE overlapped
    /\ UNCHANGED <<registered, users, expired, sessions, meant, closed, shown, carried>>

(* handleTokenList: the secret is popped by the page that shows it.        *)
ReadSecret(visit) == visit
PopSecret(visit) == [visit EXCEPT !.values.secret = NoToken, !.modified = TRUE]

HandleTokenList(v) ==
    /\ visits[v].at = "handle"
    /\ visits[v].user # Nobody
    /\ Respond(v, PopSecret(visits[v]))
    /\ shown' = IF visits[v].values.secret = NoToken THEN shown
                ELSE [shown EXCEPT ![visits[v].values.secret] =
                         [times |-> IF @.times = 2 THEN 2 ELSE @.times + 1,
                          to |-> @.to \union {visits[v].user}]]
    /\ UNCHANGED <<accountTables, sessions, meant, closed, overlapped, carried>>

(* handleTokenDelete: only the account's own, and revoked once.            *)
HandleTokenDelete(v) ==
    /\ visits[v].at = "handle"
    /\ visits[v].user # Nobody
    /\ \E k \in Tokens :
          IF apiTokens[k] = visits[v].user
          THEN apiTokens' = [apiTokens EXCEPT ![k] = Nobody]
          ELSE UNCHANGED apiTokens
    /\ Respond(v, [visits[v] EXCEPT !.modified = TRUE])
    /\ UNCHANGED <<registered, users, expired, minted, sessions, history>>

(* LoadAndSave, at the first write of the response.                        *)
Commit(v) ==
    /\ visits[v].at = "respond"
    /\ visits' = [visits EXCEPT ![v] = Resting]
    /\ IF visits[v].modified
       THEN LET s == IF visits[v].sid = NoSid THEN NewSid ELSE visits[v].sid
            IN  /\ sessions' = [sessions EXCEPT ![s] = visits[v].values]
                /\ meant' = [meant EXCEPT ![s] = IF @ = NoSid THEN visits[v].values.user ELSE @]
       ELSE UNCHANGED <<sessions, meant>>
    /\ UNCHANGED <<accountTables, closed, shown, overlapped, carried>>
-----------------------------------------------------------------------------
(* A management API request with a bearer token and no session: one        *)
(* statement resolves the token and marks it used.                         *)
ArriveBearer(v) ==
    /\ visits[v].at = "idle"
    /\ \E k \in Tokens :
          visits' = [visits EXCEPT ![v] = [Resting EXCEPT !.at = "bearer", !.token = k]]
    /\ UNCHANGED <<accountTables, sessions, history>>

Authenticates(k) == apiTokens[k] # Nobody /\ k \notin expired

AuthenticateAPIToken(v) ==
    /\ visits[v].at = "bearer"
    /\ IF Authenticates(visits[v].token)
       THEN visits' = [visits EXCEPT ![v].at = "act", ![v].user = apiTokens[visits[v].token]]
       ELSE visits' = [visits EXCEPT ![v] = Resting]
    /\ UNCHANGED <<accountTables, sessions, history>>

ActAsBearer(v) ==
    /\ visits[v].at = "act"
    /\ visits' = [visits EXCEPT ![v] = Resting]
    /\ UNCHANGED <<accountTables, sessions, history>>
-----------------------------------------------------------------------------
(* Time.  A session's idle timeout of a week is left out.                  *)
ExpireToken ==
    /\ \E k \in Tokens \ expired : apiTokens[k] # Nobody /\ expired' = expired \union {k}
    /\ UNCHANGED <<registered, users, apiTokens, minted, sessions, visits, history>>

(* An operator deletes an account; its tokens go by cascade.               *)
DeleteAccount ==
    /\ \E u \in users :
          /\ users' = users \ {u}
          /\ apiTokens' = [k \in Tokens |-> IF apiTokens[k] = u THEN Nobody ELSE apiTokens[k]]
          /\ visits' = [v \in Visitors |->
                 IF visits[v].user = u THEN [visits[v] EXCEPT !.late = TRUE] ELSE visits[v]]
    /\ UNCHANGED <<registered, expired, minted, sessions, history>>

AccountsInit ==
    /\ registered = {} /\ users = {}
    /\ sessions = [s \in Sids |-> NoSession]
    /\ apiTokens = [k \in Tokens |-> Nobody]
    /\ expired = {}
    /\ visits = [v \in Visitors |-> Resting]
    /\ meant = [s \in Sids |-> NoSid]
    /\ closed = {}
    /\ minted = [k \in Tokens |-> Nobody]
    /\ shown = [k \in Tokens |-> [times |-> 0, to |-> {}]]
    /\ overlapped = {} /\ carried = {}

Handle(v) ==
    \/ HandleUnchanged(v) \/ RequireUser(v) \/ HandleRegister(v) \/ HandleLogin(v) \/ LogIn(v)
    \/ HandleLogout(v) \/ HandleTokenCreate(v) \/ HandleTokenList(v) \/ HandleTokenDelete(v)

AccountsNext ==
    \/ \E v \in Visitors :
          \/ LoadNew(v) \/ LoadSession(v) \/ Handle(v) \/ Commit(v)
          \/ ArriveBearer(v) \/ AuthenticateAPIToken(v) \/ ActAsBearer(v)
    \/ ExpireToken \/ DeleteAccount

AccountsSpec == AccountsInit /\ [][AccountsNext]_accountsVars
-----------------------------------------------------------------------------
AccountsTypeOK ==
    /\ users \subseteq registered /\ registered \subseteq Users
    /\ sessions \in [Sids -> Values \union {NoSession}]
    /\ apiTokens \in [Tokens -> Users \union {Nobody}]
    /\ expired \subseteq Tokens
    /\ visits \in [Visitors -> [at : {"idle", "handle", "renew", "respond", "bearer", "act"},
                                sid : Sids \union {NoSid}, values : Values,
                                modified : BOOLEAN, user : Users \union {Nobody},
                                token : Tokens \union {NoToken}, late : BOOLEAN]]

(* A session token stands for one visitor from beginning to end: what was  *)
(* an anonymous visitor's never becomes an account's, and no account's     *)
(* another's, whatever copies are stored in which order ("reusing the      *)
(* anonymous token would leave a session fixed before login still valid    *)
(* after it", logIn).                                                      *)
TokenStandsForOneVisitor ==
    \A s \in Sids : Live(s) => sessions[s].user = meant[s]

(* A session that is logged out, renewed or destroyed while no other       *)
(* request works on a copy of it never comes back, whatever later requests *)
(* load, renew and store (logIn, logOut, withUser).  Of one that others    *)
(* had loaded the code promises the same and does not keep it:             *)
(* TakenStaysTaken.                                                        *)
ClosedStaysClosed == \A s \in closed : ~Live(s)

(* A new token's secret is shown on one page and to its owner              *)
(* (handleTokenList), as long as no two requests are on the session at     *)
(* once and nobody logs in over it.  Where they are or somebody does, it   *)
(* may be shown again and to others: TakenStaysTaken.                      *)
SecretShownOnceToOwner ==
    \A k \in Tokens :
        /\ shown[k].times > 1 => k \in overlapped
        /\ shown[k].to \subseteq {minted[k]} \/ k \in carried

(* A deleted account does nothing more: what still runs in its name had    *)
(* started before it was deleted ("so a deleted account cannot keep        *)
(* browsing", withUser; the join in AuthenticateAPIToken).                 *)
DeletedActsNoMore ==
    \A v \in Visitors :
        visits[v].at \in {"handle", "renew", "act"} /\ visits[v].user \notin users \union {Nobody}
            => visits[v].late
-----------------------------------------------------------------------------
(* The strengthening the proofs use.                                       *)
HistoryTypeOK ==
    /\ meant \in [Sids -> Users \union {Nobody, NoSid}]
    /\ closed \subseteq Sids
    /\ minted \in [Tokens -> Users \union {Nobody}]
    /\ shown \in [Tokens -> [times : 0..2, to : SUBSET Users]]

(* Only a request that has a session has values, and until a login they    *)
(* are the account's it acts for; a token's owner has an account.          *)
ActsForItsSession ==
    /\ \A v \in Visitors :
           /\ visits[v].at \in {"idle", "bearer", "act"} =>
                  visits[v].sid = NoSid /\ visits[v].values = Blank
           /\ visits[v].at = "handle" => visits[v].user = visits[v].values.user
           /\ visits[v].at = "bearer" => visits[v].token \in Tokens
    /\ \A k \in Tokens : apiTokens[k] \in users \union {Nobody}

(* A request's copy is of the session its token stands for, or the first   *)
(* there is under a new token that nobody else has.                        *)
CopiesAreTheSessions ==
    \A v \in Visitors :
        visits[v].sid # NoSid =>
            \/ meant[visits[v].sid] = visits[v].values.user
            \/ /\ meant[visits[v].sid] = NoSid
               /\ visits[v].at = "respond" /\ visits[v].modified
               /\ \A w \in Visitors \ {v} : visits[w].sid # visits[v].sid

ClosedIsForgotten ==
    \A s \in closed : meant[s] # NoSid /\ \A v \in Visitors : visits[v].sid # s

(* Every request that may yet need a new session token finds one.          *)
Owing ==
    {v \in Visitors : \/ visits[v].at \in {"handle", "renew"}
                      \/ visits[v].at = "respond" /\ visits[v].sid = NoSid}

RoomForSids == Cardinality(Owing) <= Cardinality(Sids \ Used)

(* A new secret is nowhere before it is minted.  It stays with its owner's *)
(* values, and in one copy but for the row the copy is of, as long as no   *)
(* two requests share the session; and once shown, it is in no copy, and   *)
(* in a row only until the request that showed it stores its own.          *)
InCopy(v, k) == visits[v].values.secret = k
InRow(s, k) == Live(s) /\ sessions[s].secret = k

NotBeforeMinted(k) ==
    minted[k] = Nobody =>
        /\ \A v \in Visitors : ~InCopy(v, k)
        /\ \A s \in Sids : ~InRow(s, k)
        /\ shown[k].times = 0 /\ shown[k].to = {}

WithItsOwner(k) ==
    k \notin carried =>
        /\ \A v \in Visitors : InCopy(v, k) => visits[v].values.user = minted[k]
        /\ \A s \in Sids : InRow(s, k) => sessions[s].user = minted[k]
        /\ shown[k].to \subseteq {minted[k]}

InOnePlace(k) ==
    k \notin overlapped =>
        /\ \A v, w \in Visitors : InCopy(v, k) /\ InCopy(w, k) => v = w
        /\ \A s, t \in Sids : InRow(s, k) /\ InRow(t, k) => s = t
        /\ \A v \in Visitors, s \in Sids : InCopy(v, k) /\ InRow(s, k) => visits[v].sid = s
        /\ \A v, w \in Visitors :
               InCopy(v, k) /\ visits[v].sid # NoSid /\ visits[w].sid = visits[v].sid => v = w
        /\ \A s \in Sids, v, w \in Visitors :
               InRow(s, k) /\ visits[v].sid = s /\ visits[w].sid = s => v = w

GoneOnceShown(k) ==
    k \notin overlapped =>
        /\ shown[k].times <= 1
        /\ shown[k].times = 1 =>
              /\ \A v \in Visitors : ~InCopy(v, k)
              /\ \A s \in Sids : InRow(s, k) =>
                     \E v \in Visitors :
                         visits[v].sid = s /\ visits[v].at = "respond" /\ visits[v].modified

SecretsKept ==
    \A k \in Tokens :
        NotBeforeMinted(k) /\ WithItsOwner(k) /\ InOnePlace(k) /\ GoneOnceShown(k)

AccountsIInv ==
    /\ AccountsTypeOK /\ HistoryTypeOK /\ ActsForItsSession
    /\ TokenStandsForOneVisitor /\ CopiesAreTheSessions
    /\ ClosedStaysClosed /\ ClosedIsForgotten /\ RoomForSids
    /\ SecretsKept /\ DeletedActsNoMore
-----------------------------------------------------------------------------
(* What comments of the code say, and the code does not do.                *)

(* "Sessions are server-side and not JWTs, so that logging out revokes     *)
(* access at once" (NewSessionManager), and a new token's secret "is shown *)
(* on this one rendering and never again" (tokenPage), to the account that *)
(* made it: what a request takes out of the sessions stays out of them.    *)
(* An account's session that is gone does not come back, and a secret that *)
(* was shown is not shown again.                                           *)
TakenStaysTaken ==
    [][/\ \A s \in Sids : meant[s] \in Users /\ ~Live(s) => ~Live(s)'
       /\ \A k \in Tokens :
              /\ shown'[k].times <= 1
              /\ shown'[k].to \subseteq {minted[k]}]_accountsVars
=============================================================================
