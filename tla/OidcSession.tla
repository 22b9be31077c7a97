------------------------------- MODULE OidcSession -------------------------------
(***************************************************************************)
(* The pending checks of OIDC logins in one web session                    *)
(* (app/authentications/providers/oidc/Oidc.ts).  Every redirect reads the *)
(* session from its store, adds the state and code verifier of the login   *)
(* it starts, and saves the session; redirects of one session (browser     *)
(* tabs) take turns by a lock made of chained promises.  The callback that *)
(* completes a login reads, waits for the provider and saves too, without  *)
(* the lock.  A check carries the time it was made at; those of two logins *)
(* differ, for a reload and a save of the session lie between them.        *)
(***************************************************************************)
EXTENDS Naturals, Sequences, FiniteSets

CONSTANTS
  Login,       \* logins started in the session, each by one redirect
  MaxPending,  \* OIDC_MAX_PENDING_CHECKS
  NoLogin

ASSUME LoginAssumption ==
  NoLogin \notin Login /\ IsFiniteSet(Login) /\ MaxPending \in Nat \ {0}

VARIABLES
  redirect,  \* what the redirect of a login is at
  behind,    \* the redirect whose lock it waits for (previousLock)
  latest,    \* oidcSessionLocks of the session
  created,   \* createdAt of the check of a login
  now,       \* Date.now()
  loaded,    \* the checks that its request has read
  store,     \* the saved session: pending checks
  callback,  \* what the callback of a login is at, and the checks it read
  expired,   \* logins older than OIDC_CHECKS_TTL_MS
  cut,       \* history: checks that newer ones pushed out
  inLine,    \* history: the redirects that wait for the lock, in order
  overrun    \* history: checks saved while a callback waited for the provider

oidcVars ==
  <<redirect, behind, latest, created, now, loaded, store, callback, expired, cut, inLine, overrun>>

Checks == SUBSET Login
OidcTypeOK ==
  /\ redirect \in [Login -> {"none", "queued", "locked", "read", "ok", "failed"}]
  /\ behind \in [Login -> Login \cup {NoLogin}] /\ latest \in Login \cup {NoLogin}
  /\ loaded \in [Login -> Checks] /\ store \in Checks /\ now \in Nat /\ created \in [Login -> 0..now]
  /\ \A l \in Login : /\ callback[l].at \in {"none", "exchange", "ok", "failed"}
                      /\ callback[l].read \in Checks
  /\ expired \cup cut \cup overrun \subseteq Login /\ inLine \in Seq(Login)

NoCallback == [at |-> "none", read |-> {}]
OidcInit ==
  /\ redirect = [l \in Login |-> "none"]
  /\ behind = [l \in Login |-> NoLogin] /\ latest = NoLogin
  /\ created = [l \in Login |-> 0] /\ now = 0
  /\ loaded = [l \in Login |-> {}] /\ store = {}
  /\ callback = [l \in Login |-> NoCallback]
  /\ expired = {} /\ cut = {} /\ inLine = <<>> /\ overrun = {}

-------------------------------------------------------------------------------
\* limitToMostRecent, with the createdAt of each
MostRecent(checks, at) == {l \in checks : Cardinality({k \in checks : at[k] > at[l]}) < MaxPending}

\* normalizePendingChecks: those in time, the most recent of them.
Normalized(checks, at) == MostRecent(checks \ expired, at)

\* Mutant: a redirect does not wait for the one before it.
AskAside(l) == /\ behind' = behind
               /\ latest' = l
               /\ inLine' = Append(inLine, l)

\* withOidcSessionLock up to its await.
AskLock(l) == /\ behind' = [behind EXCEPT ![l] = latest]
              /\ latest' = l
              /\ inLine' = Append(inLine, l)

\* Mutant: the entry of the map always goes.
ForgetLock(l) == /\ behind' = [k \in Login |-> IF behind[k] = l THEN NoLogin ELSE behind[k]]
                 /\ latest' = NoLogin

\* releaseLock, and the entry of the map goes when nobody came after.
ReleaseLock(l) == /\ behind' = [k \in Login |-> IF behind[k] = l THEN NoLogin ELSE behind[k]]
                  /\ latest' = IF latest = l THEN NoLogin ELSE latest

\* redirect: the state is made, the lock is asked for.
Redirect(l) ==
  /\ redirect[l] = "none" /\ redirect' = [redirect EXCEPT ![l] = "queued"]
  /\ AskLock(l)
  /\ UNCHANGED <<created, now, loaded, store, callback, expired, cut, overrun>>

Locked(l) ==
  /\ redirect[l] = "queued" /\ behind[l] = NoLogin
  /\ redirect' = [redirect EXCEPT ![l] = "locked"]
  /\ inLine' = Tail(inLine)
  /\ UNCHANGED <<behind, latest, created, now, loaded, store, callback, expired, cut, overrun>>

\* reloadSessionIfPossible, then the new check is added to the copy.
Reload(l) ==
  /\ redirect[l] = "locked" /\ redirect' = [redirect EXCEPT ![l] = "read"]
  /\ now' = now + 1
  /\ LET at == [created EXCEPT ![l] = now + 1]
     IN  /\ created' = at
         /\ loaded' = [loaded EXCEPT ![l] = Normalized(Normalized(store, created) \cup {l}, at)]
  /\ UNCHANGED <<behind, latest, store, callback, expired, cut, inLine, overrun>>

\* What a full list pushes out.
Dropped(l) == IF Cardinality(loaded[l]) >= MaxPending THEN store \ loaded[l] ELSE {}

\* saveSessionIfPossible writes the copy, and the URL is answered; or the
\* session store fails.
Save(l) ==
  /\ redirect[l] = "read"
  /\ \/ /\ redirect' = [redirect EXCEPT ![l] = "ok"] /\ store' = loaded[l]
        /\ cut' = cut \cup Dropped(l)
     \/ redirect' = [redirect EXCEPT ![l] = "failed"] /\ UNCHANGED <<store, cut>>
  /\ loaded' = [loaded EXCEPT ![l] = {}]
  /\ ReleaseLock(l)
  /\ UNCHANGED <<created, now, callback, expired, inLine, overrun>>

-------------------------------------------------------------------------------
\* callback with the state of login l: refused when the check is not pending,
\* else its code is exchanged.
Callback(l) ==
  /\ redirect[l] = "ok" /\ callback[l].at = "none"
  /\ callback' = [callback EXCEPT ![l] =
       IF l \in Normalized(store, created) THEN [at |-> "exchange", read |-> Normalized(store, created)]
       ELSE [at |-> "failed", read |-> {}]]
  /\ UNCHANGED <<redirect, behind, latest, created, now, loaded, store, expired, cut, inLine, overrun>>

\* The checks that stay are those it read.
Remaining(l) == callback[l].read \ {l}

\* authorizationCodeGrant answers: the other checks it read are saved.
Exchanged(l) ==
  /\ callback[l].at = "exchange"
  /\ \/ /\ callback' = [callback EXCEPT ![l] = [at |-> "ok", read |-> {}]]
        /\ store' = Remaining(l)
        /\ overrun' = overrun \cup (store \ callback[l].read)
     \/ /\ callback' = [callback EXCEPT ![l] = [at |-> "failed", read |-> {}]]
        /\ UNCHANGED <<store, overrun>>
  /\ UNCHANGED <<redirect, behind, latest, created, now, loaded, expired, cut, inLine>>

Expires(l) ==
  /\ redirect[l] = "ok" /\ l \notin expired /\ expired' = expired \cup {l}
  /\ UNCHANGED <<redirect, behind, latest, created, now, loaded, store, callback, cut, inLine, overrun>>

OidcNext == \E l \in Login : \/ Redirect(l) \/ Locked(l) \/ Reload(l) \/ Save(l)
                             \/ Callback(l) \/ Exchanged(l) \/ Expires(l)

OidcSpec == OidcInit /\ [][OidcNext]_oidcVars

\* Session stores and the provider answer or time out.
OidcFairness == \A l \in Login : WF_oidcVars(Locked(l) \/ Reload(l) \/ Save(l))

-------------------------------------------------------------------------------
OidcLock == INSTANCE Lock WITH Client <- Login,
              waiting <- inLine,
              inside <- {l \in Login : redirect[l] \in {"locked", "read"}}

(***************************************************************************)
(* TakesTurns: the redirects of a session go through withOidcSessionLock   *)
(* as through a lock, although its entry in the map comes and goes.        *)
(***************************************************************************)
TakesTurns == OidcLock!LockSpec

(***************************************************************************)
(* LoginsKept: a login whose redirect was answered can be completed: its   *)
(* check is in the saved session until its callback takes it, unless it is *)
(* too old, newer logins have pushed it out, or a callback under way since *)
(* before it was saved wrote the session back.                             *)
(***************************************************************************)
LoginsKept ==
  \A l \in Login : redirect[l] = "ok" =>
    \/ l \in store \cup expired \cup cut \cup overrun
    \/ callback[l].at # "none"
================================================================================
