------------------------------- MODULE RemoteAuth -------------------------------
(***************************************************************************)
(* The credentials of a remote Docker watcher (applyRemoteAuthHeaders and  *)
(* ensureRemoteAuthHeaders of app/watchers/providers/docker/Docker.ts).    *)
(* A password or a bearer token goes into the client once; OIDC tokens     *)
(* expire and are asked for again.                                         *)
(* Watches, container events and inspections call it at the same time;     *)
(* each that finds the access token stale asks the token endpoint itself,  *)
(* and their answers come back in any order.                               *)
(***************************************************************************)
EXTENDS Naturals

CONSTANTS
  Caller,    \* slots for calls of ensureRemoteAuthHeaders under way
  Issues,    \* bound: refresh tokens the endpoint issues
  Polls      \* bound: polls of a device code until its time-out

ASSUME AuthAssumption == Issues \in Nat \ {0} /\ Polls \in Nat

GrantType == {"refresh_token", "client_credentials", "device_code", "unsupported"}
Scheme == {"basic", "bearer", "oidc"}
\* auth.type and the fields of auth; a token endpoint and a device URL are
\* fields of auth.oidc.
Config == [type : Scheme \cup {"", "other"}, fields : SUBSET {"basic", "bearer"}, https : BOOLEAN,
           endpoint : BOOLEAN, grant : GrantType \cup {""}, device : BOOLEAN]
RefreshToken == 1..Issues          \* 0: none

VARIABLES
  auth,      \* the configuration
  header,    \* whose credentials the client sends: a scheme, or nobody's
  access,    \* remoteOidcAccessToken: none, fresh, or stale (about to expire)
  refresh,   \* remoteOidcRefreshToken
  call,      \* the calls under way
  issued,    \* the endpoint: refresh tokens issued so far
  valid,     \* the endpoint: those it accepts, each for one use
  lost       \* history: an answer with a new refresh token got lost

authVars == <<auth, header, access, refresh, call, issued, valid, lost>>
client == <<auth, header>>
provider == <<issued, valid, lost>>

Idle == [at |-> "idle", sent |-> 0, answer |-> 0, polls |-> 0]
Call == [at : {"idle", "ask", "answered", "device", "sleep", "poll", "ok", "failed"},
         sent : 0..Issues, answer : 0..Issues, polls : 0..Polls]

AuthTypeOK ==
  /\ auth \in Config /\ header \in Scheme \cup {"none"} /\ access \in {"none", "fresh", "stale"} /\ refresh \in 0..Issues
  /\ call \in [Caller -> Call] /\ issued \in 0..Issues /\ valid \subseteq RefreshToken
  /\ lost \in BOOLEAN

(* The configuration. *)

\* getRemoteAuthResolution: the fields that are complete, and the scheme.  No
\* token is dropped, and none comes without an endpoint: it never changes.
HasOidc == auth.endpoint \/ access # "none" \/ refresh # 0
Complete == auth.fields \cup (IF HasOidc THEN {"oidc"} ELSE {})
AuthType == IF auth.type # "" THEN auth.type
            ELSE IF "bearer" \in Complete THEN "bearer"
            ELSE IF "basic" \in Complete THEN "basic"
            ELSE IF "oidc" \in Complete THEN "oidc" ELSE ""

\* applyRemoteAuthHeaders: only over HTTPS, and nothing in place of
\* credentials that are incomplete.
Header == IF /\ auth.https
             /\ \/ AuthType \in {"basic", "bearer"} \cap auth.fields
                \/ AuthType = "oidc" /\ access # "none"
          THEN AuthType ELSE "none"

\* getOidcGrantType
ConfiguredGrant == IF auth.grant # "" THEN auth.grant
                   ELSE IF refresh # 0 THEN "refresh_token"
                   ELSE IF auth.device THEN "device_code" ELSE "client_credentials"

\* determineGrantType
Grant == IF \/ ConfiguredGrant = "refresh_token" /\ refresh = 0
            \/ ConfiguredGrant = "device_code" /\ ~auth.device
            \/ ConfiguredGrant = "unsupported"
         THEN "client_credentials" ELSE ConfiguredGrant

\* initializeRemoteOidcStateFromConfiguration: a configured access token, which
\* has a TTL, and token 1 for the refresh token.
ConfiguredTokens == access \in {"none", "fresh"} /\ refresh \in {0, 1}

\* initWatcher creates the client.  Without OIDC the grant and the device URL
\* do not matter.
AuthInit ==
  /\ auth \in Config
  /\ ConfiguredTokens
  /\ AuthType # "oidc" \/ ~auth.endpoint => auth.grant = "" /\ ~auth.device
  /\ header = Header
  /\ call = [c \in Caller |-> Idle]
  /\ issued = refresh /\ valid = {refresh} \ {0}
  /\ lost = FALSE

-------------------------------------------------------------------------------
(* ensureRemoteAuthHeaders. *)

\* isRemoteOidcTokenRefreshRequired
RefreshRequired == access # "fresh"

Begins(c, at, sent) ==
  call' = [call EXCEPT ![c] = [at |-> at, sent |-> sent, answer |-> 0, polls |-> 0]]

\* The call goes on; `sent` stays what it was.
Goes(c, at, answer, polls) ==
  call' = [call EXCEPT ![c] = [at |-> at, sent |-> call[c].sent, answer |-> answer, polls |-> polls]]
Move(c, at) == Goes(c, at, call[c].answer, call[c].polls)

\* buildTokenRequestBody
Sent == IF Grant = "refresh_token" THEN refresh ELSE 0

\* Up to the first request; with another scheme there is nothing to do.
Ensure(c) ==
  /\ call[c].at = "idle" /\ AuthType = "oidc" /\ auth.https
  /\ \/ ~RefreshRequired /\ Begins(c, "ok", 0)
     \/ RefreshRequired /\ ~auth.endpoint /\ Begins(c, "failed", 0)
     \/ RefreshRequired /\ auth.endpoint
        /\ IF Grant = "device_code" THEN Begins(c, "device", 0) ELSE Begins(c, "ask", Sent)
  /\ UNCHANGED <<client, access, refresh, provider>>

\* The endpoint issues a refresh token, in exchange for those in `spent`.
Issue(spent) == /\ issued < Issues /\ issued' = issued + 1
                /\ valid' = (valid \ spent) \cup {issued'}

\* The token endpoint: a refresh token is good for one exchange, client
\* credentials give no refresh token.
Answer(c) ==
  /\ call[c].at = "ask"
  /\ \/ /\ call[c].sent \in valid /\ Issue({call[c].sent})
        /\ Goes(c, "answered", issued', call[c].polls)
     \/ call[c].sent = 0 /\ Move(c, "answered") /\ UNCHANGED <<issued, valid>>
     \/ Move(c, "failed") /\ UNCHANGED <<issued, valid>>   \* refused, or down
  /\ UNCHANGED <<client, access, refresh, lost>>

\* Mutant: the refresh token that came with the access token is not kept.
ApplyAccess(c, new) == /\ access' = "fresh"
                       /\ UNCHANGED refresh
                       /\ Goes(c, "ok", 0, call[c].polls)

\* applyRemoteOidcTokenPayload
Apply(c, new) == /\ access' = "fresh"
                 /\ refresh' = IF new # 0 THEN new ELSE refresh
                 /\ Goes(c, "ok", 0, call[c].polls)

Answered(c) == /\ call[c].at = "answered" /\ Apply(c, call[c].answer)
               /\ UNCHANGED <<client, provider>>

\* The answer does not come before the time-out of the request.
AnswerLost(c) == /\ call[c].at = "answered"
                 /\ Goes(c, "failed", 0, call[c].polls)
                 /\ lost' = (lost \/ call[c].answer # 0)
                 /\ UNCHANGED <<client, access, refresh, issued, valid>>

\* performDeviceCodeFlow: a device code, or none.
DeviceCode(c) == /\ call[c].at = "device"
                 /\ Move(c, "sleep") \/ Move(c, "failed")
                 /\ UNCHANGED <<client, access, refresh, provider>>

\* Mutant: polling has no end.
NeverTimedOut(c) == FALSE

TimedOut(c) == call[c].polls = Polls

\* pollDeviceCodeToken: it sleeps before each poll, until its deadline.
Sleep(c) == /\ call[c].at = "sleep"
            /\ Move(c, IF TimedOut(c) THEN "failed" ELSE "poll")
            /\ UNCHANGED <<client, access, refresh, provider>>

(***************************************************************************)
(* A poll: the user has authorized the device,                             *)
(* with or without a refresh token; or not yet (authorization_pending,     *)
(* slow_down, an answer without a token); or the code expired, access was  *)
(* denied, the request failed.                                             *)
(***************************************************************************)
Poll(c) ==
  /\ call[c].at = "poll"
  /\ \/ Issue({}) /\ Apply(c, issued') /\ UNCHANGED lost
     \/ Apply(c, 0) /\ UNCHANGED provider
     \/ /\ Goes(c, "sleep", call[c].answer, IF call[c].polls < Polls THEN call[c].polls + 1 ELSE Polls)
        /\ UNCHANGED <<access, refresh, provider>>
     \/ Move(c, "failed") /\ UNCHANGED <<access, refresh, provider>>
  /\ UNCHANGED client

\* setRemoteAuthorizationHeader, and the caller goes on; or it gets the error.
Return(c) == /\ call[c].at \in {"ok", "failed"}
             /\ call' = [call EXCEPT ![c] = Idle]
             /\ header' = IF call[c].at = "ok" THEN "oidc" ELSE header
             /\ UNCHANGED <<auth, access, refresh, provider>>

\* The access token comes within the refresh window of its end.
Expire == /\ access = "fresh" /\ access' = "stale"
          /\ UNCHANGED <<client, refresh, call, provider>>

AuthStep(c) == \/ Answer(c) \/ Answered(c) \/ AnswerLost(c) \/ DeviceCode(c)
               \/ Sleep(c) \/ Poll(c) \/ Return(c)

AuthNext == Expire \/ \E c \in Caller : Ensure(c) \/ AuthStep(c)

AuthSpec == AuthInit /\ [][AuthNext]_authVars

\* Requests have time-outs and sleeps end.
AuthFairness == \A c \in Caller : WF_authVars(AuthStep(c))

-------------------------------------------------------------------------------
(***************************************************************************)
(* KeepsRefreshToken: as long as no answer with a new refresh token was    *)
(* lost, a refresh token the watcher holds while no exchange is under way  *)
(* is one that the endpoint still accepts, however many callers exchange   *)
(* it at once and in whatever order their answers are applied.  With an    *)
(* invalid one every later refresh fails: there is no fall-back.           *)
(***************************************************************************)
KeepsRefreshToken ==
  ~lost /\ refresh # 0 /\ (\A c \in Caller : call[c].at # "answered") => refresh \in valid

(***************************************************************************)
(* CallsEnd: a call of ensureRemoteAuthHeaders returns, with a token or an *)
(* error, even when the user never enters the device code.                 *)
(***************************************************************************)
CallsEnd == \A c \in Caller : call[c].at # "idle" ~> call[c].at = "idle"
================================================================================
