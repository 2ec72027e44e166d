---------------------------- MODULE ServiceToken ----------------------------
(***************************************************************************)
(* NotificationGrpcAdapter.sendOtp and the service-account token it sends: *)
(* KeycloakSaTokenService caches one token, and any number of callers may  *)
(* be fetching one at the same time.                                       *)
(*                                                                         *)
(* Keycloak and the notification platform are external. A token is valid   *)
(* for its lifetime from the moment Keycloak issues it, which is some time *)
(* after getToken() read the clock and some time before the answer is in.  *)
(***************************************************************************)
EXTENDS Integers, FiniteSets

CONSTANTS Senders,      \* concurrent sendOtp calls
          Lifetimes,    \* expires_in
          Margin,       \* the 10 s taken off
          NoSaToken,
          MaxSaTime     \* bound

ASSUME SaAssumption == Lifetimes \subseteq Nat /\ Margin \in Nat

VARIABLES configured, \* KEYCLOAK_SA_CLIENT_ID and SECRET are set
          saToken,    \* this.token: when it stops being valid, or NoSaToken
          saExpires,  \* this.expiresAt
          sender,     \* sender -> [stage, now, token, life, servedAt, why]
          saClock

saVars == <<configured, saToken, saExpires, sender, saClock>>

IdleSender == [stage |-> "idle", now |-> 0, token |-> NoSaToken, life |-> 0, servedAt |-> 0, why |-> "none"]

SaInit ==
  /\ configured \in BOOLEAN
  /\ saToken = NoSaToken /\ saExpires = 0
  /\ sender = [c \in Senders |-> IdleSender]
  /\ saClock = 0

\* Max(0, expires_in - 10)
Kept(life) == IF life > Margin THEN life - Margin ELSE 0

\* The token goes into the metadata of the gRPC call.
Served(c, token, why) ==
  sender' = [sender EXCEPT ![c] = [@ EXCEPT !.stage = "sending", !.token = token,
                                            !.servedAt = saClock, !.why = why]]

\* sendOtp with no Keycloak client configured: no token, no authorization header.
SendPlain(c) ==
  /\ sender[c].stage = "idle" /\ ~configured
  /\ Served(c, NoSaToken, "unconfigured")
  /\ UNCHANGED <<configured, saToken, saExpires, saClock>>

\* getToken: from the cache...
GetTokenCached(c) ==
  /\ sender[c].stage = "idle" /\ configured
  /\ saToken # NoSaToken /\ saClock < saExpires
  /\ Served(c, saToken, "cached")
  /\ UNCHANGED <<configured, saToken, saExpires, saClock>>

\* ... or by a fetch of its own, whoever else is fetching.
GetTokenFetch(c) ==
  /\ sender[c].stage = "idle" /\ configured
  /\ ~(saToken # NoSaToken /\ saClock < saExpires)
  /\ sender' = [sender EXCEPT ![c] = [@ EXCEPT !.stage = "fetching", !.now = saClock]]
  /\ UNCHANGED <<configured, saToken, saExpires, saClock>>

KeycloakIssues(c) ==
  /\ sender[c].stage = "fetching"
  /\ \E life \in Lifetimes :
       sender' = [sender EXCEPT ![c] = [@ EXCEPT !.stage = "issued", !.token = saClock + life, !.life = life]]
  /\ UNCHANGED <<configured, saToken, saExpires, saClock>>

\* Mutant: the clock is read when the answer is in.
ExpiresAtOnArrival(c) == saClock + Kept(sender[c].life)

\* now was read before the fetch.
ExpiresAt(c) == sender[c].now + Kept(sender[c].life)

\* The answer overwrites what another fetch stored in the meantime.
TokenArrives(c) ==
  /\ sender[c].stage = "issued"
  /\ saToken' = sender[c].token
  /\ saExpires' = ExpiresAt(c)
  /\ Served(c, sender[c].token, "fetched")
  /\ UNCHANGED <<configured, saClock>>

\* Not ok: getToken throws, sendOtp goes on without a token.
FetchFails(c) ==
  /\ sender[c].stage = "fetching"
  /\ Served(c, NoSaToken, "failed")
  /\ UNCHANGED <<configured, saToken, saExpires, saClock>>

Valid(token) == token # NoSaToken /\ saClock < token

\* The platform takes or refuses the call; sendOtp answers {sent: true} anyway.
Send(c) ==
  /\ sender[c].stage = "sending"
  /\ sender' = [sender EXCEPT ![c].stage = IF Valid(sender[c].token) \/ ~configured THEN "sent" ELSE "refused"]
  /\ UNCHANGED <<configured, saToken, saExpires, saClock>>

SendAgain(c) ==
  /\ sender[c].stage \in {"sent", "refused"}
  /\ sender' = [sender EXCEPT ![c] = IdleSender]
  /\ UNCHANGED <<configured, saToken, saExpires, saClock>>

SaTick ==
  /\ saClock < MaxSaTime /\ saClock' = saClock + 1
  /\ UNCHANGED <<configured, saToken, saExpires, sender>>

SaNext ==
  \/ \E c \in Senders : \/ SendPlain(c) \/ GetTokenCached(c) \/ GetTokenFetch(c) \/ KeycloakIssues(c)
                        \/ TokenArrives(c) \/ FetchFails(c) \/ Send(c) \/ SendAgain(c)
  \/ SaTick

SaSpec == SaInit /\ [][SaNext]_saVars

-----------------------------------------------------------------------------
\* A token from the cache is good for the margin it was served with: whichever of
\* several fetches stored it last, and however slow its answer was, a call that
\* reaches the platform within the margin is not refused.
CachedTokenLasts ==
  \A c \in Senders : sender[c].why = "cached" =>
    /\ sender[c].servedAt + Margin <= sender[c].token
    /\ sender[c].stage = "refused" => saClock >= sender[c].servedAt + Margin
=============================================================================
