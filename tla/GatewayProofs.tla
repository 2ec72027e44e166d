---------------------------- MODULE GatewayProofs ---------------------------
(***************************************************************************)
(* Proofs about what a request meets on its way through the gateway, for   *)
(* every number of requests, calls, users and edits, and every exception.  *)
(***************************************************************************)
EXTENDS PortConfig, ServiceToken, PortHttp, SignIn, CustomerDirectory, HttpPipeline,
        Authorization, FiniteSetTheorems, TLAPS

-----------------------------------------------------------------------------
(* PortConfig *)

\* The loads of a service that is coming up are of the first file; afterwards a
\* load is started by a notice, and a notice by an edit.
LoadsInOrder ==
  /\ process = "starting" =>
       /\ notices = 0 /\ config = NoConfig /\ portTier = "unregistered"
       /\ \A r, s \in reads : r = s
  /\ process = "dead" => reads = {} /\ portTier = "unregistered"
  /\ process # "starting" /\ reads # {} => file.version > 1
  /\ notices > 0 => file.version > 1

\* Without overlap and read failures there is one load at a time, and with no notice
\* left it is, or was, of the file on disk.
LoadsAreCurrent ==
  ~excused =>
    /\ \A r, s \in reads : r = s
    /\ process = "starting" => reads = {file}
    /\ process = "up" /\ notices = 0 =>
         /\ \A r \in reads : r = file
         /\ reads = {} /\ Usable(file) => config = file

\* A registered port has the tier of the map it found, and only an edit replaces it.
TierIsKept ==
  portTier # "unregistered" =>
    portTier = TierOf(registeredOn) /\ (config # registeredOn => file.version > 1)

ConfigTyped ==
  /\ file \in Version /\ notices \in Nat /\ reads \subseteq Version
  /\ config \in Version \cup {NoConfig}
  /\ process \in {"starting", "up", "dead"}
  /\ production \in BOOLEAN

ConfigInv == ConfigTyped /\ LoadsInOrder /\ LoadsAreCurrent /\ ConfigIsValid /\ TierIsKept

\* An edit changes the file and, once the watcher runs, leaves a notice.
LEMMA EditKeepsConfig == ASSUME ConfigInv, Edit PROVE ConfigInv'
<1> USE DEF ConfigInv, ConfigTyped, LoadsInOrder, LoadsAreCurrent, ConfigIsValid, TierIsKept
<1>1. PICK c \in FileContents : file' = [version |-> file.version + 1, content |-> c]
  BY DEF Edit
<1>2. file' \in Version /\ file'.version > 1
  BY <1>1 DEF Version
<1>3. notices' \in Nat /\ (process = "up" => notices' > 0) /\ (process # "up" => notices' = notices)
  BY DEF Edit
<1>4. /\ UNCHANGED <<production, reads, config, process, portTier, registeredOn>>
      /\ ~excused' => ~excused /\ process # "starting"
      /\ process # "dead"
  BY DEF Edit
<1> QED BY <1>2, <1>3, <1>4

\* A notice starts a load of what is on disk.
LEMMA ReloadKeepsConfig == ASSUME ConfigInv, Reload PROVE ConfigInv'
<1> USE DEF ConfigInv, ConfigTyped, LoadsInOrder, LoadsAreCurrent, ConfigIsValid, TierIsKept
<1>1. /\ UNCHANGED <<production, file, config, process, portTier, registeredOn>>
      /\ reads' = reads \cup {file} /\ process = "up" /\ notices > 0
      /\ ~excused' => ~excused /\ reads = {}
  BY DEF Reload
<1>2. notices' \in Nat
  BY DEF Reload
<1> QED BY <1>1, <1>2

\* A load that ends installs a usable file and leaves the map alone otherwise; the
\* service that cannot come up dies with its first load.
LEMMA LoadKeepsConfig == ASSUME ConfigInv, NEW r \in reads, Load(r) PROVE ConfigInv'
<1> USE DEF ConfigInv, ConfigTyped, LoadsInOrder, LoadsAreCurrent, ConfigIsValid, TierIsKept
<1>1. /\ UNCHANGED <<production, file, notices, portTier, registeredOn, excused>>
      /\ reads' = reads \ {r} /\ r \in Version
  BY DEF Load
<1>2. config' = IF Usable(r) THEN r ELSE config
  BY DEF Load, Installs
<1>3. r # NoConfig
  BY <1>1, ConfigAssumption DEF ConfigAssumption
<1>4. CASE process = "starting"
  <2>1. process' = IF Usable(r) \/ (r.content.verdict = "mismatch" /\ production) THEN "up" ELSE "dead"
    BY <1>4 DEF Load, ComesUp
  <2>2. reads' = {} /\ (~excused => r = file)
    BY <1>1, <1>4
  <2>3. portTier' = "unregistered" /\ config = NoConfig
    BY <1>1, <1>4
  <2> QED BY <1>1, <1>2, <1>3, <1>4, <2>1, <2>2, <2>3
<1>5. CASE process # "starting"
  <2>1. process' = process /\ process = "up"
    BY <1>5 DEF Load
  <2>2. ~excused => reads' = {}
    BY <1>1
  <2>3. file.version > 1
    BY <1>5
  <2> QED BY <1>1, <1>2, <1>3, <1>5, <2>1, <2>2, <2>3
<1> QED BY <1>4, <1>5

\* A file that cannot be read ends the boot, or the reload.
LEMMA ReadFailsKeepsConfig == ASSUME ConfigInv, NEW r \in reads, ReadFails(r) PROVE ConfigInv'
<1> USE DEF ConfigInv, ConfigTyped, LoadsInOrder, LoadsAreCurrent, ConfigIsValid, TierIsKept
<1>1. /\ UNCHANGED <<production, file, notices, config, portTier, registeredOn>>
      /\ reads' = reads \ {r} /\ excused'
      /\ process' = IF process = "starting" THEN "dead" ELSE process
  BY DEF ReadFails
<1>2. process = "starting" => reads' = {}
  BY <1>1
<1> QED BY <1>1, <1>2

\* register() takes what the map says at that moment.
LEMMA RegisterKeepsConfig == ASSUME ConfigInv, RegisterPort PROVE ConfigInv'
<1> USE DEF ConfigInv, ConfigTyped, LoadsInOrder, LoadsAreCurrent, ConfigIsValid, TierIsKept
<1>1. /\ UNCHANGED <<production, file, notices, reads, config, process, excused>>
      /\ portTier' = TierOf(config) /\ registeredOn' = config /\ process = "up"
  BY DEF RegisterPort
<1> QED BY <1>1

\* Edits, the watcher, overlapping reloads and failing reads in any order
\* (EndpointConfigService, PortRegistry.register and execute): the map in use is a
\* valid file's, calls use the adapter of the current one once all is quiet, and a port
\* keeps the tier of the map it was registered on.
THEOREM ConfigIsSafe == ConfigSpec => []ConfigSafe
<1>1. ConfigInit => ConfigInv
  BY DEF ConfigInit, ConfigInv, ConfigTyped, LoadsInOrder, LoadsAreCurrent, ConfigIsValid,
     TierIsKept, Version
<1>2. ConfigInv /\ [ConfigNext]_configVars => ConfigInv'
  <2> SUFFICES ASSUME ConfigInv, [ConfigNext]_configVars PROVE ConfigInv'
    OBVIOUS
  <2>1. CASE UNCHANGED configVars
    BY <2>1 DEF configVars, ConfigInv, ConfigTyped, LoadsInOrder, LoadsAreCurrent,
       ConfigIsValid, TierIsKept
  <2> QED BY <2>1, EditKeepsConfig, ReloadKeepsConfig, LoadKeepsConfig, ReadFailsKeepsConfig,
             RegisterKeepsConfig
          DEF ConfigNext
<1>3. ConfigInv => ConfigSafe
  <2> SUFFICES ASSUME ConfigInv PROVE ConfigSafe
    OBVIOUS
  <2>1. SettledIsCurrent
    <3>1. file # NoConfig
      BY ConfigAssumption DEF ConfigAssumption, ConfigInv, ConfigTyped
    <3> QED BY <3>1 DEF ConfigInv, LoadsAreCurrent, SettledIsCurrent, AdapterUsed,
                        HasEndpointConfig
  <2>2. RegisteredFromFile
    BY DEF ConfigInv, TierIsKept, RegisteredFromFile
  <2> QED BY <2>1, <2>2 DEF ConfigInv, ConfigSafe
<1> QED BY <1>1, <1>2, <1>3, PTL DEF ConfigSpec

-----------------------------------------------------------------------------
(* ServiceToken *)

Sender == [stage : {"idle", "fetching", "issued", "sending", "sent", "refused"}, now : Nat,
           token : Nat \cup {NoSaToken}, life : Nat, servedAt : Nat,
           why : {"none", "unconfigured", "cached", "fetched", "failed"}]

\* A fetch read the clock before Keycloak issued its token, and a cached token had
\* the margin left when it was served.
SenderOK(s, t) ==
  /\ s.stage \in {"idle", "fetching", "issued"} => s.why # "cached"
  /\ s.stage \in {"fetching", "issued"} => s.now <= t
  /\ s.stage = "issued" => s.token \in Nat /\ s.now + s.life <= s.token
  /\ s.why = "cached" =>
       /\ s.token \in Nat /\ s.token # NoSaToken /\ s.servedAt + Margin <= s.token
       /\ s.stage = "refused" => t >= s.servedAt + Margin

\* What is cached is not served any more, or outlives expiresAt by the margin.
CacheOK ==
  /\ saToken \in Nat \cup {NoSaToken} /\ saExpires \in Nat /\ saClock \in Nat
  /\ saToken # NoSaToken => saExpires <= saClock \/ saExpires + Margin <= saToken

SaInv ==
  /\ CacheOK
  /\ sender \in [Senders -> Sender]
  /\ \A c \in Senders : SenderOK(sender[c], saClock)

\* A step that changes one sender and leaves the cache and the clock alone.
LEMMA SenderStep ==
  ASSUME SaInv, NEW c \in Senders, NEW s \in Sender, sender' = [sender EXCEPT ![c] = s],
         SenderOK(s, saClock), UNCHANGED saClock, CacheOK'
  PROVE  SaInv'
<1>1. sender' \in [Senders -> Sender]
  BY DEF SaInv
<1>2. ASSUME NEW d \in Senders PROVE SenderOK(sender'[d], saClock)
  BY <1>2 DEF SaInv
<1> QED BY <1>1, <1>2 DEF SaInv

\* getToken and what goes on in it and after it, for one caller.
LEMMA SenderKeepsSa ==
  ASSUME SaInv, NEW c \in Senders,
         \/ SendPlain(c) \/ GetTokenCached(c) \/ GetTokenFetch(c) \/ KeycloakIssues(c)
         \/ TokenArrives(c) \/ FetchFails(c) \/ Send(c) \/ SendAgain(c)
  PROVE  SaInv'
<1> USE SaAssumption DEF SaAssumption
<1>1. sender \in [Senders -> Sender] /\ sender[c] \in Sender /\ SenderOK(sender[c], saClock)
  BY DEF SaInv
<1>2. saClock \in Nat /\ CacheOK
  BY DEF SaInv, CacheOK
<1>3. CASE SendPlain(c)
  <2>1. PICK s : s = [sender[c] EXCEPT !.stage = "sending", !.token = NoSaToken,
                                       !.servedAt = saClock, !.why = "unconfigured"]
    OBVIOUS
  <2>2. s \in Sender /\ SenderOK(s, saClock)
    BY <1>1, <1>2, <2>1 DEF Sender, SenderOK
  <2>3. sender' = [sender EXCEPT ![c] = s]
    BY <1>3, <2>1 DEF SendPlain, Served
  <2>4. CacheOK' /\ UNCHANGED saClock
    BY <1>2, <1>3 DEF SendPlain, CacheOK
  <2> QED BY <2>2, <2>3, <2>4, SenderStep
<1>4. CASE GetTokenCached(c)
  <2>1. PICK s : s = [sender[c] EXCEPT !.stage = "sending", !.token = saToken,
                                       !.servedAt = saClock, !.why = "cached"]
    OBVIOUS
  <2>2. saToken \in Nat /\ saToken # NoSaToken /\ saClock + Margin <= saToken
    BY <1>2, <1>4 DEF GetTokenCached, CacheOK
  <2>3. s \in Sender /\ SenderOK(s, saClock)
    BY <1>1, <1>2, <2>1, <2>2 DEF Sender, SenderOK
  <2>4. sender' = [sender EXCEPT ![c] = s]
    BY <1>4, <2>1 DEF GetTokenCached, Served
  <2>5. CacheOK' /\ UNCHANGED saClock
    BY <1>2, <1>4 DEF GetTokenCached, CacheOK
  <2> QED BY <2>3, <2>4, <2>5, SenderStep
<1>5. CASE GetTokenFetch(c)
  <2>1. PICK s : s = [sender[c] EXCEPT !.stage = "fetching", !.now = saClock]
    OBVIOUS
  <2>2. sender[c].why # "cached"
    BY <1>1, <1>5 DEF SenderOK, GetTokenFetch
  <2>3. s \in Sender /\ s.stage = "fetching" /\ s.now = saClock /\ s.why = sender[c].why
    BY <1>1, <1>2, <2>1 DEF Sender
  <2>4. s \in Sender /\ SenderOK(s, saClock)
    BY <1>2, <2>2, <2>3 DEF SenderOK
  <2>5. sender' = [sender EXCEPT ![c] = s]
    BY <1>5, <2>1 DEF GetTokenFetch
  <2>6. CacheOK' /\ UNCHANGED saClock
    BY <1>2, <1>5 DEF GetTokenFetch, CacheOK
  <2> QED BY <2>4, <2>5, <2>6, SenderStep
<1>6. CASE KeycloakIssues(c)
  <2>1. PICK life \in Lifetimes :
          sender' = [sender EXCEPT ![c] = [@ EXCEPT !.stage = "issued", !.token = saClock + life,
                                                    !.life = life]]
    BY <1>6 DEF KeycloakIssues
  <2>2. PICK s : s = [sender[c] EXCEPT !.stage = "issued", !.token = saClock + life, !.life = life]
    OBVIOUS
  <2>3. life \in Nat /\ saClock + life \in Nat
    BY <1>2
  <2>4. sender[c].why # "cached" /\ sender[c].now \in Nat /\ sender[c].now <= saClock
    BY <1>1, <1>6 DEF Sender, SenderOK, KeycloakIssues
  <2>5. /\ s \in Sender /\ s.stage = "issued" /\ s.why = sender[c].why /\ s.now = sender[c].now
        /\ s.token = saClock + life /\ s.life = life
    BY <1>1, <2>2, <2>3 DEF Sender
  <2>6. s \in Sender /\ SenderOK(s, saClock)
    BY <1>2, <2>3, <2>4, <2>5 DEF SenderOK
  <2>7. sender' = [sender EXCEPT ![c] = s]
    BY <2>1, <2>2
  <2>8. CacheOK' /\ UNCHANGED saClock
    BY <1>2, <1>6 DEF KeycloakIssues, CacheOK
  <2> QED BY <2>6, <2>7, <2>8, SenderStep
<1>7. CASE TokenArrives(c)
  <2>1. PICK s : s = [sender[c] EXCEPT !.stage = "sending", !.token = sender[c].token,
                                       !.servedAt = saClock, !.why = "fetched"]
    OBVIOUS
  <2>2. s \in Sender /\ SenderOK(s, saClock)
    BY <1>1, <1>2, <2>1 DEF Sender, SenderOK
  <2>3. sender' = [sender EXCEPT ![c] = s]
    BY <1>7, <2>1 DEF TokenArrives, Served
  <2>4. /\ sender[c].now \in Nat /\ sender[c].life \in Nat /\ sender[c].token \in Nat
        /\ sender[c].now <= saClock /\ sender[c].now + sender[c].life <= sender[c].token
    BY <1>1, <1>7 DEF TokenArrives, Sender, SenderOK
  <2>5. CacheOK' /\ UNCHANGED saClock
    BY <1>2, <1>7, <2>4 DEF TokenArrives, ExpiresAt, Kept, CacheOK
  <2> QED BY <2>2, <2>3, <2>5, SenderStep
<1>8. CASE FetchFails(c)
  <2>1. PICK s : s = [sender[c] EXCEPT !.stage = "sending", !.token = NoSaToken,
                                       !.servedAt = saClock, !.why = "failed"]
    OBVIOUS
  <2>2. s \in Sender /\ SenderOK(s, saClock)
    BY <1>1, <1>2, <2>1 DEF Sender, SenderOK
  <2>3. sender' = [sender EXCEPT ![c] = s]
    BY <1>8, <2>1 DEF FetchFails, Served
  <2>4. CacheOK' /\ UNCHANGED saClock
    BY <1>2, <1>8 DEF FetchFails, CacheOK
  <2> QED BY <2>2, <2>3, <2>4, SenderStep
<1>9. CASE Send(c)
  <2>1. PICK end \in {"sent", "refused"} :
          /\ sender' = [sender EXCEPT ![c].stage = end]
          /\ end = "refused" => ~Valid(sender[c].token)
    BY <1>9 DEF Send
  <2>2. PICK s : s = [sender[c] EXCEPT !.stage = end]
    OBVIOUS
  <2>3. s \in Sender /\ SenderOK(s, saClock)
    BY <1>1, <1>2, <2>1, <2>2 DEF Sender, SenderOK, Valid
  <2>4. sender' = [sender EXCEPT ![c] = s]
    BY <2>1, <2>2
  <2>5. CacheOK' /\ UNCHANGED saClock
    BY <1>2, <1>9 DEF Send, CacheOK
  <2> QED BY <2>3, <2>4, <2>5, SenderStep
<1>10. CASE SendAgain(c)
  <2>1. IdleSender \in Sender /\ SenderOK(IdleSender, saClock)
    BY DEF IdleSender, Sender, SenderOK
  <2>2. sender' = [sender EXCEPT ![c] = IdleSender] /\ CacheOK' /\ UNCHANGED saClock
    BY <1>2, <1>10 DEF SendAgain, CacheOK
  <2> QED BY <2>1, <2>2, SenderStep
<1> QED BY <1>3, <1>4, <1>5, <1>6, <1>7, <1>8, <1>9, <1>10

\* Time only passes.
LEMMA TickKeepsSa == ASSUME SaInv, SaTick PROVE SaInv'
<1>1. saClock \in Nat /\ saClock' = saClock + 1 /\ UNCHANGED <<saToken, saExpires, sender>>
  BY DEF SaInv, CacheOK, SaTick
<1>2. CacheOK'
  BY <1>1, SaAssumption DEF SaAssumption, SaInv, CacheOK
<1>3. ASSUME NEW c \in Senders PROVE SenderOK(sender[c], saClock + 1)
  <2>1. sender[c] \in Sender /\ SenderOK(sender[c], saClock)
    BY DEF SaInv
  <2> QED BY <1>1, <2>1, SaAssumption DEF SaAssumption, Sender, SenderOK
<1> QED BY <1>1, <1>2, <1>3 DEF SaInv

\* Any number of concurrent fetches, of any speed and any expires_in
\* (KeycloakSaTokenService.getToken): a token from the cache is good for the margin.
THEOREM CachedTokensLast == SaSpec => []CachedTokenLasts
<1>1. SaInit => SaInv
  BY DEF SaInit, SaInv, CacheOK, IdleSender, Sender, SenderOK
<1>2. SaInv /\ [SaNext]_saVars => SaInv'
  <2> SUFFICES ASSUME SaInv, [SaNext]_saVars PROVE SaInv'
    OBVIOUS
  <2>1. CASE UNCHANGED saVars
    BY <2>1 DEF saVars, SaInv, CacheOK
  <2> QED BY <2>1, SenderKeepsSa, TickKeepsSa DEF SaNext
<1>3. SaInv => CachedTokenLasts
  BY DEF SaInv, SenderOK, CachedTokenLasts
<1> QED BY <1>1, <1>2, <1>3, PTL DEF SaSpec

-----------------------------------------------------------------------------
(* PortHttp *)

HttpCall == [op : Operations, correlation : Correlations \cup {NoCorrelation}, user : BOOLEAN,
             stage : {"idle", "waiting", "retrying", "done"},
             result : {"none", "ok", "401", "4xx", "5xx", "no answer"}]

KeyOf(c) == IdempotencyKey(call[c].op, call[c].correlation)
Untold(c) == call[c].stage # "idle" /\ call[c].result \in {"none", "no answer"}
Untouched(c) == effects[c] = 0 /\ c \notin swallowed

HttpTyped ==
  /\ call \in [HttpCalls -> HttpCall]
  /\ effects \in [HttpCalls -> {0, 1}] /\ swallowed \subseteq HttpCalls
  /\ accepted \in {{"current"}, {"current", "next"}, {"next"}}

\* A request under way has had no effect yet and its caller was told nothing.
MessageOK(m) ==
  /\ m.call \in HttpCalls /\ Untold(m.call) /\ Untouched(m.call)
  /\ m.key = KeyOf(m.call) /\ (m.retry => m.token = Sign)

\* An answer under way is true and its caller was told nothing.
ReplyOK(r) ==
  /\ r.call \in HttpCalls /\ Untold(r.call)
  /\ r.status = 200 => ~Untouched(r.call)
  /\ r.status \in {401, 404} => Untouched(r.call)
  /\ r.status = 401 /\ r.retry => "current" \notin accepted

\* A call has one message or one answer under way, not both.
OneItem ==
  /\ \A m, n \in inFlight : m.call = n.call => m = n
  /\ \A r, s \in replies : r.call = s.call => r = s
  /\ \A m \in inFlight, r \in replies : m.call # r.call

CallOK(c) ==
  /\ call[c].stage = "idle" => Untouched(c)
  /\ call[c].stage # "done" => call[c].result = "none"
  /\ call[c].result = "ok" => ~Untouched(c)
  /\ call[c].result \in {"401", "4xx"} => Untouched(c)
  /\ call[c].result = "401" /\ call[c].user => "current" \notin accepted

\* A key downstream has seen is that of a call it applied.
KeysHaveCalls ==
  \A k \in seenKeys : k # NoKey /\ \E d \in HttpCalls : effects[d] = 1 /\ KeyOf(d) = k

HttpInv ==
  /\ HttpTyped /\ OneItem /\ KeysHaveCalls /\ SwallowedHasCause
  /\ \A m \in inFlight : MessageOK(m)
  /\ \A r \in replies : ReplyOK(r)
  /\ \A c \in HttpCalls : CallOK(c)

\* Calls that stay what they are keep what is known of downstream's keys.
LEMMA CausesStay ==
  ASSUME HttpInv, HttpTyped',
         \A d \in HttpCalls : call[d].stage # "idle" =>
           call'[d].op = call[d].op /\ call'[d].correlation = call[d].correlation,
         UNCHANGED <<seenKeys, effects, swallowed>>
  PROVE  KeysHaveCalls' /\ SwallowedHasCause'
<1>1. \A d \in HttpCalls : effects[d] = 1 \/ d \in swallowed => call[d].stage # "idle"
  BY DEF HttpInv, CallOK, Untouched
<1>2. KeysHaveCalls'
  BY <1>1 DEF HttpInv, KeysHaveCalls, KeyOf
<1>3. swallowed \subseteq HttpCalls
  BY DEF HttpInv, HttpTyped
<1>4. SwallowedHasCause'
  BY <1>1, <1>3 DEF HttpInv, SwallowedHasCause
<1> QED BY <1>2, <1>4

\* What is known of a call stays known when a step is not about it.
LEMMA OtherCall ==
  ASSUME HttpInv, NEW d \in HttpCalls,
         call'[d] = call[d], effects'[d] = effects[d], d \in swallowed' <=> d \in swallowed,
         "current" \notin accepted => "current" \notin accepted'
  PROVE  /\ CallOK(d)'
         /\ \A m \in inFlight : m.call = d => MessageOK(m)'
         /\ \A r \in replies : r.call = d => ReplyOK(r)'
<1>1. (Untold(d)' <=> Untold(d)) /\ (Untouched(d)' <=> Untouched(d)) /\ KeyOf(d)' = KeyOf(d)
  BY DEF Untold, Untouched, KeyOf
<1>2. CallOK(d)'
  BY <1>1 DEF HttpInv, CallOK
<1>3. ASSUME NEW m \in inFlight, m.call = d PROVE MessageOK(m)'
  <2>1. MessageOK(m)
    BY DEF HttpInv
  <2> QED BY <1>1, <1>3, <2>1 DEF MessageOK
<1>4. ASSUME NEW r \in replies, r.call = d PROVE ReplyOK(r)'
  <2>1. ReplyOK(r)
    BY DEF HttpInv
  <2> QED BY <1>1, <1>4, <2>1 DEF ReplyOK
<1> QED BY <1>2, <1>3, <1>4

\* request() puts a first message under way.
LEMMA RequestKeepsHttp == ASSUME HttpInv, NEW c \in HttpCalls, HttpRequest(c) PROVE HttpInv'
<1>1. PICK op \in Operations, correlation \in Correlations \cup {NoCorrelation},
           user \in BOOLEAN, cachedExpired \in BOOLEAN :
        /\ call' = [call EXCEPT ![c] = [op |-> op, correlation |-> correlation, user |-> user,
                                        stage |-> "waiting", result |-> "none"]]
        /\ Fetch(c, FALSE, IF user THEN [Sign EXCEPT !.expired = cachedExpired] ELSE NoToken,
                 op, correlation)
  BY DEF HttpRequest
<1>2. PICK x : x = [op |-> op, correlation |-> correlation, user |-> user,
                    stage |-> "waiting", result |-> "none"]
  OBVIOUS
<1>3. /\ x \in HttpCall /\ x.stage = "waiting" /\ x.result = "none"
      /\ x.op = op /\ x.correlation = correlation
  BY <1>2 DEF HttpCall
<1>4. call \in [HttpCalls -> HttpCall] /\ call' = [call EXCEPT ![c] = x] /\ call[c].stage = "idle"
  BY <1>1, <1>2 DEF HttpInv, HttpTyped, HttpRequest
<1>5. PICK m : m = [call |-> c, retry |-> FALSE,
                    token |-> IF user THEN [Sign EXCEPT !.expired = cachedExpired] ELSE NoToken,
                    key |-> IdempotencyKey(op, correlation)]
  OBVIOUS
<1>6. m.call = c /\ m.retry = FALSE /\ m.key = IdempotencyKey(op, correlation)
  BY <1>5
<1>7. inFlight' = inFlight \cup {m} /\ UNCHANGED <<replies, seenKeys, effects, swallowed, accepted>>
  BY <1>1, <1>5 DEF Fetch, HttpRequest
<1>8. call' \in [HttpCalls -> HttpCall] /\ call'[c] = x /\ \A d \in HttpCalls \ {c} : call'[d] = call[d]
  BY <1>3, <1>4
<1>9. HttpTyped'
  BY <1>7, <1>8 DEF HttpInv, HttpTyped
<1>10. KeysHaveCalls' /\ SwallowedHasCause'
  BY <1>4, <1>7, <1>8, <1>9, CausesStay
<1>11. Untouched(c) /\ ~Untold(c)
  BY <1>4 DEF HttpInv, CallOK, Untold
<1>12. (\A n \in inFlight : n.call \in HttpCalls \ {c}) /\ (\A r \in replies : r.call \in HttpCalls \ {c})
  BY <1>11 DEF HttpInv, MessageOK, ReplyOK
<1>13. OneItem'
  BY <1>6, <1>7, <1>12 DEF HttpInv, OneItem
<1>14. Untouched(c)' /\ Untold(c)' /\ KeyOf(c)' = m.key
  BY <1>3, <1>6, <1>7, <1>8, <1>11 DEF Untold, Untouched, KeyOf
<1>15. MessageOK(m)'
  BY <1>6, <1>14 DEF MessageOK
<1>16. CallOK(c)'
  BY <1>3, <1>8, <1>14 DEF CallOK
<1> QED BY <1>7, <1>8, <1>9, <1>10, <1>12, <1>13, <1>15, <1>16, OtherCall DEF HttpInv

\* The caller gives up; what is under way goes on.
LEMMA AbortKeepsHttp == ASSUME HttpInv, NEW c \in HttpCalls, Abort(c) PROVE HttpInv'
<1>1. call \in [HttpCalls -> HttpCall] /\ call[c] \in HttpCall /\ call[c].stage \notin {"idle", "done"}
  BY DEF HttpInv, HttpTyped, Abort
<1>2. PICK x : x = [call[c] EXCEPT !.stage = "done", !.result = "no answer"]
  OBVIOUS
<1>3. /\ x \in HttpCall /\ x.stage = "done" /\ x.result = "no answer"
      /\ x.op = call[c].op /\ x.correlation = call[c].correlation
  BY <1>1, <1>2 DEF HttpCall
<1>4. call' = [call EXCEPT ![c] = x] /\ UNCHANGED <<inFlight, replies, seenKeys, effects, swallowed, accepted>>
  BY <1>2 DEF Abort, Ends
<1>5. call' \in [HttpCalls -> HttpCall] /\ call'[c] = x /\ \A d \in HttpCalls \ {c} : call'[d] = call[d]
  BY <1>1, <1>3, <1>4
<1>6. HttpTyped'
  BY <1>4, <1>5 DEF HttpInv, HttpTyped
<1>7. KeysHaveCalls' /\ SwallowedHasCause'
  BY <1>3, <1>4, <1>5, <1>6, CausesStay
<1>8. Untold(c)' /\ (Untouched(c)' <=> Untouched(c)) /\ KeyOf(c)' = KeyOf(c)
  BY <1>3, <1>4, <1>5 DEF Untold, Untouched, KeyOf
<1>9. OneItem'
  BY <1>4 DEF HttpInv, OneItem
<1>10. ASSUME NEW m \in inFlight, m.call = c PROVE MessageOK(m)'
  BY <1>8, <1>10 DEF HttpInv, MessageOK
<1>11. ASSUME NEW r \in replies, r.call = c PROVE ReplyOK(r)'
  <2>1. ReplyOK(r)
    BY DEF HttpInv
  <2> QED BY <1>4, <1>8, <1>11, <2>1 DEF ReplyOK
<1>12. CallOK(c)'
  BY <1>3, <1>5 DEF CallOK
<1>13. (\A m \in inFlight : m.call \in HttpCalls) /\ (\A r \in replies : r.call \in HttpCalls)
  BY DEF HttpInv, MessageOK, ReplyOK
<1> QED BY <1>4, <1>5, <1>6, <1>7, <1>9, <1>10, <1>11, <1>12, <1>13, OtherCall DEF HttpInv

\* Downstream's refusal turns the message into an answer and changes nothing else.
LEMMA RefusesKeepsHttp == ASSUME HttpInv, DownstreamRefuses PROVE HttpInv'
<1>1. PICK m \in inFlight, status \in {401, 404, 503} :
        (status = 401 <=> (m.token = NoToken \/ ~Verify(m.token))) /\ Answers(m, status)
  BY DEF DownstreamRefuses
<1>2. PICK r \in {[call |-> m.call, retry |-> m.retry, status |-> status]} : TRUE
  OBVIOUS
<1>3. r.call = m.call /\ r.retry = m.retry /\ r.status = status
  BY <1>2
<1>4. /\ inFlight' = inFlight \ {m} /\ replies' = replies \cup {r}
      /\ UNCHANGED <<call, seenKeys, effects, swallowed, accepted>>
  BY <1>1, <1>2 DEF Answers, DownstreamRefuses
<1>5. HttpTyped'
  BY <1>4 DEF HttpInv, HttpTyped
<1>6. KeysHaveCalls' /\ SwallowedHasCause'
  BY <1>4, <1>5, CausesStay
<1>7. OneItem'
  BY <1>3, <1>4 DEF HttpInv, OneItem
<1>8. ASSUME status = 401, m.retry PROVE "current" \notin accepted
  <2>1. m.token = Sign
    BY <1>8 DEF HttpInv, MessageOK
  <2>2. Sign.key = "current" /\ Sign.expired = FALSE /\ NoToken.key = "none"
    BY DEF Sign, NoToken
  <2>3. ~Verify(Sign)
    BY <1>1, <1>8, <2>1, <2>2
  <2> QED BY <2>2, <2>3 DEF Verify
<1>9. ReplyOK(r)'
  <2>1. m.call \in HttpCalls /\ Untold(m.call) /\ Untouched(m.call)
    BY DEF HttpInv, MessageOK
  <2>2. Untold(m.call)' /\ Untouched(m.call)'
    BY <1>4, <2>1 DEF Untold, Untouched
  <2>3. status # 200
    BY <1>1
  <2> QED BY <1>3, <1>4, <1>8, <2>1, <2>2, <2>3 DEF ReplyOK
<1>10. (\A n \in inFlight : n.call \in HttpCalls) /\ (\A s \in replies : s.call \in HttpCalls)
  BY DEF HttpInv, MessageOK, ReplyOK
<1> QED BY <1>4, <1>5, <1>6, <1>7, <1>9, <1>10, OtherCall DEF HttpInv

\* Downstream applies a call whose key it has not seen, or takes it for a duplicate.
LEMMA AppliesKeepsHttp == ASSUME HttpInv, DownstreamApplies PROVE HttpInv'
<1>1. PICK m \in inFlight, status \in {200, 503} :
        /\ Answers(m, status)
        /\ IF m.key # NoKey /\ m.key \in seenKeys
           THEN swallowed' = swallowed \cup {m.call} /\ UNCHANGED <<seenKeys, effects>>
           ELSE /\ seenKeys' = seenKeys \cup ({m.key} \ {NoKey})
                /\ effects' = [effects EXCEPT ![m.call] = @ + 1]
                /\ UNCHANGED swallowed
  BY DEF DownstreamApplies
<1>2. PICK r \in {[call |-> m.call, retry |-> m.retry, status |-> status]} : TRUE
  OBVIOUS
<1>3. r.call = m.call /\ r.status = status /\ status # 401 /\ status # 404
  BY <1>1, <1>2
<1>4. /\ inFlight' = inFlight \ {m} /\ replies' = replies \cup {r}
      /\ UNCHANGED <<call, accepted>>
  BY <1>1, <1>2 DEF Answers, DownstreamApplies
<1>5. PICK c \in HttpCalls : c = m.call /\ Untold(c) /\ effects[c] = 0 /\ c \notin swallowed /\ m.key = KeyOf(c)
  BY DEF HttpInv, MessageOK, Untouched
<1>6. effects \in [HttpCalls -> {0, 1}] /\ swallowed \subseteq HttpCalls
  BY DEF HttpInv, HttpTyped
<1>7. /\ effects' \in [HttpCalls -> {0, 1}] /\ swallowed' \subseteq HttpCalls
      /\ effects'[c] = 1 \/ c \in swallowed'
      /\ \A d \in HttpCalls \ {c} : effects'[d] = effects[d] /\ (d \in swallowed' <=> d \in swallowed)
  <2>1. CASE m.key # NoKey /\ m.key \in seenKeys
    BY <1>1, <1>5, <1>6, <2>1
  <2>2. CASE ~(m.key # NoKey /\ m.key \in seenKeys)
    BY <1>1, <1>5, <1>6, <2>2
  <2> QED BY <2>1, <2>2
<1>8. HttpTyped'
  BY <1>4, <1>7 DEF HttpInv, HttpTyped
<1>9. OneItem'
  BY <1>3, <1>4 DEF HttpInv, OneItem
<1>10. (\A n \in inFlight' : n.call \in HttpCalls \ {c}) /\ (\A s \in replies : s.call \in HttpCalls \ {c})
  BY <1>4, <1>5 DEF HttpInv, OneItem, MessageOK, ReplyOK
<1>11. ~Untouched(c)' /\ Untold(c)'
  <2>1. effects'[c] # 0 \/ c \in swallowed'
    BY <1>7
  <2>2. ~Untouched(c)'
    BY <2>1 DEF Untouched
  <2>3. Untold(c)'
    BY <1>4, <1>5 DEF Untold
  <2> QED BY <2>2, <2>3
<1>12. ReplyOK(r)'
  BY <1>3, <1>5, <1>11 DEF ReplyOK
<1>13. CallOK(c)'
  <2>1. CallOK(c)
    BY DEF HttpInv
  <2> QED BY <1>4, <1>5, <1>11, <2>1 DEF CallOK, Untold
<1>14. \A d \in HttpCalls : effects[d] = 1 => effects'[d] = 1
  BY <1>5, <1>7
<1>15. KeysHaveCalls' /\ SwallowedHasCause'
  <2>1. CASE m.key # NoKey /\ m.key \in seenKeys
    <3>1. PICK d \in HttpCalls : effects[d] = 1 /\ KeyOf(d) = KeyOf(c)
      BY <1>5, <2>1 DEF HttpInv, KeysHaveCalls
    <3>2. d # c /\ effects'[d] = 1
      BY <1>5, <1>14, <3>1
    <3>3. call[d].correlation = call[c].correlation /\ call[d].op.body = call[c].op.body
      BY <1>5, <2>1, <3>1 DEF KeyOf, IdempotencyKey
    <3>4. SwallowedHasCause'
      BY <1>1, <1>4, <1>5, <1>6, <2>1, <3>2, <3>3 DEF HttpInv, SwallowedHasCause
    <3>5. KeysHaveCalls'
      BY <1>1, <1>4, <2>1 DEF HttpInv, KeysHaveCalls, KeyOf
    <3> QED BY <3>4, <3>5
  <2>2. CASE ~(m.key # NoKey /\ m.key \in seenKeys)
    <3>1. seenKeys' = seenKeys \cup ({m.key} \ {NoKey}) /\ swallowed' = swallowed /\ effects'[c] = 1
      BY <1>1, <1>5, <1>7, <2>2
    <3>2. \A d \in HttpCalls : KeyOf(d)' = KeyOf(d)
      BY <1>4 DEF KeyOf
    <3>3. ASSUME NEW k \in seenKeys' PROVE k # NoKey /\ \E d \in HttpCalls : effects'[d] = 1 /\ KeyOf(d)' = k
      <4>1. CASE k \in seenKeys
        <5>1. k # NoKey /\ \E d \in HttpCalls : effects[d] = 1 /\ KeyOf(d) = k
          BY <4>1 DEF HttpInv, KeysHaveCalls
        <5> QED BY <1>14, <3>2, <5>1
      <4>2. CASE k = m.key /\ k # NoKey
        BY <1>5, <3>1, <3>2, <4>2
      <4> QED BY <3>1, <3>3, <4>1, <4>2
    <3>4. KeysHaveCalls'
      BY <3>3 DEF KeysHaveCalls
    <3>5. SwallowedHasCause'
      BY <1>4, <1>14, <3>1 DEF HttpInv, SwallowedHasCause
    <3> QED BY <3>4, <3>5
  <2> QED BY <2>1, <2>2
<1> QED BY <1>4, <1>7, <1>8, <1>9, <1>10, <1>12, <1>13, <1>15, OtherCall DEF HttpInv

\* A lost message is one that nothing comes of.
LEMMA LostKeepsHttp == ASSUME HttpInv, RequestLost PROVE HttpInv'
<1>1. /\ inFlight' \subseteq inFlight
      /\ UNCHANGED <<call, replies, seenKeys, effects, swallowed, accepted>>
  BY DEF RequestLost
<1>2. HttpTyped'
  BY <1>1 DEF HttpInv, HttpTyped
<1>3. KeysHaveCalls' /\ SwallowedHasCause'
  BY <1>1, <1>2, CausesStay
<1>4. OneItem'
  BY <1>1 DEF HttpInv, OneItem
<1>5. (\A n \in inFlight : n.call \in HttpCalls) /\ (\A s \in replies : s.call \in HttpCalls)
  BY DEF HttpInv, MessageOK, ReplyOK
<1> QED BY <1>1, <1>2, <1>3, <1>4, <1>5, OtherCall DEF HttpInv

\* A key that downstream has forgotten does not come back.
LEMMA RotateKeepsHttp == ASSUME HttpInv, Rotate PROVE HttpInv'
<1>1. UNCHANGED <<call, inFlight, replies, seenKeys, effects, swallowed>>
  BY DEF Rotate
<1>2. accepted \in {{"current"}, {"current", "next"}, {"next"}}
  BY DEF HttpInv, HttpTyped
<1>3. {"current"} # {"current", "next"} /\ {"next"} # {"current"} /\ {"next"} # {"current", "next"}
  OBVIOUS
<1>4. /\ accepted' \in {{"current"}, {"current", "next"}, {"next"}}
      /\ "current" \notin accepted => "current" \notin accepted'
  BY <1>2, <1>3 DEF Rotate
<1>5. HttpTyped'
  BY <1>1, <1>4 DEF HttpInv, HttpTyped
<1>6. KeysHaveCalls' /\ SwallowedHasCause'
  BY <1>1, <1>5, CausesStay
<1>7. OneItem'
  BY <1>1 DEF HttpInv, OneItem
<1>8. (\A n \in inFlight : n.call \in HttpCalls) /\ (\A s \in replies : s.call \in HttpCalls)
  BY DEF HttpInv, MessageOK, ReplyOK
<1> QED BY <1>1, <1>4, <1>5, <1>6, <1>7, <1>8, OtherCall DEF HttpInv

\* An answer that is taken, and what the call becomes; nothing is left under way.
LEMMA EndsKeepsHttp ==
  ASSUME HttpInv, NEW r \in replies, Received(r), UNCHANGED inFlight,
         NEW result \in {"ok", "401", "4xx", "5xx"}, Ends(r.call, result), Current(r),
         result = "ok" => ~Untouched(r.call),
         result \in {"401", "4xx"} => Untouched(r.call),
         result = "401" /\ call[r.call].user => "current" \notin accepted
  PROVE  HttpInv'
<1>1. PICK c \in HttpCalls : c = r.call /\ Untold(c)
  BY DEF HttpInv, ReplyOK
<1>2. PICK x : x = [call[c] EXCEPT !.stage = "done", !.result = result]
  OBVIOUS
<1>3. call \in [HttpCalls -> HttpCall] /\ call[c] \in HttpCall
  BY DEF HttpInv, HttpTyped
<1>4. /\ x \in HttpCall /\ x.stage = "done" /\ x.result = result
      /\ x.op = call[c].op /\ x.correlation = call[c].correlation /\ x.user = call[c].user
  BY <1>2, <1>3 DEF HttpCall
<1>5. /\ call' = [call EXCEPT ![c] = x] /\ replies' = replies \ {r}
      /\ UNCHANGED <<inFlight, seenKeys, effects, swallowed, accepted>>
  BY <1>1, <1>2 DEF Ends, Received
<1>6. call' \in [HttpCalls -> HttpCall] /\ call'[c] = x /\ \A d \in HttpCalls \ {c} : call'[d] = call[d]
  BY <1>3, <1>4, <1>5
<1>7. HttpTyped'
  BY <1>5, <1>6 DEF HttpInv, HttpTyped
<1>8. KeysHaveCalls' /\ SwallowedHasCause'
  BY <1>4, <1>5, <1>6, <1>7, CausesStay
<1>9. OneItem'
  BY <1>5 DEF HttpInv, OneItem
<1>10. (\A m \in inFlight : m.call \in HttpCalls \ {c}) /\ (\A s \in replies' : s.call \in HttpCalls \ {c})
  BY <1>1, <1>5 DEF HttpInv, OneItem, MessageOK, ReplyOK
<1>11. Untouched(c)' <=> Untouched(c)
  BY <1>5 DEF Untouched
<1>12. CallOK(c)'
  BY <1>1, <1>4, <1>5, <1>6, <1>11 DEF CallOK
<1> QED BY <1>5, <1>6, <1>7, <1>8, <1>9, <1>10, <1>12, OtherCall DEF HttpInv

\* The retry is the one message of a call that has had no effect.
LEMMA RegeneratesKeepsHttp == ASSUME HttpInv, NEW r \in replies, Regenerates(r) PROVE HttpInv'
<1>1. PICK c \in HttpCalls : c = r.call /\ Untold(c) /\ Untouched(c)
  BY DEF HttpInv, ReplyOK, Regenerates
<1>2. call[c].stage = "waiting" /\ call[c].result = "none"
  BY <1>1 DEF HttpInv, CallOK, Regenerates, Current
<1>3. PICK x : x = [call[c] EXCEPT !.stage = "retrying"]
  OBVIOUS
<1>4. call \in [HttpCalls -> HttpCall] /\ call[c] \in HttpCall
  BY DEF HttpInv, HttpTyped
<1>5. /\ x \in HttpCall /\ x.stage = "retrying" /\ x.result = "none"
      /\ x.op = call[c].op /\ x.correlation = call[c].correlation
  BY <1>2, <1>3, <1>4 DEF HttpCall
<1>6. PICK m : m = [call |-> c, retry |-> TRUE, token |-> Sign, key |-> KeyOf(c)]
  OBVIOUS
<1>7. m.call = c /\ m.token = Sign /\ m.key = KeyOf(c)
  BY <1>6
<1>8. /\ call' = [call EXCEPT ![c] = x] /\ replies' = replies \ {r} /\ inFlight' = inFlight \cup {m}
      /\ UNCHANGED <<seenKeys, effects, swallowed, accepted>>
  BY <1>1, <1>3, <1>6 DEF Regenerates, Received, Fetch, KeyOf
<1>9. call' \in [HttpCalls -> HttpCall] /\ call'[c] = x /\ \A d \in HttpCalls \ {c} : call'[d] = call[d]
  BY <1>4, <1>5, <1>8
<1>10. HttpTyped'
  BY <1>8, <1>9 DEF HttpInv, HttpTyped
<1>11. KeysHaveCalls' /\ SwallowedHasCause'
  BY <1>5, <1>8, <1>9, <1>10, CausesStay
<1>12. (\A n \in inFlight : n.call \in HttpCalls \ {c}) /\ (\A s \in replies' : s.call \in HttpCalls \ {c})
  BY <1>1, <1>8 DEF HttpInv, OneItem, MessageOK, ReplyOK
<1>13. OneItem'
  BY <1>7, <1>8, <1>12 DEF HttpInv, OneItem
<1>14. Untouched(c)' /\ Untold(c)' /\ KeyOf(c)' = KeyOf(c)
  BY <1>1, <1>5, <1>8, <1>9 DEF Untouched, Untold, KeyOf
<1>15. MessageOK(m)' /\ CallOK(c)'
  BY <1>5, <1>7, <1>9, <1>14 DEF MessageOK, CallOK
<1> QED BY <1>8, <1>9, <1>10, <1>11, <1>12, <1>13, <1>15, OtherCall DEF HttpInv

\* Every other answer ends its call, or comes too late.
LEMMA ReplyKeepsHttp ==
  ASSUME HttpInv, NEW r \in replies, Fails(r) \/ Parses(r) \/ TooLate(r)
  PROVE  HttpInv'
<1>1. ReplyOK(r)
  BY DEF HttpInv
<1>2. CASE Fails(r)
  <2>1. PICK result \in {"401", "4xx", "5xx"} :
          /\ Ends(r.call, result)
          /\ result = "401" => r.status = 401
          /\ result = "4xx" => r.status = 404
    BY <1>2 DEF Fails
  <2>2. Received(r) /\ UNCHANGED inFlight /\ Current(r) /\ ~(r.status = 401 /\ ~r.retry /\ call[r.call].user)
    BY <1>2 DEF Fails
  <2>3. result # "ok" /\ (result \in {"401", "4xx"} => Untouched(r.call))
    BY <1>1, <2>1 DEF ReplyOK
  <2>4. result = "401" /\ call[r.call].user => "current" \notin accepted
    BY <1>1, <2>1, <2>2 DEF ReplyOK
  <2> QED BY <2>1, <2>2, <2>3, <2>4, EndsKeepsHttp
<1>3. CASE Parses(r)
  <2>1. PICK result \in {"ok", "5xx"} : Ends(r.call, result)
    BY <1>3 DEF Parses
  <2>2. Received(r) /\ UNCHANGED inFlight /\ Current(r) /\ ~Untouched(r.call)
    BY <1>1, <1>3 DEF Parses, ReplyOK
  <2> QED BY <2>1, <2>2, EndsKeepsHttp
<1>4. CASE TooLate(r)
  <2>1. /\ replies' \subseteq replies
        /\ UNCHANGED <<call, inFlight, seenKeys, effects, swallowed, accepted>>
    BY <1>4 DEF TooLate, Received
  <2>2. HttpTyped'
    BY <2>1 DEF HttpInv, HttpTyped
  <2>3. KeysHaveCalls' /\ SwallowedHasCause'
    BY <2>1, <2>2, CausesStay
  <2>4. OneItem'
    BY <2>1 DEF HttpInv, OneItem
  <2>5. (\A n \in inFlight : n.call \in HttpCalls) /\ (\A s \in replies : s.call \in HttpCalls)
    BY DEF HttpInv, MessageOK, ReplyOK
  <2> QED BY <2>1, <2>2, <2>3, <2>4, <2>5, OtherCall DEF HttpInv
<1> QED BY <1>2, <1>3, <1>4

\* Any number of downstream calls with lost, late and refused messages, expired
\* tokens and rotated keys (PortHttpClient.request): applied at most once, told a
\* result that stays true, refused or swallowed for a cause.
THEOREM CallsStaySound == HttpSpec => []CallsAreSound
<1>1. HttpInit => HttpInv
  <2> SUFFICES ASSUME HttpInit PROVE HttpInv
    OBVIOUS
  <2>1. (CHOOSE o \in Operations : TRUE) \in Operations
    BY HttpAssumption DEF HttpAssumption
  <2>2. PICK x \in HttpCall : x.stage = "idle" /\ x.result = "none" /\ call = [c \in HttpCalls |-> x]
    BY <2>1 DEF HttpInit, HttpCall
  <2>3. \A c \in HttpCalls : CallOK(c)
    BY <2>2 DEF HttpInit, CallOK, Untouched
  <2>4. HttpTyped
    BY <2>2 DEF HttpInit, HttpTyped
  <2> QED BY <2>3, <2>4 DEF HttpInit, HttpInv, OneItem, KeysHaveCalls, SwallowedHasCause
<1>2. HttpInv /\ [HttpNext]_httpVars => HttpInv'
  <2> SUFFICES ASSUME HttpInv, [HttpNext]_httpVars PROVE HttpInv'
    OBVIOUS
  <2>1. CASE UNCHANGED httpVars
    <3>1. UNCHANGED <<call, inFlight, replies, seenKeys, effects, swallowed, accepted>>
      BY <2>1 DEF httpVars
    <3>2. HttpTyped' /\ OneItem'
      BY <3>1 DEF HttpInv, HttpTyped, OneItem
    <3>3. KeysHaveCalls' /\ SwallowedHasCause'
      BY <3>1, <3>2, CausesStay
    <3>4. (\A n \in inFlight : n.call \in HttpCalls) /\ (\A s \in replies : s.call \in HttpCalls)
      BY DEF HttpInv, MessageOK, ReplyOK
    <3> QED BY <3>1, <3>2, <3>3, <3>4, OtherCall DEF HttpInv
  <2> QED BY <2>1, RequestKeepsHttp, AbortKeepsHttp, RefusesKeepsHttp, AppliesKeepsHttp, LostKeepsHttp,
          RegeneratesKeepsHttp, ReplyKeepsHttp, RotateKeepsHttp DEF HttpNext
<1>3. HttpInv => CallsAreSound
  <2> SUFFICES ASSUME HttpInv PROVE CallsAreSound
    OBVIOUS
  <2>1. AppliedAtMostOnce
    BY DEF HttpInv, HttpTyped, AppliedAtMostOnce
  <2>2. ASSUME NEW c \in HttpCalls
        PROVE  /\ call[c].result = "ok" => effects[c] = 1 \/ c \in swallowed
               /\ call[c].result \in {"401", "4xx"} =>
                    effects[c] = 0 /\ c \notin swallowed /\ \A m \in inFlight : m.call # c
    <3>1. effects[c] \in {0, 1} /\ CallOK(c)
      BY DEF HttpInv, HttpTyped
    <3>2. call[c].result \in {"401", "4xx"} => \A m \in inFlight : m.call # c
      BY DEF HttpInv, MessageOK, Untold
    <3> QED BY <3>1, <3>2 DEF CallOK, Untouched
  <2>3. ResultIsFinal
    BY <2>2 DEF ResultIsFinal
  <2>4. ReauthenticateHasCause
    BY DEF HttpInv, CallOK, ReauthenticateHasCause
  <2> QED BY <2>1, <2>3, <2>4 DEF HttpInv, CallsAreSound
<1> QED BY <1>1, <1>2, <1>3, PTL DEF HttpSpec

-----------------------------------------------------------------------------
(* SignIn *)

\* A row as the hooks leave it: index and ciphertext of one phone and one address.
Row(i, p, e) ==
  [id |-> i, phoneNumber |-> p, phone |-> <<"aes", p>>, phoneHash |-> <<"hmac", p>>,
   email |-> <<"aes", e>>, emailHash |-> <<"hmac", e>>]

IdsUnique == \A u, w \in users : u.id = w.id => u = w

UsersOK ==
  /\ IsFiniteSet(users) /\ IdsUnique /\ OneUserPerPhone
  /\ \A u \in users : \E i \in 1 .. Cardinality(users), p \in Phones, e \in Emails : u = Row(i, p, e)

Flow == [stage : {"idle", "sent", "proved", "new", "known", "in"}, by : Phones \cup {Null}, user : Nat]
Device == [cachedUntil : Nat, live : BOOLEAN, revokedAt : Nat, servedAt : Nat]

FlowsOK ==
  /\ otp \subseteq Phones /\ flow \in [Flows -> Flow]
  /\ \A f \in Flows : flow[f].stage \in {"proved", "new"} => flow[f].by \in Phones

\* A live session's cookie was renewed within its time, a revoked one's before.
DeviceOK(d, now) ==
  /\ d.live => d.cachedUntil <= now + CookieCache /\ d.servedAt <= now
  /\ ~d.live => d.cachedUntil <= d.revokedAt + CookieCache /\ d.servedAt < d.revokedAt + CookieCache

DevicesOK ==
  /\ device \in [Flows -> Device] /\ signClock \in Nat
  /\ \A f \in Flows : flow[f].stage = "in" => DeviceOK(device[f], signClock)

SignInv == UsersOK /\ FlowsOK /\ DevicesOK

\* The fields of a row.
LEMMA RowFields ==
  ASSUME NEW i, NEW p, NEW e
  PROVE  /\ Row(i, p, e).id = i /\ Row(i, p, e).phoneNumber = p
         /\ Row(i, p, e).phone = <<"aes", p>> /\ Row(i, p, e).phoneHash = <<"hmac", p>>
         /\ Row(i, p, e).email = <<"aes", e>> /\ Row(i, p, e).emailHash = <<"hmac", e>>
  BY DEF Row

\* What was written under the blind index of a phone is a row of its own.
LEMMA PhoneStaysUnique ==
  ASSUME UsersOK, NEW i, NEW p \in Phones, NEW e \in Emails, ~Collides(Row(i, p, e)),
         NEW u \in users, u.phoneNumber = p
  PROVE  u.id = i
<1>1. PICK j, q, g : u = Row(j, q, g)
  BY DEF UsersOK
<1>2. u.phoneHash = <<"hmac", p>>
  BY <1>1, RowFields
<1>3. Row(i, p, e).phoneHash = <<"hmac", p>> /\ Row(i, p, e).id = i /\ <<"hmac", p>> # Null
  BY RowFields, SignAssumption DEF SignAssumption
<1> QED BY <1>2, <1>3 DEF Collides

\* An INSERT that collides with no row.
LEMMA CreateKeepsUsers == ASSUME SignInv, NEW f \in Flows, CreateUser(f) PROVE UsersOK'
<1> USE SignAssumption DEF SignAssumption
<1>1. PICK p \in Phones : p = flow[f].by /\ p # Null
  BY DEF SignInv, FlowsOK, CreateUser
<1>2. PICK n \in Nat : n = Cardinality(users)
  BY FS_CardinalityType DEF SignInv, UsersOK
<1>3. PICK e \in Emails : e = <<p, "placeholder">> /\ e # Null
  <2>1. <<p, "placeholder">> \in Phones \X {"placeholder"}
    OBVIOUS
  <2> QED BY <2>1 DEF Emails
<1>4. CreateBefore(n + 1, [phoneNumber |-> p, email |-> e]) = Row(n + 1, p, e)
  BY <1>1, <1>3 DEF CreateBefore, EncryptIfNeeded, HashIfNeeded, ReadPhone, Row
<1>5. IF Collides(Row(n + 1, p, e)) THEN users' = users ELSE users' = users \cup {Row(n + 1, p, e)}
  BY <1>1, <1>2, <1>3, <1>4 DEF CreateUser
<1>6. CASE users' = users
  BY <1>6 DEF SignInv, UsersOK, IdsUnique, OneUserPerPhone
<1>7. CASE users' # users
  <2>1. ~Collides(Row(n + 1, p, e)) /\ users' = users \cup {Row(n + 1, p, e)}
    BY <1>5, <1>7
  <2>2. PICK new : new = Row(n + 1, p, e)
    OBVIOUS
  <2>3. new.id = n + 1 /\ new.phoneNumber = p
    BY <2>2, RowFields
  <2>4. ASSUME NEW u \in users
        PROVE  u.id \in 1 .. n /\ \E i \in 1 .. n, q \in Phones, g \in Emails : u = Row(i, q, g)
    <3>1. PICK i \in 1 .. n, q \in Phones, g \in Emails : u = Row(i, q, g)
      BY <1>2 DEF SignInv, UsersOK
    <3> QED BY <3>1, RowFields
  <2>5. \A u \in users : u.id # new.id
    BY <2>3, <2>4
  <2>6. \A u \in users : u.phoneNumber # p
    BY <2>1, <2>3, <2>5, PhoneStaysUnique, <2>2 DEF SignInv
  <2>7. IsFiniteSet(users') /\ Cardinality(users') = n + 1
    BY <1>2, <2>1, <2>2, <2>5, FS_AddElement DEF SignInv, UsersOK
  <2>8. IdsUnique' /\ OneUserPerPhone'
    BY <2>1, <2>2, <2>3, <2>5, <2>6 DEF SignInv, UsersOK, IdsUnique, OneUserPerPhone
  <2>9. ASSUME NEW u \in users'
        PROVE  \E i \in 1 .. n + 1, q \in Phones, g \in Emails : u = Row(i, q, g)
    <3>1. CASE u \in users
      BY <2>4, <3>1
    <3>2. CASE u = new
      BY <2>2, <3>2
    <3> QED BY <2>1, <2>2, <2>9, <3>1, <3>2
  <2> QED BY <2>7, <2>8, <2>9 DEF UsersOK
<1> QED BY <1>6, <1>7

\* A partial UPDATE rewrites ciphertext and index of the fields it has.
LEMMA UpdateKeepsUsers == ASSUME SignInv, NEW f \in Flows, UpdateUser(f) PROVE UsersOK'
<1> USE SignAssumption DEF SignAssumption
<1>1. PICK n \in Nat : n = Cardinality(users)
  BY FS_CardinalityType DEF SignInv, UsersOK
<1>2. PICK row \in users, phone \in Phones \cup {Null}, email \in NewEmails \cup {Null} :
        users' = IF Collides(UpdateBefore(row, [phoneNumber |-> phone, email |-> email]))
                 THEN users
                 ELSE (users \ {row}) \cup {UpdateBefore(row, [phoneNumber |-> phone, email |-> email])}
  BY DEF UpdateUser
<1>3. PICK i \in 1 .. n, p \in Phones, e \in Emails : row = Row(i, p, e)
  BY <1>1 DEF SignInv, UsersOK
<1>4. PICK q \in Phones, g \in Emails :
        /\ q = (IF phone = Null THEN p ELSE phone) /\ g = (IF email = Null THEN e ELSE email)
  BY DEF Emails
<1>5. UpdateBefore(row, [phoneNumber |-> phone, email |-> email]) = Row(i, q, g)
  <2>1. PICK user : user = [phoneNumber |-> phone, email |-> email]
    OBVIOUS
  <2>2. /\ (IF user.phoneNumber = Null THEN row.phoneNumber ELSE user.phoneNumber) = q
        /\ (IF user.phoneNumber = Null THEN row.phone ELSE EncryptIfNeeded(ReadPhone(user))) = <<"aes", q>>
        /\ (IF user.phoneNumber = Null THEN row.phoneHash ELSE HashIfNeeded(ReadPhone(user))) = <<"hmac", q>>
    BY <1>3, <1>4, <2>1, RowFields DEF EncryptIfNeeded, HashIfNeeded, ReadPhone
  <2>3. /\ (IF user.email = Null THEN row.email ELSE EncryptIfNeeded(user.email)) = <<"aes", g>>
        /\ (IF user.email = Null THEN row.emailHash ELSE HashIfNeeded(user.email)) = <<"hmac", g>>
    BY <1>3, <1>4, <2>1, RowFields DEF EncryptIfNeeded, HashIfNeeded
  <2>4. UpdateBefore(row, user) =
          [row EXCEPT !.phoneNumber = q, !.phone = <<"aes", q>>, !.phoneHash = <<"hmac", q>>,
                      !.email = <<"aes", g>>, !.emailHash = <<"hmac", g>>]
    BY <2>2, <2>3 DEF UpdateBefore
  <2> QED BY <1>3, <2>1, <2>4 DEF Row
<1>6. CASE users' = users
  BY <1>6 DEF SignInv, UsersOK, IdsUnique, OneUserPerPhone
<1>7. CASE users' # users
  <2>1. PICK new : new = Row(i, q, g)
    OBVIOUS
  <2>2. ~Collides(Row(i, q, g)) /\ users' = (users \ {row}) \cup {new}
    BY <1>2, <1>5, <1>7, <2>1
  <2>3. new.id = i /\ new.phoneNumber = q /\ row.id = i
    BY <1>3, <2>1, RowFields
  <2>4. \A u \in users \ {row} : u.id # i
    BY <2>3 DEF SignInv, UsersOK, IdsUnique
  <2>5. \A u \in users \ {row} : u.phoneNumber # q
    BY <2>2, <2>4, PhoneStaysUnique DEF SignInv
  <2>6. new \notin users \ {row}
    BY <2>3, <2>4
  <2>7. IsFiniteSet(users') /\ Cardinality(users') = n
    <3>1. IsFiniteSet(users \ {row}) /\ Cardinality(users \ {row}) = n - 1
      BY <1>1, FS_RemoveElement DEF SignInv, UsersOK
    <3>2. PICK others : others = users \ {row}
      OBVIOUS
    <3>3. IsFiniteSet(others) /\ Cardinality(others) = n - 1 /\ new \notin others
      BY <2>6, <3>1, <3>2
    <3>4. IsFiniteSet(others \cup {new}) /\ Cardinality(others \cup {new}) = (n - 1) + 1
      BY <3>3, FS_AddElement
    <3>5. users' = others \cup {new}
      BY <2>2, <3>2
    <3>6. (n - 1) + 1 = n
      OBVIOUS
    <3> QED BY <3>4, <3>5, <3>6
  <2>8. IdsUnique' /\ OneUserPerPhone'
    BY <2>2, <2>3, <2>4, <2>5 DEF SignInv, UsersOK, IdsUnique, OneUserPerPhone
  <2>9. ASSUME NEW u \in users'
        PROVE  \E j \in 1 .. n, r \in Phones, h \in Emails : u = Row(j, r, h)
    <3>1. CASE u \in users
      BY <1>1, <3>1 DEF SignInv, UsersOK
    <3>2. CASE u = new
      BY <2>1, <3>2
    <3> QED BY <2>2, <2>9, <3>1, <3>2
  <2> QED BY <2>7, <2>8, <2>9 DEF UsersOK
<1> QED BY <1>6, <1>7

\* Steps that leave the table of users alone.
LEMMA OthersKeepUsers == ASSUME UsersOK, UNCHANGED users PROVE UsersOK'
  BY DEF UsersOK, IdsUnique, OneUserPerPhone

\* A sign-in goes on only with a phone that was proved.
LEMMA FlowStep ==
  ASSUME FlowsOK, NEW f \in Flows, NEW s \in Flow, flow' = [flow EXCEPT ![f] = s],
         s.stage \in {"proved", "new"} => s.by \in Phones, otp' \subseteq Phones
  PROVE  FlowsOK'
  BY DEF FlowsOK

\* What each step of a sign-in does to where it stands.
LEMMA FlowsStayOK ==
  ASSUME SignInv, NEW f \in Flows,
         \/ SendOtp(f) \/ VerifyOtp(f) \/ FindUser(f) \/ CreateUser(f) \/ OpenSession(f)
  PROVE  FlowsOK'
<1>1. /\ FlowsOK /\ flow \in [Flows -> Flow] /\ flow[f] \in Flow /\ otp \subseteq Phones
      /\ flow[f].stage \in {"proved", "new"} => flow[f].by \in Phones
  BY DEF SignInv, FlowsOK
<1>2. CASE SendOtp(f)
  <2>1. PICK p \in Phones, delivered \in BOOLEAN :
          /\ otp' = otp \cup {p}
          /\ flow' = [flow EXCEPT ![f] = [stage |-> "sent", by |-> IF delivered THEN p ELSE Null, user |-> 0]]
    BY <1>2 DEF SendOtp
  <2>2. PICK s : s = [stage |-> "sent", by |-> IF delivered THEN p ELSE Null, user |-> 0]
    OBVIOUS
  <2>3. s \in Flow /\ s.stage = "sent"
    BY <2>2 DEF Flow
  <2> QED BY <1>1, <2>1, <2>2, <2>3, FlowStep
<1>3. CASE VerifyOtp(f)
  <2>1. PICK s : s = [flow[f] EXCEPT !.stage = IF flow[f].by \in otp THEN "proved" ELSE "idle"]
    OBVIOUS
  <2>2. s \in Flow /\ s.by = flow[f].by /\ (s.stage = "new" => FALSE) /\ (s.stage = "proved" => s.by \in otp)
    BY <1>1, <2>1 DEF Flow
  <2>3. flow' = [flow EXCEPT ![f] = s] /\ otp' = otp
    BY <1>3, <2>1 DEF VerifyOtp
  <2> QED BY <1>1, <2>2, <2>3, FlowStep
<1>4. CASE FindUser(f)
  <2>1. Owners(flow[f].by) # {} => (CHOOSE i \in Owners(flow[f].by) : TRUE) \in Nat
    <3>1. \A u \in users : u.id \in Nat
      <4>1. ASSUME NEW u \in users PROVE u.id \in Nat
        <5>1. PICK i \in 1 .. Cardinality(users), p \in Phones, e \in Emails : u = Row(i, p, e)
          BY DEF SignInv, UsersOK
        <5>2. Cardinality(users) \in Nat
          BY FS_CardinalityType DEF SignInv, UsersOK
        <5> QED BY <5>1, <5>2, RowFields
      <4> QED BY <4>1
    <3>2. Owners(flow[f].by) \subseteq Nat
      BY <3>1 DEF Owners
    <3> QED BY <3>2
  <2>2. PICK s : s = IF Owners(flow[f].by) = {} THEN [flow[f] EXCEPT !.stage = "new"]
                     ELSE [flow[f] EXCEPT !.stage = "known", !.user = CHOOSE i \in Owners(flow[f].by) : TRUE]
    OBVIOUS
  <2>3. s \in Flow /\ s.by = flow[f].by
    <3>1. CASE Owners(flow[f].by) = {}
      BY <1>1, <2>2, <3>1 DEF Flow
    <3>2. CASE Owners(flow[f].by) # {}
      <4>1. PICK i \in Nat : i = CHOOSE j \in Owners(flow[f].by) : TRUE
        BY <2>1, <3>2
      <4>2. s = [flow[f] EXCEPT !.stage = "known", !.user = i]
        BY <2>2, <3>2, <4>1
      <4> QED BY <1>1, <4>2 DEF Flow
    <3> QED BY <3>1, <3>2
  <2>4. flow' = [flow EXCEPT ![f] = s] /\ otp' \subseteq Phones /\ flow[f].by \in Phones
    BY <1>1, <1>4, <2>2 DEF FindUser
  <2> QED BY <1>1, <2>3, <2>4, FlowStep
<1>5. CASE CreateUser(f)
  <2>1. PICK n \in Nat : n = Cardinality(users) + 1
    BY FS_CardinalityType DEF SignInv, UsersOK
  <2>2. PICK s : /\ flow' = [flow EXCEPT ![f] = s]
                 /\ s \in {[flow[f] EXCEPT !.stage = "idle"],
                           [flow[f] EXCEPT !.stage = "known", !.user = n]}
    BY <1>1, <1>5, <2>1 DEF CreateUser, FlowsOK
  <2>3. s \in Flow /\ s.stage \in {"idle", "known"}
    BY <1>1, <2>2 DEF Flow
  <2>4. otp' = otp
    BY <1>5 DEF CreateUser
  <2> QED BY <1>1, <2>2, <2>3, <2>4, FlowStep
<1>6. CASE OpenSession(f)
  <2>1. PICK s : s = [flow[f] EXCEPT !.stage = "in"]
    OBVIOUS
  <2>2. s \in Flow /\ s.stage = "in"
    BY <1>1, <2>1 DEF Flow
  <2>3. flow' = [flow EXCEPT ![f] = s] /\ otp' = otp
    BY <1>6, <2>1 DEF OpenSession
  <2> QED BY <1>1, <2>2, <2>3, FlowStep
<1> QED BY <1>2, <1>3, <1>4, <1>5, <1>6

\* A step of one device, at the same time.
LEMMA DeviceStep ==
  ASSUME DevicesOK, NEW f \in Flows, NEW d \in Device, device' = [device EXCEPT ![f] = d],
         UNCHANGED signClock, flow'[f].stage = "in" => DeviceOK(d, signClock),
         \A g \in Flows \ {f} : flow'[g] = flow[g]
  PROVE  DevicesOK'
<1>1. device' \in [Flows -> Device] /\ signClock' \in Nat
  BY DEF DevicesOK
<1>2. ASSUME NEW g \in Flows, flow'[g].stage = "in" PROVE DeviceOK(device'[g], signClock')
  <2>1. CASE g = f
    BY <1>2, <2>1 DEF DevicesOK
  <2>2. CASE g # f
    BY <1>2, <2>2 DEF DevicesOK
  <2> QED BY <2>1, <2>2
<1> QED BY <1>1, <1>2 DEF DevicesOK

\* Steps that leave the devices alone sign nobody in.
LEMMA OthersKeepDevices ==
  ASSUME DevicesOK, UNCHANGED <<device, signClock>>,
         \A f \in Flows : flow'[f].stage = "in" => flow[f].stage = "in"
  PROVE  DevicesOK'
  BY DEF DevicesOK

\* A session is opened, revoked, or asked for.
LEMMA DevicesStayOK ==
  ASSUME SignInv, NEW f \in Flows, OpenSession(f) \/ Revoke(f) \/ GetSession(f)
  PROVE  DevicesOK'
<1>1. /\ DevicesOK /\ device[f] \in Device /\ signClock \in Nat /\ CookieCache \in Nat \ {0}
      /\ device[f].cachedUntil \in Nat /\ device[f].servedAt \in Nat /\ device[f].revokedAt \in Nat
      /\ device[f].live \in BOOLEAN
  BY SignAssumption DEF SignAssumption, SignInv, DevicesOK, Device
<1>2. flow[f].stage = "in" => DeviceOK(device[f], signClock)
  BY DEF SignInv, DevicesOK
<1>3. CASE OpenSession(f)
  <2>1. PICK d : d = [cachedUntil |-> signClock + CookieCache, live |-> TRUE,
                      revokedAt |-> 0, servedAt |-> signClock]
    OBVIOUS
  <2>2. d \in Device /\ DeviceOK(d, signClock)
    BY <1>1, <2>1 DEF Device, DeviceOK
  <2>3. device' = [device EXCEPT ![f] = d] /\ UNCHANGED signClock /\ \A g \in Flows \ {f} : flow'[g] = flow[g]
    BY <1>3, <2>1 DEF OpenSession, SignInv, FlowsOK
  <2> QED BY <1>1, <2>2, <2>3, DeviceStep
<1>4. CASE Revoke(f)
  <2>1. PICK d : d = [device[f] EXCEPT !.live = FALSE, !.revokedAt = signClock]
    OBVIOUS
  <2>2. /\ d \in Device /\ d.live = FALSE /\ d.revokedAt = signClock
        /\ d.cachedUntil = device[f].cachedUntil /\ d.servedAt = device[f].servedAt
    BY <1>1, <2>1 DEF Device
  <2>3. device[f].cachedUntil <= signClock + CookieCache /\ device[f].servedAt <= signClock
    BY <1>2, <1>4 DEF Revoke, DeviceOK
  <2>4. DeviceOK(d, signClock)
    BY <1>1, <2>2, <2>3 DEF DeviceOK
  <2>5. device' = [device EXCEPT ![f] = d] /\ UNCHANGED <<signClock, flow>>
    BY <1>4, <2>1 DEF Revoke
  <2> QED BY <1>1, <2>2, <2>4, <2>5, DeviceStep
<1>5. CASE GetSession(f)
  <2>1. UNCHANGED <<signClock, flow>> /\ flow[f].stage = "in"
    BY <1>5 DEF GetSession
  <2>2. CASE signClock < device[f].cachedUntil
    <3>1. PICK d : d = [device[f] EXCEPT !.servedAt = signClock]
      OBVIOUS
    <3>2. /\ d \in Device /\ d.live = device[f].live /\ d.revokedAt = device[f].revokedAt
          /\ d.cachedUntil = device[f].cachedUntil /\ d.servedAt = signClock
      BY <1>1, <3>1 DEF Device
    <3>3. DeviceOK(d, signClock)
      BY <1>1, <1>2, <2>1, <2>2, <3>2 DEF DeviceOK
    <3>4. device' = [device EXCEPT ![f] = d]
      BY <1>5, <2>2, <3>1 DEF GetSession
    <3> QED BY <1>1, <2>1, <3>2, <3>3, <3>4, DeviceStep
  <2>3. CASE ~(signClock < device[f].cachedUntil) /\ device[f].live
    <3>0. PICK t \in Nat : t = signClock + CookieCache
      BY <1>1
    <3>1. PICK d : d = [device[f] EXCEPT !.servedAt = signClock, !.cachedUntil = t]
      OBVIOUS
    <3>2. /\ d \in Device /\ d.live = device[f].live
          /\ d.cachedUntil = signClock + CookieCache /\ d.servedAt = signClock
      BY <1>1, <3>0, <3>1 DEF Device
    <3>3. DeviceOK(d, signClock)
      BY <1>1, <2>3, <3>2 DEF DeviceOK
    <3>4. device' = [device EXCEPT ![f] = d]
      BY <1>5, <2>3, <3>0, <3>1 DEF GetSession
    <3> QED BY <1>1, <2>1, <3>2, <3>3, <3>4, DeviceStep
  <2>4. CASE ~(signClock < device[f].cachedUntil) /\ ~device[f].live
    <3>1. device' = device
      BY <1>5, <2>4 DEF GetSession, SignInv, DevicesOK
    <3> QED BY <1>1, <2>1, <3>1, OthersKeepDevices
  <2> QED BY <2>2, <2>3, <2>4
<1> QED BY <1>3, <1>4, <1>5

\* The clock goes on; a limit that lies ahead stays ahead.
LEMMA TickKeepsDevices == ASSUME SignInv, SignTick PROVE DevicesOK'
<1>1. signClock \in Nat /\ signClock' = signClock + 1 /\ UNCHANGED <<flow, device>>
  BY DEF SignInv, DevicesOK, SignTick
<1>2. ASSUME NEW f \in Flows, flow[f].stage = "in" PROVE DeviceOK(device[f], signClock + 1)
  <2>1. DeviceOK(device[f], signClock) /\ device[f] \in Device /\ CookieCache \in Nat
    BY <1>2, SignAssumption DEF SignAssumption, SignInv, DevicesOK
  <2> QED BY <1>1, <2>1 DEF DeviceOK, Device
<1> QED BY <1>1, <1>2 DEF SignInv, DevicesOK

\* Steps before a session is open sign nobody in.
LEMMA SignInOnlyOpens ==
  ASSUME SignInv, NEW f \in Flows, SendOtp(f) \/ VerifyOtp(f) \/ FindUser(f) \/ CreateUser(f)
  PROVE  \A g \in Flows : flow'[g].stage = "in" => flow[g].stage = "in"
<1>1. flow \in [Flows -> Flow] /\ flow[f] \in Flow
  BY DEF SignInv, FlowsOK
<1>2. PICK s : flow' = [flow EXCEPT ![f] = s] /\ s.stage # "in"
  <2>1. CASE SendOtp(f)
    BY <2>1 DEF SendOtp
  <2>2. CASE VerifyOtp(f)
    <3>1. PICK s : s = [flow[f] EXCEPT !.stage = IF flow[f].by \in otp THEN "proved" ELSE "idle"]
      OBVIOUS
    <3>2. s.stage # "in"
      BY <1>1, <3>1 DEF Flow
    <3> QED BY <2>2, <3>1, <3>2 DEF VerifyOtp
  <2>3. CASE FindUser(f)
    <3>1. PICK s : s = IF Owners(flow[f].by) = {} THEN [flow[f] EXCEPT !.stage = "new"]
                       ELSE [flow[f] EXCEPT !.stage = "known", !.user = CHOOSE i \in Owners(flow[f].by) : TRUE]
      OBVIOUS
    <3>2. s.stage # "in"
      BY <1>1, <3>1 DEF Flow
    <3>3. flow' = [flow EXCEPT ![f] = s]
      BY <2>3, <3>1 DEF FindUser
    <3> QED BY <3>2, <3>3
  <2>4. CASE CreateUser(f)
    <3>1. PICK s : /\ flow' = [flow EXCEPT ![f] = s]
                   /\ s \in {[flow[f] EXCEPT !.stage = "idle"],
                             [flow[f] EXCEPT !.stage = "known", !.user = Cardinality(users) + 1]}
      BY <1>1, <2>4 DEF CreateUser
    <3>2. s.stage # "in"
      BY <1>1, <3>1 DEF Flow
    <3> QED BY <3>1, <3>2
  <2> QED BY <2>1, <2>2, <2>3, <2>4
<1> QED BY <1>1, <1>2

\* Any number of sign-ins, address changes, revocations and cookies, in any order
\* (betterAuth's hooks and cookie cache): a phone leads to one user, by index and by
\* ciphertext alike, and a revoked session ends with its cookie cache.
THEOREM SignInIsSafe == SignSpec => []SignInSafe
<1>1. SignInit => SignInv
  <2> SUFFICES ASSUME SignInit PROVE SignInv
    OBVIOUS
  <2>1. UsersOK
    BY FS_EmptySet DEF SignInit, UsersOK, IdsUnique, OneUserPerPhone
  <2>2. FlowsOK
    BY DEF SignInit, FlowsOK, Flow
  <2>3. DevicesOK
    BY DEF SignInit, DevicesOK, NoDevice, Device
  <2> QED BY <2>1, <2>2, <2>3 DEF SignInv
<1>2. SignInv /\ [SignNext]_signVars => SignInv'
  <2> SUFFICES ASSUME SignInv, [SignNext]_signVars PROVE SignInv'
    OBVIOUS
  <2>1. UsersOK /\ FlowsOK /\ DevicesOK
    BY DEF SignInv
  <2>2. ASSUME NEW f \in Flows, SendOtp(f) \/ VerifyOtp(f) \/ FindUser(f) PROVE SignInv'
    <3>1. UNCHANGED <<users, device, signClock>>
      BY <2>2 DEF SendOtp, VerifyOtp, FindUser
    <3>2. UsersOK' /\ FlowsOK'
      BY <2>1, <2>2, <3>1, OthersKeepUsers, FlowsStayOK
    <3>3. DevicesOK'
      BY <2>1, <2>2, <3>1, SignInOnlyOpens, OthersKeepDevices
    <3> QED BY <3>2, <3>3 DEF SignInv
  <2>3. ASSUME NEW f \in Flows, CreateUser(f) PROVE SignInv'
    <3>1. UNCHANGED <<device, signClock>>
      BY <2>3 DEF CreateUser
    <3>2. UsersOK' /\ FlowsOK'
      BY <2>3, CreateKeepsUsers, FlowsStayOK
    <3>3. DevicesOK'
      BY <2>1, <2>3, <3>1, SignInOnlyOpens, OthersKeepDevices
    <3> QED BY <3>2, <3>3 DEF SignInv
  <2>4. ASSUME NEW f \in Flows, OpenSession(f) PROVE SignInv'
    BY <2>1, <2>4, OthersKeepUsers, FlowsStayOK, DevicesStayOK DEF SignInv, OpenSession
  <2>5. ASSUME NEW f \in Flows, Revoke(f) \/ GetSession(f) PROVE SignInv'
    <3>1. UNCHANGED <<users, flow, otp>>
      BY <2>5 DEF Revoke, GetSession
    <3>2. FlowsOK'
      BY <2>1, <3>1 DEF FlowsOK
    <3> QED BY <2>1, <2>5, <3>1, <3>2, OthersKeepUsers, DevicesStayOK DEF SignInv
  <2>6. ASSUME NEW f \in Flows, UpdateUser(f) PROVE SignInv'
    <3>1. UNCHANGED <<flow, otp, device, signClock>>
      BY <2>6 DEF UpdateUser
    <3>2. FlowsOK' /\ DevicesOK'
      BY <2>1, <3>1 DEF FlowsOK, DevicesOK
    <3> QED BY <2>6, <3>2, UpdateKeepsUsers DEF SignInv
  <2>7. ASSUME OtpExpires PROVE SignInv'
    <3>1. UNCHANGED <<users, flow, device, signClock>> /\ otp' \subseteq otp
      BY <2>7 DEF OtpExpires
    <3>2. FlowsOK' /\ DevicesOK'
      BY <2>1, <3>1 DEF FlowsOK, DevicesOK
    <3> QED BY <2>1, <3>1, <3>2, OthersKeepUsers DEF SignInv
  <2>8. ASSUME SignTick PROVE SignInv'
    <3>1. UNCHANGED <<users, flow, otp>>
      BY <2>8 DEF SignTick
    <3>2. FlowsOK'
      BY <2>1, <3>1 DEF FlowsOK
    <3> QED BY <2>1, <2>8, <3>1, <3>2, OthersKeepUsers, TickKeepsDevices DEF SignInv
  <2>9. ASSUME UNCHANGED <<users, flow, otp, device, signClock>> PROVE SignInv'
    <3>1. FlowsOK' /\ DevicesOK'
      BY <2>1, <2>9 DEF FlowsOK, DevicesOK
    <3> QED BY <2>1, <2>9, <3>1, OthersKeepUsers DEF SignInv
  <2>10. ASSUME UNCHANGED signVars \/ Resolved \/ \E f \in Flows : CheckRegistration(f) PROVE SignInv'
    BY <2>9, <2>10 DEF signVars, CheckRegistration, Resolved
  <2> QED BY <2>2, <2>3, <2>4, <2>5, <2>6, <2>7, <2>8, <2>10 DEF SignNext
<1>3. SignInv => SignInSafe
  <2> SUFFICES ASSUME SignInv PROVE SignInSafe
    OBVIOUS
  <2>1. OneUserPerPhone /\ RevokedSoonRefused
    BY DEF SignInv, UsersOK, DevicesOK, DeviceOK, RevokedSoonRefused
  <2>2. ASSUME NEW u \in users
        PROVE  /\ u.phoneHash = HashIfNeeded(DecryptIfNeeded(u.phone))
               /\ u.emailHash = HashIfNeeded(DecryptIfNeeded(u.email))
               /\ DecryptIfNeeded(u.phone) = u.phoneNumber
    <3>1. PICK i \in 1 .. Cardinality(users), p \in Phones, e \in Emails : u = Row(i, p, e)
      BY DEF SignInv, UsersOK
    <3>2. /\ p # Null /\ e # Null /\ <<"aes", p>> # Null /\ <<"aes", e>> # Null
      BY SignAssumption DEF SignAssumption
    <3>3. DecryptIfNeeded(<<"aes", p>>) = p /\ DecryptIfNeeded(<<"aes", e>>) = e
      BY <3>2 DEF DecryptIfNeeded
    <3> QED BY <3>1, <3>2, <3>3, RowFields DEF HashIfNeeded
  <2>3. IndexFindsRow
    BY <2>2 DEF IndexFindsRow
  <2> QED BY <2>1, <2>3 DEF SignInSafe
<1> QED BY <1>1, <1>2, <1>3, PTL DEF SignSpec

-----------------------------------------------------------------------------
(* CustomerDirectory *)

DirCall == [pc : {"idle", "rows", "go", "insert", "done"},
            op : {"none", "resolve", "create", "conflict", "created", "failed"},
            phone : DirPhones, number : Nat]

DirTyped ==
  /\ table \subseteq [number : Nat \ {0}, phone : DirPhones]
  /\ created \in [DirPhones -> Nat] /\ counter \in Nat
  /\ dcall \in [DirectoryCalls -> DirCall]
  /\ hydrated \in BOOLEAN /\ raced \in BOOLEAN

\* Until the first call has its rows, nothing has been handed out.
FreshUntilHydrated ==
  ~hydrated \/ Reading =>
    /\ created = Empty /\ counter = 0
    /\ \A c \in DirectoryCalls : dcall[c].pc \in {"idle", "rows"}

OneReader ==
  /\ ~hydrated => ~Reading
  /\ \A c, d \in DirectoryCalls : DirAt(c, "rows") /\ DirAt(d, "rows") => c = d

PhonesOnce == \A r, s \in table : r.phone = s.phone => r = s

\* Afterwards the map has every row, and no number twice.
MapIsWhole ==
  hydrated /\ ~Reading =>
    /\ \A r \in table : created[r.phone] = r.number
    /\ \A p \in DirPhones : created[p] <= counter
    /\ \A p, q \in DirPhones : created[p] = created[q] /\ created[p] # 0 => p = q

\* An insert on its way is of a number the map has, and alone with its phone.
InsertsOK ==
  /\ \A c \in DirectoryCalls : DirAt(c, "insert") =>
       /\ dcall[c].number = created[dcall[c].phone]
       /\ \A r \in table : r.phone # dcall[c].phone
  /\ \A c, d \in DirectoryCalls :
       DirAt(c, "insert") /\ DirAt(d, "insert") /\ dcall[c].phone = dcall[d].phone => c = d

Unraced == FreshUntilHydrated /\ OneReader /\ PhonesOnce /\ MapIsWhole /\ InsertsOK

\* The primary key.
Keyed == \A r, s \in table : r.number = s.number => r = s

InsertNumbers == \A c \in DirectoryCalls : DirAt(c, "insert") => dcall[c].number # 0

DirInv == DirTyped /\ Keyed /\ InsertNumbers /\ IssuedIsKept /\ (~raced => Unraced)

\* A call that has its rows comes to its end.
LEMMA CallEnds ==
  ASSUME DirInv, NEW c \in DirectoryCalls, NEW x \in DirCall, dcall' = [dcall EXCEPT ![c] = x],
         x.pc \in {"done", "idle"}, dcall[c].pc \notin {"idle", "rows"},
         UNCHANGED <<table, created, counter, hydrated, raced, issued>>
  PROVE  DirInv'
<1>1. dcall \in [DirectoryCalls -> DirCall] /\ dcall'[c] = x /\ \A d \in DirectoryCalls \ {c} : dcall'[d] = dcall[d]
  BY DEF DirInv, DirTyped
<1>2. DirTyped' /\ Keyed' /\ IssuedIsKept'
  BY <1>1 DEF DirInv, DirTyped, Keyed, IssuedIsKept
<1>3. (Reading' <=> Reading)
  BY <1>1 DEF Reading, DirAt
<1>4. \A d \in DirectoryCalls : d # c => (DirAt(d, "rows")' <=> DirAt(d, "rows")) /\ (DirAt(d, "insert")' <=> DirAt(d, "insert"))
  BY <1>1 DEF DirAt
<1>5. ~DirAt(c, "rows")' /\ ~DirAt(c, "insert")' /\ ~DirAt(c, "rows")
  BY <1>1 DEF DirAt
<1>6. ASSUME Unraced PROVE Unraced'
  <2> USE <1>6 DEF Unraced
  <2>1. FreshUntilHydrated'
    <3>1. hydrated /\ ~Reading
      BY DEF FreshUntilHydrated
    <3> QED BY <1>3, <3>1 DEF FreshUntilHydrated
  <2>2. OneReader'
    BY <1>3, <1>4, <1>5 DEF OneReader
  <2>3. PhonesOnce' /\ MapIsWhole'
    BY <1>3 DEF PhonesOnce, MapIsWhole
  <2>4. InsertsOK'
    BY <1>1, <1>4, <1>5 DEF InsertsOK
  <2> QED BY <2>1, <2>2, <2>3, <2>4
<1>7. InsertNumbers'
  BY <1>1 DEF DirInv, InsertNumbers, DirAt
<1> QED BY <1>2, <1>6, <1>7 DEF DirInv

\* resolve and a refused create answer, a failed insert throws, a caller leaves.
LEMMA EndsKeepDirectory ==
  ASSUME DirInv, NEW c \in DirectoryCalls,
         \/ DirResolve(c) \/ InsertFails(c) \/ Answered(c)
         \/ DirCreate(c) /\ (created[dcall[c].phone] # 0 \/ dcall[c].phone \in SeedPhones)
  PROVE  DirInv'
<1>1. dcall[c] \in DirCall /\ created \in [DirPhones -> Nat]
  BY DEF DirInv, DirTyped
<1>2. PICK x : /\ dcall' = [dcall EXCEPT ![c] = x]
               /\ x \in {[dcall[c] EXCEPT !.pc = "done", !.number = created[dcall[c].phone]],
                         [dcall[c] EXCEPT !.pc = "done", !.op = "failed"],
                         [dcall[c] EXCEPT !.pc = "done", !.op = "conflict"], NoDirCall}
  <2>1. CASE DirResolve(c)
    BY <1>1, <2>1 DEF DirResolve, DirInv, DirTyped
  <2>2. CASE InsertFails(c)
    BY <2>2 DEF InsertFails
  <2>3. CASE Answered(c)
    BY <2>3 DEF Answered
  <2>4. CASE DirCreate(c) /\ (created[dcall[c].phone] # 0 \/ dcall[c].phone \in SeedPhones)
    BY <1>1, <2>4 DEF DirCreate, DirInv, DirTyped
  <2> QED BY <2>1, <2>2, <2>3, <2>4
<1>3. NoDirCall \in DirCall /\ NoDirCall.pc = "idle"
  BY DirAssumption DEF DirAssumption, NoDirCall, DirCall
<1>4. x \in DirCall /\ x.pc \in {"done", "idle"}
  <2>1. CASE x = NoDirCall
    BY <1>3, <2>1
  <2>2. CASE x # NoDirCall
    BY <1>1, <1>2, <2>2 DEF DirCall
  <2> QED BY <2>1, <2>2
<1>5. dcall[c].pc \notin {"idle", "rows"}
  BY DEF DirResolve, InsertFails, Answered, DirCreate, DirAt
<1>6. UNCHANGED <<table, created, counter, hydrated, raced, issued>>
  BY DEF DirResolve, InsertFails, Answered, DirCreate
<1> QED BY <1>2, <1>4, <1>5, <1>6, CallEnds

\* A call arrives: the first one reads, one that comes in between races.
LEMMA ArrivalKeepsDirectory ==
  ASSUME DirInv, NEW c \in DirectoryCalls, NEW op \in {"resolve", "create"}, NEW p \in DirPhones,
         EnsureHydrated(c, op, p)
  PROVE  DirInv'
<1>1. PICK x : x = [NoDirCall EXCEPT !.pc = IF hydrated THEN "go" ELSE "rows", !.op = op, !.phone = p]
  OBVIOUS
<1>2. x \in DirCall /\ x.pc = IF hydrated THEN "go" ELSE "rows"
  BY <1>1 DEF NoDirCall, DirCall
<1>3. /\ dcall' = [dcall EXCEPT ![c] = x] /\ hydrated' = TRUE /\ raced' = (raced \/ Reading)
      /\ UNCHANGED <<table, created, counter, issued>> /\ dcall[c].pc = "idle"
  BY <1>1 DEF EnsureHydrated, DirAt
<1>4. dcall \in [DirectoryCalls -> DirCall] /\ dcall'[c] = x /\ \A d \in DirectoryCalls \ {c} : dcall'[d] = dcall[d]
  BY <1>3 DEF DirInv, DirTyped
<1>5. DirTyped' /\ Keyed' /\ IssuedIsKept'
  BY <1>2, <1>3, <1>4 DEF DirInv, DirTyped, Keyed, IssuedIsKept
<1>6. ASSUME Unraced, ~Reading PROVE Unraced'
  <2> USE <1>6 DEF Unraced
  <2>1. \A d \in DirectoryCalls : d # c => (dcall'[d] = dcall[d] /\ dcall[d].pc # "rows")
    BY <1>4 DEF Reading, DirAt
  <2>2. ~DirAt(c, "insert")' /\ (DirAt(c, "rows")' <=> ~hydrated)
    BY <1>2, <1>4 DEF DirAt
  <2>3. Reading' <=> ~hydrated
    BY <2>1, <2>2 DEF Reading, DirAt
  <2>4. OneReader'
    BY <1>3, <2>1, <2>2, <2>3 DEF OneReader, DirAt
  <2>5. PhonesOnce'
    BY <1>3 DEF PhonesOnce
  <2>6. CASE hydrated
    <3>1. FreshUntilHydrated'
      BY <1>3, <2>3, <2>6 DEF FreshUntilHydrated
    <3>2. MapIsWhole'
      BY <1>3, <2>3, <2>6 DEF MapIsWhole
    <3>3. InsertsOK'
      BY <1>3, <1>4, <2>1, <2>2 DEF InsertsOK, DirAt
    <3> QED BY <2>4, <2>5, <3>1, <3>2, <3>3
  <2>7. CASE ~hydrated
    <3>1. created = Empty /\ counter = 0 /\ \A d \in DirectoryCalls : dcall[d].pc \in {"idle", "rows"}
      BY <2>7 DEF FreshUntilHydrated
    <3>2. \A d \in DirectoryCalls : dcall'[d].pc \in {"idle", "rows"}
      BY <1>2, <1>4, <2>7, <3>1
    <3>3. Empty' = Empty
      BY DEF Empty
    <3>4. FreshUntilHydrated'
      BY <1>3, <3>1, <3>2, <3>3 DEF FreshUntilHydrated
    <3>5. MapIsWhole'
      BY <2>3, <2>7 DEF MapIsWhole
    <3>6. InsertsOK'
      BY <3>2 DEF InsertsOK, DirAt
    <3> QED BY <2>4, <2>5, <3>4, <3>5, <3>6
  <2> QED BY <2>6, <2>7
<1>7. InsertNumbers'
  BY <1>2, <1>4 DEF DirInv, InsertNumbers, DirAt
<1> QED BY <1>3, <1>5, <1>6, <1>7 DEF DirInv

\* The rows arrive: one per phone, and the counter goes past all of them.
LEMMA HydrateKeepsDirectory == ASSUME DirInv, NEW c \in DirectoryCalls, Hydrate(c) PROVE DirInv'
<1> USE DirAssumption DEF DirAssumption
<1>1. PICK row \in [DirPhones -> table \cup {[number |-> 0, phone |-> "none"]}] :
        /\ \A p \in DirPhones : IF \E r \in table : r.phone = p
                                THEN row[p].phone = p ELSE row[p].number = 0
        /\ created' = [p \in DirPhones |-> IF row[p].number = 0 THEN created[p] ELSE row[p].number]
  BY DEF Hydrate
<1>2. PICK x : x = [dcall[c] EXCEPT !.pc = "go"]
  OBVIOUS
<1>3. dcall \in [DirectoryCalls -> DirCall] /\ dcall[c].pc = "rows"
  BY DEF Hydrate, DirAt, DirInv, DirTyped
<1>4. x \in DirCall /\ x.pc = "go"
  BY <1>2, <1>3 DEF DirCall
<1>5. /\ dcall' = [dcall EXCEPT ![c] = x] /\ UNCHANGED <<table, hydrated, raced, issued>>
      /\ counter' \in Nat /\ counter <= counter' /\ \A r \in table : r.number <= counter'
  BY <1>2 DEF Hydrate
<1>6. dcall'[c] = x /\ \A d \in DirectoryCalls \ {c} : dcall'[d] = dcall[d]
  BY <1>3, <1>5
<1>7. table \subseteq [number : Nat \ {0}, phone : DirPhones] /\ created \in [DirPhones -> Nat]
  BY DEF DirInv, DirTyped
<1>8. \A p \in DirPhones : row[p].number \in Nat
  <2>1. [number |-> 0, phone |-> "none"].number = 0
    OBVIOUS
  <2> QED BY <1>7, <2>1
<1>9. created' \in [DirPhones -> Nat]
  BY <1>1, <1>7, <1>8
<1>10. DirTyped' /\ IssuedIsKept'
  BY <1>4, <1>3, <1>5, <1>9 DEF DirInv, DirTyped, IssuedIsKept
<1>11. ASSUME Unraced PROVE Unraced'
  <2> USE <1>11 DEF Unraced
  <2>1. Reading
    BY <1>3 DEF Reading, DirAt
  <2>2. created = Empty /\ counter = 0 /\ \A d \in DirectoryCalls : dcall[d].pc \in {"idle", "rows"}
    BY <2>1 DEF FreshUntilHydrated
  <2>3. \A d \in DirectoryCalls : d # c => dcall[d].pc = "idle"
    BY <1>3, <2>2 DEF OneReader, DirAt
  <2>4. ~Reading' /\ hydrated'
    BY <1>4, <1>5, <1>6, <2>1, <2>3 DEF Reading, DirAt, OneReader, DirInv, DirTyped
  <2>5. ASSUME NEW p \in DirPhones
        PROVE  \/ row[p] \in table /\ row[p].phone = p /\ created'[p] = row[p].number
               \/ (\A r \in table : r.phone # p) /\ created'[p] = 0
    <3>1. CASE \E r \in table : r.phone = p
      <4>1. row[p].phone = p /\ p # "none"
        BY <1>1, <3>1
      <4>2. row[p] \in table
        <5>1. row[p] \in table \cup {[number |-> 0, phone |-> "none"]}
          BY <1>1
        <5>2. [number |-> 0, phone |-> "none"].phone = "none"
          OBVIOUS
        <5> QED BY <4>1, <5>1, <5>2
      <4>3. row[p].number # 0
        BY <1>7, <4>2
      <4> QED BY <1>1, <4>1, <4>2, <4>3
    <3>2. CASE \A r \in table : r.phone # p
      BY <1>1, <2>2, <3>2 DEF Empty
    <3> QED BY <3>1, <3>2
  <2>6. ASSUME NEW r \in table PROVE created'[r.phone] = r.number
    <3>1. r.phone \in DirPhones
      BY <1>7
    <3>2. row[r.phone] = r /\ created'[r.phone] = row[r.phone].number
      BY <2>5, <3>1 DEF PhonesOnce
    <3> QED BY <3>2
  <2>7. \A p \in DirPhones : created'[p] <= counter'
    BY <1>5, <2>5
  <2>8. ASSUME NEW p \in DirPhones, NEW q \in DirPhones, created'[p] = created'[q], created'[p] # 0
        PROVE  p = q
    <3>1. row[p] \in table /\ row[p].phone = p /\ row[q] \in table /\ row[q].phone = q
      BY <2>5, <2>8
    <3>2. row[p].number = row[q].number
      BY <2>5, <2>8
    <3>3. Keyed
      BY DEF DirInv
    <3> QED BY <3>1, <3>2, <3>3 DEF Keyed
  <2>9. MapIsWhole'
    BY <1>5, <2>6, <2>7, <2>8 DEF MapIsWhole
  <2>10. FreshUntilHydrated' /\ OneReader' /\ PhonesOnce'
    BY <1>5, <2>4 DEF FreshUntilHydrated, OneReader, PhonesOnce, Reading
  <2>11. InsertsOK'
    BY <1>4, <1>6, <2>3 DEF InsertsOK, DirAt
  <2> QED BY <2>9, <2>10, <2>11
<1>12. Keyed'
  BY <1>5 DEF DirInv, Keyed
<1>13. InsertNumbers'
  BY <1>4, <1>6 DEF DirInv, InsertNumbers, DirAt
<1> QED BY <1>5, <1>10, <1>11, <1>12, <1>13 DEF DirInv

\* create writes the map under the next number and begins its insert.
LEMMA CreateKeepsDirectory ==
  ASSUME DirInv, NEW c \in DirectoryCalls, DirCreate(c),
         created[dcall[c].phone] = 0, dcall[c].phone \notin SeedPhones
  PROVE  DirInv'
<1>1. /\ dcall \in [DirectoryCalls -> DirCall] /\ dcall[c].pc = "go" /\ dcall[c] \in DirCall
      /\ created \in [DirPhones -> Nat] /\ counter \in Nat
  BY DEF DirCreate, DirAt, DirInv, DirTyped
<1>2. PICK p \in DirPhones : p = dcall[c].phone
  BY <1>1 DEF DirCall
<1>3. PICK n \in Nat : n = counter + 1
  BY <1>1
<1>4. PICK x : x = [dcall[c] EXCEPT !.pc = "insert", !.number = n]
  OBVIOUS
<1>5. x \in DirCall /\ x.pc = "insert" /\ x.number = n /\ x.phone = p
  BY <1>1, <1>2, <1>4 DEF DirCall
<1>6. /\ dcall' = [dcall EXCEPT ![c] = x] /\ counter' = n /\ created' = [created EXCEPT ![p] = n]
      /\ UNCHANGED <<table, hydrated, raced, issued>>
  BY <1>2, <1>3, <1>4 DEF DirCreate
<1>7. dcall'[c] = x /\ \A d \in DirectoryCalls \ {c} : dcall'[d] = dcall[d]
  BY <1>1, <1>6
<1>8. created'[p] = n /\ created[p] = 0 /\ \A q \in DirPhones \ {p} : created'[q] = created[q]
  BY <1>1, <1>2, <1>6
<1>9. DirTyped' /\ Keyed' /\ IssuedIsKept'
  BY <1>1, <1>5, <1>6 DEF DirInv, DirTyped, Keyed, IssuedIsKept
<1>10. Reading' <=> Reading
  BY <1>1, <1>5, <1>7 DEF Reading, DirAt
<1>11. ASSUME Unraced PROVE Unraced'
  <2> USE <1>11 DEF Unraced
  <2>1. hydrated /\ ~Reading
    BY <1>1 DEF FreshUntilHydrated
  <2>2. /\ \A r \in table : created[r.phone] = r.number /\ r.number # 0 /\ r.phone \in DirPhones
        /\ \A q \in DirPhones : created[q] <= counter /\ created[q] \in Nat
        /\ \A q, s \in DirPhones : created[q] = created[s] /\ created[q] # 0 => q = s
    BY <1>1, <2>1 DEF MapIsWhole, DirInv, DirTyped
  <2>3. \A r \in table : r.phone # p
    BY <1>8, <2>2
  <2>4. \A q \in DirPhones \ {p} : created'[q] # n
    BY <1>1, <1>3, <1>8, <2>2
  <2>5. \A q \in DirPhones : created'[q] <= n
    BY <1>1, <1>3, <1>8, <2>2
  <2>6. MapIsWhole'
    <3>1. \A r \in table : created'[r.phone] = r.number
      BY <1>8, <2>2, <2>3
    <3>2. ASSUME NEW q \in DirPhones, NEW s \in DirPhones, created'[q] = created'[s], created'[q] # 0
          PROVE  q = s
      BY <1>8, <2>2, <2>4, <3>2
    <3> QED BY <1>6, <2>5, <3>1, <3>2 DEF MapIsWhole
  <2>7. FreshUntilHydrated' /\ OneReader' /\ PhonesOnce'
    BY <1>6, <1>10, <2>1 DEF FreshUntilHydrated, OneReader, PhonesOnce, Reading
  <2>8. \A d \in DirectoryCalls : DirAt(d, "insert") => dcall[d].phone # p
    BY <1>8 DEF InsertsOK, InsertNumbers, DirInv
  <2>9. ASSUME NEW d \in DirectoryCalls, DirAt(d, "insert")'
         PROVE  /\ dcall'[d].number = created'[dcall'[d].phone]
                /\ \A r \in table : r.phone # dcall'[d].phone
    <3>1. CASE d = c
      BY <1>5, <1>7, <1>8, <2>3, <3>1
    <3>2. CASE d # c
      <4>1. DirAt(d, "insert") /\ dcall'[d] = dcall[d] /\ dcall[d].phone \in DirPhones
        BY <1>1, <1>7, <2>9, <3>2 DEF DirAt, DirCall
      <4> QED BY <1>8, <2>8, <4>1 DEF InsertsOK
    <3> QED BY <3>1, <3>2
  <2>10. ASSUME NEW d \in DirectoryCalls, NEW e \in DirectoryCalls, DirAt(d, "insert")', DirAt(e, "insert")',
                dcall'[d].phone = dcall'[e].phone
         PROVE  d = e
    BY <1>5, <1>7, <2>8, <2>10 DEF InsertsOK, DirAt
  <2>11. InsertsOK'
    BY <1>6, <2>9, <2>10 DEF InsertsOK
  <2> QED BY <2>6, <2>7, <2>11
<1>12. InsertNumbers'
  <2>1. n # 0
    BY <1>1, <1>3
  <2> QED BY <1>5, <1>7, <2>1 DEF DirInv, InsertNumbers, DirAt
<1> QED BY <1>6, <1>9, <1>11, <1>12 DEF DirInv

\* The insert adds the row that the map already has.
LEMMA InsertKeepsDirectory == ASSUME DirInv, NEW c \in DirectoryCalls, Insert(c) PROVE DirInv'
<1>1. /\ dcall \in [DirectoryCalls -> DirCall] /\ dcall[c].pc = "insert" /\ dcall[c] \in DirCall
      /\ dcall[c].phone \in DirPhones /\ dcall[c].number \in Nat
  BY DEF Insert, DirAt, DirInv, DirTyped, DirCall
<1>2. PICK x : x = [dcall[c] EXCEPT !.pc = "done", !.op = "created"]
  OBVIOUS
<1>3. x \in DirCall /\ x.pc = "done"
  BY <1>1, <1>2 DEF DirCall
<1>4. PICK row : row = [number |-> dcall[c].number, phone |-> dcall[c].phone]
  OBVIOUS
<1>5. row.number = dcall[c].number /\ row.phone = dcall[c].phone
  BY <1>4
<1>6. /\ dcall' = [dcall EXCEPT ![c] = x] /\ table' = table \cup {row} /\ issued' = issued \cup {row}
      /\ UNCHANGED <<created, counter, hydrated, raced>> /\ \A r \in table : r.number # row.number
  BY <1>2, <1>4, <1>5 DEF Insert, Taken
<1>7. dcall'[c] = x /\ \A d \in DirectoryCalls \ {c} : dcall'[d] = dcall[d]
  BY <1>1, <1>6
<1>8. Keyed' /\ IssuedIsKept'
  BY <1>6 DEF DirInv, Keyed, IssuedIsKept
<1>9. Reading' <=> Reading
  BY <1>1, <1>3, <1>7 DEF Reading, DirAt
<1>10. ASSUME Unraced PROVE Unraced'
  <2> USE <1>10 DEF Unraced
  <2>1. hydrated /\ ~Reading
    BY <1>1 DEF FreshUntilHydrated
  <2>2. /\ row.number = created[row.phone]
        /\ \A r \in table : r.phone # row.phone
    BY <1>1, <1>5 DEF InsertsOK, DirAt
  <2>3. PhonesOnce' /\ MapIsWhole'
    BY <1>6, <1>9, <2>1, <2>2 DEF PhonesOnce, MapIsWhole
  <2>4. FreshUntilHydrated' /\ OneReader'
    BY <1>6, <1>9, <2>1 DEF FreshUntilHydrated, OneReader, Reading
  <2>5. \A d \in DirectoryCalls : DirAt(d, "insert")' => d # c /\ DirAt(d, "insert") /\ dcall'[d] = dcall[d]
    BY <1>3, <1>7 DEF DirAt
  <2>6. \A d \in DirectoryCalls : DirAt(d, "insert") /\ d # c => dcall[d].phone # row.phone
    BY <1>1, <1>5 DEF InsertsOK, DirAt
  <2>7. InsertsOK'
    BY <1>6, <2>5, <2>6 DEF InsertsOK
  <2> QED BY <2>3, <2>4, <2>7
<1>11. DirTyped'
  <2>1. row \in [number : Nat \ {0}, phone : DirPhones]
    BY <1>1, <1>4 DEF Insert, DirInv, InsertNumbers, DirAt
  <2> QED BY <1>1, <1>3, <1>6, <2>1 DEF DirInv, DirTyped
<1>12. InsertNumbers'
  BY <1>3, <1>7 DEF DirInv, InsertNumbers, DirAt
<1> QED BY <1>6, <1>8, <1>10, <1>11, <1>12 DEF DirInv

\* The select fails and the flag stays set: from here on nothing is claimed.
LEMMA FailureKeepsDirectory == ASSUME DirInv, NEW c \in DirectoryCalls, HydrateFails(c) PROVE DirInv'
<1>1. dcall \in [DirectoryCalls -> DirCall] /\ dcall[c] \in DirCall
  BY DEF DirInv, DirTyped
<1>2. PICK x : x = [dcall[c] EXCEPT !.pc = "done", !.op = "failed"]
  OBVIOUS
<1>3. x \in DirCall /\ x.pc = "done"
  BY <1>1, <1>2 DEF DirCall
<1>4. /\ dcall' = [dcall EXCEPT ![c] = x] /\ raced' = TRUE
      /\ UNCHANGED <<table, created, counter, hydrated, issued>>
  BY <1>2 DEF HydrateFails
<1>5. DirTyped' /\ Keyed' /\ IssuedIsKept'
  BY <1>1, <1>3, <1>4 DEF DirInv, DirTyped, Keyed, IssuedIsKept
<1>6. InsertNumbers'
  BY <1>1, <1>3, <1>4 DEF DirInv, InsertNumbers, DirAt
<1> QED BY <1>4, <1>5, <1>6 DEF DirInv

\* After a restart only the table is left.
LEMMA RestartKeepsDirectory == ASSUME DirInv, DirRestart PROVE DirInv'
<1>1. /\ created' = Empty /\ counter' = 0 /\ hydrated' = FALSE /\ UNCHANGED <<table, raced, issued>>
      /\ dcall' = [c \in DirectoryCalls |-> NoDirCall]
  BY DEF DirRestart
<1>2. NoDirCall \in DirCall /\ NoDirCall.pc = "idle"
  BY DirAssumption DEF DirAssumption, NoDirCall, DirCall
<1>3. \A c \in DirectoryCalls : dcall'[c].pc = "idle"
  BY <1>1, <1>2
<1>4. DirTyped' /\ Keyed' /\ IssuedIsKept'
  BY <1>1, <1>2 DEF DirInv, DirTyped, Empty, Keyed, IssuedIsKept
<1>5. InsertNumbers' /\ InsertsOK' /\ ~Reading'
  BY <1>3 DEF InsertNumbers, InsertsOK, Reading, DirAt
<1>6. OneReader' /\ MapIsWhole'
  BY <1>1, <1>3, <1>5 DEF OneReader, MapIsWhole, DirAt
<1>7. FreshUntilHydrated'
  <2>1. Empty' = Empty
    BY DEF Empty
  <2> QED BY <1>1, <1>3, <2>1 DEF FreshUntilHydrated
<1>8. PhonesOnce => PhonesOnce'
  BY <1>1 DEF PhonesOnce
<1> QED BY <1>1, <1>4, <1>5, <1>6, <1>7, <1>8 DEF DirInv, Unraced

\* Any number of overlapping calls, failing statements and restarts
\* (MockCustomerServiceClient.create, ensureHydrated): an issued customer keeps its
\* number, and without a race in hydration a phone has one customer.
THEOREM DirectoryIsSafe == DirSpec => []DirectorySafe
<1>1. DirInit => DirInv
  <2> SUFFICES ASSUME DirInit PROVE DirInv
    OBVIOUS
  <2>1. PICK n \in 0 .. 2, owner \in [1 .. 2 -> DirPhones \ SeedPhones] :
          owner[1] # owner[2] /\ table = {[number |-> i, phone |-> owner[i]] : i \in 1 .. n}
    BY DEF DirInit
  <2>2. \A r \in table : \E i \in 1 .. 2 : r = [number |-> i, phone |-> owner[i]]
    BY <2>1
  <2>3. table \subseteq [number : Nat \ {0}, phone : DirPhones]
    BY <2>1, <2>2
  <2>4. \A r \in table : r.number \in {1, 2} /\ r.phone = owner[r.number] /\ r = [number |-> r.number, phone |-> r.phone]
    BY <2>2
  <2>5. Keyed /\ PhonesOnce
    BY <2>1, <2>4 DEF Keyed, PhonesOnce
  <2>6. NoDirCall \in DirCall /\ NoDirCall.pc = "idle"
    BY DirAssumption DEF DirAssumption, NoDirCall, DirCall
  <2>7. \A c \in DirectoryCalls : dcall[c].pc = "idle"
    BY <2>6 DEF DirInit
  <2>8. DirTyped /\ IssuedIsKept
    BY <2>3, <2>6 DEF DirInit, DirTyped, Empty, IssuedIsKept
  <2>9. InsertNumbers /\ InsertsOK /\ ~Reading
    BY <2>7 DEF InsertNumbers, InsertsOK, Reading, DirAt
  <2>10. OneReader /\ MapIsWhole /\ FreshUntilHydrated
    BY <2>7, <2>9 DEF DirInit, OneReader, MapIsWhole, FreshUntilHydrated, DirAt
  <2> QED BY <2>5, <2>8, <2>9, <2>10 DEF DirInv, Unraced
<1>2. DirInv /\ [DirNext]_dirVars => DirInv'
  <2> SUFFICES ASSUME DirInv, [DirNext]_dirVars PROVE DirInv'
    OBVIOUS
  <2>1. CASE UNCHANGED dirVars
    <3>1. UNCHANGED <<table, created, counter, hydrated, dcall, raced, issued>>
      BY <2>1 DEF dirVars
    <3>2. DirTyped' /\ Keyed' /\ IssuedIsKept' /\ InsertNumbers'
      BY <3>1 DEF DirInv, DirTyped, Keyed, IssuedIsKept, InsertNumbers, DirAt
    <3>3. Reading' <=> Reading
      BY <3>1 DEF Reading, DirAt
    <3>4. Unraced => Unraced'
      BY <3>1, <3>3 DEF Unraced, FreshUntilHydrated, Empty, OneReader, PhonesOnce, MapIsWhole, InsertsOK, DirAt
    <3> QED BY <3>1, <3>2, <3>4 DEF DirInv
  <2>2. ASSUME NEW c \in DirectoryCalls, DirCreate(c) PROVE DirInv'
    BY <2>2, EndsKeepDirectory, CreateKeepsDirectory
  <2> QED BY <2>1, <2>2, ArrivalKeepsDirectory, HydrateKeepsDirectory, FailureKeepsDirectory,
          EndsKeepDirectory, InsertKeepsDirectory, RestartKeepsDirectory DEF DirNext
<1>3. DirInv => DirectorySafe
  <2> SUFFICES ASSUME DirInv, ~raced PROVE OneCustomerPerPhone
    BY DEF DirInv, DirectorySafe, OneCustomerPerPhone
  <2>1. Unraced /\ table \subseteq [number : Nat \ {0}, phone : DirPhones]
    BY DEF DirInv, DirTyped
  <2>2. ASSUME NEW p \in DirPhones, NEW r \in table, created[p] = r.number PROVE r.phone = p
    <3>1. r.number # 0 /\ r.phone \in DirPhones
      BY <2>1
    <3>2. CASE hydrated /\ ~Reading
      BY <2>1, <2>2, <3>1, <3>2 DEF Unraced, MapIsWhole
    <3>3. CASE ~hydrated \/ Reading
      BY <2>1, <2>2, <3>1, <3>3 DEF Unraced, FreshUntilHydrated, Empty
    <3> QED BY <3>2, <3>3
  <2> QED BY <2>1, <2>2 DEF Unraced, PhonesOnce, OneCustomerPerPhone
<1> QED BY <1>1, <1>2, <1>3, PTL DEF DirSpec

-----------------------------------------------------------------------------
(* Answers to exceptions (ErrorResponses) *)

\* The classes that StructuredErrorFilter knows by themselves.
Structured(c) ==
  c \in DomainExceptions \/ c = "HttpException" \/ c = "ValidationErrors"
    \/ c = "QueryFailedError" \/ c = "thrown value"

\* Classes of getHttpStatus's table.
LEMMA TableClasses ==
  \A c : c \in DOMAIN BaseStatus <=> c \in
    {"PortTimeoutException", "PortNotRegisteredException", "NotFoundException",
     "UnauthorizedException", "ForbiddenException", "ConflictException", "LockoutException",
     "ConcurrencyException", "ValidationException"}
  BY DEF BaseStatus

LEMMA BaseClasses ==
  /\ \A c \in BaseExceptions : c # "HttpException" /\ c # "Error" /\ c # "ValidationErrors"
                               /\ c # "QueryFailedError" /\ c # "thrown value"
  /\ \A c \in DOMAIN BaseStatus : c \in BaseExceptions /\ c # "PortDownstreamException"
                                  /\ c # "PortQueuedException" /\ c # "PortFallbackException"
  /\ "PortDownstreamException" \in BaseExceptions /\ "PortQueuedException" \in BaseExceptions
<1>1. \A c \in DOMAIN BaseStatus : c \in BaseExceptions /\ c # "PortDownstreamException"
                                  /\ c # "PortQueuedException" /\ c # "PortFallbackException"
  BY TableClasses DEF BaseExceptions
<1>2. "PortDownstreamException" \in BaseExceptions /\ "PortQueuedException" \in BaseExceptions
  BY DEF BaseExceptions, PortExceptions
<1>3. \A c \in BaseExceptions : c # "HttpException" /\ c # "Error" /\ c # "ValidationErrors"
                               /\ c # "QueryFailedError" /\ c # "thrown value"
  BY TableClasses DEF BaseExceptions, PortExceptions
<1> QED BY <1>1, <1>2, <1>3

\* A class of the domain layer is none of the others.
LEMMA DomainClasses ==
  \A c \in DomainExceptions :
    /\ c \notin BaseExceptions
    /\ c # "HttpException" /\ c # "ValidationErrors" /\ c # "QueryFailedError"
    /\ c # "thrown value" /\ c # "Error"
<1>1. \A c \in DomainExceptions : c \in
        {"DomainException", "BusinessRuleException", "BusinessRuleViolationException",
         "ResourceNotFoundException",
         "DuplicateResourceException", "InvalidStateException",
         "InsufficientPermissionsException", "ConcurrentModificationException",
         "ExternalServiceException", "RateLimitExceededException"}
  BY DEF DomainExceptions, FinalDomainExceptions, RetryableDomainExceptions
<1>2. \A c \in BaseExceptions : c \in
        {"PortTimeoutException", "PortNotRegisteredException", "NotFoundException",
         "UnauthorizedException", "ForbiddenException", "ConflictException", "LockoutException",
         "ConcurrencyException", "ValidationException", "PortDownstreamException",
         "PortFallbackException", "PortQueuedException"}
  BY TableClasses DEF BaseExceptions, PortExceptions
<1> SUFFICES ASSUME NEW c \in DomainExceptions
             PROVE  /\ c \notin BaseExceptions
                    /\ c # "HttpException" /\ c # "ValidationErrors" /\ c # "QueryFailedError"
                    /\ c # "thrown value" /\ c # "Error"
  OBVIOUS
<1>3. c \notin BaseExceptions
  BY <1>1, <1>2
<1>4. /\ c # "HttpException" /\ c # "ValidationErrors" /\ c # "QueryFailedError"
      /\ c # "thrown value" /\ c # "Error"
  BY <1>1
<1> QED BY <1>3, <1>4

\* What an exception carries, by its class.
LEMMA CarriedStatus ==
  \A e \in Exceptions : /\ e.class = "HttpException" => e.status \in ListedStatuses
                        /\ e.class = "PortDownstreamException" => e.status \in ErrorStatuses
<1> SUFFICES ASSUME NEW e \in Exceptions
             PROVE  /\ e.class = "HttpException" => e.status \in ListedStatuses
                    /\ e.class = "PortDownstreamException" => e.status \in ErrorStatuses
  OBVIOUS
<1>1. Statuses \subseteq ErrorStatuses /\ HttpStatuses \subseteq ListedStatuses
  BY StatusAssumption, Zenon DEF StatusAssumption
<1>3. CASE e \in [class : {"HttpException"}, status : HttpStatuses, words : {{}}]
  BY <1>1, <1>3
<1>4. CASE e \in [class : {"PortDownstreamException"}, status : Statuses, words : {{}}]
  BY <1>1, <1>4
<1>5. CASE e \in [class : DomainExceptions \cup {"ValidationErrors", "QueryFailedError", "thrown value"},
                  status : {0}, words : {{}}]
  <2>1. e.class \in DomainExceptions \/ e.class = "ValidationErrors"
          \/ e.class = "QueryFailedError" \/ e.class = "thrown value"
    BY <1>5
  <2>2. e.class # "HttpException" /\ e.class # "PortDownstreamException"
    BY <2>1, DomainClasses, BaseClasses
  <2> QED BY <2>2
<1>6. CASE e \in [class : (BaseExceptions \ {"PortDownstreamException"}) \cup {"Error"},
                  status : {0}, words : MessageWords]
  <2>1. (e.class \in BaseExceptions /\ e.class # "PortDownstreamException") \/ e.class = "Error"
    BY <1>6
  <2>2. e.class # "HttpException" /\ e.class # "PortDownstreamException"
    BY <2>1, BaseClasses
  <2> QED BY <2>2
<1> QED BY <1>3, <1>4, <1>5, <1>6 DEF Exceptions

LEMMA OtherClasses ==
  \A e \in Exceptions : e.class \notin BaseExceptions \cup {"Error"} => Structured(e.class)
<1> SUFFICES ASSUME NEW e \in Exceptions, e.class \notin BaseExceptions, e.class # "Error"
             PROVE  Structured(e.class)
  OBVIOUS
<1>1. \/ e.class \in {"HttpException"} \/ e.class \in {"PortDownstreamException"}
      \/ e.class \in DomainExceptions \cup {"ValidationErrors", "QueryFailedError", "thrown value"}
      \/ e.class \in (BaseExceptions \ {"PortDownstreamException"}) \cup {"Error"}
  BY DEF Exceptions
<1> QED BY <1>1, BaseClasses DEF Structured

\* What each class is answered with.
LEMMA CaughtFacts ==
  ASSUME NEW e \in Exceptions
  PROVE  /\ e.class = "PortDownstreamException" => Catch(e) = IF e.status >= 500 THEN 502 ELSE e.status
         /\ e.class \in DOMAIN BaseStatus => Catch(e) = BaseStatus[e.class]
         /\ e.class = "PortQueuedException" => Catch(e) = 202
         /\ e.class = "HttpException" => Catch(e) = e.status
         /\ e.class \notin {"PortDownstreamException", "PortQueuedException", "HttpException"}
              \cup DOMAIN BaseStatus => Catch(e) = 500
<1>1. "PortDownstreamException" \notin DOMAIN BaseStatus /\ "PortQueuedException" \notin DOMAIN BaseStatus
      /\ "HttpException" \notin DOMAIN BaseStatus
  BY BaseClasses
<1>2. "PortDownstreamException" \in BaseExceptions /\ DOMAIN BaseStatus \subseteq BaseExceptions
  BY DEF BaseExceptions, PortExceptions
<1>3. e.class = "PortDownstreamException" => Catch(e) = IF e.status >= 500 THEN 502 ELSE e.status
  BY <1>2 DEF Catch, GetHttpStatus
<1>4. e.class \in DOMAIN BaseStatus => Catch(e) = BaseStatus[e.class]
  BY <1>1, <1>2, Zenon DEF Catch, GetHttpStatus
<1>5. /\ e.class = "PortQueuedException" => Catch(e) = 202
      /\ e.class = "HttpException" => Catch(e) = e.status
  BY DEF Catch
<1>6. e.class \notin {"PortDownstreamException", "PortQueuedException", "HttpException"}
         \cup DOMAIN BaseStatus => Catch(e) = 500
  BY Zenon DEF Catch, GetHttpStatus
<1> QED BY <1>3, <1>4, <1>5, <1>6

\* The statuses of getHttpStatus's table.
LEMMA BaseStatuses ==
  /\ \A c \in DOMAIN BaseStatus : BaseStatus[c] \in {400, 401, 403, 404, 409, 429, 500, 504}
  /\ BaseStatus["PortTimeoutException"] = 504 /\ BaseStatus["PortNotRegisteredException"] = 500
  BY DEF BaseStatus

\* The classes thrown at a caller, and where getHttpStatus has them.
LEMMA CallerFacts ==
  /\ \A c \in CallerErrors : c \in DOMAIN BaseStatus \/ c \in DomainExceptions
  /\ \A c \in DOMAIN Promised \ DomainExceptions :
       c \in DOMAIN BaseStatus /\ BaseStatus[c] = Promised[c]
  /\ \A c \in DOMAIN BaseStatus :
       c \in CallerErrors <=> BaseStatus[c] \in {400, 401, 403, 404, 409, 429}
<1>1. \A c : c \in DOMAIN Promised <=> c \in
        {"NotFoundException", "UnauthorizedException", "ForbiddenException",
         "ConflictException", "LockoutException", "DomainException", "BusinessRuleException"}
  BY DEF Promised
<1>2. {"DomainException", "BusinessRuleException"} \subseteq DomainExceptions
      /\ FinalDomainExceptions \subseteq DomainExceptions
  BY DEF DomainExceptions, FinalDomainExceptions
<1>3. \A c : c \in CallerErrors <=>
        \/ c \in {"NotFoundException", "UnauthorizedException", "ForbiddenException",
                  "ConflictException", "LockoutException", "ValidationException",
                  "ConcurrencyException"}
        \/ c \in FinalDomainExceptions
  BY <1>1 DEF CallerErrors, FinalDomainExceptions
<1>4. \A c \in CallerErrors : c \in DOMAIN BaseStatus \/ c \in DomainExceptions
  BY <1>2, <1>3, TableClasses
<1>5. \A c \in DOMAIN Promised \ DomainExceptions :
        c \in DOMAIN BaseStatus /\ BaseStatus[c] = Promised[c]
  <2>1. \A c \in DOMAIN Promised \ DomainExceptions : c \in
          {"NotFoundException", "UnauthorizedException", "ForbiddenException",
           "ConflictException", "LockoutException"}
    BY <1>1, <1>2
  <2>2. \A c \in {"NotFoundException", "UnauthorizedException", "ForbiddenException",
                  "ConflictException", "LockoutException"} : BaseStatus[c] = Promised[c]
    BY DEF BaseStatus, Promised
  <2> QED BY <2>1, <2>2, TableClasses
<1>6. ASSUME NEW c \in DOMAIN BaseStatus
      PROVE  c \in CallerErrors <=> BaseStatus[c] \in {400, 401, 403, 404, 409, 429}
  <2>1. c \notin FinalDomainExceptions
    BY <1>2, DomainClasses, BaseClasses
  <2>2. c \in {"PortTimeoutException", "PortNotRegisteredException"}
          <=> BaseStatus[c] \notin {400, 401, 403, 404, 409, 429}
    BY TableClasses DEF BaseStatus
  <2> QED BY <1>3, <2>1, <2>2, TableClasses
<1> QED BY <1>4, <1>5, <1>6

FailureTyped == failure \in Exceptions

\* For any statuses a downstream refuses with, any that HttpExceptions carry of those
\* the code throws, and any words of a message: status, error code and blame of the
\* answer to an exception fit together (GlobalExceptionFilter, StructuredErrorFilter).
THEOREM StatusesAreHonest == FailureSpec => []StatusIsHonest
<1>1. FailureInit => FailureTyped
  BY DEF FailureInit, FailureTyped
<1>2. FailureTyped /\ [FailureNext]_failure => FailureTyped'
  BY DEF FailureNext, FailureTyped
<1>3. FailureTyped => BlameAgrees
  <2> SUFFICES ASSUME failure \in Exceptions PROVE BlameAgrees
    BY DEF FailureTyped
  <2>1. ASSUME failure.class \in PortExceptions \ {"PortQueuedException"}
        PROVE  IsInfrastructureError(failure) <=> Catch(failure) >= 500
    <3>1. CASE failure.class = "PortDownstreamException"
      <4>1. failure.status \in Int
        BY <3>1, CarriedStatus DEF ErrorStatuses
      <4>2. Catch(failure) = IF failure.status >= 500 THEN 502 ELSE failure.status
        BY <3>1, CaughtFacts
      <4> QED BY <3>1, <4>1, <4>2 DEF IsInfrastructureError
    <3>2. CASE failure.class = "PortTimeoutException"
      <4>1. Catch(failure) = 504
        <5>1. failure.class \in DOMAIN BaseStatus
          BY <3>2, TableClasses
        <5>2. Catch(failure) = BaseStatus[failure.class]
          BY <5>1, CaughtFacts
        <5> QED BY <3>2, <5>2, BaseStatuses
      <4> QED BY <3>2, <4>1 DEF IsInfrastructureError
    <3>3. CASE failure.class = "PortNotRegisteredException"
      <4>1. Catch(failure) = 500
        <5>1. failure.class \in DOMAIN BaseStatus
          BY <3>3, TableClasses
        <5>2. Catch(failure) = BaseStatus[failure.class]
          BY <5>1, CaughtFacts
        <5> QED BY <3>3, <5>2, BaseStatuses
      <4> QED BY <3>3, <4>1 DEF IsInfrastructureError
    <3>4. CASE failure.class = "PortFallbackException"
      <4>1. Catch(failure) = 500
        <5>1. failure.class \notin {"PortDownstreamException", "PortQueuedException", "HttpException"}
                \cup DOMAIN BaseStatus
          BY <3>4, BaseClasses
        <5> QED BY <5>1, CaughtFacts
      <4> QED BY <3>4, <4>1 DEF IsInfrastructureError
    <3> QED BY <2>1, <3>1, <3>2, <3>3, <3>4 DEF PortExceptions
  <2>2. SaysSuccess(failure) <=> Catch(failure) < 300
    <3>1. CASE failure.class = "PortQueuedException"
      BY <3>1, CaughtFacts DEF SaysSuccess
    <3>2. CASE failure.class = "HttpException"
      <4>1. failure.status \in {400, 401, 403, 404, 409, 422, 429, 500, 502, 503, 504}
        BY <3>2, CarriedStatus DEF ListedStatuses
      <4>2. Catch(failure) = failure.status
        BY <3>2, CaughtFacts
      <4> QED BY <3>2, <4>1, <4>2 DEF SaysSuccess
    <3>3. CASE failure.class = "PortDownstreamException"
      <4>1. failure.status \in 400..599
        BY <3>3, CarriedStatus DEF ErrorStatuses
      <4>2. Catch(failure) = IF failure.status >= 500 THEN 502 ELSE failure.status
        BY <3>3, CaughtFacts
      <4> QED BY <3>3, <4>1, <4>2 DEF SaysSuccess
    <3>4. CASE failure.class \in DOMAIN BaseStatus
      <4>1. failure.class # "PortQueuedException"
        BY <3>4, BaseClasses
      <4>2. Catch(failure) \in {400, 401, 403, 404, 409, 429, 500, 504}
        BY <3>4, CaughtFacts, BaseStatuses
      <4> QED BY <4>1, <4>2 DEF SaysSuccess
    <3>5. CASE failure.class \notin {"PortDownstreamException", "PortQueuedException", "HttpException"}
                 \cup DOMAIN BaseStatus
      <4>1. Catch(failure) = 500
        BY <3>5, CaughtFacts
      <4> QED BY <3>5, <4>1 DEF SaysSuccess
    <3> QED BY <3>1, <3>2, <3>3, <3>4, <3>5
  <2> QED BY <2>1, <2>2 DEF BlameAgrees
<1>4. FailureTyped => OwnServerStatus
  <2> SUFFICES ASSUME failure \in Exceptions, failure.class # "HttpException", Catch(failure) >= 500
               PROVE  Catch(failure) \in {500, 502, 504}
    BY DEF OwnServerStatus, FailureTyped
  <2>1. CASE failure.class = "PortQueuedException"
    BY <2>1, CaughtFacts
  <2>2. CASE failure.class = "PortDownstreamException"
    <3>1. failure.status \in 400..599
      BY <2>2, CarriedStatus DEF ErrorStatuses
    <3>2. Catch(failure) = IF failure.status >= 500 THEN 502 ELSE failure.status
      BY <2>2, CaughtFacts
    <3> QED BY <3>1, <3>2
  <2>3. CASE failure.class \in DOMAIN BaseStatus
    <3>1. Catch(failure) \in {400, 401, 403, 404, 409, 429, 500, 504}
      BY <2>3, CaughtFacts, BaseStatuses
    <3> QED BY <3>1
  <2>4. CASE failure.class \notin {"PortDownstreamException", "PortQueuedException", "HttpException"}
               \cup DOMAIN BaseStatus
    BY <2>4, CaughtFacts
  <2> QED BY <2>1, <2>2, <2>3, <2>4
<1>5. FailureTyped => CodeMatchesStatus
  <2> SUFFICES ASSUME failure \in Exceptions, failure.class \notin BaseExceptions \cup {"Error"}
               PROVE  \/ HandleError(failure).status = Category[HandleError(failure).code]
                      \/ /\ failure.class = "HttpException"
                         /\ HandleError(failure).status \in {502, 503}
                         /\ Category[HandleError(failure).code] = 500
    BY DEF CodeMatchesStatus, FailureTyped
  <2>1. Structured(failure.class)
    BY OtherClasses
  <2>2. CASE failure.class = "HttpException"
    <3>1. HandleError(failure) = [status |-> failure.status,
                                  code |-> MapHttpStatusToErrorCode(failure.status)]
      <4>1. failure.class \notin DomainExceptions
        BY <2>2, DomainClasses
      <4> QED BY <2>2, <4>1 DEF HandleError
    <3>2. \A s \in {400, 401, 403, 404, 409, 422, 429, 500, 502, 503, 504} :
            IF s \in {502, 503} THEN Category[MapHttpStatusToErrorCode(s)] = 500
                               ELSE Category[MapHttpStatusToErrorCode(s)] = s
      BY DEF Category, MapHttpStatusToErrorCode
    <3>3. failure.status \in ListedStatuses
      BY <2>2, CarriedStatus
    <3> QED BY <2>2, <3>1, <3>2, <3>3 DEF ListedStatuses
  <2>3. CASE failure.class \in DomainExceptions
    <3>1. failure.class \notin {"HttpException", "ValidationErrors", "QueryFailedError", "thrown value"}
      BY <2>3, DomainClasses
    <3>2. HandleError(failure) = [status |-> 422, code |-> "DOMAIN_ERROR"]
      BY <2>3, <3>1 DEF HandleError
    <3> QED BY <3>2 DEF Category
  <2>4. CASE failure.class = "ValidationErrors"
    <3>1. failure.class \notin DomainExceptions
      BY <2>4 DEF DomainExceptions, FinalDomainExceptions, RetryableDomainExceptions
    <3>2. HandleError(failure) = [status |-> 400, code |-> "VALIDATION_FAILED"]
      BY <2>4, <3>1 DEF HandleError
    <3> QED BY <3>2 DEF Category
  <2>5. CASE failure.class = "QueryFailedError"
    <3>1. failure.class \notin DomainExceptions
      BY <2>5 DEF DomainExceptions, FinalDomainExceptions, RetryableDomainExceptions
    <3>2. HandleError(failure) = [status |-> 500, code |-> "DATABASE_ERROR"]
      BY <2>5, <3>1 DEF HandleError
    <3> QED BY <3>2 DEF Category
  <2>6. CASE failure.class = "thrown value"
    <3>1. failure.class \notin DomainExceptions
      BY <2>6 DEF DomainExceptions, FinalDomainExceptions, RetryableDomainExceptions
    <3>2. HandleError(failure) = [status |-> 500, code |-> "INTERNAL_ERROR"]
      BY <2>6, <3>1 DEF HandleError
    <3> QED BY <3>2 DEF Category
  <2> QED BY <2>1, <2>2, <2>3, <2>4, <2>5, <2>6 DEF Structured
<1>6. FailureTyped => BlameIsRight
  <2> SUFFICES ASSUME failure \in Exceptions PROVE BlameIsRight
    BY DEF FailureTyped
  <2>c. /\ \A c \in CallerErrors : c \in DOMAIN BaseStatus \/ c \in DomainExceptions
        /\ \A c \in DOMAIN Promised \ DomainExceptions :
             c \in DOMAIN BaseStatus /\ BaseStatus[c] = Promised[c]
        /\ \A c \in DOMAIN BaseStatus :
             c \in CallerErrors <=> BaseStatus[c] \in {400, 401, 403, 404, 409, 429}
    BY CallerFacts
  <2>1. CASE failure.class = "PortQueuedException"
    <3>2. "PortQueuedException" \notin DomainExceptions
      BY DomainClasses, BaseClasses
    <3>3. "PortQueuedException" \notin DOMAIN BaseStatus
      BY BaseClasses
    <3>4. Catch(failure) = 202
      BY <2>1, CaughtFacts
    <3>1. Catch(failure) = 202 /\ failure.class \notin DomainExceptions \cup DOMAIN BaseStatus
      BY <2>1, <3>2, <3>3, <3>4
    <3> QED BY <2>c, <3>1 DEF BlameIsRight
  <2>2. CASE failure.class = "HttpException" \/ failure.class = "PortDownstreamException"
    <3>1. failure.class \notin DomainExceptions \cup DOMAIN BaseStatus
      BY <2>2, DomainClasses, BaseClasses
    <3>2. failure.status \in ListedStatuses \cup ErrorStatuses
      BY <2>2, CarriedStatus
    <3>3. Catch(failure) = failure.status \/ Catch(failure) = 502
      BY <2>2, CaughtFacts
    <3> QED BY <2>c, <2>2, <3>1, <3>2, <3>3 DEF BlameIsRight, ListedStatuses, ErrorStatuses
  <2>3. CASE failure.class \in DOMAIN BaseStatus
    <3>1. failure.class \notin DomainExceptions
      BY <2>3, DomainClasses, BaseClasses
    <3>2. Catch(failure) = BaseStatus[failure.class]
      BY <2>3, CaughtFacts
    <3>3. Catch(failure) \in {400, 401, 403, 404, 409, 429, 500, 504}
      BY <2>3, <3>2, BaseStatuses
    <3> QED BY <2>3, <2>c, <3>1, <3>2, <3>3 DEF BlameIsRight
  <2>4. CASE failure.class \notin {"PortDownstreamException", "PortQueuedException", "HttpException"}
               \cup DOMAIN BaseStatus
    <3>1. Catch(failure) = 500
      BY <2>4, CaughtFacts
    <3> QED BY <2>4, <2>c, <3>1 DEF BlameIsRight
  <2> QED BY <2>1, <2>2, <2>3, <2>4
<1> QED BY <1>1, <1>2, <1>3, <1>4, <1>5, <1>6, PTL DEF FailureSpec, StatusIsHonest

-----------------------------------------------------------------------------
(* HttpPipeline *)

Stages == {"new", "propagating", "guarding", "guarded", "handling", "unwinding", "answered"}
Someone == HttpUsers \cup {NoUser}
Context == [correlationId : Nat, userId : Someone, signedJwt : Someone]
Whatever == {"request start", "request end", "request error",
             "AUDIT STARTED", "AUDIT COMPLETED", "AUDIT FAILED"}
Entry == [what : Whatever, correlationId : Nat, user : Someone]
Span == [started : Nat, ended : Nat]
Downstream == [sent : BOOLEAN, correlationId : Nat, jwt : Someone]
Outcomes == HandlerErrors \cup {Fine, BadRequest, Unauthorized, Forbidden}
Opened == [started |-> 1, ended |-> 0]
Closed == [started |-> 1, ended |-> 1]
NoSpan == [started |-> 0, ended |-> 0]

PipelineTyped ==
  /\ route \in [HttpRequests -> Routes]
  /\ cookie \in [HttpRequests -> Someone]
  /\ stage \in [HttpRequests -> Stages]
  /\ context \in [HttpRequests -> Context]
  /\ requestUser \in [HttpRequests -> Someone]
  /\ answer \in [HttpRequests -> Nat]
  /\ header \in [HttpRequests -> Nat]
  /\ trail \in [HttpRequests -> Seq(Entry)]
  /\ spans \in [HttpRequests -> Span]
  /\ outcome \in [HttpRequests -> Outcomes]
  /\ forwarded \in [HttpRequests -> Downstream]
  /\ nextId \in Nat

\* Whom the context and the guard know is the owner of the cookie, or nobody.
OneIdentity(r) ==
  /\ context[r].correlationId = header[r]
  /\ context[r].userId \in {NoUser, cookie[r]}
  /\ context[r].signedJwt \in {NoUser, cookie[r]}

\* What the session guard leaves behind it.
Guarded(r) ==
  /\ route[r].public => requestUser[r] = NoUser
  /\ ~ route[r].public => requestUser[r] = cookie[r] /\ cookie[r] # NoUser

\* Nothing of the request has been written or sent.
NothingTold(r) == trail[r] = << >> /\ spans[r] = NoSpan /\ ~ forwarded[r].sent

\* What is sent downstream is the request's.
SentAsKnown(r) ==
  forwarded[r].sent =>
    forwarded[r].correlationId = header[r] /\ forwarded[r].jwt = context[r].signedJwt

\* The interceptors wrote what they write on the way in.
ToldIn(r) ==
  /\ Guarded(r) /\ SentAsKnown(r)
  /\ trail[r] = LogRequest(r) \o CreateAuditEntry(r)
  /\ spans[r] = Opened

\* They wrote what they write on the way in and out, and the answer fits it.
ToldAll(r) ==
  /\ Guarded(r) /\ SentAsKnown(r)
  /\ trail[r] = (LogRequest(r) \o CreateAuditEntry(r)) \o UnwindEntries(r)
  /\ spans[r] = Closed
  /\ answer[r] = Respond(outcome[r])

\* How far the request has come is what has been told of it.
Story(r) ==
  /\ OneIdentity(r)
  /\ stage[r] \in {"new", "propagating", "guarding", "guarded"} => NothingTold(r)
  /\ stage[r] = "guarded" => Guarded(r)
  /\ stage[r] \in {"handling", "unwinding"} => ToldIn(r)
  /\ stage[r] = "answered" => NothingTold(r) \/ ToldAll(r)
  /\ stage[r] # "answered" => answer[r] = 0

PipelineInv == PipelineTyped /\ \A r \in HttpRequests : Story(r)

LEMMA PipelineInvInit == PipelineInit => PipelineInv
<1> SUFFICES ASSUME PipelineInit PROVE PipelineInv
  OBVIOUS
<1> USE DEF PipelineInit
<1>1. /\ NoContext \in Context /\ NoSpan \in Span /\ Nothing \in Downstream /\ Fine \in Outcomes
      /\ NoUser \in Someone
  BY DEF NoContext, Context, NoSpan, Span, Nothing, Downstream, Outcomes, Someone
<1>2. /\ spans = [r \in HttpRequests |-> NoSpan]
      /\ cookie \in [HttpRequests -> Someone]
  BY DEF NoSpan, Someone
<1>3. PipelineTyped
  <2>1. trail \in [HttpRequests -> Seq(Entry)]
    OBVIOUS
  <2>2. /\ stage \in [HttpRequests -> Stages] /\ answer \in [HttpRequests -> Nat]
        /\ header \in [HttpRequests -> Nat] /\ nextId \in Nat
    BY DEF Stages
  <2>3. /\ context \in [HttpRequests -> Context] /\ requestUser \in [HttpRequests -> Someone]
        /\ outcome \in [HttpRequests -> Outcomes] /\ forwarded \in [HttpRequests -> Downstream]
    BY <1>1
  <2>4. spans \in [HttpRequests -> Span]
    BY <1>1, <1>2
  <2> QED BY <1>2, <2>1, <2>2, <2>3, <2>4 DEF PipelineTyped
<1>4. ASSUME NEW r \in HttpRequests PROVE Story(r)
  BY DEF Story, OneIdentity, NothingTold, NoContext, Nothing, NoSpan
<1> QED BY <1>3, <1>4 DEF PipelineInv

\* A request of which nothing changes keeps its story.
LEMMA SameStory ==
  ASSUME NEW q \in HttpRequests, Story(q),
         stage'[q] = stage[q], context'[q] = context[q], requestUser'[q] = requestUser[q],
         answer'[q] = answer[q], header'[q] = header[q], trail'[q] = trail[q],
         spans'[q] = spans[q], outcome'[q] = outcome[q], forwarded'[q] = forwarded[q],
         route'[q] = route[q], cookie'[q] = cookie[q]
  PROVE  Story(q)'
<1>1. /\ (LogRequest(q) = LogRequest(q)') /\ (CreateAuditEntry(q) = CreateAuditEntry(q)')
      /\ (UnwindEntries(q) = UnwindEntries(q)')
  BY DEF LogRequest, CreateAuditEntry, UnwindEntries, LogAuditSuccess, LogAuditError,
         LogResponse, LogError, Audited, LogEntry
<1>2. /\ OneIdentity(q) = OneIdentity(q)' /\ NothingTold(q) = NothingTold(q)'
      /\ Guarded(q) = Guarded(q)' /\ SentAsKnown(q) = SentAsKnown(q)'
  BY DEF OneIdentity, NothingTold, Guarded, SentAsKnown
<1> QED BY <1>1, <1>2 DEF Story, ToldIn, ToldAll

\* A step of one request leaves the others' stories alone.
LEMMA OthersStories ==
  ASSUME PipelineInv, NEW r \in HttpRequests, PipelineTyped', Story(r)',
         UNCHANGED <<route, cookie>>,
         \A q \in HttpRequests : q # r =>
           /\ stage'[q] = stage[q] /\ context'[q] = context[q] /\ requestUser'[q] = requestUser[q]
           /\ answer'[q] = answer[q] /\ header'[q] = header[q] /\ trail'[q] = trail[q]
           /\ spans'[q] = spans[q] /\ outcome'[q] = outcome[q] /\ forwarded'[q] = forwarded[q]
  PROVE  PipelineInv'
<1>1. ASSUME NEW q \in HttpRequests, q # r PROVE Story(q)'
  BY <1>1, SameStory DEF PipelineInv
<1> QED BY <1>1 DEF PipelineInv

\* The steps of one request, up to its guards.
LEMMA InboundKeepsPipeline ==
  ASSUME PipelineInv, NEW r \in HttpRequests,
         \/ Correlate(r) \/ PropagateNothing(r) \/ Propagate(r) \/ SessionGuardAdmits(r)
  PROVE  PipelineInv'
<1>1. PipelineTyped /\ Story(r)
  BY DEF PipelineInv
<1>2. CASE Correlate(r)
  <2>1. PICK id \in {nextId, MaxIds} :
          /\ nextId' = IF id = nextId THEN nextId + 1 ELSE nextId
          /\ context' = [context EXCEPT ![r].correlationId = id]
          /\ header' = [header EXCEPT ![r] = id]
    BY <1>2 DEF Correlate
  <2>2. id \in Nat /\ nextId' \in Nat
    BY <1>1, <2>1, PipelineAssumption DEF PipelineAssumption, PipelineTyped
  <2>3. PICK k : k = [context[r] EXCEPT !.correlationId = id]
    OBVIOUS
  <2>4. context[r] \in Context
    BY <1>1 DEF PipelineTyped
  <2>5. /\ k \in Context /\ k.correlationId = id /\ k.userId = context[r].userId
        /\ k.signedJwt = context[r].signedJwt
    BY <2>2, <2>3, <2>4 DEF Context
  <2>6. context' = [context EXCEPT ![r] = k]
    BY <2>1, <2>3
  <2>7. /\ context' \in [HttpRequests -> Context] /\ context'[r] = k
        /\ header' \in [HttpRequests -> Nat] /\ header'[r] = id
        /\ stage' \in [HttpRequests -> Stages] /\ stage[r] = "new" /\ stage'[r] = "propagating"
    <3>1. context' \in [HttpRequests -> Context] /\ context'[r] = k
      BY <1>1, <2>5, <2>6 DEF PipelineTyped
    <3>2. header' \in [HttpRequests -> Nat] /\ header'[r] = id
      BY <1>1, <2>1, <2>2 DEF PipelineTyped
    <3>3. stage' \in [HttpRequests -> Stages] /\ stage[r] = "new" /\ stage'[r] = "propagating"
      BY <1>1, <1>2 DEF Correlate, Goes, PipelineTyped, Stages
    <3> QED BY <3>1, <3>2, <3>3
  <2>8. PipelineTyped'
    BY <1>1, <1>2, <2>2, <2>7 DEF Correlate, PipelineTyped
  <2>9. Story(r)'
    BY <1>1, <1>2, <2>5, <2>7 DEF Correlate, Story, OneIdentity, NothingTold
  <2>10. \A q \in HttpRequests : q # r =>
           stage'[q] = stage[q] /\ context'[q] = context[q] /\ header'[q] = header[q]
    BY <1>1, <1>2, <2>1, <2>6 DEF Correlate, Goes, PipelineTyped, Stages
  <2> QED BY <1>2, <2>8, <2>9, <2>10, OthersStories DEF Correlate
<1>3. CASE PropagateNothing(r)
  <2>1. /\ stage' \in [HttpRequests -> Stages]
        /\ stage[r] = "propagating" /\ stage'[r] = "guarding"
        /\ \A q \in HttpRequests : q # r => stage'[q] = stage[q]
    BY <1>1, <1>3 DEF PropagateNothing, Goes, PipelineTyped, Stages
  <2>2. PipelineTyped'
    BY <1>1, <1>3, <2>1 DEF PropagateNothing, PipelineTyped
  <2>3. Story(r)'
    BY <1>1, <1>3, <2>1 DEF PropagateNothing, Story, OneIdentity, NothingTold
  <2> QED BY <1>3, <2>1, <2>2, <2>3, OthersStories DEF PropagateNothing
<1>4. CASE Propagate(r)
  <2>1. PICK k : k = [correlationId |-> context[r].correlationId,
                      userId |-> Session(r), signedJwt |-> Session(r)]
    OBVIOUS
  <2>2. Session(r) = cookie[r] /\ cookie[r] \in Someone /\ context[r] \in Context
    BY <1>1, <1>4 DEF Propagate, Session, PipelineTyped
  <2>3. /\ k \in Context /\ k.correlationId = context[r].correlationId
        /\ k.userId = cookie[r] /\ k.signedJwt = cookie[r]
    BY <2>1, <2>2 DEF Context
  <2>4. context' = [context EXCEPT ![r] = k]
    BY <1>4, <2>1 DEF Propagate
  <2>5. /\ stage' \in [HttpRequests -> Stages]
        /\ stage[r] = "propagating" /\ stage'[r] = "guarding"
        /\ context' \in [HttpRequests -> Context] /\ context'[r] = k
        /\ \A q \in HttpRequests : q # r => stage'[q] = stage[q] /\ context'[q] = context[q]
    BY <1>1, <1>4, <2>3, <2>4 DEF Propagate, Goes, PipelineTyped, Stages
  <2>6. PipelineTyped'
    BY <1>1, <1>4, <2>5 DEF Propagate, PipelineTyped
  <2>7. Story(r)'
    BY <1>1, <1>4, <2>3, <2>5 DEF Propagate, Story, OneIdentity, NothingTold
  <2> QED BY <1>4, <2>5, <2>6, <2>7, OthersStories DEF Propagate
<1>5. CASE SessionGuardAdmits(r)
  <2>1. PICK u : u = IF route[r].public THEN NoUser ELSE Session(r)
    OBVIOUS
  <2>2. cookie[r] \in Someone /\ NoUser \in Someone
    BY <1>1 DEF PipelineTyped, Someone
  <2>3. /\ u \in Someone
        /\ route[r].public => u = NoUser
        /\ ~ route[r].public => u = cookie[r] /\ cookie[r] # NoUser
    BY <1>5, <2>1, <2>2 DEF SessionGuardAdmits, Session
  <2>4. requestUser' = [requestUser EXCEPT ![r] = u]
    BY <1>5, <2>1 DEF SessionGuardAdmits
  <2>5. /\ stage' \in [HttpRequests -> Stages]
        /\ stage[r] = "guarding" /\ stage'[r] = "guarded"
        /\ requestUser' \in [HttpRequests -> Someone] /\ requestUser'[r] = u
        /\ \A q \in HttpRequests : q # r =>
             stage'[q] = stage[q] /\ requestUser'[q] = requestUser[q]
    BY <1>1, <1>5, <2>3, <2>4 DEF SessionGuardAdmits, Goes, PipelineTyped, Stages
  <2>6. PipelineTyped'
    BY <1>1, <1>5, <2>5 DEF SessionGuardAdmits, PipelineTyped
  <2>7. Guarded(r)'
    BY <1>5, <2>3, <2>5 DEF SessionGuardAdmits, Guarded
  <2>8. Story(r)'
    BY <1>1, <1>5, <2>5, <2>7 DEF SessionGuardAdmits, Story, OneIdentity, NothingTold
  <2> QED BY <1>5, <2>5, <2>6, <2>8, OthersStories DEF SessionGuardAdmits
<1> QED BY <1>2, <1>3, <1>4, <1>5

\* A guard refuses: the request is answered and nothing is told.
LEMMA RefusedKeepsPipeline ==
  ASSUME PipelineInv, NEW r \in HttpRequests, NEW e \in {Unauthorized, Forbidden},
         stage[r] \in {"guarding", "guarded"}, Refused(r, e), UNCHANGED requestUser
  PROVE  PipelineInv'
<1>1. PipelineTyped /\ Story(r)
  BY DEF PipelineInv
<1>2. e \in Outcomes /\ Catch(e) \in Nat
  BY DEF Outcomes, Catch, Unauthorized, Forbidden, GetHttpStatus, BaseExceptions, BaseStatus,
         PortExceptions
<1>3. /\ stage' \in [HttpRequests -> Stages] /\ stage'[r] = "answered"
      /\ outcome' \in [HttpRequests -> Outcomes]
      /\ answer' \in [HttpRequests -> Nat]
      /\ \A q \in HttpRequests : q # r =>
           stage'[q] = stage[q] /\ outcome'[q] = outcome[q] /\ answer'[q] = answer[q]
  BY <1>1, <1>2 DEF Refused, PipelineTyped, Stages
<1>4. PipelineTyped'
  BY <1>1, <1>3 DEF Refused, PipelineTyped
<1>5. Story(r)'
  BY <1>1, <1>3 DEF Refused, Story, OneIdentity, NothingTold
<1> QED BY <1>3, <1>4, <1>5, OthersStories DEF Refused

\* What the interceptors write is entries.
LEMMA EntriesAreEntries ==
  ASSUME PipelineInv, NEW r \in HttpRequests
  PROVE  /\ LogRequest(r) \in Seq(Entry) /\ CreateAuditEntry(r) \in Seq(Entry)
         /\ UnwindEntries(r) \in Seq(Entry)
<1>1. context[r] \in Context /\ requestUser[r] \in Someone
  BY DEF PipelineInv, PipelineTyped
<1>2. \A what \in Whatever, user \in Someone : LogEntry(r, what, user) \in Entry
  BY <1>1 DEF LogEntry, Entry, Context
<1>3. context[r].userId \in Someone
  BY <1>1 DEF Context
<1>4. \A what \in Whatever : Audited(r, what) \in Seq(Entry)
  BY <1>1, <1>2 DEF Audited
<1>5. /\ LogRequest(r) \in Seq(Entry) /\ LogResponse(r) \in Seq(Entry)
      /\ LogError(r) \in Seq(Entry)
  <2>1. /\ LogEntry(r, "request start", context[r].userId) \in Entry
        /\ LogEntry(r, "request end", context[r].userId) \in Entry
        /\ LogEntry(r, "request error", context[r].userId) \in Entry
    BY <1>2, <1>3 DEF Whatever
  <2>2. \A e \in Entry : <<e>> \in Seq(Entry)
    OBVIOUS
  <2> QED BY <2>1, <2>2 DEF LogRequest, LogResponse, LogError
<1>6. /\ CreateAuditEntry(r) \in Seq(Entry) /\ LogAuditSuccess(r) \in Seq(Entry)
      /\ LogAuditError(r) \in Seq(Entry)
  BY <1>4 DEF CreateAuditEntry, LogAuditSuccess, LogAuditError, Whatever
<1>7. UnwindEntries(r) \in Seq(Entry)
  BY <1>5, <1>6 DEF UnwindEntries
<1> QED BY <1>5, <1>6, <1>7

LEMMA InterceptKeepsPipeline ==
  ASSUME PipelineInv, NEW r \in HttpRequests, Intercept(r) PROVE PipelineInv'
<1>1. PipelineTyped /\ Story(r)
  BY DEF PipelineInv
<1>2. PICK t : t = LogRequest(r) \o CreateAuditEntry(r)
  OBVIOUS
<1>3. trail[r] = << >> /\ spans[r] = NoSpan /\ ~ forwarded[r].sent /\ Guarded(r)
  BY <1>1 DEF Intercept, Goes, Story, NothingTold
<1>4. (trail[r] \o LogRequest(r)) \o CreateAuditEntry(r) = t /\ t \in Seq(Entry)
  BY <1>2, <1>3, EntriesAreEntries
<1>5. trail' = [trail EXCEPT ![r] = t]
  BY <1>4 DEF Intercept
<1>6. StartSpan(spans[r]) = Opened /\ Opened \in Span
  BY <1>3 DEF StartSpan, NoSpan, Opened, Span
<1>7. spans' = [spans EXCEPT ![r] = Opened]
  BY <1>6 DEF Intercept
<1>8. /\ stage' \in [HttpRequests -> Stages] /\ stage[r] = "guarded" /\ stage'[r] = "handling"
      /\ \A q \in HttpRequests : q # r => stage'[q] = stage[q]
  BY <1>1 DEF Intercept, Goes, PipelineTyped, Stages
<1>9. /\ trail' \in [HttpRequests -> Seq(Entry)] /\ trail'[r] = t
      /\ spans' \in [HttpRequests -> Span] /\ spans'[r] = Opened
      /\ \A q \in HttpRequests : q # r => trail'[q] = trail[q] /\ spans'[q] = spans[q]
  BY <1>1, <1>4, <1>5, <1>6, <1>7 DEF PipelineTyped
<1>10. PipelineTyped'
  BY <1>1, <1>8, <1>9 DEF Intercept, PipelineTyped
<1>11. (LogRequest(r) \o CreateAuditEntry(r))' = t
  BY <1>2 DEF Intercept, LogRequest, CreateAuditEntry, Audited, LogEntry
<1>12. ToldIn(r)'
  BY <1>3, <1>9, <1>11 DEF Intercept, ToldIn, Guarded, SentAsKnown
<1>13. Story(r)'
  BY <1>1, <1>8, <1>12 DEF Intercept, Story, OneIdentity
<1> QED BY <1>8, <1>9, <1>10, <1>13, OthersStories DEF Intercept

\* The handler is refused by its pipe, calls downstream, or settles.
LEMMA HandlerKeepsPipeline ==
  ASSUME PipelineInv, NEW r \in HttpRequests,
         PipeRejects(r) \/ HandlerForwards(r) \/ HandlerSettles(r)
  PROVE  PipelineInv'
<1>1. PipelineTyped /\ Story(r)
  BY DEF PipelineInv
<1>2. stage[r] = "handling" /\ ToldIn(r)
  BY <1>1 DEF PipeRejects, HandlerForwards, HandlerSettles, Goes, Story
<1>3. CASE HandlerForwards(r)
  <2>1. PICK d : d = [sent |-> TRUE, correlationId |-> context[r].correlationId,
                      jwt |-> context[r].signedJwt]
    OBVIOUS
  <2>2. context[r] \in Context
    BY <1>1 DEF PipelineTyped
  <2>3. /\ d \in Downstream /\ d.correlationId = context[r].correlationId
        /\ d.jwt = context[r].signedJwt
    BY <2>1, <2>2 DEF Downstream, Context
  <2>4. forwarded' = [forwarded EXCEPT ![r] = d]
    BY <1>3, <2>1 DEF HandlerForwards
  <2>5. /\ forwarded' \in [HttpRequests -> Downstream] /\ forwarded'[r] = d
        /\ \A q \in HttpRequests : q # r => forwarded'[q] = forwarded[q]
    BY <1>1, <2>3, <2>4 DEF PipelineTyped
  <2>6. PipelineTyped'
    BY <1>1, <1>3, <2>5 DEF HandlerForwards, PipelineTyped
  <2>7. (LogRequest(r) \o CreateAuditEntry(r))' = LogRequest(r) \o CreateAuditEntry(r)
    BY <1>3 DEF HandlerForwards, LogRequest, CreateAuditEntry, Audited, LogEntry
  <2>8. ToldIn(r)'
    BY <1>1, <1>2, <1>3, <2>3, <2>5, <2>7
       DEF HandlerForwards, ToldIn, Guarded, SentAsKnown, Story, OneIdentity
  <2>9. Story(r)'
    BY <1>1, <1>2, <1>3, <2>8 DEF HandlerForwards, Story, OneIdentity
  <2> QED BY <1>3, <2>5, <2>6, <2>9, OthersStories DEF HandlerForwards
<1>4. CASE PipeRejects(r) \/ HandlerSettles(r)
  <2>1. PICK e \in Outcomes : outcome' = [outcome EXCEPT ![r] = e]
    BY <1>4 DEF PipeRejects, HandlerSettles, Outcomes
  <2>2. /\ stage' \in [HttpRequests -> Stages] /\ stage'[r] = "unwinding"
        /\ outcome' \in [HttpRequests -> Outcomes]
        /\ \A q \in HttpRequests : q # r => stage'[q] = stage[q] /\ outcome'[q] = outcome[q]
    BY <1>1, <1>4, <2>1 DEF PipeRejects, HandlerSettles, Goes, PipelineTyped, Stages
  <2>3. UNCHANGED <<route, cookie, context, requestUser, answer, header, trail, spans,
                    forwarded, nextId>>
    BY <1>4 DEF PipeRejects, HandlerSettles
  <2>4. PipelineTyped'
    BY <1>1, <2>2, <2>3 DEF PipelineTyped
  <2>5. (LogRequest(r) \o CreateAuditEntry(r))' = LogRequest(r) \o CreateAuditEntry(r)
    BY <2>3 DEF LogRequest, CreateAuditEntry, Audited, LogEntry
  <2>6. ToldIn(r)'
    BY <1>2, <2>3, <2>5 DEF ToldIn, Guarded, SentAsKnown
  <2>7. Story(r)'
    BY <1>1, <1>2, <2>2, <2>3, <2>6 DEF Story, OneIdentity
  <2> QED BY <2>2, <2>3, <2>4, <2>7, OthersStories
<1> QED BY <1>3, <1>4

LEMMA AnswersAreStatuses ==
  ASSUME NEW e \in Outcomes
  PROVE  /\ Respond(e) \in Nat
         /\ e = Fine => Respond(e) = 200
         /\ e # Fine => Respond(e) >= 400 \/ e.class = "PortQueuedException"
<1>1. CASE e = Fine
  BY <1>1 DEF Respond
<1>2. CASE e \in {BadRequest, Unauthorized, Forbidden}
  BY <1>2 DEF Respond, BadRequest, Unauthorized, Forbidden, Fine, Catch, GetHttpStatus,
              BaseExceptions, PortExceptions, BaseStatus
<1>3. CASE e \in HandlerErrors
  <2>1. e \in Exceptions
    BY <1>3, PipelineAssumption DEF PipelineAssumption
  <2>2. e.class \in {"HttpException", "PortDownstreamException"} => e.status \in 400 .. 599
    BY <2>1, CarriedStatus DEF ErrorStatuses, ListedStatuses
  <2>3. e # Fine
    <3>1. "none" \notin BaseExceptions
      BY DEF BaseExceptions, BaseStatus, PortExceptions
    <3>2. "none" \notin DomainExceptions
      BY DEF DomainExceptions, FinalDomainExceptions, RetryableDomainExceptions
    <3>3. e.class # "none"
      BY <2>1, <3>1, <3>2 DEF Exceptions
    <3> QED BY <3>3 DEF Fine
  <2>4. GetHttpStatus(e) \in Nat /\ GetHttpStatus(e) >= 400
    BY <2>2 DEF GetHttpStatus, BaseStatus
  <2>5. Catch(e) \in Nat /\ (Catch(e) >= 400 \/ e.class = "PortQueuedException")
    BY <2>2, <2>4 DEF Catch
  <2> QED BY <2>3, <2>5 DEF Respond
<1> QED BY <1>1, <1>2, <1>3 DEF Outcomes

LEMMA UnwindKeepsPipeline ==
  ASSUME PipelineInv, NEW r \in HttpRequests, Unwind(r) PROVE PipelineInv'
<1>1. PipelineTyped /\ Story(r)
  BY DEF PipelineInv
<1>2. stage[r] = "unwinding" /\ ToldIn(r)
  BY <1>1 DEF Unwind, Goes, Story
<1>3. PICK t : t = (LogRequest(r) \o CreateAuditEntry(r)) \o UnwindEntries(r)
  OBVIOUS
<1>4. trail[r] \o UnwindEntries(r) = t /\ t \in Seq(Entry)
  BY <1>2, <1>3, EntriesAreEntries DEF ToldIn
<1>5. EndSpan(spans[r]) = Closed /\ Closed \in Span
  BY <1>2 DEF EndSpan, ToldIn, Opened, Closed, Span
<1>6. PICK a \in Nat : a = Respond(outcome[r])
  BY <1>1, AnswersAreStatuses DEF PipelineTyped
<1>7. /\ trail' = [trail EXCEPT ![r] = t] /\ spans' = [spans EXCEPT ![r] = Closed]
      /\ answer' = [answer EXCEPT ![r] = a]
  BY <1>4, <1>5, <1>6 DEF Unwind
<1>8. /\ trail' \in [HttpRequests -> Seq(Entry)] /\ trail'[r] = t
      /\ spans' \in [HttpRequests -> Span] /\ spans'[r] = Closed
      /\ answer' \in [HttpRequests -> Nat] /\ answer'[r] = a
      /\ \A q \in HttpRequests : q # r =>
           trail'[q] = trail[q] /\ spans'[q] = spans[q] /\ answer'[q] = answer[q]
  BY <1>1, <1>4, <1>5, <1>7 DEF PipelineTyped
<1>9. /\ stage' \in [HttpRequests -> Stages] /\ stage'[r] = "answered"
      /\ \A q \in HttpRequests : q # r => stage'[q] = stage[q]
  BY <1>1 DEF Unwind, Goes, PipelineTyped, Stages
<1>10. PipelineTyped'
  BY <1>1, <1>8, <1>9 DEF Unwind, PipelineTyped
<1>11. ((LogRequest(r) \o CreateAuditEntry(r)) \o UnwindEntries(r))' = t
  BY <1>3 DEF Unwind, LogRequest, CreateAuditEntry, UnwindEntries, LogAuditSuccess, LogAuditError,
              LogResponse, LogError, Audited, LogEntry
<1>12. ToldAll(r)'
  BY <1>2, <1>6, <1>8, <1>11 DEF Unwind, ToldIn, ToldAll, Guarded, SentAsKnown
<1>13. Story(r)'
  BY <1>1, <1>9, <1>12 DEF Unwind, Story, OneIdentity
<1> QED BY <1>8, <1>9, <1>10, <1>13, OthersStories DEF Unwind

LEMMA PipelineInvStep == PipelineInv /\ [PipelineNext]_pipelineVars => PipelineInv'
<1> SUFFICES ASSUME PipelineInv, [PipelineNext]_pipelineVars PROVE PipelineInv'
  OBVIOUS
<1>1. ASSUME NEW r \in HttpRequests, RequestStep(r) PROVE PipelineInv'
  <2>1. CASE SessionGuardRefuses(r)
    BY <2>1, RefusedKeepsPipeline DEF SessionGuardRefuses
  <2>2. CASE GuardRefuses(r)
    BY <2>2, RefusedKeepsPipeline DEF GuardRefuses
  <2> QED BY <1>1, <2>1, <2>2, InboundKeepsPipeline, InterceptKeepsPipeline, HandlerKeepsPipeline,
          UnwindKeepsPipeline DEF RequestStep
<1>2. ASSUME UNCHANGED <<route, cookie, stage, context, requestUser, answer, header, trail, spans,
                         outcome, forwarded, nextId>>
      PROVE  PipelineInv'
  <2>1. PipelineTyped'
    BY <1>2 DEF PipelineInv, PipelineTyped
  <2>2. ASSUME NEW q \in HttpRequests PROVE Story(q)'
    BY <1>2, SameStory DEF PipelineInv
  <2> QED BY <2>1, <2>2 DEF PipelineInv
<1>3. ASSUME NEW u \in HttpUsers, SignOut(u) PROVE PipelineInv'
  BY <1>2, <1>3 DEF SignOut
<1>4. CASE UNCHANGED pipelineVars
  BY <1>2, <1>4 DEF pipelineVars
<1> QED BY <1>1, <1>3, <1>4 DEF PipelineNext

\* Four entries put together, and two.
AreFour(t, a, b, c, d) ==
  DOMAIN t = {1, 2, 3, 4} /\ t[1] = a /\ t[2] = b /\ t[3] = c /\ t[4] = d
AreTwo(t, a, d) == DOMAIN t = {1, 2} /\ t[1] = a /\ t[2] = d

LEMMA Together ==
  ASSUME NEW a \in Entry, NEW b \in Entry, NEW c \in Entry, NEW d \in Entry
  PROVE  /\ AreFour((<<a>> \o <<b>>) \o (<<c>> \o <<d>>), a, b, c, d)
         /\ AreTwo((<<a>> \o << >>) \o (<< >> \o <<d>>), a, d)
<1>1. AreFour((<<a>> \o <<b>>) \o (<<c>> \o <<d>>), a, b, c, d)
  <2>1. DOMAIN ((<<a>> \o <<b>>) \o (<<c>> \o <<d>>)) = 1 .. 4
    OBVIOUS
  <2>2. 1 .. 4 = {1, 2, 3, 4}
    OBVIOUS
  <2> QED BY <2>1, <2>2 DEF AreFour
<1>2. AreTwo((<<a>> \o << >>) \o (<< >> \o <<d>>), a, d)
  <2>1. <<a>> \o << >> = <<a>> /\ << >> \o <<d>> = <<d>>
    OBVIOUS
  <2>2. AreTwo(<<a>> \o <<d>>, a, d)
    <3>1. DOMAIN (<<a>> \o <<d>>) = 1 .. 2
      OBVIOUS
    <3>2. 1 .. 2 = {1, 2}
      OBVIOUS
    <3> QED BY <3>1, <3>2 DEF AreTwo
  <2> QED BY <2>1, <2>2
<1> QED BY <1>1, <1>2

\* An entry says what happened, to whom, under the request's id.
Says(e, what, user, id) == e.what = what /\ e.user = user /\ e.correlationId = id

LEMMA EntrySays ==
  ASSUME PipelineInv, NEW r \in HttpRequests, NEW what \in Whatever, NEW user \in Someone
  PROVE  /\ LogEntry(r, what, user) \in Entry
         /\ Says(LogEntry(r, what, user), what, user, header[r])
<1>1. context[r] \in Context /\ context[r].correlationId = header[r]
  BY DEF PipelineInv, PipelineTyped, Story, OneIdentity
<1> QED BY <1>1 DEF LogEntry, Entry, Context, Says

\* The trail of a request that was answered past its guards.
LEMMA TrailIsKnown ==
  ASSUME PipelineInv, NEW r \in HttpRequests, ToldAll(r)
  PROVE  \E a, b, c, d \in Entry :
           /\ IF route[r].audited THEN AreFour(trail[r], a, b, c, d) ELSE AreTwo(trail[r], a, d)
           /\ Says(a, "request start", context[r].userId, header[r])
           /\ Says(b, "AUDIT STARTED", requestUser[r], header[r])
           /\ IF outcome[r] = Fine
              THEN /\ Says(c, "AUDIT COMPLETED", requestUser[r], header[r])
                   /\ Says(d, "request end", context[r].userId, header[r])
              ELSE /\ Says(c, "AUDIT FAILED", requestUser[r], header[r])
                   /\ Says(d, "request error", context[r].userId, header[r])
<1>1. context[r] \in Context /\ requestUser[r] \in Someone
      /\ context[r].correlationId = header[r]
  BY DEF PipelineInv, PipelineTyped, Story, OneIdentity
<1>2. \A what \in Whatever, user \in Someone :
        /\ LogEntry(r, what, user) \in Entry
        /\ Says(LogEntry(r, what, user), what, user, header[r])
  BY EntrySays
<1>3. context[r].userId \in Someone
  BY <1>1 DEF Context
<1>4. /\ "request start" \in Whatever /\ "request end" \in Whatever /\ "request error" \in Whatever
      /\ "AUDIT STARTED" \in Whatever /\ "AUDIT COMPLETED" \in Whatever
      /\ "AUDIT FAILED" \in Whatever
  BY DEF Whatever
<1>5. PICK a \in Entry : a = LogEntry(r, "request start", context[r].userId)
  BY <1>2, <1>3, <1>4
<1>6. PICK b \in Entry : b = LogEntry(r, "AUDIT STARTED", requestUser[r])
  BY <1>1, <1>2, <1>4
<1>7. PICK c \in Entry :
        c = IF outcome[r] = Fine THEN LogEntry(r, "AUDIT COMPLETED", requestUser[r])
                                 ELSE LogEntry(r, "AUDIT FAILED", requestUser[r])
  BY <1>1, <1>2, <1>4
<1>8. PICK d \in Entry :
        d = IF outcome[r] = Fine THEN LogEntry(r, "request end", context[r].userId)
                                 ELSE LogEntry(r, "request error", context[r].userId)
  BY <1>2, <1>3, <1>4
<1>9. LogRequest(r) = <<a>>
  BY <1>5 DEF LogRequest
<1>10. CreateAuditEntry(r) = IF route[r].audited THEN <<b>> ELSE << >>
  BY <1>6 DEF CreateAuditEntry, Audited
<1>11. UnwindEntries(r) = IF route[r].audited THEN <<c>> \o <<d>> ELSE << >> \o <<d>>
  BY <1>7, <1>8 DEF UnwindEntries, LogAuditSuccess, LogAuditError, Audited, LogResponse, LogError
<1>12. IF route[r].audited THEN AreFour(trail[r], a, b, c, d) ELSE AreTwo(trail[r], a, d)
  BY <1>9, <1>10, <1>11, Together DEF ToldAll
<1>13. /\ Says(a, "request start", context[r].userId, header[r])
       /\ Says(b, "AUDIT STARTED", requestUser[r], header[r])
  BY <1>1, <1>2, <1>3, <1>4, <1>5, <1>6
<1>14. IF outcome[r] = Fine
       THEN /\ Says(c, "AUDIT COMPLETED", requestUser[r], header[r])
            /\ Says(d, "request end", context[r].userId, header[r])
       ELSE /\ Says(c, "AUDIT FAILED", requestUser[r], header[r])
            /\ Says(d, "request error", context[r].userId, header[r])
  BY <1>1, <1>2, <1>3, <1>4, <1>7, <1>8
<1> QED BY <1>12, <1>13, <1>14

\* The same of a request on its way, of which the handler may have told.
LEMMA TrailSoFar ==
  ASSUME PipelineInv, NEW r \in HttpRequests, ToldIn(r)
  PROVE  \A i \in DOMAIN trail[r] :
           /\ trail[r][i].correlationId = header[r]
           /\ trail[r][i].user \in {context[r].userId, requestUser[r]}
           /\ trail[r][i].what \in {"AUDIT STARTED", "AUDIT COMPLETED", "AUDIT FAILED"}
                => trail[r][i].user = requestUser[r]
<1>1. context[r].userId \in Someone /\ requestUser[r] \in Someone
  BY DEF PipelineInv, PipelineTyped, Context
<1>2. "request start" \in Whatever /\ "AUDIT STARTED" \in Whatever
  BY DEF Whatever
<1>3. PICK a \in Entry : a = LogEntry(r, "request start", context[r].userId)
  BY <1>1, <1>2, EntrySays
<1>4. PICK b \in Entry : b = LogEntry(r, "AUDIT STARTED", requestUser[r])
  BY <1>1, <1>2, EntrySays
<1>5. /\ Says(a, "request start", context[r].userId, header[r])
      /\ Says(b, "AUDIT STARTED", requestUser[r], header[r])
  BY <1>1, <1>2, <1>3, <1>4, EntrySays
<1>6. trail[r] = IF route[r].audited THEN <<a>> \o <<b>> ELSE <<a>> \o << >>
  BY <1>3, <1>4 DEF ToldIn, LogRequest, CreateAuditEntry, Audited
<1>7. <<a>> \o << >> = <<a>> /\ AreTwo(<<a>> \o <<b>>, a, b)
  <2>1. <<a>> \o << >> = <<a>> /\ << >> \o <<b>> = <<b>>
    OBVIOUS
  <2> QED BY <2>1, Together
<1>8. CASE route[r].audited
  <2>1. AreTwo(trail[r], a, b) /\ trail[r] \in Seq(Entry)
    BY <1>6, <1>7, <1>8 DEF PipelineInv, PipelineTyped
  <2>2. \A i \in DOMAIN trail[r] : trail[r][i] = a \/ trail[r][i] = b
    BY <2>1 DEF AreTwo
  <2> QED BY <1>5, <2>2 DEF Says
<1>9. CASE ~ route[r].audited
  <2>1. trail[r] = <<a>>
    BY <1>6, <1>7, <1>9
  <2>2. \A i \in DOMAIN trail[r] : trail[r][i] = a
    BY <2>1
  <2> QED BY <1>5, <2>2 DEF Says
<1> QED BY <1>8, <1>9

\* What the trail of an answered request says of the audit.
LEMMA AuditIsPaired ==
  ASSUME PipelineInv, NEW r \in HttpRequests, ToldAll(r)
  PROVE  /\ Count(r, "AUDIT STARTED") = Count(r, "AUDIT COMPLETED") + Count(r, "AUDIT FAILED")
         /\ "AUDIT COMPLETED" \in Whats(r) => outcome[r] = Fine
         /\ "AUDIT FAILED" \in Whats(r) => outcome[r] # Fine
         /\ \A i \in DOMAIN trail[r] :
              /\ trail[r][i].correlationId = header[r]
              /\ trail[r][i].user \in {context[r].userId, requestUser[r]}
              /\ trail[r][i].what \in {"AUDIT STARTED", "AUDIT COMPLETED", "AUDIT FAILED"}
                   => trail[r][i].user = requestUser[r]
<1>1. PICK a, b, c, d \in Entry :
        /\ IF route[r].audited THEN AreFour(trail[r], a, b, c, d) ELSE AreTwo(trail[r], a, d)
        /\ Says(a, "request start", context[r].userId, header[r])
        /\ Says(b, "AUDIT STARTED", requestUser[r], header[r])
        /\ IF outcome[r] = Fine
           THEN /\ Says(c, "AUDIT COMPLETED", requestUser[r], header[r])
                /\ Says(d, "request end", context[r].userId, header[r])
           ELSE /\ Says(c, "AUDIT FAILED", requestUser[r], header[r])
                /\ Says(d, "request error", context[r].userId, header[r])
  BY TrailIsKnown
<1> DEFINE Own(e) == /\ e.correlationId = header[r]
                     /\ e.user \in {context[r].userId, requestUser[r]}
                     /\ e.what \in {"AUDIT STARTED", "AUDIT COMPLETED", "AUDIT FAILED"}
                          => e.user = requestUser[r]
<1>2. Own(a) /\ Own(b) /\ Own(c) /\ Own(d)
  BY <1>1 DEF Says
<1>3. Cardinality({}) = 0 /\ Cardinality({2}) = 1 /\ Cardinality({3}) = 1
  BY FS_EmptySet, FS_Singleton
<1>4. CASE route[r].audited
  <2>1. /\ DOMAIN trail[r] = {1, 2, 3, 4}
        /\ trail[r][1] = a /\ trail[r][2] = b /\ trail[r][3] = c /\ trail[r][4] = d
    BY <1>1, <1>4 DEF AreFour
  <2>2. {i \in DOMAIN trail[r] : trail[r][i].what = "AUDIT STARTED"} = {2}
    BY <1>1, <2>1 DEF Says
  <2>3. CASE outcome[r] = Fine
    <3>1. /\ {i \in DOMAIN trail[r] : trail[r][i].what = "AUDIT COMPLETED"} = {3}
          /\ {i \in DOMAIN trail[r] : trail[r][i].what = "AUDIT FAILED"} = {}
      BY <1>1, <2>1, <2>3 DEF Says
    <3>2. /\ Count(r, "AUDIT STARTED") = 1 /\ Count(r, "AUDIT COMPLETED") = 1
          /\ Count(r, "AUDIT FAILED") = 0
      BY <1>3, <2>2, <3>1 DEF Count
    <3>3. "AUDIT FAILED" \notin Whats(r)
      BY <3>1 DEF Whats
    <3>4. \A i \in DOMAIN trail[r] : Own(trail[r][i])
      BY <1>2, <2>1
    <3>5. Count(r, "AUDIT STARTED") = Count(r, "AUDIT COMPLETED") + Count(r, "AUDIT FAILED")
      <4>1. 1 = 1 + 0
        OBVIOUS
      <4> QED BY <3>2, <4>1, Zenon
    <3> QED BY <2>3, <3>2, <3>3, <3>4, <3>5
  <2>4. CASE outcome[r] # Fine
    <3>1. /\ {i \in DOMAIN trail[r] : trail[r][i].what = "AUDIT COMPLETED"} = {}
          /\ {i \in DOMAIN trail[r] : trail[r][i].what = "AUDIT FAILED"} = {3}
      BY <1>1, <2>1, <2>4 DEF Says
    <3>2. /\ Count(r, "AUDIT STARTED") = 1 /\ Count(r, "AUDIT COMPLETED") = 0
          /\ Count(r, "AUDIT FAILED") = 1
      BY <1>3, <2>2, <3>1 DEF Count
    <3>3. "AUDIT COMPLETED" \notin Whats(r)
      BY <3>1 DEF Whats
    <3>4. \A i \in DOMAIN trail[r] : Own(trail[r][i])
      BY <1>2, <2>1
    <3>5. Count(r, "AUDIT STARTED") = Count(r, "AUDIT COMPLETED") + Count(r, "AUDIT FAILED")
      <4>1. 1 = 0 + 1
        OBVIOUS
      <4> QED BY <3>2, <4>1, Zenon
    <3> QED BY <2>4, <3>2, <3>3, <3>4, <3>5
  <2> QED BY <2>3, <2>4
<1>5. CASE ~ route[r].audited
  <2>1. /\ DOMAIN trail[r] = {1, 2} /\ trail[r][1] = a /\ trail[r][2] = d
    BY <1>1, <1>5 DEF AreTwo
  <2>2. \A what \in {"AUDIT STARTED", "AUDIT COMPLETED", "AUDIT FAILED"} :
          {i \in DOMAIN trail[r] : trail[r][i].what = what} = {}
    BY <1>1, <2>1 DEF Says
  <2>3. \A what \in {"AUDIT STARTED", "AUDIT COMPLETED", "AUDIT FAILED"} :
          Count(r, what) = 0 /\ what \notin Whats(r)
    BY <1>3, <2>2 DEF Count, Whats
  <2>4. \A i \in DOMAIN trail[r] : Own(trail[r][i])
    BY <1>2, <2>1
  <2>5. Count(r, "AUDIT STARTED") = Count(r, "AUDIT COMPLETED") + Count(r, "AUDIT FAILED")
    <3>1. /\ Count(r, "AUDIT STARTED") = 0 /\ Count(r, "AUDIT COMPLETED") = 0
          /\ Count(r, "AUDIT FAILED") = 0
      BY <2>3
    <3>2. 0 = 0 + 0
      OBVIOUS
    <3> QED BY <3>1, <3>2, Zenon
  <2> QED BY <2>3, <2>4, <2>5
<1> QED BY <1>4, <1>5

\* Whatever overlapping requests, sign-outs and failures do, what a request wrote,
\* sent and answered tells one story (CorrelationIdMiddleware to
\* GlobalExceptionFilter).
THEOREM PipelineTellsOneStory == PipelineSpec => []OneStory
<1>1. PipelineInv => TrailTellsAnswer
  <2> SUFFICES ASSUME PipelineInv, NEW r \in HttpRequests, answer[r] # 0
               PROVE  /\ spans[r].ended = spans[r].started
                      /\ Count(r, "AUDIT STARTED")
                           = Count(r, "AUDIT COMPLETED") + Count(r, "AUDIT FAILED")
                      /\ "AUDIT COMPLETED" \in Whats(r) => answer[r] < 300
                      /\ "AUDIT FAILED" \in Whats(r) =>
                           answer[r] >= 400 \/ outcome[r].class = "PortQueuedException"
                      /\ spans[r].started = 0 => trail[r] = <<>> /\ ~forwarded[r].sent
    BY DEF TrailTellsAnswer
  <2>1. NothingTold(r) \/ ToldAll(r)
    BY DEF PipelineInv, Story
  <2>2. CASE NothingTold(r)
    <3>1. trail[r] = << >> /\ spans[r] = NoSpan /\ ~ forwarded[r].sent
      BY <2>2 DEF NothingTold
    <3>2. \A what : {i \in DOMAIN trail[r] : trail[r][i].what = what} = {}
      BY <3>1
    <3>3. Cardinality({}) = 0
      BY FS_EmptySet
    <3>4. \A what : Count(r, what) = 0 /\ what \notin Whats(r)
      BY <3>2, <3>3 DEF Count, Whats
    <3>5. Count(r, "AUDIT STARTED") = Count(r, "AUDIT COMPLETED") + Count(r, "AUDIT FAILED")
      <4>1. /\ Count(r, "AUDIT STARTED") = 0 /\ Count(r, "AUDIT COMPLETED") = 0
            /\ Count(r, "AUDIT FAILED") = 0
        BY <3>4
      <4>2. 0 = 0 + 0
        OBVIOUS
      <4> QED BY <4>1, <4>2, Zenon
    <3>6. spans[r].ended = spans[r].started
      BY <3>1 DEF NoSpan
    <3> QED BY <3>1, <3>4, <3>5, <3>6
  <2>3. CASE ToldAll(r)
    <3>1. spans[r] = Closed /\ answer[r] = Respond(outcome[r])
      BY <2>3 DEF ToldAll
    <3>2. outcome[r] \in Outcomes
      BY DEF PipelineInv, PipelineTyped
    <3>3. /\ outcome[r] = Fine => answer[r] = 200
          /\ outcome[r] # Fine =>
               answer[r] >= 400 \/ outcome[r].class = "PortQueuedException"
      BY <3>1, <3>2, AnswersAreStatuses
    <3>4. spans[r].ended = spans[r].started /\ spans[r].started # 0
      BY <3>1 DEF Closed
    <3>5. /\ Count(r, "AUDIT STARTED") = Count(r, "AUDIT COMPLETED") + Count(r, "AUDIT FAILED")
          /\ "AUDIT COMPLETED" \in Whats(r) => outcome[r] = Fine
          /\ "AUDIT FAILED" \in Whats(r) => outcome[r] # Fine
      BY <2>3, AuditIsPaired
    <3>6. outcome[r] = Fine => answer[r] < 300
      BY <3>3
    <3> QED BY <3>3, <3>4, <3>5, <3>6
  <2> QED BY <2>1, <2>2, <2>3
<1>2. PipelineInv => IdentityIsOne /\ OneCorrelationId
  <2> SUFFICES ASSUME PipelineInv, NEW r \in HttpRequests
               PROVE  /\ forwarded[r].sent =>
                           /\ ~route[r].public => requestUser[r] = cookie[r] /\ cookie[r] # NoUser
                           /\ forwarded[r].jwt # NoUser => forwarded[r].jwt = cookie[r]
                           /\ forwarded[r].correlationId = header[r]
                      /\ \A i \in DOMAIN trail[r] :
                           /\ trail[r][i].correlationId = header[r]
                           /\ trail[r][i].user \in {NoUser, cookie[r]}
                           /\ trail[r][i].what \in {"AUDIT STARTED", "AUDIT COMPLETED", "AUDIT FAILED"}
                                => trail[r][i].user = requestUser[r]
    BY DEF IdentityIsOne, OneCorrelationId
  <2>1. OneIdentity(r) /\ (NothingTold(r) \/ ToldIn(r) \/ ToldAll(r))
    BY DEF PipelineInv, PipelineTyped, Stages, Story
  <2>2. CASE NothingTold(r)
    BY <2>2 DEF NothingTold
  <2>3. CASE ToldIn(r) \/ ToldAll(r)
    <3>1. Guarded(r) /\ SentAsKnown(r)
      BY <2>3 DEF ToldIn, ToldAll
    <3>2. \A i \in DOMAIN trail[r] :
            /\ trail[r][i].correlationId = header[r]
            /\ trail[r][i].user \in {context[r].userId, requestUser[r]}
            /\ trail[r][i].what \in {"AUDIT STARTED", "AUDIT COMPLETED", "AUDIT FAILED"}
                 => trail[r][i].user = requestUser[r]
      BY <2>3, TrailSoFar, AuditIsPaired
    <3>3. requestUser[r] \in {NoUser, cookie[r]} /\ context[r].userId \in {NoUser, cookie[r]}
      BY <2>1, <3>1 DEF Guarded, OneIdentity
    <3>4. forwarded[r].sent =>
            /\ ~route[r].public => requestUser[r] = cookie[r] /\ cookie[r] # NoUser
            /\ forwarded[r].jwt # NoUser => forwarded[r].jwt = cookie[r]
            /\ forwarded[r].correlationId = header[r]
      BY <2>1, <3>1 DEF Guarded, SentAsKnown, OneIdentity
    <3>5. \A i \in DOMAIN trail[r] : trail[r][i].user \in {NoUser, cookie[r]}
      BY <3>2, <3>3
    <3> QED BY <3>2, <3>4, <3>5
  <2> QED BY <2>1, <2>2, <2>3
<1>3. PipelineSpec => []PipelineInv
  BY PipelineInvInit, PipelineInvStep, PTL DEF PipelineSpec
<1>4. PipelineInv => OneStory
  BY <1>1, <1>2 DEF OneStory
<1> QED BY <1>3, <1>4, PTL

-----------------------------------------------------------------------------
(* Authorization *)

Question == [user : [roles : SUBSET Role, role : {Undefined, "admin"},
                     permissions : {Undefined} \cup SUBSET Permission],
             required : [roles : {Undefined, {"admin"}, {"manager", "user"}},
                         permissions : {Undefined} \cup SUBSET Permission,
                         resource : {Undefined} \cup
                           [resource : Resources, access : SUBSET Accesses,
                            condition : {Undefined, "ownerId", "admin", "user.id", "other"}]],
             ids : RequestIds]

AskedTyped == asked \in Question

LEMMA QuestionsAsked == AuthorizationSpec => []AskedTyped
<1>1. AuthorizationInit => AskedTyped
  BY DEF AuthorizationInit, AskedTyped, Question, RequestIds, Ids
<1>2. AskedTyped /\ [CanActivate]_asked => AskedTyped'
  <2>1. UserObject \subseteq [roles : SUBSET Role, role : {Undefined, "admin"},
                              permissions : {Undefined} \cup SUBSET Permission]
    BY DEF UserObject
  <2>2. ASSUME NEW p \in {Undefined} \cup {{<<r, a>>} : r \in Resources, a \in Accesses}
        PROVE  p \in {Undefined} \cup SUBSET Permission
    BY DEF Permission
  <2>3. Required \subseteq
          [roles : {Undefined, {"admin"}, {"manager", "user"}},
           permissions : {Undefined} \cup SUBSET Permission,
           resource : {Undefined} \cup
             [resource : Resources, access : SUBSET Accesses,
              condition : {Undefined, "ownerId", "admin", "user.id", "other"}]]
    BY <2>2 DEF Required
  <2> QED BY <2>1, <2>3 DEF CanActivate, AskedTyped, Question
<1> QED BY <1>1, <1>2, PTL DEF AuthorizationSpec

\* With a role more, a user has every permission he had.
LEMMA RolesAddPermissions ==
  ASSUME NEW user, NEW more, more.permissions = user.permissions,
         user.roles \subseteq more.roles, NEW p,
         HasPermission(UserPermissions(user), p)
  PROVE  HasPermission(UserPermissions(more), p)
<1>1. UserPermissions(user) \subseteq UserPermissions(more)
  BY DEF UserPermissions, DerivePermissionsFromRoles
<1> QED BY <1>1 DEF HasPermission

\* With a permission more in the list, a user has every permission he had.
LEMMA ListsAddPermissions ==
  ASSUME NEW user, NEW more, user.permissions # Undefined, more.permissions # Undefined,
         user.permissions \subseteq more.permissions
  PROVE  /\ \A p : HasPermission(UserPermissions(user), p) => HasPermission(UserPermissions(more), p)
         /\ \A p : HasExplicitPermission(user, p) => HasExplicitPermission(more, p)
<1>1. UserPermissions(user) \subseteq UserPermissions(more)
  BY DEF UserPermissions
<1>2. \A p : HasPermission(UserPermissions(user), p) => HasPermission(UserPermissions(more), p)
  BY <1>1 DEF HasPermission
<1>3. \A p : HasExplicitPermission(user, p) => HasExplicitPermission(more, p)
  BY DEF HasExplicitPermission
<1> QED BY <1>2, <1>3

\* What the guards decide of a user, they decide of one with the same rights and more.
LEMMA GuardsOnlyOpen ==
  ASSUME NEW user, NEW more, more.role = user.role, user.roles \subseteq more.roles,
         NEW required, NEW ids,
         \A p : HasPermission(UserPermissions(user), p) => HasPermission(UserPermissions(more), p),
         \A p : HasExplicitPermission(user, p) => HasExplicitPermission(more, p),
         Secure(user, required, ids)
  PROVE  Secure(more, required, ids)
<1>1. RolesGuard(more, required.roles)
  BY DEF Secure, RolesGuard
<1>2. PermissionsGuard(more, required.permissions)
  BY DEF Secure, PermissionsGuard
<1>4. \A condition : EvaluateCondition(condition, user, ids) => EvaluateCondition(condition, more, ids)
  BY DEF EvaluateCondition
<1>5. ResourceGuard(more, required.resource, ids)
  BY <1>4 DEF Secure, ResourceGuard, CheckResourceAccess
<1> QED BY <1>1, <1>2, <1>5 DEF Secure

\* Over any resources and accesses: no role and no permission takes a right away, and a
\* condition on the caller's own id refuses every other id that counts (RolesGuard,
\* PermissionsGuard, ResourceGuard).
THEOREM PermissionsAreSound == AuthorizationSpec => []PermissionsSound
<1>1. AskedTyped => RightsOnlyAdd
  <2> SUFFICES ASSUME asked \in Question, Secure(asked.user, asked.required, asked.ids)
               PROVE  RightsOnlyAdd
    BY DEF RightsOnlyAdd, AskedTyped, Admitted
  <2>1. ASSUME NEW role \in Role
        PROVE  Secure([asked.user EXCEPT !.roles = @ \cup {role}], asked.required, asked.ids)
    <3>1. PICK more : more = [asked.user EXCEPT !.roles = @ \cup {role}]
      OBVIOUS
    <3>2. /\ more.permissions = asked.user.permissions /\ more.role = asked.user.role
          /\ asked.user.roles \subseteq more.roles
      BY <3>1 DEF Question
    <3>3. \A p : HasPermission(UserPermissions(asked.user), p) => HasPermission(UserPermissions(more), p)
      BY <3>2, RolesAddPermissions
    <3>4. \A p : HasExplicitPermission(asked.user, p) => HasExplicitPermission(more, p)
      BY <3>2 DEF HasExplicitPermission
    <3>5. Secure(more, asked.required, asked.ids)
      BY <3>2, <3>3, <3>4, GuardsOnlyOpen
    <3> QED BY <3>1, <3>5
  <2>2. ASSUME asked.user.permissions # Undefined, NEW p \in Permission
        PROVE  Secure([asked.user EXCEPT !.permissions = @ \cup {p}], asked.required, asked.ids)
    <3>1. PICK more : more = [asked.user EXCEPT !.permissions = @ \cup {p}]
      OBVIOUS
    <3>2. /\ more.roles = asked.user.roles /\ more.role = asked.user.role
          /\ more.permissions = asked.user.permissions \cup {p}
      BY <3>1 DEF Question
    <3>6. more.permissions # Undefined
      <4>1. more.permissions \in SUBSET Permission
        BY <2>2, <3>2 DEF Question
      <4> QED BY <4>1, UndefinedAssumption DEF UndefinedAssumption
    <3>5. Secure(more, asked.required, asked.ids)
      BY <2>2, <3>2, <3>6, ListsAddPermissions, GuardsOnlyOpen
    <3> QED BY <3>1, <3>5
  <2> QED BY <2>1, <2>2 DEF RightsOnlyAdd
<1>3. AskedTyped => OwnIdOnly
  <2> SUFFICES ASSUME asked \in Question, asked.required.resource # Undefined,
                      asked.required.resource.condition = "user.id",
                      "admin" \notin asked.user.roles,
                      Secure(asked.user, asked.required, asked.ids)
               PROVE  /\ asked.ids.body # "another"
                      /\ asked.ids.path # "caller" => asked.ids.body = "caller"
    BY DEF OwnIdOnly, Admitted, AskedTyped
  <2>1. EvaluateCondition(asked.required.resource.condition, asked.user, asked.ids)
    BY DEF Secure, ResourceGuard, CheckResourceAccess
  <2>2. CheckUserIdMatch(asked.ids)
    BY <2>1 DEF EvaluateCondition
  <2> QED BY <2>2, UndefinedAssumption DEF CheckUserIdMatch, UndefinedAssumption
<1> QED BY <1>1, <1>3, QuestionsAsked, PTL DEF PermissionsSound
=============================================================================
