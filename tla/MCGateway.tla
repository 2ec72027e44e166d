------------------------------ MODULE MCGateway ------------------------------
(* Model-checking instance of what a request meets on its way: the HTTP pipeline
   and its error answers, authorization, sign-in, the customer directory, the
   records behind the owner-scoped ports, and on the way out the port HTTP client,
   the endpoint configuration and the service account's token.  A behaviour is
   about one of them: the scene. *)
EXTENDS CustomerDirectory, SignIn, OwnedData, HttpPipeline,
        Authorization, PortHttp, PortConfig, ServiceToken, TLC

CONSTANTS Scenes, r1, r2, u1, u2

VARIABLE scene

Record(id, owner) == [id |-> id, owner |-> owner, version |-> 1]
ThreeRecords == <<Record(1, "a"), Record(2, "b"), Record(3, "a")>>

\* A guarded route, a public one, and a public one outside the middleware.
Route(public, excluded, audited) == [public |-> public, excluded |-> excluded, audited |-> audited]
ThreeRoutes == {Route(FALSE, FALSE, TRUE), Route(TRUE, FALSE, TRUE), Route(TRUE, TRUE, FALSE)}

\* No words, each word that decides a status, and two that compete.
SomeWords == {{}, {"conflict", "timeout"}}
             \cup {{w} : w \in {"not found", "does not exist", "invalid", "validation", "timeout",
                                "duplicate", "rate limit", "permission", "forbidden",
                                "unauthorized", "authentication"}}

SomeOperations == {[prefix |-> p, body |-> 1] : p \in {"get-", "pay", "create", "cancel"}}

NothingRead == [version |-> 0, content |-> [verdict |-> "broken", tier |-> "dynamic", adapter |-> "live"]]

Exception(class) == [class |-> class, status |-> 0, words |-> {}]
SomeHandlerErrors == {Exception("PortQueuedException"), Exception("NotFoundException")}

\* Up to the names of users and requests: nobody's, one user's, or of two users.
CookiesUpToNames ==
  {r1 :> a @@ r2 :> b : <<a, b>> \in {<<NoUser, NoUser>>, <<u1, NoUser>>, <<u1, u1>>, <<u1, u2>>}}

\* Only the condition on user.id reads the ids of a request: elsewhere one pair stands
\* for all.
IdsMatter ==
  LET resource == asked.required.resource IN
  IF resource = Undefined THEN FALSE ELSE resource.condition = "user.id"
SomeIds == [body |-> Undefined, path |-> "another"]

all == <<scene, dirVars, signVars, ownedVars, pipelineVars, failure, asked, httpVars, configVars, saVars>>

\* The scenes that are not played stay in one initial state.
MCInit ==
  /\ scene \in Scenes
  /\ DirInit /\ (scene # "directory" => table = {})
  /\ SignInit
  /\ OwnedInit /\ (scene # "owned" => askedPort = "invoice")
  /\ PipelineInit /\ cookie \in CookiesUpToNames
  /\ scene # "pipeline" =>
       /\ sessionOnReq /\ cookie = [r \in HttpRequests |-> NoUser]
       /\ route = [r \in HttpRequests |-> Route(FALSE, FALSE, TRUE)]
  /\ FailureInit /\ (scene # "errors" => failure = Exception("Error"))
  /\ AuthorizationInit /\ HttpInit
  /\ ConfigInit /\ (scene # "config" => ~production /\ ~mockMode /\ file.content = NothingRead.content)
  /\ SaInit /\ (scene # "token" => configured)

\* All but the scene played stay as they are.
Rest ==
  /\ UNCHANGED scene
  /\ scene # "directory" => UNCHANGED dirVars
  /\ scene # "signin" => UNCHANGED signVars
  /\ scene # "owned" => UNCHANGED ownedVars
  /\ scene # "pipeline" => UNCHANGED pipelineVars
  /\ scene # "errors" => UNCHANGED failure
  /\ scene # "authorization" => UNCHANGED asked
  /\ scene # "http" => UNCHANGED httpVars
  /\ scene # "config" => UNCHANGED configVars
  /\ scene # "token" => UNCHANGED saVars

MCNext ==
  \/ scene = "directory" /\ DirNext /\ Rest
  \/ scene = "signin" /\ SignNext /\ Rest
  \/ scene = "owned" /\ OwnedNext /\ Rest
  \* A sign-out of a user who makes no request is nobody's concern.
  \/ scene = "pipeline" /\ PipelineNext /\ signedOut' \subseteq {cookie[r] : r \in HttpRequests} /\ Rest
  \/ scene = "errors" /\ FailureNext /\ Rest
  \/ scene = "authorization" /\ CanActivate /\ (IdsMatter' \/ asked'.ids = SomeIds) /\ Rest
  \/ scene = "http" /\ HttpNext /\ Rest
  \/ scene = "config" /\ ConfigNext /\ Rest
  \/ scene = "token" /\ SaNext /\ Rest

MCSpec == MCInit /\ [][MCNext]_all
==============================================================================
