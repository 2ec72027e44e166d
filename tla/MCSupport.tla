----------------------------- MODULE MCSupport -----------------------------
(* Model-checking instance of the safety of the shared services: store-and-forward
   chat, the channel sessions, the binding rate limiter, the breaker and fallback
   decorators, and fan-out calls.  A behaviour is about one of them: the scene. *)
EXTENDS ChatOutbox, Sessions, BindingLimiter, BreakerService, FallbackProvider, Aggregation, TLC

CONSTANTS Scenes, user, customer

VARIABLE scene

\* A customer who writes every message.
ByOneUser == [m \in Messages |-> user]

\* One user who knows the secret of the one customer.
OneSecret == {<<user, customer>>}

\* Three calls over two ports.
ThreeCalls == [1 .. 3 -> {"contract", "invoice"}]

\* An event, and two later ones of one instant on another channel.
ThreeEvents == {[id |-> 1, channel |-> "app", timestamp |-> 0],
                [id |-> 2, channel |-> "zalo", timestamp |-> 1],
                [id |-> 3, channel |-> "zalo", timestamp |-> 1]}

all == <<scene, vars, sessionVars, limiterVars, serviceVars, fallbackVars, fanOutVars>>

\* The scenes that are not played stay in one initial state.
MCInit ==
  /\ scene \in Scenes
  /\ Init /\ (scene # "chat" => up)
  /\ SessionInit /\ (scene # "sessions" => store = "memory")
  /\ LimiterInit /\ ServiceInit /\ FallbackInit
  /\ FanOutInit /\ (scene # "fanout" => fanOut = CHOOSE f \in FanOuts : TRUE)

\* All but the scene played stay as they are.
Rest ==
  /\ UNCHANGED scene
  /\ scene # "chat" => UNCHANGED vars
  /\ scene # "sessions" => UNCHANGED sessionVars
  /\ scene # "limiter" => UNCHANGED limiterVars
  /\ scene # "service" => UNCHANGED serviceVars
  /\ scene # "fallback" => UNCHANGED fallbackVars
  /\ scene # "fanout" => UNCHANGED fanOutVars

MCNext ==
  \/ scene = "chat" /\ Next /\ Rest
  \/ scene = "sessions" /\ SessionNext /\ Rest
  \/ scene = "limiter" /\ LimiterNext /\ Rest
  \/ scene = "service" /\ ServiceNext /\ Rest
  \/ scene = "fallback" /\ FallbackNext /\ Rest
  \/ scene = "fanout" /\ FanOutNext /\ Rest

MCSpec == MCInit /\ [][MCNext]_all
=============================================================================
