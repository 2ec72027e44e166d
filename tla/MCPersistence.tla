---------------------------- MODULE MCPersistence ----------------------------
(* Model-checking instance of what is stored behind a request: the unit of work
   and the aggregate repository, the outbox and its processors, the event bus
   with its projections, the cache, and the keys of idempotent deliveries.  A
   behaviour is about one of them, the scene: an event is handed from one to the
   next through a table row that stays. *)
EXTENDS Outbox, WriteSide, EventDelivery, CacheService, Deduplication, TLC

CONSTANT Scenes

VARIABLE scene

all == <<scene, vars, writeVars, deliveryVars, cacheVars, dedupVars>>

\* The scenes that are not played stay in one initial state.
MCInit ==
  /\ scene \in Scenes
  /\ Init /\ DeliveryInit
  /\ WriteInit /\ (scene # "write" => row = 0)
  /\ CacheInit /\ (scene # "cache" => backend = "memory")
  /\ DedupInit /\ (scene # "dedup" => redis /\ path = [d \in Deliveries |-> "command"])

\* All but the scene played stay as they are.
Rest ==
  /\ UNCHANGED scene
  /\ scene # "outbox" => UNCHANGED vars
  /\ scene # "write" => UNCHANGED writeVars
  /\ scene # "delivery" => UNCHANGED deliveryVars
  /\ scene # "cache" => UNCHANGED cacheVars
  /\ scene # "dedup" => UNCHANGED dedupVars

MCNext ==
  \/ scene = "outbox" /\ Next /\ Rest
  \/ scene = "write" /\ WriteNext /\ Rest
  \/ scene = "delivery" /\ DeliveryNext /\ Rest
  \/ scene = "cache" /\ CacheNext /\ Rest
  \/ scene = "dedup" /\ DedupNext /\ Rest

\* The fairness of Outbox.
MCFairness ==
  /\ \A e \in Events : WF_vars(scene = "outbox" /\ AddMany(e))
  /\ \A i \in Instances :
       /\ SF_vars(scene = "outbox" /\ Poll(i))
       /\ WF_vars(scene = "outbox" /\ Proceed(i))
       /\ WF_vars(scene = "outbox" /\ Start(i))

MCSpec == MCInit /\ [][MCNext]_all /\ MCFairness

=============================================================================
