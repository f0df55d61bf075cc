------------------------------ MODULE MCProcess ------------------------------
(* Instances of what one process shares between its threads and tasks,     *)
(* each component checked by itself: `part' says which one a behaviour is  *)
(* about, and the others stand still.                                      *)
EXTENDS SnowflakeGenerator, RateLimiter, ReplicaStore, AsyncSingleton, HealthState, SharedChannels, GeoDatabase

VARIABLE part

MCNodes == {<<0, 0>>, <<1, 0>>}

Someone == {[name |-> "alice", noise |-> FALSE], [name |-> "alice", noise |-> TRUE], [name |-> "", noise |-> FALSE]}
Fallback == [mode |-> "local_fallback", limit |-> 1, store |-> "redis", procs |-> {"p1"}]
Endpoints == {Fallback,
              [Fallback EXCEPT !.store = "plain", !.procs = {"p1", "p2"}],
              [Fallback EXCEPT !.mode = "bypass"],
              [Fallback EXCEPT !.mode = "raise", !.store = "none"],
              [Fallback EXCEPT !.limit = 0]}

OwnLoop == [u \in Users |-> IF u = "u1" THEN 1 ELSE 2]

processVars == <<vars, limiterVars, storeVars, singletonVars, healthVars, channelVars, geoVars>>

ProcessInit ==
    /\ part \in {"ids", "limiter", "store", "singleton", "health", "channels", "geo"}
    /\ Init /\ LimiterInit /\ StoreInit /\ SingletonInit /\ HealthInit /\ ChannelsInit /\ GeoInit
    /\ part # "limiter" => limiter = Fallback
    /\ part # "store" => redisEnabled

ProcessNext ==
    /\ UNCHANGED part
    /\ \/ /\ part = "ids" /\ Next
          /\ UNCHANGED <<limiterVars, storeVars, singletonVars, healthVars, channelVars, geoVars>>
       \/ /\ part = "limiter" /\ LimiterNext
          /\ UNCHANGED <<vars, storeVars, singletonVars, healthVars, channelVars, geoVars>>
       \/ /\ part = "store" /\ StoreNext
          /\ UNCHANGED <<vars, limiterVars, singletonVars, healthVars, channelVars, geoVars>>
       \/ /\ part = "singleton" /\ SingletonNext
          /\ UNCHANGED <<vars, limiterVars, storeVars, healthVars, channelVars, geoVars>>
       \/ /\ part = "health" /\ HealthNext
          /\ UNCHANGED <<vars, limiterVars, storeVars, singletonVars, channelVars, geoVars>>
       \/ /\ part = "channels" /\ ChannelsNext
          /\ UNCHANGED <<vars, limiterVars, storeVars, singletonVars, healthVars, geoVars>>
       \/ /\ part = "geo" /\ GeoNext
          /\ UNCHANGED <<vars, limiterVars, storeVars, singletonVars, healthVars, channelVars>>

ProcessSpec == ProcessInit /\ [][ProcessNext]_<<part, processVars>>
=============================================================================
