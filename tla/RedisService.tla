------------------------------ MODULE RedisService ------------------------------
(***************************************************************************)
(* Redis as app/services/redis_service.py uses it: get, set with a time to *)
(* live, delete.  No operation ever raises: without a client, and whenever *)
(* the call fails (ok is FALSE), get answers Nil and set and delete do     *)
(* nothing.  The server's own part, keys that vanish, is external.         *)
(***************************************************************************)

CONSTANTS
  RedisKeys,     \* key names
  RedisValues,   \* what is stored under them
  RedisEnabled   \* Config.REDIS_ENABLED

Nil == "nil"

ASSUME RedisAssumption ==
  /\ Nil \notin RedisValues
  /\ RedisEnabled \in BOOLEAN

VARIABLES
  redis,      \* redis[k]: the value stored under k, Nil if there is none
  connected   \* _client is not None

RedisTypeOK ==
  /\ redis \in [RedisKeys -> RedisValues \cup {Nil}]
  /\ connected \in BOOLEAN

\* init_redis: the client stays None when Redis is off or the ping fails
InitRedis(up) == up => RedisEnabled

RedisInit ==
  /\ redis = [k \in RedisKeys |-> Nil]
  /\ connected = RedisEnabled

Answer(k, ok) == IF connected /\ ok THEN redis[k] ELSE Nil

SetKey(k, v, ok) ==
  /\ redis' = IF connected /\ ok THEN [redis EXCEPT ![k] = v] ELSE redis
  /\ UNCHANGED connected

DeleteKey(k, ok) == SetKey(k, Nil, ok)

Expire(k) ==
  /\ redis[k] # Nil
  /\ redis' = [redis EXCEPT ![k] = Nil]
  /\ UNCHANGED connected
================================================================================
