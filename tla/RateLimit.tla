------------------------------ MODULE RateLimit ------------------------------
(***************************************************************************)
(* The rate limits of one API key: server/middleware/ratelimit.go over the *)
(* counters of cache/redis.go.                                             *)
(*                                                                         *)
(* Every counter lives in Redis, or in a local map when Redis was not      *)
(* there at startup or an operation on it fails.  A counter has a value    *)
(* and the ticks left until it expires; one in Redis with a value and no   *)
(* ticks left never expires.  Each counter operation is one step (a        *)
(* pipeline, a critical section); requests interleave between them,        *)
(* and the tokens of a response are counted by a goroutine that runs after *)
(* the response was sent.                                                  *)
(***************************************************************************)
EXTENDS Naturals

CONSTANTS Clients,       \* the concurrent clients of the key
          RpmLimit, TpmLimit,
          Window,        \* cfg.Window, in ticks
          Tokens,        \* the tokens a response can cost
          MaxPending,    \* bound on responses whose tokens are not counted yet
          MaxCount       \* where counters saturate

ConstantsOK ==
  /\ RpmLimit \in Nat \ {0} /\ TpmLimit \in Nat \ {0} /\ Window \in Nat \ {0}
  /\ Tokens \subseteq Nat \ {0} /\ MaxPending \in Nat
  /\ MaxCount \in Nat /\ MaxCount > RpmLimit /\ MaxCount > TpmLimit

VARIABLES available,     \* Redis was reachable at startup
          counter,       \* value and time left of each counter in each store
          pc,            \* where each client's request is
          pending,       \* responses sent, tokens not counted
          admitted,      \* history: requests the RPM check let through per store
          verdict        \* what each client was told last

vars == <<available, counter, pc, pending, admitted, verdict>>

Stores == {"redis", "local"}
Kinds  == {"rpm", "tpm"}

TypeOK ==
  /\ available \in BOOLEAN
  /\ counter \in [Stores -> [Kinds -> [value : 0..MaxCount, left : 0..Window]]]
  /\ pc \in [Clients -> {"idle", "tpm", "upstream"}]
  /\ pending \in 0..MaxPending
  /\ admitted \in [Stores -> 0..MaxCount]
  /\ verdict \in [Clients -> {"none", "admitted", "rejected"}]

Init ==
  /\ available \in BOOLEAN
  /\ counter = [s \in Stores |-> [k \in Kinds |-> [value |-> 0, left |-> 0]]]
  /\ pc = [c \in Clients |-> "idle"]
  /\ pending = 0
  /\ admitted = [s \in Stores |-> 0]
  /\ verdict = [c \in Clients |-> "none"]

AtMost(n) == IF n > MaxCount THEN MaxCount ELSE n

(* redisIncrementBy: INCRBY, and EXPIRE every time. *)
RedisIncrement(item, n) == [value |-> AtMost(item.value + n), left |-> Window]

(* Fault: every increment starts a new window, as in Redis. *)
LocalIncrementRenewing(item, n) ==
  [value |-> AtMost(item.value + n), left |-> Window]

(* localIncrementBy: a fresh window when the old one is over. *)
LocalIncrement(item, n) ==
  IF item.left = 0 THEN [value |-> AtMost(n), left |-> Window]
                   ELSE [item EXCEPT !.value = AtMost(@ + n)]

(* A pipeline that broke off between the two commands. *)
RedisUnexpired(item, n) == [item EXCEPT !.value = AtMost(@ + n)]

(* IncrementByWindow: the counters and the store that answered.  A Redis   *)
(* that was there at startup may fail at any time; of a failed pipeline    *)
(* both commands, one or none may have reached it.                         *)
IncrementByWindow(kind, n) ==
  LET redis == [counter EXCEPT !["redis"][kind] = RedisIncrement(@, n)]
      half  == [counter EXCEPT !["redis"][kind] = RedisUnexpired(@, n)]
      local(from) == [from EXCEPT !["local"][kind] = LocalIncrement(@, n)]
  IN  IF available
      THEN {<<redis, "redis">>} \cup {<<local(from), "local">> : from \in {counter, half, redis}}
      ELSE {<<local(counter), "local">>}

(* GetCounter: the store that answers. *)
Answering == IF available THEN Stores ELSE {"local"}

----------------------------------------------------------------------------
OverRpmLimit(value) == value > RpmLimit

(* The request counts against RPM first, and stays counted when rejected. *)
CheckRpm(c) ==
  /\ pc[c] = "idle"
  /\ \E result \in IncrementByWindow("rpm", 1) :
       LET after == result[1]
           store == result[2]
           over  == OverRpmLimit(after[store]["rpm"].value)
       IN  /\ counter' = after
           /\ pc' = [pc EXCEPT ![c] = IF over THEN "idle" ELSE "tpm"]
           /\ verdict' = [verdict EXCEPT ![c] = IF over THEN "rejected" ELSE "none"]
           /\ admitted' = IF over THEN admitted
                          ELSE [admitted EXCEPT ![store] = AtMost(@ + 1)]
  /\ UNCHANGED <<available, pending>>

CheckTpm(c) ==
  /\ pc[c] = "tpm"
  /\ \E store \in Answering :
       LET over == counter[store]["tpm"].value >= TpmLimit
       IN  /\ pc' = [pc EXCEPT ![c] = IF over THEN "idle" ELSE "upstream"]
           /\ verdict' = [verdict EXCEPT ![c] = IF over THEN "rejected" ELSE "admitted"]
  /\ UNCHANGED <<available, counter, pending, admitted>>

(* The upstream fails: no tokens are counted. *)
UpstreamFails(c) ==
  /\ pc[c] = "upstream"
  /\ pc' = [pc EXCEPT ![c] = "idle"]
  /\ UNCHANGED <<available, counter, pending, admitted, verdict>>

(* The response is sent; a goroutine will count its tokens. *)
Respond(c) ==
  /\ pc[c] = "upstream"
  /\ pending < MaxPending
  /\ pc' = [pc EXCEPT ![c] = "idle"]
  /\ pending' = pending + 1
  /\ UNCHANGED <<available, counter, admitted, verdict>>

ConsumeTokens ==
  /\ pending > 0
  /\ pending' = pending - 1
  /\ \E n \in Tokens : \E result \in IncrementByWindow("tpm", n) : counter' = result[1]
  /\ UNCHANGED <<available, pc, admitted, verdict>>

(* Time passes; an expired counter is gone, and its window with it. *)
Passed(item) ==
  CASE item.left = 0 -> item
    [] item.left = 1 -> [value |-> 0, left |-> 0]
    [] item.left > 1 -> [item EXCEPT !.left = @ - 1]

Tick ==
  /\ counter' = [s \in Stores |-> [k \in Kinds |-> Passed(counter[s][k])]]
  /\ admitted' = [s \in Stores |-> IF counter'[s]["rpm"].value = 0 THEN 0 ELSE admitted[s]]
  /\ UNCHANGED <<available, pc, pending, verdict>>

Request(c) == CheckRpm(c) \/ CheckTpm(c) \/ UpstreamFails(c) \/ Respond(c)

Next == (\E c \in Clients : Request(c)) \/ ConsumeTokens \/ Tick

Spec == Init /\ [][Next]_vars

----------------------------------------------------------------------------
(* No store lets more than RpmLimit requests through before its counter    *)
(* expires, however the clients interleave; when Redis fails over to the   *)
(* local map a key can get the limit from each of them.                    *)
RpmIsBounded == \A s \in Stores : admitted[s] <= RpmLimit
=============================================================================
