--------------------------- MODULE RegisterLimiter ---------------------------
(***************************************************************************)
(* The sliding-window limiter of the public /register endpoint             *)
(* (server/middleware/register_ratelimit.go).  The mutex makes allow one   *)
(* step.  Times are ages in ticks: a hit counts while its age is below     *)
(* Window, and its entry may be pruned once its age is above Window, where *)
(* ages saturate.                                                          *)
(***************************************************************************)
EXTENDS Integers, Sequences, FiniteSets, Functions

CONSTANTS Ips,           \* the client addresses
          Limit,         \* hits per window
          Window,        \* the window, in ticks
          MaxEntries     \* the size at which the map is pruned (1024)

ConstantsOK == Limit \in Nat \ {0} /\ Window \in Nat \ {0} /\ MaxEntries \in Nat

VARIABLES hits,          \* the remembered hits of each address, oldest first
          admitted       \* history: how many hits of each age were let through

vars == <<hits, admitted>>

Ages   == 0..(Window + 1)
Recent == 0..(Window - 1)

TypeOK ==
  /\ hits \in [Ips -> Seq(Ages)]
  /\ admitted \in [Ips -> [Recent -> Nat]]

Init ==
  /\ hits = [ip \in Ips |-> <<>>]
  /\ admitted = [ip \in Ips |-> [age \in Recent |-> 0]]

Kept(ip) ==
  LET upTo[i \in 0..Len(hits[ip])] ==
        IF i = 0 THEN <<>>
        ELSE IF hits[ip][i] < Window THEN Append(upTo[i - 1], hits[ip][i]) ELSE upTo[i - 1]
  IN  upTo[Len(hits[ip])]

(* The opportunistic prune: when the map has grown too large, the entries  *)
(* whose last hit is out of the window go.                                 *)
Entries(h) == {ip \in Ips : h[ip] # <<>>}
Stale(seq) == seq # <<>> /\ seq[Len(seq)] > Window
(* Fault: the map is emptied when it has grown too large. *)
PrunedToNothing(h) ==
  IF Cardinality(Entries(h)) > MaxEntries THEN [ip \in Ips |-> <<>>] ELSE h

Pruned(h) ==
  IF Cardinality(Entries(h)) > MaxEntries
  THEN [ip \in Ips |-> IF Stale(h[ip]) THEN <<>> ELSE h[ip]]
  ELSE h

Reject(ip) ==
  /\ Len(Kept(ip)) >= Limit
  /\ hits' = [hits EXCEPT ![ip] = Kept(ip)]
  /\ UNCHANGED admitted

Admit(ip) ==
  /\ Len(Kept(ip)) < Limit
  /\ hits' = Pruned([hits EXCEPT ![ip] = Append(Kept(ip), 0)])
  /\ admitted' = [admitted EXCEPT ![ip][0] = @ + 1]

Allow(ip) == Reject(ip) \/ Admit(ip)

Older(age) == IF age > Window THEN age ELSE age + 1

Tick ==
  /\ hits' = [ip \in Ips |-> [i \in DOMAIN hits[ip] |-> Older(hits[ip][i])]]
  /\ admitted' = [ip \in Ips |->
       [age \in Recent |-> IF age = 0 THEN 0 ELSE admitted[ip][age - 1]]]

Next == (\E ip \in Ips : Allow(ip)) \/ Tick

Spec == Init /\ [][Next]_vars

----------------------------------------------------------------------------
(* The hits the limiter remembers within the window are exactly the ones   *)
(* it let through: neither the filter nor the prune forgets one that still *)
(* counts, or keeps one of another address.                                *)
RemembersTheWindow ==
  \A ip \in Ips, age \in Recent :
    Cardinality({i \in DOMAIN hits[ip] : hits[ip][i] = age}) = admitted[ip][age]

(* At most Limit registrations of an address in any window, wherever the   *)
(* window starts.                                                          *)
AtMostLimitPerWindow == \A ip \in Ips : SumFunction(admitted[ip]) <= Limit
=============================================================================
