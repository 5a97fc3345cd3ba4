----------------------------- MODULE RouterOrder -----------------------------
(***************************************************************************)
(* How router/router.go orders the deployments of an alias: the first of   *)
(* the list is tried first, the rest are the fallbacks.  The deployments   *)
(* are named by their position 1..N in the alias's list, and what a        *)
(* strategy looks at (Priority, price, Weight, latency EWMA) is the        *)
(* deployment's score.  The round-robin counter of the alias is shared by  *)
(* all requests; only its residue modulo a group's size is used, so it is  *)
(* kept modulo CounterMod, a multiple of every group size.                 *)
(***************************************************************************)
EXTENDS Integers, Sequences, FiniteSets, SequencesExt, FiniteSetsExt

CONSTANTS N,             \* the deployments of the alias
          MaxScore,      \* scores are 0..MaxScore
          CounterMod,    \* a common multiple of 1..N
          MaxJitter      \* leastLatency compares with a jitter of 0..MaxJitter

ASSUME NAssumption == N \in Nat \ {0, 1}
ASSUME CounterModAssumption ==
  CounterMod \in Nat \ {0} /\ \A n \in 1..N : CounterMod % n = 0
ASSUME JitterAssumption == MaxJitter \in Nat

Deps == 1..N

(* The price of a deployment that is not in the cost catalog. *)
Unknown == -1

Strategies == {"round-robin", "weighted", "priority", "cheapest", "least-latency"}

VARIABLES strategy,      \* the alias's strategy
          score,         \* what the strategy compares
          counter,       \* the alias's round-robin counter
          ordered        \* the order handed to the last request

vars == <<strategy, score, counter, ordered>>

(* An order tries every deployment exactly once: no rotation and no draw    *)
(* loses a fallback or tries one twice.                                     *)
TypeOK ==
  /\ strategy \in Strategies
  /\ score \in [Deps -> 0..MaxScore \cup {Unknown}]
  /\ counter \in 0..(CounterMod - 1)
  /\ ordered # <<>> => Len(ordered) = N /\ ToSet(ordered) = Deps

Init ==
  /\ strategy \in Strategies
  /\ score \in [Deps -> 0..MaxScore \cup (IF strategy = "cheapest" THEN {Unknown} ELSE {})]
  /\ counter = 0
  /\ ordered = <<>>

----------------------------------------------------------------------------
(* Fault: the rotation is cut off at the end of the list. *)
RotationCut(list, start) ==
  [i \in DOMAIN list |-> list[Min({(start % Len(list)) + i, Len(list)})]]

(* The list from position start + 1 on, wrapping around. *)
Rotation(list, start) ==
  [i \in DOMAIN list |-> list[((start + i - 1) % Len(list)) + 1]]

AddCounter(n) == counter' = (counter + n) % CounterMod

RoundRobin ==
  /\ ordered' = Rotation([i \in Deps |-> i], counter)
  /\ AddCounter(1)

(* The insertion sorts put better deployments first and are stable; then   *)
(* every tie group in rotating is rotated in turn, each taking the         *)
(* counter's next value.  Place is a deployment's place after the sort.    *)
SortAndRotate(Better(_, _), rotating) ==
  LET Before(a, b) == Better(a, b) \/ (~Better(b, a) /\ a < b)
      Place        == [d \in Deps |-> Cardinality({e \in Deps : Before(e, d)})]
      Group(d)     == {e \in Deps : score[e] = score[d]}
      Start(d)     == Min({Place[e] : e \in Group(d)})
      Rotates(d)   == d \in rotating /\ Cardinality(Group(d)) > 1
      Starts       == {Start(d) : d \in {e \in Deps : Rotates(e)}}
      Turn(d)      == counter + Cardinality({s \in Starts : s < Start(d)})
      Rotated      == [d \in Deps |->
                        IF Rotates(d)
                        THEN Start(d) + ((Place[d] - Start(d) - Turn(d))
                                          % Cardinality(Group(d)))
                        ELSE Place[d]]
  IN  /\ ordered' = [i \in Deps |-> CHOOSE d \in Deps : Rotated[d] = i - 1]
      /\ AddCounter(Cardinality(Starts))

PriorityOrdered == SortAndRotate(LAMBDA a, b : score[a] < score[b], Deps)

(* Known prices first and ascending, unknown ones behind them as listed. *)
Cheaper(a, b) ==
  \/ score[a] # Unknown /\ score[b] = Unknown
  \/ score[a] # Unknown /\ score[b] # Unknown /\ score[a] < score[b]

Cheapest == SortAndRotate(Cheaper, {d \in Deps : score[d] # Unknown})

(* A weight of 0 counts as 1; any deployment can be drawn as the primary. *)
Weighted ==
  IF \A d \in Deps : score[d] <= 1
  THEN RoundRobin
  ELSE /\ \E primary \in Deps :
            ordered' = <<primary>> \o RemoveAt([i \in Deps |-> i], primary)
       /\ UNCHANGED counter

(* Fault: both sides of a comparison are jittered against each other. *)
InsertedTwiceJittered(list, d) ==
  LET Passes(k) == \A j \in (k + 1)..Len(list) : score[d] < score[list[j]] + MaxJitter
      Stops(k)  == k = 0 \/ score[d] + 2 * MaxJitter >= score[list[k]]
  IN  {InsertAt(list, k + 1, d) : k \in {k \in 0..Len(list) : Passes(k) /\ Stops(k)}}

(* Insertion with a random jitter at every comparison: a deployment may    *)
(* pass a slower one, and must pass one slower by more than the jitter.    *)
Inserted(list, d) ==
  LET Passes(k) == \A j \in (k + 1)..Len(list) : score[d] < score[list[j]]
      Stops(k)  == k = 0 \/ score[d] + MaxJitter >= score[list[k]]
  IN  {InsertAt(list, k + 1, d) : k \in {k \in 0..Len(list) : Passes(k) /\ Stops(k)}}

LatencyOrders ==
  FoldLeft(LAMBDA lists, d : UNION {Inserted(l, d) : l \in lists},
           {<<>>}, [i \in Deps |-> i])

LeastLatency == ordered' \in LatencyOrders /\ UNCHANGED counter

Resolve ==
  /\ \/ strategy = "round-robin"   /\ RoundRobin
     \/ strategy = "weighted"      /\ Weighted
     \/ strategy = "priority"      /\ PriorityOrdered
     \/ strategy = "cheapest"      /\ Cheapest
     \/ strategy = "least-latency" /\ LeastLatency
  /\ UNCHANGED <<strategy, score>>

Next == Resolve

Spec == Init /\ [][Next]_vars

----------------------------------------------------------------------------
Leads(d) == ordered # <<>> /\ ordered[1] = d
Best     == {d \in Deps : \A e \in Deps : ~Cheaper(e, d)}

(* A deployment of lower priority is never tried before one of higher,     *)
(* and an unpriced or dearer one never before a cheaper one, although      *)
(* groups are rotated after the sort.                                      *)
RotationKeepsRank ==
  strategy \in {"priority", "cheapest"} =>
    \A i, j \in DOMAIN ordered : Cheaper(ordered[i], ordered[j]) => i < j

(* The jitter of least-latency never lets a deployment lead that is slower *)
(* than a neighbour it was compared with by more than the jitter.          *)
JitterIsBounded ==
  strategy = "least-latency" =>
    \A i \in DOMAIN ordered : i > 1 => score[ordered[i]] + MaxJitter >= score[ordered[i - 1]]

(* Round robin gives every deployment its turn at the head of the list,    *)
(* and so do default weights; a single group of equal rank gives it to the *)
(* best.                                                                   *)
TieGroups ==
  {{d \in Deps : score[d] = s} : s \in {score[d] : d \in Deps} \ {Unknown}}
OneTieGroup == Cardinality({g \in TieGroups : Cardinality(g) > 1}) <= 1
TakesTurns(d) ==
  \/ strategy = "round-robin"
  \/ strategy = "weighted" /\ \A e \in Deps : score[e] <= 1
  \/ strategy \in {"priority", "cheapest"} /\ OneTieGroup /\ d \in Best /\ score[d] # Unknown
EveryLeaderReturns == \A d \in Deps : []<>(TakesTurns(d) => Leads(d))
=============================================================================
