---------------------------- MODULE FallbackProofs ----------------------------
(***************************************************************************)
(* The properties of Fallback, and of the books of Spending that MCFallback *)
(* sets beside it, for any number of deployments, owners, requests,        *)
(* retries and reloads.                                                    *)
(***************************************************************************)
EXTENDS MCFallback, InductionLemmas

(* The breaker's operations keep its type. *)
LEMMA OpsType ==
  /\ NewCircuitBreaker \in Breaker
  /\ \A b \in Breaker : /\ AfterAllow(b) \in Breaker
                        /\ AfterSuccess(b) \in Breaker
                        /\ AfterFailure(b) \in Breaker
                        /\ BreakerTick(b) \in Breaker
<1> USE ThresholdAssumption, OpenDurationAssumption
        DEF Breaker, CircuitState, Closed, Open, HalfOpen, Ages, Unset
<1>1. NewCircuitBreaker \in Breaker
  BY DEF BreakerOf, NewCircuitBreaker
<1>2. ASSUME NEW b \in Breaker PROVE AfterAllow(b) \in Breaker
  BY DEF BreakerOf, AfterAllow
<1>3. ASSUME NEW b \in Breaker PROVE AfterFailure(b) \in Breaker
  <2> HIDE DEF Ages, Unset
  <2>0. 0 \in Ages /\ Threshold \in 0..Threshold
    BY DEF Ages
  <2>1. CASE b.state = HalfOpen
    BY <2>0, <2>1 DEF BreakerOf, AfterFailure
  <2>2. CASE b.state # HalfOpen /\ Counted(b.failures) = Threshold
    BY <2>0, <2>2 DEF BreakerOf, AfterFailure
  <2>3. CASE b.state # HalfOpen /\ Counted(b.failures) # Threshold
    <3>1. Counted(b.failures) \in 0..Threshold
      BY DEF Counted
    <3> QED  BY <2>3, <3>1 DEF BreakerOf, AfterFailure
  <2> QED  BY <2>1, <2>2, <2>3
<1>4. ASSUME NEW b \in Breaker PROVE BreakerTick(b) \in Breaker
  BY DEF BreakerOf, BreakerTick, Aged
<1> QED  BY <1>1, <1>2, <1>3, <1>4 DEF AfterSuccess

(* Neither report leaves the breaker half-open, and time does not change   *)
(* its state.                                                              *)
LEMMA ReportsLeaveHalfOpen ==
  \A b \in Breaker : /\ AfterSuccess(b).state # HalfOpen
                     /\ AfterFailure(b).state # HalfOpen
                     /\ BreakerTick(b).state = b.state
BY DEF Breaker, BreakerOf, AfterSuccess, AfterFailure, BreakerTick, NewCircuitBreaker,
       Closed, Open, HalfOpen

----------------------------------------------------------------------------
(* The lists a request is given                                            *)

(* Of a list of objects, those of some owners come in their order, each    *)
(* once if the list names each once.                                       *)
LEMMA ThoseObjects ==
  ASSUME NEW objects \in Seq(Objects), NEW owners
  PROVE  /\ Those(owners, objects) \in Seq(Objects)
         /\ IsInjective(objects) => IsInjective(Those(owners, objects))
         /\ \A i \in DOMAIN Those(owners, objects) :
              /\ \E j \in DOMAIN objects : Those(owners, objects)[i] = objects[j]
              /\ Owner[Those(owners, objects)[i][1]] \in owners
         /\ objects = <<>> => Those(owners, objects) = <<>>
<1> DEFINE n == Len(objects)
           keep == [i \in 1..n |-> Owner[objects[i][1]] \in owners]
           val == [i \in 1..n |-> objects[i]]
           upTo == CHOOSE f : f = [i \in 0..n |->
                     IF i = 0 THEN <<>>
                     ELSE IF Owner[objects[i][1]] \in owners THEN Append(f[i - 1], objects[i])
                     ELSE f[i - 1]]
<1>1. n \in Nat /\ \A i \in 1..n : objects[i] \in Objects
  OBVIOUS
<1>2. val \in [1..n -> Objects]
  BY <1>1
<1>3. upTo = CHOOSE f : Filtered(f, n, keep, val)
  <2>1. \A f : [i \in 0..n |->
                  IF i = 0 THEN <<>>
                  ELSE IF Owner[objects[i][1]] \in owners THEN Append(f[i - 1], objects[i])
                  ELSE f[i - 1]]
             = [i \in 0..n |-> IF i = 0 THEN <<>>
                               ELSE IF keep[i] THEN Append(f[i - 1], val[i]) ELSE f[i - 1]]
    <3>1. \A i \in 0..n : i # 0 => keep[i] = (Owner[objects[i][1]] \in owners) /\ val[i] = objects[i]
      BY <1>1
    <3> HIDE DEF n, keep, val
    <3> QED  BY <3>1, Zenon
  <2> HIDE DEF n, keep, val
  <2> QED  BY <2>1, Zenon DEF Filtered
<1>4. Those(owners, objects) = upTo[n]
  BY Zenon DEF Those
<1> HIDE DEF n, keep, val, upTo
<1>5. Filtered(upTo, n, keep, val)
  BY <1>1, <1>2, <1>3, FilterExists
<1>6. Selects(Those(owners, objects), n, Objects, keep, val)
  BY <1>1, <1>2, <1>4, <1>5, FilterResult
<1> DEFINE s == Those(owners, objects)
<1>7. s \in Seq(Objects) /\ Len(s) <= n
  BY <1>6 DEF Selects
<1> HIDE DEF s
<1>8. ASSUME NEW i \in 1..Len(s)
      PROVE  (\E j \in DOMAIN objects : s[i] = objects[j]) /\ Owner[s[i][1]] \in owners
  <2>1. PICK m \in 1..n : keep[m] /\ s[i] = val[m]
    BY <1>6 DEF Selects, s
  <2>2. Owner[objects[m][1]] \in owners
    BY <2>1, Zenon DEF keep
  <2>3. s[i] = objects[m] /\ m \in DOMAIN objects
    BY <2>1 DEF val, n
  <2> QED  BY <2>2, <2>3
<1>9. IsInjective(objects) => \A k, m \in 1..n : val[k] = val[m] => k = m
  BY <1>1 DEF IsInjective, n, val
<1>10. IsInjective(objects) => \A j, k \in 1..Len(s) : s[j] = s[k] => j = k
  BY <1>6, <1>9 DEF Selects, s
<1>11. objects = <<>> => s = <<>>
  BY <1>7 DEF n
<1> QED
  BY <1>7, <1>8, <1>10, <1>11 DEF IsInjective, s

(* The alias's list names distinct current objects, and none when there is *)
(* no such alias.                                                          *)
LEMMA CurrentObjects ==
  ASSUME catalog \in Catalogs, gen \in Gens
  PROVE  /\ Current \in Seq(Objects)
         /\ IsInjective(Current)
         /\ \A i \in DOMAIN Current : Current[i][2] = gen
         /\ Current = <<>> <=> catalog = <<>>
<1>1. catalog \in Seq(Deployments) /\ IsInjective(catalog)
  BY CatalogsAssumption, DistinctAssumption
<1>2. Current \in Seq(Objects) /\ DOMAIN Current = DOMAIN catalog
  BY <1>1 DEF Current, Objects
<1>3. \A i \in DOMAIN Current : Current[i] = <<catalog[i], gen>>
  BY DEF Current
<1>4. IsInjective(Current)
  BY <1>1, <1>2, <1>3 DEF IsInjective
<1>5. Current = <<>> <=> catalog = <<>>
  BY <1>1, <1>2
<1> QED  BY <1>2, <1>3, <1>4, <1>5

(* The current objects of an owner (buildOrgIndex).                        *)
LEMMA OwnedObjects ==
  ASSUME catalog \in Catalogs, gen \in Gens, NEW owner
  PROVE  /\ OwnedBy(owner) \in Seq(Objects)
         /\ IsInjective(OwnedBy(owner))
         /\ \A i \in DOMAIN OwnedBy(owner) :
              OwnedBy(owner)[i][2] = gen /\ Owner[OwnedBy(owner)[i][1]] = owner
         /\ catalog = <<>> => OwnedBy(owner) = <<>>
BY CurrentObjects, ThoseObjects DEF OwnedBy

(* The place in a list of n that a counter c puts i-th.                    *)
Place(c, i, n) == ((c + i - 1) % n) + 1

(* No two numbers less than n apart have the same residue modulo n.        *)
LEMMA PlacesDiffer ==
  ASSUME NEW n \in Nat, n > 0, NEW c \in Nat, NEW i \in 1..n, NEW j \in 1..n
  PROVE  /\ Place(c, i, n) \in 1..n
         /\ Place(c, i, n) = Place(c, j, n) => i = j
<1>1. PICK x, y \in Nat : x = c + i - 1 /\ y = c + j - 1
  OBVIOUS
<1>2. Place(c, i, n) = (x % n) + 1 /\ Place(c, j, n) = (y % n) + 1
  BY <1>1 DEF Place
<1>3. x % n \in 0..(n - 1) /\ y % n \in 0..(n - 1)
  OBVIOUS
<1>4. ASSUME x % n = y % n PROVE x = y
  <2>1. x = (x \div n) * n + (x % n) /\ y = (y \div n) * n + (y % n)
    OBVIOUS
  <2>2. PICK p, q, m \in Int : p = x \div n /\ q = y \div n /\ m = x % n
    OBVIOUS
  <2>3. x = p * n + m /\ y = q * n + m
    BY <1>4, <2>1, <2>2
  <2>4. (p > q => p * n >= q * n + n) /\ (q > p => q * n >= p * n + n)
    BY <2>2
  <2>5. p * n \in Int /\ q * n \in Int
    BY <2>2
  <2>6. x - y < n /\ y - x < n
    BY <1>1
  <2>7. ~(p > q) /\ ~(q > p)
    BY <2>2, <2>3, <2>4, <2>5, <2>6
  <2>8. p = q
    BY <2>2, <2>7
  <2> QED  BY <2>3, <2>8
<1> QED  BY <1>1, <1>2, <1>3, <1>4

Rotated(t, s, c) == t = [i \in 1..Len(s) |-> s[((c + i - 1) % Len(s)) + 1]]

Rearranged(t, s) ==
  /\ t \in Seq(Objects)
  /\ IsInjective(t)
  /\ \A i \in DOMAIN t : \E j \in DOMAIN s : t[i] = s[j]

(* A list rotated by the counter names the objects of the list, each once  *)
(* (roundRobin).                                                           *)
LEMMA Rotation ==
  ASSUME NEW s \in Seq(Objects), IsInjective(s), NEW c \in Nat, s # <<>>,
         NEW t, Rotated(t, s, c)
  PROVE  Rearranged(t, s)
<1>1. PICK n \in Nat : n = Len(s) /\ n > 0
  OBVIOUS
<1>2. t = [i \in 1..n |-> s[Place(c, i, n)]] /\ DOMAIN s = 1..n
  BY <1>1 DEF Place, Rotated
<1>3. \A i \in 1..n : Place(c, i, n) \in 1..n
  BY <1>1, PlacesDiffer
<1>4. \A i \in 1..n : t[i] = s[Place(c, i, n)] /\ t[i] \in Objects
  BY <1>1, <1>2, <1>3
<1>5. t \in Seq(Objects) /\ DOMAIN t = 1..n
  BY <1>1, <1>2, <1>3
<1>6. ASSUME NEW i \in 1..n, NEW j \in 1..n, t[i] = t[j] PROVE i = j
  <2>1. Place(c, i, n) = Place(c, j, n)
    BY <1>2, <1>3, <1>4, <1>6 DEF IsInjective
  <2> QED  BY <1>1, <2>1, PlacesDiffer
<1> QED  BY <1>2, <1>3, <1>4, <1>5, <1>6 DEF IsInjective, Rearranged

(* What round-robin makes of a list, and of that the part a request keeps, *)
(* names objects of the list, each once.                                   *)
LEMMA OrderedObjects ==
  ASSUME NEW r \in Requests, NEW s \in Seq(Objects), IsInjective(s), Len(s) > 1 => counter \in Nat
  PROVE  /\ Rearranged(Scoped(r, RoundRobin(s)), s)
         /\ pc[r] = "orderAll" /\ OrgOf[r] # NoOrg =>
              \A i \in DOMAIN Scoped(r, RoundRobin(s)) :
                Owner[Scoped(r, RoundRobin(s))[i][1]] \in {OrgOf[r], Global}
<1>1. Rearranged(RoundRobin(s), s)
  <2>1. CASE Len(s) <= 1
    BY <2>1 DEF RoundRobin, Rearranged
  <2>2. CASE Len(s) > 1
    <3>1. Rotated(RoundRobin(s), s, counter) /\ s # <<>>
      BY <2>2 DEF RoundRobin, Rotated
    <3>2. counter \in Nat
      BY <2>2
    <3> QED  BY <3>1, <3>2, Rotation
  <2> QED  BY <2>1, <2>2
<1> DEFINE t == RoundRobin(s)
           u == Those({OrgOf[r], Global}, t)
<1>2. t \in Seq(Objects) /\ IsInjective(t) /\ \A i \in DOMAIN t : \E j \in DOMAIN s : t[i] = s[j]
  BY <1>1 DEF Rearranged
<1> HIDE DEF t
<1>3. /\ u \in Seq(Objects) /\ IsInjective(u)
      /\ \A i \in DOMAIN u : (\E j \in DOMAIN t : u[i] = t[j]) /\ Owner[u[i][1]] \in {OrgOf[r], Global}
  BY <1>2, ThoseObjects
<1> HIDE DEF u
<1>4. Rearranged(u, s)
  BY <1>2, <1>3 DEF Rearranged
<1>5. CASE pc[r] = "orderAll" /\ OrgOf[r] # NoOrg
  BY <1>3, <1>4, <1>5 DEF Scoped, t, u
<1>6. CASE ~(pc[r] = "orderAll" /\ OrgOf[r] # NoOrg)
  BY <1>1, <1>6 DEF Scoped
<1> QED  BY <1>5, <1>6

----------------------------------------------------------------------------
(* Types                                                                   *)

InFlight == {"attempt", "backoff", "reportFailure", "reportSuccess"}

(* A request in flight has the object it calls at the head of its list,    *)
(* and one that waits for a retry has a retry left.  A list names an       *)
(* object once.                                                            *)
Equipped ==
  \A r \in Requests : /\ pc[r] \in InFlight => list[r] # <<>>
                      /\ pc[r] = "backoff" => attempt[r] < MaxRetries
                      /\ IsInjective(list[r])

(* The steps that give a request its list, and the tail of a list.         *)
LEMMA GivenLists ==
  ASSUME TypeOK, Equipped, NEW r \in Requests
  PROVE  /\ \A owner : OwnedBy(owner) \in Seq(Objects) /\ IsInjective(OwnedBy(owner))
         /\ Current \in Seq(Objects) /\ IsInjective(Current)
         /\ IsInjective(<<>>) /\ <<>> \in Seq(Objects)
         /\ \/ Len(list[r]) > 1 /\ counter = NoCounter
            \/ /\ Scoped(r, RoundRobin(list[r])) \in Seq(Objects)
               /\ IsInjective(Scoped(r, RoundRobin(list[r])))
         /\ list[r] # <<>> => /\ Head1(r) \in Objects /\ Tail(list[r]) \in Seq(Objects)
                              /\ IsInjective(Tail(list[r]))
<1>1. catalog \in Catalogs /\ gen \in Gens /\ list[r] \in Seq(Objects) /\ IsInjective(list[r])
  BY DEF TypeOK, Equipped
<1>2. \A owner : OwnedBy(owner) \in Seq(Objects) /\ IsInjective(OwnedBy(owner))
  BY <1>1, OwnedObjects
<1>3. Current \in Seq(Objects) /\ IsInjective(Current)
  BY <1>1, CurrentObjects
<1>4. ASSUME ~(Len(list[r]) > 1 /\ counter = NoCounter)
      PROVE  /\ Scoped(r, RoundRobin(list[r])) \in Seq(Objects)
             /\ IsInjective(Scoped(r, RoundRobin(list[r])))
  <2>1. Len(list[r]) > 1 => counter \in Nat
    BY <1>4, CounterPeriodAssumption DEF TypeOK
  <2>2. Rearranged(Scoped(r, RoundRobin(list[r])), list[r])
    BY <1>1, <2>1, OrderedObjects
  <2> QED  BY <2>2 DEF Rearranged
<1>5. ASSUME list[r] # <<>>
      PROVE  Head1(r) \in Objects /\ Tail(list[r]) \in Seq(Objects) /\ IsInjective(Tail(list[r]))
  <2>1. Head1(r) \in Objects /\ Tail(list[r]) \in Seq(Objects)
    BY <1>1, <1>5 DEF Head1
  <2>2. \A i \in DOMAIN Tail(list[r]) : i + 1 \in DOMAIN list[r] /\ Tail(list[r])[i] = list[r][i + 1] /\ i \in Nat
    BY <1>1, <1>5
  <2> QED  BY <1>1, <2>1, <2>2 DEF IsInjective
<1>6. IsInjective(<<>>) /\ <<>> \in Seq(Objects)
  BY DEF IsInjective
<1> QED  BY <1>2, <1>3, <1>4, <1>5, <1>6

(* A step keeps the types, and leaves every request equipped.              *)
LEMMA TypeStep ==
  ASSUME TypeOK, Equipped, [Next]_vars
  PROVE  TypeOK' /\ Equipped'
<1>a. MaxRetries \in Nat
  BY RetriesAssumption DEF MaxRetries
<1>b. \A r \in Requests : list[r] # <<>> => /\ Head1(r) \in Objects /\ Tail(list[r]) \in Seq(Objects)
                                            /\ IsInjective(Tail(list[r]))
  BY GivenLists
<1>c. IsInjective(<<>>) /\ <<>> \in Seq(Objects)
  BY DEF IsInjective
<1>d. \A new : FirstCounter(new) \in 0..(CounterPeriod - 1) \cup {NoCounter}
  BY CounterPeriodAssumption DEF FirstCounter
<1> USE DEF TypeOK, Equipped, InFlight, PCs, Verdicts, Goto, Finish, shared, history
\* A step that gives a request a list and leaves it out of flight.
<1>e. ASSUME NEW r \in Requests, NEW l \in Seq(Objects), IsInjective(l), list' = [list EXCEPT ![r] = l],
             NEW to \in PCs \ InFlight, pc' = [pc EXCEPT ![r] = to],
             UNCHANGED <<fallbackEnabled, catalog, gen, writing, up, cancelled, absent>>,
             UNCHANGED <<breaker, attempt, sent>>,
             counter' \in 0..(CounterPeriod - 1) \cup {NoCounter}, missed' \subseteq Requests,
             \/ UNCHANGED outcome
             \/ \E v \in Verdicts : outcome' = [outcome EXCEPT ![r] = [verdict |-> v, by |-> <<>>]]
      PROVE  TypeOK' /\ Equipped'
  <2>1. outcome' \in [Requests -> [verdict : Verdicts, by : Objects \cup {<<>>}]]
    <3>1. CASE UNCHANGED outcome
      BY <3>1
    <3>2. ASSUME NEW v \in Verdicts, outcome' = [outcome EXCEPT ![r] = [verdict |-> v, by |-> <<>>]]
          PROVE  outcome' \in [Requests -> [verdict : Verdicts, by : Objects \cup {<<>>}]]
      <4> HIDE DEF Verdicts
      <4> QED  BY <3>2
    <3> QED  BY <1>e, <3>1, <3>2
  <2> HIDE DEF Verdicts
  <2> QED  BY <1>e, <2>1
<1>1. ASSUME NEW r \in Requests, ResolveForOrg(r) PROVE TypeOK' /\ Equipped'
  <2>1. UNCHANGED <<fallbackEnabled, catalog, gen, counter, writing, up, cancelled, absent>>
        /\ UNCHANGED <<breaker, attempt, sent>> /\ missed' \subseteq Requests
    BY <1>1 DEF ResolveForOrg
  <2>2. PICK l \in Seq(Objects) : IsInjective(l) /\ list' = [list EXCEPT ![r] = l]
    <3>1. CASE UNCHANGED list
      BY <3>1
    <3>2. CASE list' # list
      <4>1. \A owner : OwnedBy(owner) \in Seq(Objects) /\ IsInjective(OwnedBy(owner))
        BY GivenLists
      <4>2. \E owner : list' = [list EXCEPT ![r] = OwnedBy(owner)]
        BY <1>1, <3>2, Zenon DEF ResolveForOrg
      <4> QED  BY <4>1, <4>2
    <3> QED  BY <3>1, <3>2
  <2>3. \E to \in PCs \ InFlight : pc' = [pc EXCEPT ![r] = to]
    BY <1>1 DEF ResolveForOrg
  <2>4. \/ UNCHANGED outcome
        \/ \E v \in Verdicts : outcome' = [outcome EXCEPT ![r] = [verdict |-> v, by |-> <<>>]]
    BY <1>1 DEF ResolveForOrg
  <2> QED  BY <1>e, <2>1, <2>2, <2>3, <2>4
<1>2. ASSUME NEW r \in Requests, Resolve(r) \/ ReadDeps(r) PROVE TypeOK' /\ Equipped'
  <2>1. UNCHANGED <<fallbackEnabled, catalog, gen, counter, writing, up, cancelled, absent>>
        /\ UNCHANGED <<breaker, attempt, sent>> /\ missed' \subseteq Requests
    BY <1>2 DEF Resolve, ReadDeps
  <2>2. PICK l \in Seq(Objects) : IsInjective(l) /\ list' = [list EXCEPT ![r] = l]
    <3>1. CASE UNCHANGED list
      BY <3>1
    <3>2. CASE list' = [list EXCEPT ![r] = Current]
      BY <3>2, GivenLists
    <3> QED  BY <1>2, <3>1, <3>2 DEF Resolve, ReadDeps
  <2>3. \E to \in PCs \ InFlight : pc' = [pc EXCEPT ![r] = to]
    BY <1>2 DEF Resolve, ReadDeps
  <2>4. \/ UNCHANGED outcome
        \/ \E v \in Verdicts : outcome' = [outcome EXCEPT ![r] = [verdict |-> v, by |-> <<>>]]
    BY <1>2 DEF Resolve, ReadDeps
  <2> QED  BY <1>e, <2>1, <2>2, <2>3, <2>4
<1>3. ASSUME NEW r \in Requests, Order(r) PROVE TypeOK' /\ Equipped'
  <2>1. UNCHANGED <<fallbackEnabled, catalog, gen, writing, up, cancelled, absent>>
        /\ UNCHANGED <<breaker, attempt, sent>> /\ missed' \subseteq Requests
    BY <1>3 DEF Order
  <2>2. PICK l \in Seq(Objects) : IsInjective(l) /\ list' = [list EXCEPT ![r] = l]
    <3>1. CASE UNCHANGED list
      BY <3>1
    <3>2. CASE list' # list
      <4>1. ~(Len(list[r]) > 1 /\ counter = NoCounter)
            /\ list' = [list EXCEPT ![r] = Scoped(r, RoundRobin(list[r]))]
        BY <1>3, <3>2, Zenon DEF Order
      <4> QED  BY <4>1, GivenLists
    <3> QED  BY <3>1, <3>2
  <2>3. \E to \in PCs \ InFlight : pc' = [pc EXCEPT ![r] = to]
    BY <1>3 DEF Order
  <2>4. \/ UNCHANGED outcome
        \/ \E v \in Verdicts : outcome' = [outcome EXCEPT ![r] = [verdict |-> v, by |-> <<>>]]
    BY <1>3 DEF Order
  <2>5. counter' \in 0..(CounterPeriod - 1) \cup {NoCounter}
    <3>1. counter' = counter \/ (counter # NoCounter /\ counter' = (counter + 1) % CounterPeriod)
      BY <1>3 DEF Order
    <3>2. counter # NoCounter => (counter + 1) % CounterPeriod \in 0..(CounterPeriod - 1)
      BY CounterPeriodAssumption
    <3> QED  BY <3>1, <3>2
  <2> QED  BY <1>e, <2>1, <2>2, <2>3, <2>4, <2>5
<1>16. ASSUME NEW r \in Requests, ConcurrentMapAccess(r) PROVE TypeOK' /\ Equipped'
  <2>1. outcome' \in [Requests -> [verdict : Verdicts, by : Objects \cup {<<>>}]]
    BY <1>16 DEF ConcurrentMapAccess
  <2>2. breaker' \in [Objects -> Breaker]
    BY <1>16, OpsType DEF ConcurrentMapAccess
  <2>3. counter' \in 0..(CounterPeriod - 1) \cup {NoCounter}
    BY <1>16, <1>d DEF ConcurrentMapAccess
  <2> HIDE DEF Verdicts
  <2> QED  BY <1>16, <2>1, <2>2, <2>3 DEF ConcurrentMapAccess
<1>4. ASSUME NEW r \in Requests, Exhausted(r) PROVE TypeOK' /\ Equipped'
  BY <1>4 DEF Exhausted
<1>5. ASSUME NEW r \in Requests, Skip(r) PROVE TypeOK' /\ Equipped'
  <2>1. CASE fallbackEnabled
    BY <1>5, <1>b, <2>1 DEF Skip
  <2>2. CASE ~fallbackEnabled
    <3>1. list[r] # <<>> /\ Finish(r, "rejected", Head1(r))
          /\ UNCHANGED <<shared, breaker, list, attempt, sent, missed>>
      BY <1>5, <2>2 DEF Skip
    <3> QED  BY <1>b, <3>1
  <2> QED  BY <2>1, <2>2
<1>6. ASSUME NEW r \in Requests, Try(r) PROVE TypeOK' /\ Equipped'
  BY <1>6, <1>a, <1>b, OpsType DEF Try
<1>7. ASSUME NEW r \in Requests, Attempt(r) PROVE TypeOK' /\ Equipped'
  <2>1. PICK to \in PCs : /\ pc' = [pc EXCEPT ![r] = to]
                          /\ to \in InFlight /\ (to = "backoff" => attempt[r] < MaxRetries)
    BY <1>7, <1>a DEF Attempt, AfterError, AfterAnswer
  <2>2. pc[r] \in InFlight /\ UNCHANGED <<shared, breaker, list, attempt, outcome, missed>>
    BY <1>7 DEF Attempt
  <2>3. sent' \in [Requests -> [Objects -> Nat]]
    <3>1. sent' = [sent EXCEPT ![r][Head1(r)] = @ + 1] /\ Head1(r) \in Objects
      BY <1>7, <1>b DEF Attempt
    <3> QED  BY <3>1
  <2> QED  BY <2>1, <2>2, <2>3
<1>8. ASSUME NEW r \in Requests, Retry(r) \/ GiveUp(r) PROVE TypeOK' /\ Equipped'
  <2>1. CASE Retry(r)
    BY <1>a, <2>1 DEF Retry
  <2>2. CASE GiveUp(r)
    BY <1>a, <2>2 DEF GiveUp
  <2> QED  BY <1>8, <2>1, <2>2
<1>9. ASSUME NEW r \in Requests, ReportFailure(r) PROVE TypeOK' /\ Equipped'
  <2>1. breaker' \in [Objects -> Breaker]
    BY <1>9, OpsType DEF ReportFailure
  <2>2. CASE fallbackEnabled
    BY <1>9, <1>b, <2>1, <2>2 DEF ReportFailure
  <2>3. CASE ~fallbackEnabled
    <3>1. list[r] # <<>> /\ Finish(r, "failed", Head1(r))
          /\ UNCHANGED <<shared, list, attempt, sent, missed>>
      BY <1>9, <2>3 DEF ReportFailure
    <3> QED  BY <1>b, <2>1, <3>1
  <2> QED  BY <2>2, <2>3
<1>10. ASSUME NEW r \in Requests, ReportSuccess(r) PROVE TypeOK' /\ Equipped'
  BY <1>10, <1>b, OpsType DEF ReportSuccess
<1>11. ASSUME NEW r \in Requests, HangUp(r) PROVE TypeOK' /\ Equipped'
  BY <1>11, <1>a DEF HangUp
<1>12. ASSUME NEW r \in Requests, NextRequest(r) PROVE TypeOK' /\ Equipped'
  BY <1>12, <1>a, <1>c DEF NextRequest
<1>13. CASE Reload
  <2>1. gen + 1 \in Gens
    BY <1>13, MaxReloadsAssumption DEF Reload, Gens
  <2>2. writing' \in BOOLEAN /\ catalog' \in Catalogs /\ absent' \subseteq Gens
    BY <1>13, <2>1 DEF Reload, Without
  <2> QED  BY <1>13, <2>1, <2>2 DEF Reload
<1>17. CASE Unlock
  <2>1. \A new \in Catalogs : KeptCounter(new) \in 0..(CounterPeriod - 1) \cup {NoCounter}
    BY <1>d DEF KeptCounter
  <2> QED  BY <1>17, <2>1 DEF Unlock
<1>14. CASE Tick
  BY <1>14, OpsType DEF Tick
<1>15. CASE UNCHANGED vars
  BY <1>15 DEF vars
<1> QED
  BY <1>1, <1>2, <1>3, <1>4, <1>5, <1>6, <1>7, <1>8, <1>9, <1>10, <1>11, <1>12,
     <1>13, <1>14, <1>15, <1>16, <1>17 DEF Next, Step

(* Every variable keeps its type: a request only ever tries objects that   *)
(* exist, and attempts no more often than the retries allow.               *)
LEMMA TypeAndEquipment == Spec => [](TypeOK /\ Equipped)
<1>1. Init => TypeOK /\ Equipped
  <2>1. Init => Equipped
    BY DEF Init, Equipped, InFlight, IsInjective
  <2>2. 0 \in 0..MaxRetries /\ 0 \in Gens
    BY RetriesAssumption, MaxReloadsAssumption DEF MaxRetries, Gens
  <2>3. ASSUME Init PROVE counter \in 0..(CounterPeriod - 1) \cup {NoCounter} /\ absent \subseteq Gens
    BY <2>2, <2>3, CounterPeriodAssumption DEF Init, FirstCounter, Without
  <2>4. ASSUME Init
        PROVE  /\ list \in [Requests -> Seq(Objects)]
               /\ outcome \in [Requests -> [verdict : Verdicts, by : Objects \cup {<<>>}]]
               /\ breaker \in [Objects -> Breaker]
    BY <2>4, OpsType DEF Init, Verdicts
  <2>5. ASSUME Init
        PROVE  /\ pc \in [Requests -> PCs] /\ attempt \in [Requests -> 0..MaxRetries]
               /\ sent \in [Requests -> [Objects -> Nat]]
    BY <2>2, <2>5 DEF Init, PCs
  <2> QED
    BY <2>1, <2>2, <2>3, <2>4, <2>5 DEF Init, TypeOK
<1>2. TypeOK /\ Equipped /\ [Next]_vars => (TypeOK /\ Equipped)'
  BY TypeStep
<1> QED  BY <1>1, <1>2, PTL DEF Spec

----------------------------------------------------------------------------
(* The inductive invariant                                                 *)

(* The alias has a counter as long as it has deployments, except while a   *)
(* reload changes the map; the generations without it are remembered.      *)
CounterLives ==
  /\ ~writing => (catalog = <<>> <=> counter = NoCounter)
  /\ gen \in absent <=> catalog = <<>>
  /\ \A g \in absent : g <= gen

(* The list of a request names objects of one generation; those it tries   *)
(* are its own org's or nobody's, and of one owner unless the alias was    *)
(* missing when it came.  If the counter goes while it waits for its       *)
(* order, a generation after its objects had no such alias.                *)
Coherent(r) ==
  /\ \A i \in DOMAIN list[r] : list[r][i][2] = Head1(r)[2] /\ list[r][i][2] <= gen
  /\ OrgOf[r] # NoOrg /\ pc[r] \notin {"orderAll", "done"} =>
       \A i \in DOMAIN list[r] : Owner[list[r][i][1]] \in {OrgOf[r], Global}
  /\ OrgOf[r] # NoOrg /\ r \notin missed =>
       \/ \A i \in DOMAIN list[r] : Owner[list[r][i][1]] = OrgOf[r]
       \/ \A i \in DOMAIN list[r] : Owner[list[r][i][1]] = Global
  /\ Ordering(r) /\ list[r] # <<>> =>
       /\ Head1(r)[2] = gen => catalog # <<>>
       /\ counter = NoCounter => \E g \in absent : Head1(r)[2] < g

(* A request has sent nothing before its list is in order, and nothing to  *)
(* the objects it still has to come to; to the object at the head it has   *)
(* sent what its attempts tell.                                            *)
Budgeted(r) ==
  /\ pc[r] \in {"resolve", "resolveAgain", "readDeps"} => list[r] = <<>>
  /\ pc[r] = "readDeps" => OrgOf[r] = NoOrg
  /\ pc[r] \in {"resolveAgain", "orderAll"} => r \in missed
  /\ pc[r] \in {"resolve", "resolveAgain", "readDeps", "order", "orderAll"} =>
       \A o \in Objects : sent[r][o] = 0
  /\ pc[r] = "next" => \A i \in DOMAIN list[r] : sent[r][list[r][i]] = 0
  /\ pc[r] \in InFlight => \A i \in DOMAIN list[r] : i > 1 => sent[r][list[r][i]] = 0
  /\ pc[r] = "attempt" => sent[r][Head1(r)] = attempt[r]
  /\ pc[r] = "backoff" => sent[r][Head1(r)] = attempt[r] + 1
  /\ \A o \in Objects : sent[r][o] <= MaxRetries + 1

(* While the client waits, a healthy object that was called has answered,  *)
(* and its answer is about to be served or has been, or the process died.  *)
Answered(r) ==
  /\ pc[r] # "done" => outcome[r].verdict = "none"
  /\ r \notin cancelled =>
       \A o \in Objects : sent[r][o] > 0 /\ o[1] \in up =>
         \/ pc[r] = "reportSuccess" /\ Head1(r) = o
         \/ pc[r] = "done" /\ outcome[r].verdict \in {"served", "dropped"}

Journey(r) == Coherent(r) /\ Budgeted(r) /\ Answered(r)
IInv == CounterLives /\ \A r \in Requests : Journey(r)

(* A counter that is there stays, and the catalog is not reloaded.         *)
NotReloaded ==
  /\ UNCHANGED <<catalog, gen, absent>>
  /\ counter' = NoCounter => counter = NoCounter

(* A request's journey is its own business.                                *)
LEMMA OthersKeep ==
  ASSUME NEW q \in Requests, Journey(q),
         pc'[q] = pc[q], list'[q] = list[q], attempt'[q] = attempt[q],
         outcome'[q] = outcome[q], sent'[q] = sent[q], q \in missed' <=> q \in missed,
         UNCHANGED up, NotReloaded, q \in cancelled => q \in cancelled'
  PROVE  Journey(q)'
<1>1. Coherent(q)'
  BY DEF Journey, Coherent, Head1, NotReloaded, Ordering
<1>2. Budgeted(q)'
  BY DEF Journey, Budgeted, Head1
<1>3. Answered(q)'
  BY DEF Journey, Answered, Head1
<1> QED  BY <1>1, <1>2, <1>3 DEF Journey

(* A list without its head is as coherent as before.                       *)
LEMMA TailIsCoherent ==
  ASSUME TypeOK, NEW r \in Requests, Coherent(r), ~Ordering(r)', gen' = gen,
         \/ list'[r] = <<>>
         \/ /\ pc[r] \notin {"orderAll", "done"} /\ missed' = missed
            /\ list'[r] = list[r] \/ (list[r] # <<>> /\ list'[r] = Tail(list[r]))
  PROVE  Coherent(r)'
<1>1. list[r] \in Seq(Objects)
  BY DEF TypeOK
<1>2. CASE list[r] # <<>> /\ list'[r] = Tail(list[r]) /\ pc[r] \notin {"orderAll", "done"} /\ missed' = missed
  <2>1. \A i \in DOMAIN list'[r] : i + 1 \in DOMAIN list[r] /\ list'[r][i] = list[r][i + 1] /\ i \in Nat
    BY <1>1, <1>2
  <2>2. list'[r] # <<>> => Head1(r)' = list[r][2] /\ 2 \in DOMAIN list[r]
    BY <1>1, <1>2, <2>1 DEF Head1
  <2>3. \A i \in DOMAIN list'[r] : list'[r][i][2] = Head1(r)'[2] /\ list'[r][i][2] <= gen'
    BY <1>1, <1>2, <2>1, <2>2 DEF Coherent
  <2> QED  BY <1>2, <2>1, <2>3 DEF Coherent
<1>3. CASE list'[r] = list[r] /\ pc[r] \notin {"orderAll", "done"} /\ missed' = missed
  BY <1>3 DEF Coherent, Head1
<1>4. CASE list'[r] = <<>>
  BY <1>4 DEF Coherent
<1> QED  BY <1>2, <1>3, <1>4

(* The steps that give a request its list.                                 *)
LEMMA GivenListsAreCoherent ==
  ASSUME TypeOK, Equipped, NEW r \in Requests, Coherent(r), Budgeted(r), CounterLives,
         ResolveForOrg(r) \/ Resolve(r) \/ ReadDeps(r) \/ Order(r)
  PROVE  Coherent(r)'
<1> USE DEF shared, Goto, Finish
<1>0. list[r] \in Seq(Objects) /\ gen \in Nat /\ gen \in Gens /\ catalog \in Catalogs
      /\ list \in [Requests -> Seq(Objects)] /\ pc \in [Requests -> PCs]
  BY MaxReloadsAssumption DEF TypeOK, Gens
<1>1. CASE ResolveForOrg(r)
  <2>1. UNCHANGED <<gen, catalog, counter, absent>> /\ list[r] = <<>> /\ ~writing
    BY <1>1 DEF ResolveForOrg, Budgeted
  <2>2. CASE list' = list
    BY <2>1, <2>2 DEF Coherent
  <2>3. CASE list' # list
    <3>1. PICK owner \in {OrgOf[r], Global} : list'[r] = OwnedBy(owner) /\ catalog # <<>>
      BY <1>0, <1>1, <2>3, Zenon DEF ResolveForOrg
    <3>2. /\ list'[r] \in Seq(Objects)
          /\ \A i \in DOMAIN list'[r] : list'[r][i][2] = gen /\ Owner[list'[r][i][1]] = owner
      BY <1>0, <3>1, OwnedObjects
    <3>3. \A i \in DOMAIN list'[r] : list'[r][i][2] = Head1(r)'[2]
      BY <3>2 DEF Head1
    <3>4. counter' # NoCounter
      BY <2>1, <3>1 DEF CounterLives
    <3> QED  BY <1>0, <2>1, <3>1, <3>2, <3>3, <3>4 DEF Coherent
  <2> QED  BY <2>2, <2>3
<1>2. CASE Resolve(r) \/ ReadDeps(r)
  <2>1. UNCHANGED <<gen, catalog, counter, absent, missed>> /\ list[r] = <<>> /\ ~writing
        /\ (OrgOf[r] = NoOrg \/ (r \in missed /\ pc'[r] \in {"orderAll", "done"}))
    BY <1>0, <1>2 DEF Resolve, ReadDeps, Budgeted
  <2>2. CASE list' = list
    BY <2>1, <2>2 DEF Coherent
  <2>3. CASE list' # list
    <3>1. list'[r] = Current
      BY <1>0, <1>2, <2>3 DEF Resolve, ReadDeps
    <3>2. \A i \in DOMAIN list'[r] : list'[r][i][2] = gen
      BY <1>0, <3>1, CurrentObjects
    <3>3. list'[r] \in Seq(Objects) /\ (list'[r] # <<>> => catalog # <<>>)
      BY <1>0, <3>1, CurrentObjects
    <3>4. \A i \in DOMAIN list'[r] : list'[r][i][2] = Head1(r)'[2]
      BY <3>2, <3>3 DEF Head1
    <3>5. list'[r] # <<>> => counter' # NoCounter
      BY <2>1, <3>3 DEF CounterLives
    <3> QED  BY <1>0, <2>1, <3>2, <3>3, <3>4, <3>5 DEF Coherent
  <2> QED  BY <2>2, <2>3
<1>3. CASE Order(r)
  <2>1. UNCHANGED <<gen, catalog, missed>> /\ pc'[r] \in {"next", "done"} /\ ~Ordering(r)'
    BY <1>0, <1>3 DEF Order, Ordering, history
  <2>2. CASE list' = list /\ pc'[r] = "done"
    BY <2>1, <2>2 DEF Coherent, Head1
  <2>3. CASE ~(list' = list /\ pc'[r] = "done")
    <3>1. /\ Len(list[r]) > 1 => counter # NoCounter
          /\ list'[r] = Scoped(r, RoundRobin(list[r]))
      BY <1>0, <1>3, <2>3, Zenon DEF Order
    <3>2. Len(list[r]) > 1 => counter \in Nat
      BY <3>1, CounterPeriodAssumption DEF TypeOK
    <3>3. /\ Rearranged(list'[r], list[r])
          /\ pc[r] = "orderAll" /\ OrgOf[r] # NoOrg =>
               \A i \in DOMAIN list'[r] : Owner[list'[r][i][1]] \in {OrgOf[r], Global}
      BY <1>0, <3>1, <3>2, OrderedObjects DEF Equipped
    <3>4. list'[r] \in Seq(Objects) /\ \A i \in DOMAIN list'[r] : \E j \in DOMAIN list[r] : list'[r][i] = list[r][j]
      BY <3>3 DEF Rearranged
    <3>5. \A i \in DOMAIN list'[r] : list'[r][i][2] = Head1(r)[2] /\ list'[r][i][2] <= gen
      BY <3>4 DEF Coherent
    <3>6. \A i \in DOMAIN list'[r] : list'[r][i][2] = Head1(r)'[2]
      BY <3>4, <3>5 DEF Head1
    <3>7. pc[r] \in {"order", "orderAll"}
      BY <1>3 DEF Order, Ordering
    <3>8. OrgOf[r] # NoOrg => \A i \in DOMAIN list'[r] : Owner[list'[r][i][1]] \in {OrgOf[r], Global}
      BY <3>3, <3>4, <3>7 DEF Coherent
    <3>9. OrgOf[r] # NoOrg /\ r \notin missed =>
            \/ \A i \in DOMAIN list'[r] : Owner[list'[r][i][1]] = OrgOf[r]
            \/ \A i \in DOMAIN list'[r] : Owner[list'[r][i][1]] = Global
      BY <3>4 DEF Coherent
    <3> QED  BY <2>1, <3>5, <3>6, <3>8, <3>9 DEF Coherent
  <2> QED  BY <2>2, <2>3
<1> QED  BY <1>1, <1>2, <1>3

(* A request tries an object of its list at a time, each with its budget.  *)
LEMMA StepsKeepTheBudget ==
  ASSUME TypeOK, Equipped, NEW r \in Requests, Budgeted(r),
         Step(r) \/ NextRequest(r)
  PROVE  Budgeted(r)'
<1> USE DEF Goto, Finish, shared, InFlight, history
<1>0. /\ list \in [Requests -> Seq(Objects)] /\ pc \in [Requests -> PCs]
      /\ attempt \in [Requests -> 0..MaxRetries] /\ MaxRetries \in Nat
      /\ sent \in [Requests -> [Objects -> Nat]]
  BY RetriesAssumption DEF TypeOK, MaxRetries
<1>a. list[r] # <<>> => /\ Head1(r) \in Objects /\ 1 \in DOMAIN list[r]
                        /\ \A i \in DOMAIN list[r] : i > 1 => list[r][i] # Head1(r)
  BY <1>0 DEF Equipped, IsInjective, Head1
\* Steps that send nothing and leave the request out of flight.
<1>1. ASSUME ResolveForOrg(r) \/ Resolve(r) \/ ReadDeps(r) \/ Exhausted(r) PROVE Budgeted(r)'
  <2>1. UNCHANGED sent /\ \A o \in Objects : sent[r][o] <= MaxRetries + 1
    BY <1>1 DEF ResolveForOrg, Resolve, ReadDeps, Exhausted, Budgeted
  <2>2. CASE ResolveForOrg(r)
    BY <1>0, <2>1, <2>2 DEF ResolveForOrg, Budgeted
  <2>3. CASE Resolve(r)
    BY <1>0, <2>1, <2>3 DEF Resolve, Budgeted
  <2>4. CASE ReadDeps(r)
    BY <1>0, <2>1, <2>4 DEF ReadDeps, Budgeted
  <2>5. CASE Exhausted(r)
    BY <1>0, <2>1, <2>5 DEF Exhausted, Budgeted
  <2> QED  BY <1>1, <2>2, <2>3, <2>4, <2>5
<1>2. ASSUME Order(r) PROVE Budgeted(r)'
  <2>1. list'[r] \in Seq(Objects)
    <3>1. TypeOK'
      BY <1>2, TypeStep DEF Next, Step
    <3> QED  BY <3>1 DEF TypeOK
  <2>2. \A o \in Objects : sent'[r][o] = 0
    BY <1>2 DEF Order, Ordering, Budgeted
  <2>3. pc'[r] \in {"next", "done"}
    BY <1>0, <1>2 DEF Order
  <2>4. \A i \in DOMAIN list'[r] : sent'[r][list'[r][i]] = 0
    BY <2>1, <2>2
  <2> QED  BY <1>0, <2>2, <2>3, <2>4 DEF Budgeted
<1>10. ASSUME ConcurrentMapAccess(r) PROVE Budgeted(r)'
  BY <1>0, <1>10 DEF ConcurrentMapAccess, Budgeted
<1>3. ASSUME Skip(r) \/ ReportFailure(r) PROVE Budgeted(r)'
  <2>1. /\ list[r] # <<>> /\ UNCHANGED sent
        /\ \/ pc'[r] = "done"
           \/ pc'[r] = "next" /\ list'[r] = Tail(list[r])
    BY <1>0, <1>3 DEF Skip, ReportFailure, Equipped
  <2>2. CASE pc'[r] = "done"
    BY <2>1, <2>2 DEF Budgeted
  <2>3. CASE pc'[r] = "next" /\ list'[r] = Tail(list[r])
    <3>1. \A i \in DOMAIN list'[r] : i + 1 \in DOMAIN list[r] /\ i + 1 > 1 /\ list'[r][i] = list[r][i + 1]
      BY <1>0, <2>1, <2>3
    <3>2. \A i \in DOMAIN list[r] : i > 1 => sent[r][list[r][i]] = 0
      BY <1>3 DEF Skip, ReportFailure, Budgeted
    <3> QED  BY <2>1, <2>3, <3>1, <3>2 DEF Budgeted
  <2> QED  BY <2>1, <2>2, <2>3
<1>4. ASSUME Try(r) PROVE Budgeted(r)'
  BY <1>0, <1>a, <1>4 DEF Try, Budgeted, Head1
<1>5. ASSUME Attempt(r) PROVE Budgeted(r)'
  <2>1. pc[r] = "attempt" /\ list[r] # <<>> /\ UNCHANGED <<list, attempt>>
    BY <1>5 DEF Attempt, Equipped
  <2>2. \A o \in Objects : sent'[r][o] = IF o = Head1(r) THEN sent[r][o] + 1 ELSE sent[r][o]
    BY <1>0, <1>a, <1>5, <2>1 DEF Attempt
  <2>3. sent'[r][Head1(r)] = attempt[r] + 1 /\ attempt[r] + 1 <= MaxRetries + 1
    BY <1>0, <1>a, <2>1, <2>2 DEF Budgeted
  <2>4. \A o \in Objects : sent'[r][o] <= MaxRetries + 1
    BY <2>2, <2>3 DEF Budgeted
  <2>5. \A i \in DOMAIN list[r] : i > 1 => sent'[r][list[r][i]] = 0
    BY <1>0, <1>a, <2>1, <2>2 DEF Budgeted
  <2>6. pc'[r] \in {"backoff", "reportFailure", "reportSuccess"}
    BY <1>0, <1>5 DEF Attempt, AfterError, AfterAnswer
  <2> QED  BY <2>1, <2>3, <2>4, <2>5, <2>6 DEF Budgeted, Head1
<1>6. ASSUME Retry(r) PROVE Budgeted(r)'
  BY <1>0, <1>a, <1>6 DEF Retry, Budgeted, Head1
<1>7. ASSUME GiveUp(r) PROVE Budgeted(r)'
  BY <1>0, <1>7 DEF GiveUp, Budgeted
<1>8. ASSUME ReportSuccess(r) PROVE Budgeted(r)'
  BY <1>0, <1>8 DEF ReportSuccess, Budgeted
<1>9. ASSUME NextRequest(r) PROVE Budgeted(r)'
  BY <1>0, <1>9 DEF NextRequest, Budgeted
<1> QED
  BY <1>1, <1>2, <1>3, <1>4, <1>5, <1>6, <1>7, <1>8, <1>9, <1>10 DEF Step

(* A healthy object answers the client that waits.                         *)
LEMMA StepsKeepTheAnswer ==
  ASSUME TypeOK, Equipped, NEW r \in Requests, Budgeted(r), Answered(r),
         Step(r) \/ NextRequest(r)
  PROVE  Answered(r)'
<1> USE DEF Goto, Finish, shared, InFlight, history
<1>0. /\ list \in [Requests -> Seq(Objects)] /\ pc \in [Requests -> PCs]
      /\ outcome = [q \in Requests |-> outcome[q]]
      /\ sent \in [Requests -> [Objects -> Nat]]
  BY DEF TypeOK
\* Out of flight, nothing healthy has been called.
<1>1. ASSUME pc[r] \notin {"attempt", "reportSuccess", "done"}, UNCHANGED <<sent, up>>,
             r \in cancelled => r \in cancelled',
             pc'[r] # "done" => outcome'[r].verdict = "none"
      PROVE  Answered(r)'
  BY <1>1 DEF Answered
<1>2. ASSUME ResolveForOrg(r) \/ Resolve(r) \/ ReadDeps(r) \/ Exhausted(r) PROVE Answered(r)'
  BY <1>0, <1>1, <1>2 DEF ResolveForOrg, Resolve, ReadDeps, Exhausted, Answered
<1>3. ASSUME Order(r) PROVE Answered(r)'
  BY <1>0, <1>1, <1>3 DEF Order, Ordering, Answered
<1>10. ASSUME ConcurrentMapAccess(r) PROVE Answered(r)'
  BY <1>0, <1>10 DEF ConcurrentMapAccess, Answered
<1>4. ASSUME Skip(r) PROVE Answered(r)'
  BY <1>0, <1>1, <1>4 DEF Skip, Answered
<1>5. ASSUME Try(r) \/ Retry(r) \/ GiveUp(r) PROVE Answered(r)'
  BY <1>0, <1>1, <1>5 DEF Try, Retry, GiveUp, Answered
<1>6. ASSUME ReportFailure(r) PROVE Answered(r)'
  BY <1>0, <1>1, <1>6 DEF ReportFailure, Answered
<1>7. ASSUME Attempt(r) PROVE Answered(r)'
  <2>1. UNCHANGED <<list, up, cancelled, outcome>> /\ pc[r] = "attempt" /\ pc'[r] # "done"
    BY <1>0, <1>7 DEF Attempt, AfterError, AfterAnswer
  <2>2. ASSUME r \notin cancelled, NEW o \in Objects, sent'[r][o] > 0, o[1] \in up
        PROVE  pc'[r] = "reportSuccess" /\ Head1(r) = o
    <3>1. sent[r][o] = 0
      BY <1>0, <2>1, <2>2 DEF Answered
    <3>2. o = Head1(r)
      BY <1>0, <1>7, <2>2, <3>1 DEF Attempt
    <3> QED  BY <1>0, <1>7, <2>2, <3>2 DEF Attempt, AfterAnswer
  <2> QED  BY <2>1, <2>2 DEF Answered, Head1
<1>8. ASSUME ReportSuccess(r) PROVE Answered(r)'
  BY <1>0, <1>8 DEF ReportSuccess, Answered
<1>9. ASSUME NextRequest(r) PROVE Answered(r)'
  BY <1>0, <1>9 DEF NextRequest, Answered
<1> QED
  BY <1>2, <1>3, <1>4, <1>5, <1>6, <1>7, <1>8, <1>9, <1>10 DEF Step

(* The three hold always.                                                  *)
LEMMA InvariantHolds == Spec => []IInv
<1>1. Init => IInv
  <2> SUFFICES ASSUME Init PROVE IInv
    OBVIOUS
  <2>1. CounterLives
    BY CounterPeriodAssumption DEF Init, CounterLives, FirstCounter, Without, NoCounter
  <2>2. ASSUME NEW r \in Requests PROVE Journey(r)
    BY RetriesAssumption DEF Init, Journey, Coherent, Ordering, Budgeted, Answered, InFlight, MaxRetries
  <2> QED  BY <2>1, <2>2 DEF IInv
<1>2. TypeOK /\ Equipped /\ IInv /\ [Next]_vars => IInv'
  <2> SUFFICES ASSUME TypeOK, Equipped, IInv, [Next]_vars PROVE IInv'
    OBVIOUS
  <2>0. CounterLives /\ \A r \in Requests : Coherent(r) /\ Budgeted(r) /\ Answered(r)
    BY DEF IInv, Journey
  \* Steps of one request, but for the one that ends all.
  <2>1. ASSUME NEW r \in Requests, Step(r) \/ NextRequest(r), ~ConcurrentMapAccess(r) PROVE IInv'
    <3>1. UNCHANGED <<up, writing>> /\ NotReloaded
      <4>1. UNCHANGED <<catalog, gen, up, writing, absent>>
        BY <2>1 DEF Step, shared, history, ResolveForOrg, Resolve, ReadDeps, Order, Exhausted, Skip, Try,
                    Attempt, Retry, GiveUp, ReportFailure, ReportSuccess, NextRequest
      <4>2. counter' = counter \/ (counter # NoCounter /\ counter' = (counter + 1) % CounterPeriod)
        BY <2>1 DEF Step, shared, ResolveForOrg, Resolve, ReadDeps, Order, Exhausted, Skip, Try,
                    Attempt, Retry, GiveUp, ReportFailure, ReportSuccess, NextRequest
      <4>3. counter # NoCounter => (counter + 1) % CounterPeriod # NoCounter
        BY CounterPeriodAssumption DEF TypeOK, NoCounter
      <4> QED  BY <4>1, <4>2, <4>3 DEF NotReloaded
    <3>2. CounterLives'
      <4>1. counter # NoCounter => counter' # NoCounter
        BY <3>1 DEF NotReloaded
      <4>2. counter = NoCounter => counter' = NoCounter
        BY <2>1 DEF Step, shared, ResolveForOrg, Resolve, ReadDeps, Order, Exhausted, Skip, Try,
                    Attempt, Retry, GiveUp, ReportFailure, ReportSuccess, NextRequest
      <4> QED  BY <2>0, <3>1, <4>1, <4>2 DEF CounterLives, NotReloaded
    <3>3. Coherent(r)'
      <4>1. CASE ResolveForOrg(r) \/ Resolve(r) \/ ReadDeps(r) \/ Order(r)
        BY <2>0, <4>1, GivenListsAreCoherent
      <4>2. CASE ~(ResolveForOrg(r) \/ Resolve(r) \/ ReadDeps(r) \/ Order(r))
        <5>1. CASE Skip(r) \/ ReportFailure(r)
          <6>0. list[r] # <<>> /\ r \in DOMAIN pc /\ r \in DOMAIN list /\ missed' = missed
                /\ (pc[r] = "next" \/ pc[r] = "reportFailure")
            BY <5>1 DEF Skip, ReportFailure, TypeOK, Equipped, InFlight
          <6>1. \/ list' = [list EXCEPT ![r] = Tail(@)] /\ pc' = pc
                \/ list' = [list EXCEPT ![r] = Tail(@)] /\ pc' = [pc EXCEPT ![r] = "next"]
                \/ list' = list /\ pc' = [pc EXCEPT ![r] = "done"]
            BY <5>1 DEF Skip, ReportFailure, Goto, Finish
          <6>2. ~Ordering(r)'
            BY <6>0, <6>1 DEF Ordering
          <6>3. list'[r] = list[r] \/ list'[r] = Tail(list[r])
            BY <6>0, <6>1, Zenon
          <6> QED  BY <2>0, <3>1, <6>0, <6>2, <6>3, TailIsCoherent DEF NotReloaded
        <5>2. CASE ~(Skip(r) \/ ReportFailure(r))
          <6>1. /\ ~Ordering(r)'
                /\ \/ list'[r] = <<>>
                   \/ /\ pc[r] \notin {"orderAll", "done"} /\ missed' = missed
                      /\ list'[r] = list[r]
            BY <2>1, <4>2, <5>2
               DEF Step, shared, Goto, Finish, Exhausted, Try, Attempt, AfterError, AfterAnswer,
                   Retry, GiveUp, ReportSuccess, NextRequest, Ordering, TypeOK
          <6> QED  BY <2>0, <3>1, <6>1, TailIsCoherent DEF NotReloaded
        <5> QED  BY <5>1, <5>2
      <4> QED  BY <4>1, <4>2
    <3>4. Journey(r)'
      BY <2>0, <2>1, <3>3, StepsKeepTheBudget, StepsKeepTheAnswer DEF Journey
    <3>5. ASSUME NEW q \in Requests, q # r PROVE Journey(q)'
      <4>1. /\ pc'[q] = pc[q] /\ list'[q] = list[q] /\ attempt'[q] = attempt[q]
            /\ outcome'[q] = outcome[q] /\ sent'[q] = sent[q] /\ (q \in cancelled => q \in cancelled')
            /\ (q \in missed' <=> q \in missed)
        BY <2>1, <3>5
           DEF Step, shared, history, Goto, Finish, ResolveForOrg, Resolve, ReadDeps, Order, Exhausted,
               Skip, Try, Attempt, Retry, GiveUp, ReportFailure, ReportSuccess, NextRequest, TypeOK
      <4> QED  BY <3>1, <4>1, OthersKeep DEF IInv
    <3> QED  BY <3>2, <3>4, <3>5 DEF IInv
  <2>2. ASSUME NEW r \in Requests, HangUp(r) PROVE IInv'
    <3>1. NotReloaded
      BY <2>2 DEF HangUp, history, NotReloaded
    <3>2. \A q \in Requests : Journey(q)'
      BY <2>2, <3>1, OthersKeep DEF HangUp, history, IInv
    <3> QED  BY <2>0, <2>2, <3>2 DEF HangUp, history, CounterLives, IInv
  <2>3. CASE Reload
    <3>0. gen \in Nat /\ gen' = gen + 1
      BY <2>3, MaxReloadsAssumption DEF Reload, TypeOK, Gens
    <3>1. CounterLives'
      <4>1. PICK new \in Catalogs : /\ catalog' = new /\ absent' = absent \cup Without(gen + 1, new)
                                    /\ KeptCounter(new) # counter => writing'
        BY <2>3 DEF Reload
      <4>2. ~writing /\ counter' = counter
        BY <2>3 DEF Reload
      <4>3. KeptCounter(new) = counter => (new = <<>> <=> counter = NoCounter)
        BY DEF KeptCounter, FirstCounter, NoCounter
      <4>4. \A g \in absent : g \in Nat /\ g <= gen
        BY <2>0, MaxReloadsAssumption DEF CounterLives, TypeOK, Gens
      <4>5. gen + 1 \in absent' <=> new = <<>>
        BY <3>0, <4>1, <4>4 DEF Without
      <4>6. \A g \in absent' : g <= gen + 1
        BY <3>0, <4>1, <4>4 DEF Without
      <4> QED  BY <3>0, <4>1, <4>2, <4>3, <4>5, <4>6 DEF CounterLives
    <3>2. ASSUME NEW q \in Requests PROVE Journey(q)'
      <4>1. list[q] \in Seq(Objects) /\ UNCHANGED <<pc, list, counter, missed, up, sent, attempt, cancelled, outcome>>
            /\ absent \subseteq absent'
        BY <2>3 DEF Reload, TypeOK
      <4>2. \A i \in DOMAIN list[q] : list[q][i][2] \in Nat
        BY <4>1, MaxReloadsAssumption DEF Objects, Gens
      <4>3. list[q] # <<>> => Head1(q)[2] <= gen
        BY <2>0, <4>1 DEF Coherent, Head1
      <4>4. list[q] # <<>> => Head1(q)[2] \in Nat
        BY <4>1, <4>2 DEF Head1
      <4>5. \A i \in DOMAIN list[q] : list[q][i][2] = Head1(q)[2] /\ list[q][i][2] <= gen'
        BY <2>0, <3>0, <4>2 DEF Coherent
      <4>6. Ordering(q) /\ list[q] # <<>> /\ counter = NoCounter => \E g \in absent' : Head1(q)[2] < g
        BY <2>0, <4>1 DEF Coherent
      <4>7. list[q] # <<>> => Head1(q)[2] # gen'
        BY <3>0, <4>3, <4>4
      <4>8. Coherent(q)'
        BY <2>0, <4>1, <4>5, <4>6, <4>7 DEF Coherent, Head1, Ordering
      <4>9. Budgeted(q)' /\ Answered(q)'
        BY <2>0, <4>1 DEF Budgeted, Answered, Head1
      <4> QED  BY <4>8, <4>9 DEF Journey
    <3> QED  BY <3>1, <3>2 DEF IInv
  <2>4. CASE Unlock
    <3>1. UNCHANGED <<catalog, gen, absent>>
      BY <2>4 DEF Unlock, history
    <3>2. counter' = NoCounter <=> catalog = <<>>
      BY <2>4, CounterPeriodAssumption DEF Unlock, KeptCounter, FirstCounter, NoCounter, TypeOK
    <3>3. CounterLives'
      BY <2>0, <3>1, <3>2 DEF CounterLives
    <3>4. ASSUME NEW q \in Requests PROVE Journey(q)'
      <4>1. UNCHANGED <<pc, list, missed, up, sent, attempt, cancelled, outcome>> /\ list[q] \in Seq(Objects)
        BY <2>4 DEF Unlock, history, TypeOK
      <4>2. Ordering(q) /\ list[q] # <<>> /\ catalog = <<>> => gen \in absent /\ Head1(q)[2] < gen
        <5>1. list[q] # <<>> => Head1(q)[2] <= gen /\ Head1(q) \in Objects
          BY <2>0, <4>1 DEF Coherent, Head1
        <5>2. list[q] # <<>> => Head1(q)[2] \in Nat /\ gen \in Nat
          BY <5>1, MaxReloadsAssumption DEF Objects, Gens, TypeOK
        <5> QED  BY <2>0, <5>1, <5>2 DEF Coherent, CounterLives
      <4>3. Coherent(q)'
        BY <2>0, <3>1, <3>2, <4>1, <4>2 DEF Coherent, Head1, Ordering
      <4>4. Budgeted(q)' /\ Answered(q)'
        BY <2>0, <4>1 DEF Budgeted, Answered, Head1
      <4> QED  BY <4>3, <4>4 DEF Journey
    <3> QED  BY <3>3, <3>4 DEF IInv
  <2>5. ASSUME NEW r \in Requests, ConcurrentMapAccess(r) PROVE IInv'
    <3>1. UNCHANGED <<catalog, gen, absent>> /\ (counter' = NoCounter <=> catalog = <<>>)
      BY <2>5 DEF ConcurrentMapAccess, history, FirstCounter, NoCounter
    <3>2. CounterLives'
      BY <2>0, <3>1 DEF CounterLives
    <3>3. ASSUME NEW q \in Requests PROVE Journey(q)'
      <4>1. /\ UNCHANGED <<list, missed, up, sent, attempt, cancelled>> /\ pc'[q] = "done"
            /\ outcome'[q] = IF pc[q] = "done" THEN outcome[q] ELSE [verdict |-> "dropped", by |-> <<>>]
        BY <2>5 DEF ConcurrentMapAccess, history
      <4>2. Coherent(q)'
        BY <2>0, <3>1, <4>1 DEF Coherent, Head1, Ordering
      <4>3. Budgeted(q)'
        BY <2>0, <4>1 DEF Budgeted, Head1, InFlight
      <4>4. Answered(q)'
        BY <2>0, <4>1 DEF Answered
      <4> QED  BY <4>2, <4>3, <4>4 DEF Journey
    <3> QED  BY <3>2, <3>3 DEF IInv
  <2>6. CASE Tick \/ UNCHANGED vars
    <3>1. NotReloaded /\ UNCHANGED <<writing, pc, list, attempt, outcome, sent, missed, up, cancelled>>
      BY <2>6 DEF Tick, vars, history, NotReloaded
    <3>2. \A q \in Requests : Journey(q)'
      BY <3>1, OthersKeep DEF IInv
    <3>3. UNCHANGED counter
      BY <2>6 DEF Tick, vars
    <3> QED  BY <2>0, <3>1, <3>2, <3>3 DEF NotReloaded, CounterLives, IInv
  <2> QED  BY <2>1, <2>2, <2>3, <2>4, <2>5, <2>6 DEF Next, Step
<1> QED  BY <1>1, <1>2, TypeAndEquipment, PTL DEF Spec

----------------------------------------------------------------------------
(* The properties                                                          *)

(* A request works with the objects of one catalog, and one with an org    *)
(* tries its own org's and nobody's only; unless the alias was missing     *)
(* when it came, of one owner, whatever is reloaded meanwhile.             *)
THEOREM OneOwner == Spec => []OneOwnerOneCatalog
<1>1. IInv => OneOwnerOneCatalog
  BY DEF IInv, Journey, Coherent, OneOwnerOneCatalog, ToSet
<1> QED  BY <1>1, InvariantHolds, PTL

(* No object is called by a request more often than the retries allow.     *)
THEOREM BudgetIsKept == Spec => []RetryBudget
<1>1. IInv => RetryBudget
  BY DEF IInv, Journey, Budgeted, RetryBudget
<1> QED  BY <1>1, InvariantHolds, PTL

(* A healthy deployment's answer is served, as long as the client waits    *)
(* and the process lives.                                                  *)
THEOREM GoodAnswersAreServed == Spec => []HealthyAnswerIsServed
<1>1. IInv => HealthyAnswerIsServed
  BY DEF IInv, Journey, Answered, HealthyAnswerIsServed
<1> QED  BY <1>1, InvariantHolds, PTL

(* A handler that dies on a missing counter resolved its alias before a    *)
(* reload that removed it, and the process dies of the map of counters     *)
(* only while a reload changes its keys.                                   *)
THEOREM PanicsFollowRemovals == Spec => PanicNeedsRemoval
<1> DEFINE Panics(r) == outcome[r].verdict # "panic" /\ outcome'[r].verdict = "panic"
           Drops(r)  == outcome[r].verdict # "dropped" /\ outcome'[r].verdict = "dropped"
<1>1. TypeOK /\ IInv /\ [Next]_vars =>
        [\A r \in Requests :
           /\ outcome[r].verdict # "panic" /\ outcome'[r].verdict = "panic"
                => \E g \in absent : Head1(r)[2] < g
           /\ outcome[r].verdict # "dropped" /\ outcome'[r].verdict = "dropped" => writing]_vars
  <2> SUFFICES ASSUME TypeOK, IInv, [Next]_vars, NEW r \in Requests
               PROVE  /\ Panics(r) => \E g \in absent : Head1(r)[2] < g
                      /\ Drops(r) => writing
    OBVIOUS
  <2>0. outcome = [q \in Requests |-> outcome[q]]
    BY DEF TypeOK
  <2>1. \/ UNCHANGED outcome
        \/ \E q \in Requests : Order(q) /\ outcome' = [outcome EXCEPT ![q] = [verdict |-> "panic", by |-> <<>>]]
        \/ \E q \in Requests : ConcurrentMapAccess(q)
        \/ \E q \in Requests, v \in {"none", "served", "notFound", "exhausted", "rejected", "failed"} :
              \E by : outcome' = [outcome EXCEPT ![q] = [verdict |-> v, by |-> by]]
    BY DEF Next, vars, Reload, Unlock, Tick, HangUp, Finish, Step, ResolveForOrg, Resolve, ReadDeps, Order,
           Exhausted, Skip, Try, Attempt, Retry, GiveUp, ReportFailure, ReportSuccess, NextRequest
  <2>2. CASE UNCHANGED outcome
    BY <2>2
  <2>3. ASSUME NEW q \in Requests, Order(q),
               outcome' = [outcome EXCEPT ![q] = [verdict |-> "panic", by |-> <<>>]]
        PROVE  /\ Panics(r) => \E g \in absent : Head1(r)[2] < g
               /\ Drops(r) => writing
    <3>1. ~Drops(r)
      BY <2>0, <2>3
    <3>2. ASSUME Panics(r) PROVE \E g \in absent : Head1(r)[2] < g
      <4>1. q = r
        BY <2>0, <2>3, <3>2
      <4>2. Ordering(r) /\ Len(list[r]) > 1 /\ counter = NoCounter
        <5>1. outcome'[r].verdict = "panic" /\ outcome[r].verdict # "panic"
          BY <3>2
        <5>2. \A by : outcome' # [outcome EXCEPT ![r] = [verdict |-> "notFound", by |-> by]] /\ outcome' # outcome
          BY <2>0, <5>1
        <5> QED  BY <2>3, <4>1, <5>2 DEF Order, Finish
      <4>3. list[r] # <<>>
        BY <4>2 DEF TypeOK
      <4> QED  BY <4>2, <4>3 DEF IInv, Journey, Coherent
    <3> QED  BY <3>1, <3>2
  <2>4. ASSUME NEW q \in Requests, ConcurrentMapAccess(q)
        PROVE  /\ Panics(r) => \E g \in absent : Head1(r)[2] < g
               /\ Drops(r) => writing
    <3>1. writing /\ (outcome'[r] = outcome[r] \/ outcome'[r].verdict = "dropped")
      BY <2>4 DEF ConcurrentMapAccess
    <3> QED  BY <3>1
  <2>5. ASSUME NEW q \in Requests, NEW v \in {"none", "served", "notFound", "exhausted", "rejected", "failed"},
               NEW by, outcome' = [outcome EXCEPT ![q] = [verdict |-> v, by |-> by]]
        PROVE  ~Panics(r) /\ ~Drops(r)
    BY <2>0, <2>5
  <2> QED  BY <2>1, <2>2, <2>3, <2>4, <2>5
<1> QED  BY <1>1, InvariantHolds, TypeAndEquipment, PTL DEF Spec, PanicNeedsRemoval

----------------------------------------------------------------------------
(* Admissions and reports                                                  *)

(* What the argument needs of the types.                                   *)
Shape ==
  /\ pc \in [Requests -> PCs]
  /\ list = [r \in Requests |-> list[r]]
  /\ breaker \in [Objects -> Breaker]

(* Attempts and breakers have their shape always.                          *)
LEMMA ShapeHolds == Spec => []Shape
<1>1. TypeOK => Shape
  BY DEF TypeOK, Shape
<1> QED  BY <1>1, TypeAndEquipment, PTL

(* A half-open breaker always has a request in flight at that very object  *)
(* that still has to report.  The property is inductive over Shape: a      *)
(* request leaves the flight only by reporting to the head of its list,    *)
(* and no report leaves that object half-open.                             *)
THEOREM AdmissionsAreReported == Spec => []HalfOpenIsProbed
<1>1. Init => HalfOpenIsProbed
  BY DEF Init, HalfOpenIsProbed, NewCircuitBreaker, BreakerOf, Closed, HalfOpen
<1>2. Shape /\ HalfOpenIsProbed /\ [Next]_vars => HalfOpenIsProbed'
  <2> SUFFICES ASSUME Shape, HalfOpenIsProbed, [Next]_vars,
                      NEW o \in Objects, breaker'[o].state = HalfOpen
               PROVE  \E r \in Requests : pc'[r] \in InFlight /\ Head1(r)' = o
    BY DEF HalfOpenIsProbed, InFlight
  <2> USE DEF Shape
  \* Steps that neither touch the breakers nor a request in flight.
  <2>1. ASSUME NEW r \in Requests, pc[r] \notin InFlight, UNCHANGED breaker,
               \E to, l : /\ pc' = [pc EXCEPT ![r] = to]
                          /\ list' = [list EXCEPT ![r] = l]
        PROVE  \E w \in Requests : pc'[w] \in InFlight /\ Head1(w)' = o
    <3>1. PICK w \in Requests : pc[w] \in InFlight /\ Head1(w) = o
      BY <2>1 DEF HalfOpenIsProbed, InFlight
    <3>2. w # r
      BY <2>1, <3>1
    <3>3. pc'[w] = pc[w] /\ list'[w] = list[w]
      BY <2>1, <3>2
    <3> QED  BY <3>1, <3>3 DEF Head1
  \* Steps that keep a request in flight at the same object.
  <2>2. ASSUME NEW r \in Requests, pc[r] \in InFlight, UNCHANGED <<breaker, list>>,
               \E to \in InFlight : pc' = [pc EXCEPT ![r] = to]
        PROVE  \E w \in Requests : pc'[w] \in InFlight /\ Head1(w)' = o
    <3>1. PICK w \in Requests : pc[w] \in InFlight /\ Head1(w) = o
      BY <2>2 DEF HalfOpenIsProbed, InFlight
    <3>2. pc'[w] \in InFlight
      BY <2>2, <3>1
    <3> QED  BY <2>2, <3>1, <3>2 DEF Head1
  \* Reports.
  <2>3. ASSUME NEW r \in Requests,
               \E b \in Breaker : b.state # HalfOpen
                                  /\ breaker' = [breaker EXCEPT ![Head1(r)] = b],
               \E to, l : /\ pc' = [pc EXCEPT ![r] = to]
                          /\ list' = [list EXCEPT ![r] = l]
        PROVE  \E w \in Requests : pc'[w] \in InFlight /\ Head1(w)' = o
    <3>1. o # Head1(r) /\ breaker'[o] = breaker[o]
      BY <2>3
    <3>2. PICK w \in Requests : pc[w] \in InFlight /\ Head1(w) = o
      BY <3>1 DEF HalfOpenIsProbed, InFlight
    <3>3. w # r
      BY <3>1, <3>2
    <3>4. pc'[w] = pc[w] /\ list'[w] = list[w]
      BY <2>3, <3>3
    <3> QED  BY <3>2, <3>4 DEF Head1
  <2> USE DEF Goto, Finish, shared, InFlight
  <2>4. ASSUME NEW r \in Requests, ResolveForOrg(r) \/ Resolve(r) \/ ReadDeps(r) \/ Order(r)
        PROVE  \E w \in Requests : pc'[w] \in InFlight /\ Head1(w)' = o
    <3>1. pc[r] \notin InFlight /\ UNCHANGED breaker
      BY <2>4 DEF ResolveForOrg, Resolve, ReadDeps, Order, Ordering
    <3>2. \E to, l : pc' = [pc EXCEPT ![r] = to] /\ list' = [list EXCEPT ![r] = l]
      BY <2>4 DEF ResolveForOrg, Resolve, ReadDeps, Order, Ordering
    <3> QED  BY <2>1, <3>1, <3>2
  <2>5. ASSUME NEW r \in Requests, Exhausted(r) \/ Skip(r) \/ NextRequest(r)
        PROVE  \E w \in Requests : pc'[w] \in InFlight /\ Head1(w)' = o
    <3>1. pc[r] \notin InFlight /\ UNCHANGED breaker
      BY <2>5 DEF Exhausted, Skip, NextRequest
    <3>2. \E to, l : pc' = [pc EXCEPT ![r] = to] /\ list' = [list EXCEPT ![r] = l]
      BY <2>5 DEF Exhausted, Skip, NextRequest
    <3> QED  BY <2>1, <3>1, <3>2
  <2>6. ASSUME NEW r \in Requests, Try(r)
        PROVE  \E w \in Requests : pc'[w] \in InFlight /\ Head1(w)' = o
    <3>1. CASE o = Head1(r)
      <4>1. pc'[r] = "attempt" /\ Head1(r)' = o
        BY <2>6, <3>1 DEF Try, Head1
      <4> QED  BY <4>1
    <3>2. CASE o # Head1(r)
      <4>1. breaker'[o] = breaker[o]
        BY <2>6, <3>2 DEF Try
      <4>2. PICK w \in Requests : pc[w] \in InFlight /\ Head1(w) = o
        BY <4>1 DEF HalfOpenIsProbed
      <4>3. w # r /\ pc'[w] = pc[w] /\ list' = list
        BY <2>6, <4>2 DEF Try
      <4> QED  BY <4>2, <4>3 DEF Head1
    <3> QED  BY <3>1, <3>2
  <2>7. ASSUME NEW r \in Requests, Attempt(r) \/ Retry(r) \/ GiveUp(r)
        PROVE  \E w \in Requests : pc'[w] \in InFlight /\ Head1(w)' = o
    <3>1. pc[r] \in InFlight /\ UNCHANGED <<breaker, list>>
      BY <2>7 DEF Attempt, Retry, GiveUp, AfterError, AfterAnswer
    <3>2. \E to \in InFlight : pc' = [pc EXCEPT ![r] = to]
      BY <2>7 DEF Attempt, Retry, GiveUp, AfterError, AfterAnswer
    <3> QED  BY <2>2, <3>1, <3>2
  <2>8. ASSUME NEW r \in Requests, ReportFailure(r)
        PROVE  \E w \in Requests : pc'[w] \in InFlight /\ Head1(w)' = o
    <3>1. CASE Head1(r) \notin Objects
      <4>1. breaker' = breaker
        BY <2>8, <3>1 DEF ReportFailure
      <4>2. PICK w \in Requests : pc[w] \in InFlight /\ Head1(w) = o
        BY <4>1 DEF HalfOpenIsProbed
      <4>3. w # r
        BY <3>1, <4>2
      <4>4. pc'[w] = pc[w] /\ list'[w] = list[w]
        BY <2>8, <4>3 DEF ReportFailure
      <4> QED  BY <4>2, <4>4 DEF Head1
    <3>2. CASE Head1(r) \in Objects
      <4>1. \E b \in Breaker : b.state # HalfOpen
                               /\ breaker' = [breaker EXCEPT ![Head1(r)] = b]
        BY <2>8, <3>2, OpsType, ReportsLeaveHalfOpen DEF ReportFailure
      <4>2. \E to, l : pc' = [pc EXCEPT ![r] = to] /\ list' = [list EXCEPT ![r] = l]
        BY <2>8 DEF ReportFailure
      <4> QED  BY <2>3, <4>1, <4>2
    <3> QED  BY <3>1, <3>2
  <2>9. ASSUME NEW r \in Requests, ReportSuccess(r)
        PROVE  \E w \in Requests : pc'[w] \in InFlight /\ Head1(w)' = o
    <3>1. NewCircuitBreaker \in Breaker /\ NewCircuitBreaker.state # HalfOpen
      BY OpsType DEF BreakerOf, NewCircuitBreaker, Closed, HalfOpen
    <3>2. breaker' = [breaker EXCEPT ![Head1(r)] = NewCircuitBreaker]
      BY <2>9 DEF ReportSuccess, AfterSuccess
    <3>3. \E to, l : pc' = [pc EXCEPT ![r] = to] /\ list' = [list EXCEPT ![r] = l]
      BY <2>9 DEF ReportSuccess
    <3> QED  BY <2>3, <3>1, <3>2, <3>3
  <2>10. ASSUME UNCHANGED <<pc, list>>, breaker'[o].state = breaker[o].state
         PROVE  \E w \in Requests : pc'[w] \in InFlight /\ Head1(w)' = o
    BY <2>10 DEF HalfOpenIsProbed, Head1
  <2>11. CASE Reload \/ Unlock \/ (\E r \in Requests : HangUp(r)) \/ UNCHANGED vars
    BY <2>10, <2>11 DEF Reload, Unlock, HangUp, vars
  <2>12. CASE Tick
    <3>1. breaker'[o].state = breaker[o].state
      BY <2>12, ReportsLeaveHalfOpen DEF Tick
    <3> QED  BY <2>10, <2>12, <3>1 DEF Tick
  \* The process starts again with closed breakers.
  <2>13. ASSUME NEW r \in Requests PROVE ~ConcurrentMapAccess(r)
    BY DEF ConcurrentMapAccess, NewCircuitBreaker, BreakerOf, Closed, HalfOpen
  <2> QED
    BY <2>4, <2>5, <2>6, <2>7, <2>8, <2>9, <2>11, <2>12, <2>13 DEF Next, Step
<1> QED  BY <1>1, <1>2, ShapeHolds, PTL DEF Spec
----------------------------------------------------------------------------
(* The books of Spending                                                   *)

(* Rounding keeps a sum of money a number of units.                        *)
LEMMA RoundedType == \A c \in Nat : Books!Rounded(c) \in Nat
<1> SUFFICES ASSUME NEW c \in Nat PROVE Books!Rounded(c) \in Nat
  OBVIOUS
<1>1. Unit \in Nat \ {0}
  BY BooksAssumption DEF Books!ConstantsOK
<1>2. 2 * c + Unit \in Nat /\ 2 * Unit \in Nat \ {0}
  BY <1>1
<1>3. (2 * c + Unit) \div (2 * Unit) \in Nat
  BY <1>2
<1>4. \A n, m \in Nat : n * m \in Nat
  OBVIOUS
<1> QED  BY <1>1, <1>3, <1>4 DEF Books!Rounded

(* What a request owes its books: at most one statement for each.          *)
LEMMA DutyType ==
  ASSUME NEW e \in Books!Entries
  PROVE  /\ Books!logSpendAsync(e) \in Seq([book : Books!BookNames, of : Books!Entries])
         /\ Len(Books!logSpendAsync(e)) <= 4
<1> DEFINE Duties == [book : Books!BookNames, of : Books!Entries]
           W(book, due) == IF due THEN <<[book |-> book, of |-> e]>> ELSE <<>>
<1>1. ASSUME NEW book \in Books!BookNames, NEW due
      PROVE  W(book, due) \in Seq(Duties) /\ Len(W(book, due)) <= 1
  <2>1. CASE due
    BY <2>1
  <2>2. CASE ~due
    BY <2>2
  <2> QED  BY <2>1, <2>2
<1> DEFINE a1 == W("counter", e.key # None /\ e.tokens > 0)
           a2 == W("log", TRUE)
           a3 == W("spend", e.key # None /\ e.cost > 0)
           a4 == W("daily", e.key # None)
<1>2. /\ a1 \in Seq(Duties) /\ a2 \in Seq(Duties) /\ a3 \in Seq(Duties) /\ a4 \in Seq(Duties)
      /\ Len(a1) <= 1 /\ Len(a2) <= 1 /\ Len(a3) <= 1 /\ Len(a4) <= 1
  BY <1>1 DEF Books!BookNames
<1>3. Books!logSpendAsync(e) = a1 \o a2 \o a3 \o a4
  BY DEF Books!logSpendAsync
<1> HIDE DEF a1, a2, a3, a4, Duties
<1>4. /\ a1 \o a2 \o a3 \o a4 \in Seq(Duties)
      /\ Len(a1 \o a2 \o a3 \o a4) = Len(a1) + Len(a2) + Len(a3) + Len(a4)
  BY <1>2
<1> QED  BY <1>2, <1>3, <1>4 DEF Duties

(* The cost of a usage is a number of money units.                         *)
LEMMA CostType ==
  ASSUME NEW endpoint \in Books!Endpoints, NEW p \in Nat, NEW c \in Nat, NEW n \in Nat
  PROVE  Books!Calculate(endpoint, [prompt |-> p, completion |-> c, counted |-> n]) \in Nat
<1>1. Price \in Nat
  BY BooksAssumption DEF Books!ConstantsOK
<1>2. \A m, k \in Nat : m * k \in Nat
  OBVIOUS
<1>3. p + c \in Nat
  OBVIOUS
<1> QED
  BY <1>1, <1>2, <1>3 DEF Books!Calculate, Books!Endpoints

(* A request that is answered leaves a duty with entries of its key.       *)
LEMMA AnswerType ==
  ASSUME Books!TypeOK, NEW r \in Requests, req[r].at = "called",
         NEW p \in Nat, NEW c \in Nat, NEW n \in Nat,
         Books!Answer(r, [prompt |-> p, completion |-> c, counted |-> n])
  PROVE  /\ req' \in [Requests -> [at : {"idle", "refused", "answered"}] \cup Books!Calls]
         /\ duty' \in [Requests -> Seq([book : Books!BookNames, of : Books!Entries])]
         /\ \A q \in Requests : Len(duty'[q]) <= 4
<1> DEFINE u == [prompt |-> p, completion |-> c, counted |-> n]
           e == Books!Entry(r, p + c, Books!Calculate(req[r].endpoint, u))
<1>1. req[r] \in Books!Calls
  BY DEF Books!TypeOK
<1>2. req[r].key \in Keys \cup {None} /\ req[r].team \in Teams \cup {None} /\ req[r].endpoint \in Books!Endpoints
  BY <1>1 DEF Books!Calls
<1>3. Books!Calculate(req[r].endpoint, u) \in Nat
  BY <1>2, CostType
<1>4. e \in Books!Entries
  <2> HIDE DEF u
  <2> QED  BY <1>2, <1>3 DEF Books!Entry, Books!Entries
<1>5. /\ req' = [req EXCEPT ![r] = [at |-> "answered"]]
      /\ duty' = [duty EXCEPT ![r] = Books!logSpendAsync(e)]
  BY DEF Books!Answer
<1> HIDE DEF e
<1>6. /\ Books!logSpendAsync(e) \in Seq([book : Books!BookNames, of : Books!Entries])
      /\ Len(Books!logSpendAsync(e)) <= 4
  BY <1>4, DutyType
<1>7. [at |-> "answered"] \in [at : {"idle", "refused", "answered"}] \cup Books!Calls
  OBVIOUS
<1>8. req' \in [Requests -> [at : {"idle", "refused", "answered"}] \cup Books!Calls]
  BY <1>5, <1>7 DEF Books!TypeOK
<1> QED
  BY <1>5, <1>6, <1>8 DEF Books!TypeOK

(* An answer is sent by the handler of a call, and leaves the rows alone.  *)
LEMMA AnsweringType ==
  ASSUME Books!TypeOK, NEW r \in Requests,
         \/ Books!Embeddings(r) \/ Books!ImageGenerations(r) \/ Books!Moderations(r)
         \/ Books!AudioSpeech(r) \/ Books!AudioTranscriptions(r) \/ Books!Completions(r)
         \/ Books!CreateResponse(r) \/ Books!OpenAIPassthrough(r)
  PROVE  /\ req[r].at = "called"
         /\ \E p, c, n \in Nat : Books!Answer(r, [prompt |-> p, completion |-> c, counted |-> n])
         /\ UNCHANGED <<apiKey, tokens, expired, log, daily, lossless>>
         /\ UNCHANGED object \/ (object' = [object EXCEPT ![r] = [key |-> req[r].key]])
<1> DEFINE Some == \E p, c, n \in Nat : Books!Answer(r, [prompt |-> p, completion |-> c, counted |-> n])
<1>0. Amounts \subseteq Nat /\ 0 \in Nat
  BY BooksAssumption DEF Books!ConstantsOK
<1>1. \A u \in Books!usageFromChat \cup Books!usageFromEmbedding \cup Books!usageFromResponses :
        \E p, c, n \in Nat : u = [prompt |-> p, completion |-> c, counted |-> n]
  <2>1. ASSUME NEW u \in [prompt : Amounts, completion : Amounts, counted : {0}]
        PROVE  \E p, c, n \in Nat : u = [prompt |-> p, completion |-> c, counted |-> n]
    <3>1. u = [prompt |-> u.prompt, completion |-> u.completion, counted |-> u.counted]
      OBVIOUS
    <3>2. u.prompt \in Amounts /\ u.completion \in Amounts /\ u.counted = 0
      OBVIOUS
    <3>3. u.prompt \in Nat /\ u.completion \in Nat /\ u.counted \in Nat
      BY <1>0, <3>2, Zenon
    <3> QED  BY <3>1, <3>3
  <2>2. ASSUME NEW u \in [prompt : Amounts, completion : {0}, counted : {0}]
        PROVE  \E p, c, n \in Nat : u = [prompt |-> p, completion |-> c, counted |-> n]
    <3>1. u = [prompt |-> u.prompt, completion |-> u.completion, counted |-> u.counted]
      OBVIOUS
    <3>2. u.prompt \in Amounts /\ u.completion = 0 /\ u.counted = 0
      OBVIOUS
    <3>3. u.prompt \in Nat /\ u.completion \in Nat /\ u.counted \in Nat
      BY <1>0, <3>2, Zenon
    <3> QED  BY <3>1, <3>3
  <2>3. \E p, c, n \in Nat : Books!NoUsage = [prompt |-> p, completion |-> c, counted |-> n]
    BY DEF Books!NoUsage
  <2> QED
    BY <2>1, <2>2, <2>3
       DEF Books!usageFromChat, Books!usageFromEmbedding, Books!usageFromResponses
<1>2. \A k \in Nat : Books!Measured(k) = [prompt |-> 0, completion |-> 0, counted |-> k]
  BY DEF Books!Measured, Books!NoUsage
<1>3. Books!NoUsage = [prompt |-> 0, completion |-> 0, counted |-> 0]
  BY DEF Books!NoUsage
<1>4. \A u : (\E p, c, n \in Nat : u = [prompt |-> p, completion |-> c, counted |-> n])
             /\ Books!Answer(r, u) => Some
  OBVIOUS
<1> HIDE DEF Some
<1>5. ASSUME Books!Embeddings(r) \/ Books!Completions(r) \/ Books!CreateResponse(r) PROVE Some
  <2>1. \E u \in Books!usageFromChat \cup Books!usageFromEmbedding \cup Books!usageFromResponses :
          Books!Answer(r, u)
    BY <1>5 DEF Books!Embeddings, Books!Completions, Books!CreateResponse, Books!usageFromChat
  <2> QED  BY <1>1, <1>4, <2>1
<1>6. ASSUME \/ Books!ImageGenerations(r) \/ Books!AudioSpeech(r) \/ Books!AudioTranscriptions(r)
      PROVE  Some
  <2>1. \E k \in Nat : Books!Answer(r, Books!Measured(k))
    BY <1>0, <1>6 DEF Books!ImageGenerations, Books!AudioSpeech, Books!AudioTranscriptions
  <2> QED  BY <1>2, <1>4, <2>1
<1>7. ASSUME Books!Moderations(r) \/ Books!OpenAIPassthrough(r) PROVE Some
  BY <1>3, <1>4, <1>7 DEF Books!Moderations, Books!OpenAIPassthrough
<1>8. /\ req[r].at = "called"
      /\ UNCHANGED <<apiKey, tokens, expired, log, daily, lossless>>
      /\ UNCHANGED object \/ (object' = [object EXCEPT ![r] = [key |-> req[r].key]])
  BY DEF Books!Embeddings, Books!ImageGenerations, Books!Moderations, Books!AudioSpeech,
         Books!AudioTranscriptions, Books!Completions, Books!CreateResponse, Books!OpenAIPassthrough,
         Books!Answering, Books!books
<1> QED  BY <1>5, <1>6, <1>7, <1>8 DEF Some

(* The goroutine's next statement is of an entry of its request.           *)
LEMMA DueType ==
  ASSUME Books!TypeOK, NEW r \in Requests, duty[r] # <<>>
  PROVE  /\ Books!Entered(r) \in Books!Entries
         /\ Tail(duty[r]) \in Seq([book : Books!BookNames, of : Books!Entries])
         /\ Len(Tail(duty[r])) <= 4
<1>1. duty[r] \in Seq([book : Books!BookNames, of : Books!Entries]) /\ Len(duty[r]) <= 4
  BY DEF Books!TypeOK
<1>2. Head(duty[r]) \in [book : Books!BookNames, of : Books!Entries]
  <2> DEFINE D == [book : Books!BookNames, of : Books!Entries]
  <2>1. duty[r] \in Seq(D)
    BY <1>1
  <2> HIDE DEF D
  <2>2. Head(duty[r]) \in D
    BY <2>1
  <2> QED  BY <2>2 DEF D
<1> QED  BY <1>1, <1>2 DEF Books!Entered

(* Rows stay rows when their key is deleted.                               *)
LEMMA RowsKeptType ==
  ASSUME NEW k \in Keys
  PROVE  /\ log \in [Requests -> Books!LogRows \cup {None}] =>
              Books!RowsKept(log, k) \in [Requests -> Books!LogRows \cup {None}]
         /\ daily \in [Requests -> Books!DailyRows \cup {None}] =>
              Books!RowsKept(daily, k) \in [Requests -> Books!DailyRows \cup {None}]
         /\ object \in [Requests -> Books!ObjectRows \cup {None, Removed}] =>
              Books!RowsKept(object, k) \in [Requests -> Books!ObjectRows \cup {None, Removed}]
<1>1. \A row \in Books!LogRows : [row EXCEPT !.key = Removed] \in Books!LogRows
  BY DEF Books!LogRows
<1>2. \A row \in Books!DailyRows : [row EXCEPT !.key = Removed] \in Books!DailyRows
  BY DEF Books!DailyRows
<1>3. \A row \in Books!ObjectRows : [row EXCEPT !.key = Removed] \in Books!ObjectRows
  BY DEF Books!ObjectRows
<1> QED  BY <1>1, <1>2, <1>3 DEF Books!RowsKept

(* The books have their types always.                                      *)
LEMMA BooksTypeHolds == Books!Spec => []Books!TypeOK
<1> USE DEF Books!TypeOK
<1>0. 0 \in Nat
  OBVIOUS
<1>1. Books!Init => Books!TypeOK
  <2> SUFFICES ASSUME Books!Init PROVE Books!TypeOK
    OBVIOUS
  <2>1. apiKey \in [Keys -> Books!KeyRows \cup {Removed}]
    BY DEF Books!Init, Books!KeyRows
  <2> QED  BY <2>1 DEF Books!Init, Books!Idle
<1>2. Books!TypeOK /\ [Books!Next]_(Books!vars) => Books!TypeOK'
  <2> SUFFICES ASSUME Books!TypeOK, [Books!Next]_(Books!vars) PROVE Books!TypeOK'
    OBVIOUS
  <2> USE DEF Books!books
  <2>1. ASSUME NEW r \in Requests, NEW e \in Books!Endpoints, NEW s \in BOOLEAN, Books!Call(r, e, s)
        PROVE  Books!TypeOK'
    <3>1. PICK k \in Books!Live \cup {None} :
            req' = [req EXCEPT ![r] = [at |-> "called", endpoint |-> e, stream |-> s, key |-> k,
                                       team |-> IF k = None THEN None ELSE apiKey[k].team]]
      BY <2>1 DEF Books!Call
    <3>2. k # None => k \in Keys /\ apiKey[k] \in Books!KeyRows
      BY DEF Books!Live
    <3>4. (IF k = None THEN None ELSE apiKey[k].team) \in Teams \cup {None}
      BY <3>2 DEF Books!KeyRows
    <3>3. [at |-> "called", endpoint |-> e, stream |-> s, key |-> k,
           team |-> IF k = None THEN None ELSE apiKey[k].team] \in Books!Calls
      BY <3>2, <3>4 DEF Books!Calls
    <3> QED  BY <2>1, <3>1, <3>3 DEF Books!Call
  <2>2. ASSUME NEW r \in Requests, Books!Refuse(r) PROVE Books!TypeOK'
    BY <2>2 DEF Books!Refuse
  <2>3. ASSUME NEW r \in Requests,
               \/ Books!Embeddings(r) \/ Books!ImageGenerations(r) \/ Books!Moderations(r)
               \/ Books!AudioSpeech(r) \/ Books!AudioTranscriptions(r) \/ Books!Completions(r)
               \/ Books!CreateResponse(r) \/ Books!OpenAIPassthrough(r)
        PROVE  Books!TypeOK'
    <3> HIDE DEF Books!TypeOK
    <3>1. PICK p, c, n \in Nat : Books!Answer(r, [prompt |-> p, completion |-> c, counted |-> n])
      BY <2>3, AnsweringType
    <3>2. /\ req' \in [Requests -> [at : {"idle", "refused", "answered"}] \cup Books!Calls]
          /\ duty' \in [Requests -> Seq([book : Books!BookNames, of : Books!Entries])]
          /\ \A q \in Requests : Len(duty'[q]) <= 4
      BY <2>3, <3>1, AnswerType, AnsweringType
    <3>3. /\ req[r].at = "called" /\ UNCHANGED <<apiKey, tokens, expired, log, daily, lossless>>
          /\ UNCHANGED object \/ (object' = [object EXCEPT ![r] = [key |-> req[r].key]])
      BY <2>3, AnsweringType
    <3>4. req[r].key \in Keys \cup {None}
      BY <3>3 DEF Books!TypeOK, Books!Calls
    <3>5. object' \in [Requests -> Books!ObjectRows \cup {None, Removed}]
      <4>1. [key |-> req[r].key] \in Books!ObjectRows
        BY <3>4 DEF Books!ObjectRows
      <4> QED  BY <3>3, <4>1 DEF Books!TypeOK
    <3> QED  BY <3>2, <3>3, <3>5 DEF Books!TypeOK
  <2>4. ASSUME NEW r \in Requests, Books!DeleteResponse(r) PROVE Books!TypeOK'
    BY <2>4 DEF Books!DeleteResponse
  <2>5. ASSUME NEW r \in Requests, Books!Goroutine(r) PROVE Books!TypeOK'
    <3>1. duty[r] # <<>> /\ duty' = [duty EXCEPT ![r] = Tail(duty[r])]
      BY <2>5 DEF Books!Goroutine, Books!ConsumeTokens, Books!InsertSpendLog, Books!UpdateKeySpend,
                  Books!UpsertDailySpend, Books!StatementFails, Books!Due, Books!Onward
    <3> DEFINE e == Books!Entered(r)
    <3>2. e \in Books!Entries
      BY <3>1, DueType
    <3>3. e.key \in Keys \cup {None} /\ e.team \in Teams \cup {None} /\ e.tokens \in Nat /\ e.cost \in Nat
      BY <3>2 DEF Books!Entries
    <3>4. duty' \in [Requests -> Seq([book : Books!BookNames, of : Books!Entries])]
          /\ \A q \in Requests : Len(duty'[q]) <= 4
      BY <3>1, DueType
    <3>5. CASE Books!ConsumeTokens(r)
      <4>1. tokens' \in [Keys -> Nat]
        <5>1. tokens' = [tokens EXCEPT ![e.key] = tokens[e.key] + e.tokens]
          BY <3>5 DEF Books!ConsumeTokens
        <5>2. \A k \in Keys : tokens[k] + e.tokens \in Nat
          BY <3>3
        <5> HIDE DEF e
        <5> QED  BY <5>1, <5>2
      <4> QED  BY <3>4, <3>5, <4>1 DEF Books!ConsumeTokens
    <3>6. CASE Books!InsertSpendLog(r)
      <4>1. e \in Books!LogRows
        BY <3>2 DEF Books!LogRows, Books!Entries
      <4> QED  BY <3>2, <3>4, <3>6, <4>1 DEF Books!InsertSpendLog
    <3>7. CASE Books!UpdateKeySpend(r)
      <4>1. \A row \in Books!KeyRows : [row EXCEPT !.spend = Books!Rounded(@ + e.cost)] \in Books!KeyRows
        <5> SUFFICES ASSUME NEW row \in Books!KeyRows
                     PROVE  [row EXCEPT !.spend = Books!Rounded(row.spend + e.cost)] \in Books!KeyRows
          OBVIOUS
        <5>1. row.spend + e.cost \in Nat
          BY <3>3 DEF Books!KeyRows
        <5>2. Books!Rounded(row.spend + e.cost) \in Nat
          BY <5>1, RoundedType
        <5> QED  BY <5>2 DEF Books!KeyRows
      <4>2. apiKey' \in [Keys -> Books!KeyRows \cup {Removed}]
        <5>1. apiKey' = [apiKey EXCEPT ![e.key] = Books!Charged(@, e.cost)]
          BY <3>7 DEF Books!UpdateKeySpend
        <5>2. \A k \in Keys : Books!Charged(apiKey[k], e.cost) \in Books!KeyRows \cup {Removed}
          BY <4>1 DEF Books!Charged
        <5> QED  BY <5>1, <5>2
      <4> QED  BY <3>4, <3>7, <4>2 DEF Books!UpdateKeySpend
    <3>8. CASE Books!UpsertDailySpend(r)
      <4>1. [key |-> e.key, team |-> e.team, tokens |-> e.tokens,
             cost |-> Books!Rounded(e.cost), count |-> 1] \in Books!DailyRows
        <5>1. e.key \in Keys
          BY <3>8 DEF Books!UpsertDailySpend, Books!Live
        <5> QED  BY <3>3, <5>1, RoundedType DEF Books!DailyRows
      <4>2. \A row \in Books!DailyRows : Books!Increased(row, e) \in Books!DailyRows
        <5> SUFFICES ASSUME NEW row \in Books!DailyRows PROVE Books!Increased(row, e) \in Books!DailyRows
          OBVIOUS
        <5>1. row.tokens + e.tokens \in Nat /\ row.count + 1 \in Nat /\ row.cost + e.cost \in Nat
          BY <3>3 DEF Books!DailyRows
        <5>2. Books!Rounded(row.cost + e.cost) \in Nat
          BY <5>1, RoundedType
        <5> QED  BY <5>1, <5>2 DEF Books!DailyRows, Books!Increased
      <4>3. \A q \in Books!Conflicting(e) : q \in Requests /\ daily[q] \in Books!DailyRows
        BY DEF Books!Conflicting
      <4>4. daily' \in [Requests -> Books!DailyRows \cup {None}]
        BY <3>2, <3>8, <4>1, <4>2, <4>3 DEF Books!UpsertDailySpend
      <4> QED  BY <3>4, <3>8, <4>4 DEF Books!UpsertDailySpend
    <3>9. CASE Books!StatementFails(r)
      BY <3>4, <3>9 DEF Books!StatementFails
    <3> QED  BY <2>5, <3>5, <3>6, <3>7, <3>8, <3>9 DEF Books!Goroutine
  <2>6. ASSUME NEW k \in Keys, Books!DeleteAPIKey(k) PROVE Books!TypeOK'
    BY <2>6, RowsKeptType DEF Books!DeleteAPIKey
  <2>7. ASSUME NEW k \in Keys, Books!UpdateAPIKey(k) PROVE Books!TypeOK'
    <3>1. PICK t \in Teams : apiKey' = [apiKey EXCEPT ![k].team = t]
      BY <2>7 DEF Books!UpdateAPIKey
    <3>2. apiKey[k] \in Books!KeyRows
      BY <2>7 DEF Books!UpdateAPIKey, Books!Live
    <3>3. [apiKey[k] EXCEPT !.team = t] \in Books!KeyRows
      BY <3>2 DEF Books!KeyRows
    <3> QED  BY <2>7, <3>1, <3>3 DEF Books!UpdateAPIKey
  <2>11. ASSUME NEW k \in Keys, Books!WindowEnds(k) PROVE Books!TypeOK'
    <3>1. tokens[k] \in Nat /\ expired[k] + tokens[k] \in Nat
      OBVIOUS
    <3> QED  BY <2>11, <3>1 DEF Books!WindowEnds
  <2>8. CASE Books!Exit
    <3>1. (lossless /\ duty' = duty) \in BOOLEAN
      OBVIOUS
    <3> QED  BY <2>8, <3>1 DEF Books!Exit
  <2>9. CASE UNCHANGED Books!vars
    BY <2>9 DEF Books!vars
  <2>10. ASSUME NEW r \in Requests, Books!Handler(r) PROVE Books!TypeOK'
    BY <2>1, <2>2, <2>3, <2>10 DEF Books!Handler, Books!Endpoints
  <2> HIDE DEF Books!TypeOK
  <2> QED  BY <2>4, <2>5, <2>6, <2>7, <2>8, <2>9, <2>10, <2>11 DEF Books!Next
<1> QED  BY <1>1, <1>2, PTL DEF Books!Spec

----------------------------------------------------------------------------
(* What a request still owes its books, and what it has been charged.      *)

Owed(d) == {d[i].book : i \in DOMAIN d}

(* What is left of the statements of an entry: each of them is the first   *)
(* at some time, but for those that the entry has no need of.  The master  *)
(* key needs its log row alone.                                            *)
Statement(book, e) == [book |-> book, of |-> e]
LeftOf(d, e) ==
  LET c == Statement("counter", e)
      l == Statement("log", e)
      s == Statement("spend", e)
      t == Statement("daily", e)
  IN  \/ e.key # None /\ \/ d = <<c, l, s, t>> \/ d = <<c, l, t>> \/ d = <<l, s, t>> \/ d = <<l, t>>
                          \/ d = <<s, t>> \/ d = <<t>>
      \/ e.key = None /\ d = <<l>>
      \/ d = <<>>

(* The statement at the head is the next to be done.                       *)
LEMMA OneStatementLess ==
  ASSUME NEW e, NEW d, LeftOf(d, e), d # <<>>
  PROVE  /\ LeftOf(Tail(d), e) /\ Head(d).of = e
         /\ Head(d).book \in Owed(d) /\ Owed(Tail(d)) = Owed(d) \ {Head(d).book}
         /\ Owed(d) \subseteq Books!BookNames
         /\ "daily" \in Owed(d) <=> e.key # None
         /\ e.key = None => Head(d).book = "log" /\ Tail(d) = <<>>
         /\ "log" \in Owed(d) => d[1].of = e
         /\ Head(d).book = "counter" => "log" \in Owed(d)
         /\ Head(d).book \in {"spend", "daily"} => "log" \notin Owed(d)
<1> DEFINE c == Statement("counter", e)
           l == Statement("log", e)
           s == Statement("spend", e)
           t == Statement("daily", e)
<1>1. /\ c.book = "counter" /\ l.book = "log" /\ s.book = "spend" /\ t.book = "daily"
      /\ c.of = e /\ l.of = e /\ s.of = e /\ t.of = e
  BY DEF Statement
<1>2. \/ e.key # None /\ \/ d = <<c, l, s, t>> \/ d = <<c, l, t>> \/ d = <<l, s, t>> \/ d = <<l, t>>
                          \/ d = <<s, t>> \/ d = <<t>>
      \/ e.key = None /\ d = <<l>>
  BY DEF LeftOf
<1>3. \A x : Owed(<<x>>) = {x.book}
  BY DEF Owed
<1>4. \A x, y : Owed(<<x, y>>) = {x.book, y.book}
  BY DEF Owed
<1>5. \A x, y, z : Owed(<<x, y, z>>) = {x.book, y.book, z.book}
  BY DEF Owed
<1>6. \A x, y, z, u : Owed(<<x, y, z, u>>) = {x.book, y.book, z.book, u.book}
  BY DEF Owed
<1>7. Owed(<<>>) = {}
  BY DEF Owed
<1>8. /\ LeftOf(<<>>, e)
      /\ e.key # None => /\ LeftOf(<<l, s, t>>, e) /\ LeftOf(<<l, t>>, e)
                         /\ LeftOf(<<s, t>>, e) /\ LeftOf(<<t>>, e)
  BY DEF LeftOf
<1> HIDE DEF c, l, s, t
<1>9. CASE e.key # None /\ d = <<c, l, s, t>>
  <2>1. Head(d) = c /\ Tail(d) = <<l, s, t>> /\ d[1] = c
    BY <1>9
  <2>2. Owed(d) = {"counter", "log", "spend", "daily"} /\ Owed(Tail(d)) = {"log", "spend", "daily"}
    BY <1>1, <1>5, <1>6, <1>9, <2>1
  <2> QED  BY <1>1, <1>8, <1>9, <2>1, <2>2 DEF Books!BookNames
<1>10. CASE e.key # None /\ d = <<c, l, t>>
  <2>1. Head(d) = c /\ Tail(d) = <<l, t>> /\ d[1] = c
    BY <1>10
  <2>2. Owed(d) = {"counter", "log", "daily"} /\ Owed(Tail(d)) = {"log", "daily"}
    BY <1>1, <1>4, <1>5, <1>10, <2>1
  <2> QED  BY <1>1, <1>8, <1>10, <2>1, <2>2 DEF Books!BookNames
<1>11. CASE e.key # None /\ d = <<l, s, t>>
  <2>1. Head(d) = l /\ Tail(d) = <<s, t>> /\ d[1] = l
    BY <1>11
  <2>2. Owed(d) = {"log", "spend", "daily"} /\ Owed(Tail(d)) = {"spend", "daily"}
    BY <1>1, <1>4, <1>5, <1>11, <2>1
  <2> QED  BY <1>1, <1>8, <1>11, <2>1, <2>2 DEF Books!BookNames
<1>12. CASE e.key # None /\ d = <<l, t>>
  <2>1. Head(d) = l /\ Tail(d) = <<t>> /\ d[1] = l
    BY <1>12
  <2>2. Owed(d) = {"log", "daily"} /\ Owed(Tail(d)) = {"daily"}
    BY <1>1, <1>3, <1>4, <1>12, <2>1
  <2> QED  BY <1>1, <1>8, <1>12, <2>1, <2>2 DEF Books!BookNames
<1>13. CASE e.key # None /\ d = <<s, t>>
  <2>1. Head(d) = s /\ Tail(d) = <<t>> /\ d[1] = s
    BY <1>13
  <2>2. Owed(d) = {"spend", "daily"} /\ Owed(Tail(d)) = {"daily"}
    BY <1>1, <1>3, <1>4, <1>13, <2>1
  <2> QED  BY <1>1, <1>8, <1>13, <2>1, <2>2 DEF Books!BookNames
<1>14. CASE e.key # None /\ d = <<t>>
  <2>1. Head(d) = t /\ Tail(d) = <<>> /\ d[1] = t
    BY <1>14
  <2>2. Owed(d) = {"daily"} /\ Owed(Tail(d)) = {}
    BY <1>1, <1>3, <1>7, <1>14, <2>1
  <2> QED  BY <1>1, <1>8, <1>14, <2>1, <2>2 DEF Books!BookNames
<1>15. CASE e.key = None /\ d = <<l>>
  <2>1. Head(d) = l /\ Tail(d) = <<>> /\ d[1] = l
    BY <1>15
  <2>2. Owed(d) = {"log"} /\ Owed(Tail(d)) = {}
    BY <1>1, <1>3, <1>7, <1>15, <2>1
  <2> QED  BY <1>1, <1>8, <1>15, <2>1, <2>2 DEF Books!BookNames
<1> QED  BY <1>2, <1>9, <1>10, <1>11, <1>12, <1>13, <1>14, <1>15

(* An answered request owes all its statements.                            *)
LEMMA AllIsOwed ==
  ASSUME NEW e \in Books!Entries
  PROVE  LET d == Books!logSpendAsync(e)
         IN  /\ LeftOf(d, e) /\ d # <<>> /\ "log" \in Owed(d)
             /\ e.key # None => /\ "daily" \in Owed(d)
                                /\ "counter" \notin Owed(d) => e.tokens = 0
                                /\ "spend" \notin Owed(d) => e.cost = 0
<1> DEFINE d == Books!logSpendAsync(e)
           c == Statement("counter", e)
           l == Statement("log", e)
           s == Statement("spend", e)
           t == Statement("daily", e)
<1>1. e.tokens \in Nat /\ e.cost \in Nat
  BY DEF Books!Entries
<1>2. d = (IF e.key # None /\ e.tokens > 0 THEN <<c>> ELSE <<>>) \o <<l>>
            \o (IF e.key # None /\ e.cost > 0 THEN <<s>> ELSE <<>>) \o (IF e.key # None THEN <<t>> ELSE <<>>)
  BY DEF Books!logSpendAsync, Statement
<1>3. c.book = "counter" /\ l.book = "log" /\ s.book = "spend" /\ t.book = "daily"
  BY DEF Statement
<1>4. \A x, y : Owed(<<x, y>>) = {x.book, y.book}
  BY DEF Owed
<1>5. \A x, y, z : Owed(<<x, y, z>>) = {x.book, y.book, z.book}
  BY DEF Owed
<1>6. \A x, y, z, u : Owed(<<x, y, z, u>>) = {x.book, y.book, z.book, u.book}
  BY DEF Owed
<1>7. /\ e.key # None => /\ LeftOf(<<c, l, s, t>>, e) /\ LeftOf(<<c, l, t>>, e)
                          /\ LeftOf(<<l, s, t>>, e) /\ LeftOf(<<l, t>>, e)
      /\ e.key = None => LeftOf(<<l>>, e)
  BY DEF LeftOf
<1>14. Owed(<<l>>) = {l.book}
  BY DEF Owed
<1> HIDE DEF c, l, s, t, d
<1>12. /\ <<c>> \o <<l>> \o <<s>> \o <<t>> = <<c, l, s, t>>
       /\ <<c>> \o <<l>> \o <<>> \o <<t>> = <<c, l, t>>
       /\ <<>> \o <<l>> \o <<s>> \o <<t>> = <<l, s, t>>
       /\ <<>> \o <<l>> \o <<>> \o <<t>> = <<l, t>>
       /\ <<>> \o <<l>> \o <<>> \o <<>> = <<l>>
  <2> DEFINE S == {c, l, s, t}
  <2>1. <<c>> \o <<l>> \o <<s>> \o <<t>> = <<c, l, s, t>>
    <3> DEFINE p == <<c>> \o <<l>> \o <<s>> \o <<t>>
               q == <<c, l, s, t>>
    <3>1. p \in Seq(S) /\ q \in Seq(S) /\ Len(p) = 4 /\ Len(q) = 4
      OBVIOUS
    <3>2. p[1] = q[1] /\ p[2] = q[2] /\ p[3] = q[3] /\ p[4] = q[4]
      OBVIOUS
    <3> HIDE DEF p, q, S
    <3>3. \A i \in 1..4 : p[i] = q[i]
      BY <3>2
    <3>4. p = q
      BY <3>1, <3>3
    <3> QED  BY <3>4 DEF p, q
  <2>2. <<c>> \o <<l>> \o <<>> \o <<t>> = <<c, l, t>>
    <3> DEFINE p == <<c>> \o <<l>> \o <<>> \o <<t>>
               q == <<c, l, t>>
    <3>1. p \in Seq(S) /\ q \in Seq(S) /\ Len(p) = 3 /\ Len(q) = 3
      OBVIOUS
    <3>2. p[1] = q[1] /\ p[2] = q[2] /\ p[3] = q[3]
      OBVIOUS
    <3> HIDE DEF p, q, S
    <3>3. \A i \in 1..3 : p[i] = q[i]
      BY <3>2
    <3>4. p = q
      BY <3>1, <3>3
    <3> QED  BY <3>4 DEF p, q
  <2>3. <<>> \o <<l>> \o <<s>> \o <<t>> = <<l, s, t>>
    <3> DEFINE p == <<>> \o <<l>> \o <<s>> \o <<t>>
               q == <<l, s, t>>
    <3>1. p \in Seq(S) /\ q \in Seq(S) /\ Len(p) = 3 /\ Len(q) = 3
      OBVIOUS
    <3>2. p[1] = q[1] /\ p[2] = q[2] /\ p[3] = q[3]
      OBVIOUS
    <3> HIDE DEF p, q, S
    <3>3. \A i \in 1..3 : p[i] = q[i]
      BY <3>2
    <3>4. p = q
      BY <3>1, <3>3
    <3> QED  BY <3>4 DEF p, q
  <2>4. <<>> \o <<l>> \o <<>> \o <<t>> = <<l, t>>
    <3> DEFINE p == <<>> \o <<l>> \o <<>> \o <<t>>
               q == <<l, t>>
    <3>1. p \in Seq(S) /\ q \in Seq(S) /\ Len(p) = 2 /\ Len(q) = 2
      OBVIOUS
    <3>2. p[1] = q[1] /\ p[2] = q[2]
      OBVIOUS
    <3> HIDE DEF p, q, S
    <3>3. \A i \in 1..2 : p[i] = q[i]
      BY <3>2
    <3>4. p = q
      BY <3>1, <3>3
    <3> QED  BY <3>4 DEF p, q
  <2>5. <<>> \o <<l>> \o <<>> \o <<>> = <<l>>
    <3> DEFINE p == <<>> \o <<l>> \o <<>> \o <<>>
               q == <<l>>
    <3>1. p \in Seq(S) /\ q \in Seq(S) /\ Len(p) = 1 /\ Len(q) = 1
      OBVIOUS
    <3>2. p[1] = q[1]
      OBVIOUS
    <3> HIDE DEF p, q, S
    <3>3. \A i \in 1..1 : p[i] = q[i]
      BY <3>2
    <3>4. p = q
      BY <3>1, <3>3
    <3> QED  BY <3>4 DEF p, q
  <2> QED  BY <2>1, <2>2, <2>3, <2>4, <2>5
<1> DEFINE u == IF e.key # None /\ e.tokens > 0 THEN <<c>> ELSE <<>>
           v == IF e.key # None /\ e.cost > 0 THEN <<s>> ELSE <<>>
           w == IF e.key # None THEN <<t>> ELSE <<>>
<1>15. d = u \o <<l>> \o v \o w
  BY <1>2, Zenon
<1>16. /\ e.key # None =>
            /\ e.tokens > 0 => u = <<c>>
            /\ ~(e.tokens > 0) => u = <<>> /\ e.tokens = 0
            /\ e.cost > 0 => v = <<s>>
            /\ ~(e.cost > 0) => v = <<>> /\ e.cost = 0
            /\ w = <<t>>
       /\ e.key = None => u = <<>> /\ v = <<>> /\ w = <<>>
  BY <1>1
<1> HIDE DEF u, v, w
<1>13. CASE e.key = None
  <2>1. d = <<l>>
    BY <1>12, <1>13, <1>15, <1>16, Zenon
  <2> QED  BY <1>3, <1>7, <1>13, <1>14, <2>1 DEF d
<1>8. CASE e.key # None /\ e.tokens > 0 /\ e.cost > 0
  <2>1. d = <<c, l, s, t>>
    BY <1>8, <1>12, <1>15, <1>16, Zenon
  <2> QED  BY <1>3, <1>6, <1>7, <1>8, <2>1 DEF d
<1>9. CASE e.key # None /\ e.tokens > 0 /\ ~(e.cost > 0)
  <2>1. d = <<c, l, t>> /\ e.cost = 0
    BY <1>9, <1>12, <1>15, <1>16, Zenon
  <2> QED  BY <1>3, <1>5, <1>7, <1>9, <2>1 DEF d
<1>10. CASE e.key # None /\ ~(e.tokens > 0) /\ e.cost > 0
  <2>1. d = <<l, s, t>> /\ e.tokens = 0
    BY <1>10, <1>12, <1>15, <1>16, Zenon
  <2> QED  BY <1>3, <1>5, <1>7, <1>10, <2>1 DEF d
<1>11. CASE e.key # None /\ ~(e.tokens > 0) /\ ~(e.cost > 0)
  <2>1. d = <<l, t>> /\ e.tokens = 0 /\ e.cost = 0
    BY <1>11, <1>12, <1>15, <1>16, Zenon
  <2> QED  BY <1>3, <1>4, <1>7, <1>11, <2>1 DEF d
<1> QED  BY <1>1, <1>8, <1>9, <1>10, <1>11, <1>13

----------------------------------------------------------------------------
(* A bill is what a request has to pay, to which key, and what of it is    *)
(* not in the books yet.  Until the log has it, it is that of the entry.   *)
(* Its one is the request that the daily totals count, or none.            *)
BillRecords == [key : Keys \cup {None, Removed}, tokens : Nat, cost : Nat, one : {0, 1},
                owed : SUBSET Books!BookNames]

One(x)          == IF x.key = None THEN 0 ELSE 1
BillOf(x, owed) == [key |-> x.key, tokens |-> x.tokens, cost |-> x.cost, one |-> One(x), owed |-> owed]
NoBill == [key |-> None, tokens |-> 0, cost |-> 0, one |-> 0, owed |-> {}]

Bill(d, l) ==
  IF "log" \in Owed(d) THEN BillOf(d[1].of, Owed(d))
  ELSE IF l # None THEN BillOf(l, Owed(d)) ELSE NoBill

Bills(ds, ls) == [r \in Requests |-> Bill(ds[r], ls[r])]

(* What a book has of a bill on a key, or on any.                          *)
Amount(b, what) == IF what = "tokens" THEN b.tokens ELSE IF what = "cost" THEN b.cost ELSE b.one
Booked(b, book, k, what) == IF b.key = k /\ book \notin b.owed THEN Amount(b, what) ELSE 0
Numbered(b) == IF "daily" \notin b.owed THEN b.one ELSE 0

OfBills(bs, book, k, what) == [r \in Requests |-> Booked(bs[r], book, k, what)]
NumberOfBills(bs)          == [r \in Requests |-> Numbered(bs[r])]

(* What a row of the daily totals has of them.                             *)
Held(w, k, what) == IF w # None /\ w.key = k THEN (IF what = "tokens" THEN w.tokens ELSE w.count) ELSE 0
Number(w)        == IF w # None THEN w.count ELSE 0

OfRows(ws, k, what) == [r \in Requests |-> Held(ws[r], k, what)]
NumberOfRows(ws)    == [r \in Requests |-> Number(ws[r])]

(* There are finitely many requests.                                       *)
LEMMA RequestsAreFinite == IsFiniteSet(Requests)
<1>1. Books!IsFiniteSet(Requests)
  BY BooksAssumption DEF Books!ConstantsOK
<1> QED  BY <1>1 DEF Books!IsFiniteSet, IsFiniteSet

(* What a book has of a bill is a number.                                  *)
LEMMA BilledIsNat ==
  ASSUME NEW b \in BillRecords, NEW book, NEW k, NEW what
  PROVE  Booked(b, book, k, what) \in Nat /\ Numbered(b) \in Nat
<1>1. b.tokens \in Nat /\ b.cost \in Nat /\ b.one \in Nat
  BY DEF BillRecords
<1> QED  BY <1>1 DEF Booked, Numbered, Amount

(* What a row has of them is a number.                                     *)
LEMMA HeldIsNat ==
  ASSUME NEW w \in Books!DailyRows \cup {None}, NEW k, NEW what
  PROVE  Held(w, k, what) \in Nat /\ Number(w) \in Nat
<1>1. w # None => w.tokens \in Nat /\ w.count \in Nat
  BY DEF Books!DailyRows
<1> QED  BY <1>1 DEF Held, Number

(* One bill changes.                                                       *)
OneBillCounts(bs, cs, r) ==
  /\ \A book, k, what : Total(OfBills(cs, book, k, what), Requests) + Booked(bs[r], book, k, what)
                          = Total(OfBills(bs, book, k, what), Requests) + Booked(cs[r], book, k, what)
  /\ Total(NumberOfBills(cs), Requests) + Numbered(bs[r])
       = Total(NumberOfBills(bs), Requests) + Numbered(cs[r])

(* The sums change by what the changed bill has.                           *)
LEMMA OneBillChanges ==
  ASSUME NEW bs \in [Requests -> BillRecords], NEW r \in Requests, NEW b \in BillRecords,
         NEW cs, cs = [bs EXCEPT ![r] = b]
  PROVE  OneBillCounts(bs, cs, r)
<1>1. \A q \in Requests : bs[q] \in BillRecords /\ cs[q] \in BillRecords /\ (q # r => cs[q] = bs[q])
  OBVIOUS
<1>2. IsFiniteSet(Requests)
  BY RequestsAreFinite
<1>3. ASSUME NEW book, NEW k, NEW what
      PROVE  Total(OfBills(cs, book, k, what), Requests) + Booked(bs[r], book, k, what)
               = Total(OfBills(bs, book, k, what), Requests) + Booked(cs[r], book, k, what)
  <2> DEFINE f == OfBills(bs, book, k, what)
             g == OfBills(cs, book, k, what)
  <2>1. \A q \in Requests : f[q] = Booked(bs[q], book, k, what) /\ g[q] = Booked(cs[q], book, k, what)
    BY DEF OfBills
  <2>2. \A c \in BillRecords : Booked(c, book, k, what) \in Nat
    BY BilledIsNat
  <2> HIDE DEF f, g
  <2>3. (\A q \in Requests : f[q] \in Nat) /\ g[r] \in Nat /\ \A q \in Requests \ {r} : g[q] = f[q]
    BY <1>1, <2>1, <2>2
  <2>4. Total(g, Requests) + f[r] = Total(f, Requests) + g[r]
    BY <1>2, <2>3, TotalChanges
  <2> QED  BY <2>1, <2>4, Zenon DEF f, g
<1>4. Total(NumberOfBills(cs), Requests) + Numbered(bs[r])
        = Total(NumberOfBills(bs), Requests) + Numbered(cs[r])
  <2> DEFINE f == NumberOfBills(bs)
             g == NumberOfBills(cs)
  <2>1. \A q \in Requests : f[q] = Numbered(bs[q]) /\ g[q] = Numbered(cs[q])
    BY DEF NumberOfBills
  <2>2. \A c \in BillRecords : Numbered(c) \in Nat
    BY BilledIsNat
  <2> HIDE DEF f, g
  <2>3. (\A q \in Requests : f[q] \in Nat) /\ g[r] \in Nat /\ \A q \in Requests \ {r} : g[q] = f[q]
    BY <1>1, <2>1, <2>2
  <2>4. Total(g, Requests) + f[r] = Total(f, Requests) + g[r]
    BY <1>2, <2>3, TotalChanges
  <2> QED  BY <2>1, <2>4, Zenon DEF f, g
<1> QED  BY <1>3, <1>4 DEF OneBillCounts

(* One row changes.                                                        *)
OneRowCounts(ws, vs, r) ==
  /\ \A k, what : Total(OfRows(vs, k, what), Requests) + Held(ws[r], k, what)
                          = Total(OfRows(ws, k, what), Requests) + Held(vs[r], k, what)
  /\ Total(NumberOfRows(vs), Requests) + Number(ws[r])
       = Total(NumberOfRows(ws), Requests) + Number(vs[r])

(* The sums change by what the changed row has.                            *)
LEMMA OneRowChanges ==
  ASSUME NEW ws \in [Requests -> Books!DailyRows \cup {None}], NEW r \in Requests, NEW b \in Books!DailyRows \cup {None},
         NEW vs, vs = [ws EXCEPT ![r] = b]
  PROVE  OneRowCounts(ws, vs, r)
<1>1. \A q \in Requests : ws[q] \in Books!DailyRows \cup {None} /\ vs[q] \in Books!DailyRows \cup {None} /\ (q # r => vs[q] = ws[q])
  OBVIOUS
<1>2. IsFiniteSet(Requests)
  BY RequestsAreFinite
<1>3. ASSUME NEW k, NEW what
      PROVE  Total(OfRows(vs, k, what), Requests) + Held(ws[r], k, what)
               = Total(OfRows(ws, k, what), Requests) + Held(vs[r], k, what)
  <2> DEFINE f == OfRows(ws, k, what)
             g == OfRows(vs, k, what)
  <2>1. \A q \in Requests : f[q] = Held(ws[q], k, what) /\ g[q] = Held(vs[q], k, what)
    BY DEF OfRows
  <2>2. \A c \in Books!DailyRows \cup {None} : Held(c, k, what) \in Nat
    BY HeldIsNat
  <2> HIDE DEF f, g
  <2>3. (\A q \in Requests : f[q] \in Nat) /\ g[r] \in Nat /\ \A q \in Requests \ {r} : g[q] = f[q]
    BY <1>1, <2>1, <2>2
  <2>4. Total(g, Requests) + f[r] = Total(f, Requests) + g[r]
    BY <1>2, <2>3, TotalChanges
  <2> QED  BY <2>1, <2>4, Zenon DEF f, g
<1>4. Total(NumberOfRows(vs), Requests) + Number(ws[r])
        = Total(NumberOfRows(ws), Requests) + Number(vs[r])
  <2> DEFINE f == NumberOfRows(ws)
             g == NumberOfRows(vs)
  <2>1. \A q \in Requests : f[q] = Number(ws[q]) /\ g[q] = Number(vs[q])
    BY DEF NumberOfRows
  <2>2. \A c \in Books!DailyRows \cup {None} : Number(c) \in Nat
    BY HeldIsNat
  <2> HIDE DEF f, g
  <2>3. (\A q \in Requests : f[q] \in Nat) /\ g[r] \in Nat /\ \A q \in Requests \ {r} : g[q] = f[q]
    BY <1>1, <2>1, <2>2
  <2>4. Total(g, Requests) + f[r] = Total(f, Requests) + g[r]
    BY <1>2, <2>3, TotalChanges
  <2> QED  BY <2>1, <2>4, Zenon DEF f, g
<1> QED  BY <1>3, <1>4 DEF OneRowCounts

----------------------------------------------------------------------------
(* While nothing is lost, a request that is answered has its bill, which   *)
(* is that of its entry for every key that is left; a row is not there     *)
(* before its statement; rows that conflict are one; and the books are the *)
(* sums of what they have of the bills.                                    *)
Kept(q, d, l, w, keys) ==
  /\ d # <<>> =>
       \E e \in Books!Entries :
         /\ LeftOf(d, e)
         /\ "log" \notin Owed(d) =>
              /\ l # None /\ l.tokens = e.tokens /\ l.cost = e.cost
              /\ l.key = IF keys[e.key] = Removed THEN Removed ELSE e.key
  /\ "log" \in Owed(d) => l = None
  /\ "daily" \in Owed(d) => w = None
  /\ q.at = "answered" <=> ("log" \in Owed(d) \/ l # None)
  /\ q.at # "answered" => d = <<>> /\ l = None /\ w = None

Apart(ws) ==
  \A p, q \in Requests :
    ws[p] # None /\ ws[q] # None /\ ws[p].key = ws[q].key /\ ws[p].team = ws[q].team
      /\ ws[p].key # Removed /\ ws[p].team # None => p = q

Near(x, y, m) == 2 * x <= 2 * y + m /\ 2 * y <= 2 * x + m

KeyAgrees(k, n, spend, bs, ws) ==
  /\ n = Total(OfBills(bs, "counter", k, "tokens"), Requests)
  /\ Total(OfRows(ws, k, "tokens"), Requests) = Total(OfBills(bs, "daily", k, "tokens"), Requests)
  /\ Total(OfRows(ws, k, "count"), Requests) = Total(OfBills(bs, "daily", k, "one"), Requests)
  /\ Near(spend, Total(OfBills(bs, "spend", k, "cost"), Requests),
          Unit * Total(OfBills(bs, "spend", k, "one"), Requests))

NumbersAgree(bs, ws) == Total(NumberOfRows(ws), Requests) = Total(NumberOfBills(bs), Requests)

AllKept     == \A r \in Requests : Kept(req[r], duty[r], log[r], daily[r], apiKey)
KeysAgree   == \A k \in Books!Live : KeyAgrees(k, tokens[k] + expired[k], apiKey[k].spend, Bills(duty, log), daily)
Agreed      == AllKept /\ Apart(daily) /\ NumbersAgree(Bills(duty, log), daily) /\ KeysAgree

(* What the argument needs of the constants.                               *)
LEMMA UnitType ==
  /\ Unit \in Nat \ {0} /\ None \notin Keys /\ Removed \notin Keys /\ Removed # None
  /\ None \notin Books!LogRows /\ None \notin Books!DailyRows
  /\ Removed \notin Books!KeyRows /\ Removed \notin Books!LogRows /\ Removed \notin Books!DailyRows
BY BooksAssumption DEF Books!ConstantsOK

(* Every bill is one.                                                      *)
LEMMA BillType ==
  ASSUME NEW q, NEW d, NEW l \in Books!LogRows \cup {None}, NEW w, NEW keys, Kept(q, d, l, w, keys)
  PROVE  Bill(d, l) \in BillRecords
<1>1. CASE d = <<>>
  <2>1. Owed(d) = {}
    BY <1>1 DEF Owed
  <2>2. CASE l = None
    BY <2>1, <2>2 DEF Bill, NoBill, BillRecords
  <2>3. CASE l # None
    <3>1. l.key \in Keys \cup {None, Removed} /\ l.tokens \in Nat /\ l.cost \in Nat
      BY <2>3 DEF Books!LogRows
    <3>2. Bill(d, l) = BillOf(l, {})
      BY <2>1, <2>3 DEF Bill
    <3> QED  BY <3>1, <3>2 DEF BillOf, One, BillRecords
  <2> QED  BY <2>2, <2>3
<1>2. CASE d # <<>>
  <2>1. PICK e \in Books!Entries :
          /\ LeftOf(d, e)
          /\ "log" \notin Owed(d) => l # None
    BY <1>2 DEF Kept
  <2>2. Owed(d) \subseteq Books!BookNames /\ ("log" \in Owed(d) => d[1].of = e)
    BY <1>2, <2>1, OneStatementLess
  <2>3. CASE "log" \in Owed(d)
    <3>1. e.key \in Keys \cup {None} /\ e.tokens \in Nat /\ e.cost \in Nat
      BY DEF Books!Entries
    <3>2. Bill(d, l) = BillOf(e, Owed(d))
      BY <2>2, <2>3 DEF Bill
    <3> QED  BY <2>2, <3>1, <3>2 DEF BillOf, One, BillRecords
  <2>4. CASE "log" \notin Owed(d)
    <3>1. l.key \in Keys \cup {None, Removed} /\ l.tokens \in Nat /\ l.cost \in Nat
      BY <2>1, <2>4 DEF Books!LogRows
    <3>2. Bill(d, l) = BillOf(l, Owed(d))
      BY <2>1, <2>4 DEF Bill
    <3> QED  BY <2>2, <3>1, <3>2 DEF BillOf, One, BillRecords
  <2> QED  BY <2>3, <2>4
<1> QED  BY <1>1, <1>2

(* The bills of all requests are bills.                                    *)
LEMMA BillsType == Books!TypeOK /\ AllKept => Bills(duty, log) \in [Requests -> BillRecords]
<1> SUFFICES ASSUME Books!TypeOK, AllKept PROVE Bills(duty, log) \in [Requests -> BillRecords]
  OBVIOUS
<1>1. ASSUME NEW r \in Requests PROVE Bill(duty[r], log[r]) \in BillRecords
  <2>1. log[r] \in Books!LogRows \cup {None}
    BY DEF Books!TypeOK
  <2>2. Kept(req[r], duty[r], log[r], daily[r], apiKey)
    BY DEF AllKept
  <2> QED  BY <2>1, <2>2, BillType
<1> QED  BY <1>1 DEF Bills

(* Every statement but that of the log is of a request with a key.         *)
LEMMA LoggedAlone ==
  ASSUME Books!TypeOK, AllKept, NEW r \in Requests, duty[r] # <<>>, Head(duty[r]).book # "log"
  PROVE  Head(duty[r]).of.key \in Keys
<1>1. PICK e \in Books!Entries : LeftOf(duty[r], e)
  BY DEF AllKept, Kept
<1>2. Head(duty[r]).of = e /\ e.key # None
  BY <1>1, OneStatementLess
<1> QED  BY <1>2 DEF Books!Entries

(* A statement is done: the bill is the same, and one book more has it.    *)
Same(b, c) == b.key = c.key /\ b.tokens = c.tokens /\ b.cost = c.cost /\ b.one = c.one

Filed(q, d, l, l1, w, w1, keys) ==
  LET b == Bill(d, l)
      c == Bill(Tail(d), l1)
      e == Head(d).of
  IN  /\ e \in Books!Entries /\ l1 \in Books!LogRows \cup {None}
      /\ Kept(q, Tail(d), l1, w1, keys)
      /\ Same(b, c) /\ b.tokens = e.tokens /\ b.cost = e.cost /\ b.one = One(e)
      /\ b.owed = Owed(d) /\ c.owed = Owed(d) \ {Head(d).book} /\ Head(d).book \in Owed(d)
      /\ \A k \in Keys : keys[k] # Removed => (b.key = k <=> e.key = k)
      /\ Head(d).book = "daily" => w = None /\ e.key # None

(* The next statement leaves the bill filed in one book more.              *)
LEMMA OneBookMore ==
  ASSUME NEW q, NEW d, NEW l \in Books!LogRows \cup {None}, NEW w, NEW keys, Kept(q, d, l, w, keys),
         d # <<>>, NEW l1, NEW w1,
         l1 = IF Head(d).book = "log" THEN Head(d).of ELSE l,
         Head(d).book # "daily" => w1 = w,
         Head(d).book = "log" /\ Head(d).of.key # None => keys[Head(d).of.key] # Removed
  PROVE  Filed(q, d, l, l1, w, w1, keys)
<1>1. PICK e \in Books!Entries :
        /\ LeftOf(d, e)
        /\ "log" \notin Owed(d) =>
             /\ l # None /\ l.tokens = e.tokens /\ l.cost = e.cost
             /\ l.key = IF keys[e.key] = Removed THEN Removed ELSE e.key
  BY DEF Kept
<1>2. /\ LeftOf(Tail(d), e) /\ Head(d).of = e
      /\ Head(d).book \in Owed(d) /\ Owed(Tail(d)) = Owed(d) \ {Head(d).book}
      /\ "daily" \in Owed(d) <=> e.key # None
      /\ e.key = None => Head(d).book = "log" /\ Tail(d) = <<>>
      /\ "log" \in Owed(d) => d[1].of = e
      /\ Head(d).book = "counter" => "log" \in Owed(d)
      /\ Head(d).book \in {"spend", "daily"} => "log" \notin Owed(d)
  BY <1>1, OneStatementLess
<1>3. Tail(d) # <<>> /\ "log" \in Owed(Tail(d)) => Tail(d)[1].of = e
  BY <1>2, OneStatementLess
<1>4. "log" \in Owed(Tail(d)) => Tail(d) # <<>>
  BY DEF Owed
<1>5. e \in Books!LogRows /\ e # None /\ e.key \in Keys \cup {None}
  BY UnitType DEF Books!Entries, Books!LogRows
<1>6. (e.key # None => w = None) /\ ("log" \in Owed(d) => l = None) /\ (q.at = "answered" <=> ("log" \in Owed(d) \/ l # None))
      /\ q.at = "answered"
  BY <1>1, <1>2 DEF Kept
<1>7. l1 \in Books!LogRows \cup {None}
  BY <1>2, <1>5
<1>8. Kept(q, Tail(d), l1, w1, keys)
  <2>1. "log" \notin Owed(Tail(d)) =>
          /\ l1 # None
          /\ Tail(d) # <<>> => /\ l1.tokens = e.tokens /\ l1.cost = e.cost
                               /\ l1.key = IF keys[e.key] = Removed THEN Removed ELSE e.key
    BY <1>1, <1>2, <1>5
  <2>2. "log" \in Owed(Tail(d)) => l1 = None
    BY <1>2, <1>6
  <2>3. "daily" \in Owed(Tail(d)) => w1 = None
    <3>1. "daily" \in Owed(Tail(d)) => e.key # None /\ Head(d).book # "daily"
      BY <1>2
    <3> QED  BY <1>6, <3>1
  <2>4. q.at = "answered" /\ ("log" \in Owed(Tail(d)) \/ l1 # None)
    BY <1>6, <2>1
  <2> QED  BY <1>2, <2>1, <2>2, <2>3, <2>4 DEF Kept
<1>9. CASE "log" \in Owed(d)
  <2>1. Bill(d, l) = BillOf(e, Owed(d))
    BY <1>2, <1>9 DEF Bill
  <2>2. Bill(Tail(d), l1) = BillOf(e, Owed(Tail(d)))
    <3>1. CASE Head(d).book = "log"
      <4>1. "log" \notin Owed(Tail(d)) /\ l1 = e
        BY <1>2, <3>1
      <4> QED  BY <1>5, <4>1 DEF Bill
    <3>2. CASE Head(d).book # "log"
      <4>1. "log" \in Owed(Tail(d))
        BY <1>2, <1>9, <3>2
      <4> QED  BY <1>3, <1>4, <4>1 DEF Bill
    <3> QED  BY <3>1, <3>2
  <2> QED  BY <1>2, <1>6, <1>7, <1>8, <2>1, <2>2 DEF BillOf, One, Same, Filed
<1>10. CASE "log" \notin Owed(d)
  <2>1. l1 = l /\ l # None /\ "log" \notin Owed(Tail(d))
    BY <1>1, <1>2, <1>10
  <2>2. Bill(d, l) = BillOf(l, Owed(d)) /\ Bill(Tail(d), l1) = BillOf(l, Owed(Tail(d)))
    BY <1>10, <2>1 DEF Bill
  <2>3. l.tokens = e.tokens /\ l.cost = e.cost /\ l.key = IF keys[e.key] = Removed THEN Removed ELSE e.key
    BY <1>1, <1>10
  <2>5. e.key # None
    BY <1>2, <1>10
  <2>6. One(l) = One(e)
    BY <2>3, <2>5, UnitType DEF One
  <2>4. \A k \in Keys : keys[k] # Removed => (l.key = k <=> e.key = k)
    BY <2>3, UnitType
  <2> QED  BY <1>2, <1>6, <1>7, <1>8, <2>2, <2>3, <2>4, <2>5, <2>6 DEF BillOf, One, Same, Filed
<1> QED  BY <1>9, <1>10

(* The sums over the bills after one more statement.                       *)
Share(e, what) == IF what = "tokens" THEN e.tokens ELSE IF what = "cost" THEN e.cost ELSE 1

BillsGrow(bs, cs, book, e, keys) ==
  /\ \A k \in Keys : \A any, what :
       keys[k] # Removed =>
         Total(OfBills(cs, any, k, what), Requests)
           = Total(OfBills(bs, any, k, what), Requests)
               + (IF any = book /\ e.key = k THEN Share(e, what) ELSE 0)
  /\ Total(NumberOfBills(cs), Requests)
       = Total(NumberOfBills(bs), Requests) + (IF book = "daily" THEN 1 ELSE 0)

SumsAreNat(bs) ==
  /\ \A k, any, what : Total(OfBills(bs, any, k, what), Requests) \in Nat
  /\ Total(NumberOfBills(bs), Requests) \in Nat

(* Sums of bills are numbers.                                              *)
LEMMA BillSumsAreNat ==
  ASSUME NEW bs \in [Requests -> BillRecords]
  PROVE  SumsAreNat(bs)
<1>1. ASSUME NEW k, NEW any, NEW what PROVE Total(OfBills(bs, any, k, what), Requests) \in Nat
  <2> DEFINE f == OfBills(bs, any, k, what)
  <2>1. \A q \in Requests : f[q] \in Nat
    BY BilledIsNat DEF OfBills
  <2> HIDE DEF f
  <2>2. Total(f, Requests) \in Nat
    BY <2>1, RequestsAreFinite, TotalLaws
  <2> QED  BY <2>2 DEF f
<1>2. Total(NumberOfBills(bs), Requests) \in Nat
  <2> DEFINE f == NumberOfBills(bs)
  <2>1. \A q \in Requests : f[q] \in Nat
    BY BilledIsNat DEF NumberOfBills
  <2> HIDE DEF f
  <2>2. Total(f, Requests) \in Nat
    BY <2>1, RequestsAreFinite, TotalLaws
  <2> QED  BY <2>2 DEF f
<1> QED  BY <1>1, <1>2 DEF SumsAreNat

(* Sums of rows are numbers.                                               *)
LEMMA RowSumsAreNat ==
  ASSUME NEW ws \in [Requests -> Books!DailyRows \cup {None}], NEW k, NEW what
  PROVE  Total(OfRows(ws, k, what), Requests) \in Nat /\ Total(NumberOfRows(ws), Requests) \in Nat
<1> DEFINE f == OfRows(ws, k, what)
           g == NumberOfRows(ws)
<1>1. \A q \in Requests : f[q] \in Nat /\ g[q] \in Nat
  BY HeldIsNat DEF OfRows, NumberOfRows
<1> HIDE DEF f, g
<1>2. Total(f, Requests) \in Nat /\ Total(g, Requests) \in Nat
  BY <1>1, RequestsAreFinite, TotalLaws
<1> QED  BY <1>2 DEF f, g

(* A statement adds to the sums of its book and key what the entry has,    *)
(* and to no other.                                                        *)
LEMMA OneStatementCounts ==
  ASSUME NEW bs \in [Requests -> BillRecords], NEW r \in Requests, NEW c \in BillRecords,
         NEW cs, cs = [bs EXCEPT ![r] = c], NEW e \in Books!Entries, NEW book, NEW keys,
         Same(bs[r], c), bs[r].tokens = e.tokens, bs[r].cost = e.cost, bs[r].one = One(e),
         book = "daily" => e.key # None, book \in bs[r].owed, c.owed = bs[r].owed \ {book},
         \A k \in Keys : keys[k] # Removed => (bs[r].key = k <=> e.key = k)
  PROVE  BillsGrow(bs, cs, book, e, keys)
<1>0. OneBillCounts(bs, cs, r) /\ cs[r] = c
  BY OneBillChanges
<1>1. ASSUME NEW k \in Keys, NEW any, NEW what, keys[k] # Removed
      PROVE  Total(OfBills(cs, any, k, what), Requests)
               = Total(OfBills(bs, any, k, what), Requests)
                   + (IF any = book /\ e.key = k THEN Share(e, what) ELSE 0)
  <2>1. Total(OfBills(cs, any, k, what), Requests) + Booked(bs[r], any, k, what)
          = Total(OfBills(bs, any, k, what), Requests) + Booked(c, any, k, what)
    BY <1>0, ZenonT(30) DEF OneBillCounts
  <2>2. Total(OfBills(bs, any, k, what), Requests) \in Nat /\ Total(OfBills(cs, any, k, what), Requests) \in Nat
    <3>1. cs \in [Requests -> BillRecords]
      OBVIOUS
    <3> QED  BY <3>1, BillSumsAreNat DEF SumsAreNat
  <2>3. Booked(bs[r], any, k, what) \in Nat /\ Booked(c, any, k, what) \in Nat
    BY BilledIsNat
  <2>4. Booked(c, any, k, what)
          = Booked(bs[r], any, k, what) + (IF any = book /\ e.key = k THEN Share(e, what) ELSE 0)
    <3>1. CASE any = book
      <4>1. Booked(bs[r], any, k, what) = 0
        BY <3>1 DEF Booked
      <4>2. Booked(c, any, k, what) = IF e.key = k THEN Share(e, what) ELSE 0
        <5>1. any \notin c.owed /\ (c.key = k <=> e.key = k)
          BY <1>1, <3>1 DEF Same
        <5>2. e.key = k => Amount(c, what) = Share(e, what)
          BY UnitType DEF Same, Amount, Share, One
        <5> QED  BY <5>1, <5>2 DEF Booked
      <4>3. Booked(c, any, k, what) \in Nat
        BY <2>3
      <4> QED  BY <3>1, <4>1, <4>2, <4>3
    <3>2. CASE any # book
      <4>1. any \in c.owed <=> any \in bs[r].owed
        BY <3>2
      <4>2. Booked(c, any, k, what) = Booked(bs[r], any, k, what)
        BY <4>1 DEF Same, Booked, Amount
      <4> QED  BY <2>3, <3>2, <4>2
    <3> QED  BY <3>1, <3>2
  <2>5. (IF any = book /\ e.key = k THEN Share(e, what) ELSE 0) \in Nat
    BY DEF Books!Entries, Share
  <2> QED  BY <2>1, <2>2, <2>3, <2>4, <2>5
<1>2. Total(NumberOfBills(cs), Requests)
        = Total(NumberOfBills(bs), Requests) + (IF book = "daily" THEN 1 ELSE 0)
  <2>1. Total(NumberOfBills(cs), Requests) + Numbered(bs[r]) = Total(NumberOfBills(bs), Requests) + Numbered(c)
    BY <1>0, ZenonT(30) DEF OneBillCounts
  <2>2. Total(NumberOfBills(bs), Requests) \in Nat /\ Total(NumberOfBills(cs), Requests) \in Nat
    <3>1. cs \in [Requests -> BillRecords]
      OBVIOUS
    <3> QED  BY <3>1, BillSumsAreNat DEF SumsAreNat
  <2>3. Numbered(bs[r]) \in Nat /\ Numbered(c) = Numbered(bs[r]) + (IF book = "daily" THEN 1 ELSE 0)
    BY DEF Numbered, Same, One
  <2> QED  BY <2>1, <2>2, <2>3
<1> QED  BY <1>1, <1>2 DEF BillsGrow

(* Rounding moves a sum by half a unit at the most.                        *)
LEMMA RoundedNearly ==
  ASSUME NEW x \in Nat
  PROVE  2 * Books!Rounded(x) <= 2 * x + Unit /\ 2 * x <= 2 * Books!Rounded(x) + Unit
<1> DEFINE q == (2 * x + Unit) \div (2 * Unit)
           p == Unit * q
<1>1. Unit \in Nat /\ Unit > 0
  BY UnitType
<1>2. 2 * x + Unit \in Nat /\ 2 * Unit \in Nat /\ 2 * Unit > 0
  BY <1>1
<1>3. \A n, m \in Nat : m > 0 => n \div m \in Nat /\ m * (n \div m) <= n /\ n < m * (n \div m) + m
  OBVIOUS
<1>4. q \in Nat /\ (2 * Unit) * q <= 2 * x + Unit /\ 2 * x + Unit < (2 * Unit) * q + 2 * Unit
  BY <1>2, <1>3
<1> HIDE DEF q
<1>5. (2 * Unit) * q = 2 * p /\ p \in Nat
  BY <1>1, <1>4
<1>6. Books!Rounded(x) = p
  <2>1. Books!Rounded(x) = q * Unit
    BY DEF Books!Rounded, q
  <2> QED  BY <1>1, <1>4, <2>1
<1> HIDE DEF p
<1> QED  BY <1>1, <1>4, <1>5, <1>6

(* A key is charged by one statement more.                                 *)
LEMMA NearlyCharged ==
  ASSUME NEW spend \in Nat, NEW cost \in Nat, NEW y \in Nat, NEW n \in Nat, Near(spend, y, Unit * n)
  PROVE  Near(Books!Rounded(spend + cost), y + cost, Unit * (n + 1))
<1>1. Unit \in Nat
  BY UnitType
<1>2. Unit * (n + 1) = Unit * n + Unit /\ Unit * n \in Nat
  BY <1>1
<1> DEFINE z == Books!Rounded(spend + cost)
           m == Unit * n
<1>3. z \in Nat /\ 2 * z <= 2 * (spend + cost) + Unit /\ 2 * (spend + cost) <= 2 * z + Unit
  <2>1. spend + cost \in Nat
    OBVIOUS
  <2> HIDE DEF z
  <2>2. Books!Rounded(spend + cost) \in Nat
    BY <2>1, RoundedType
  <2> QED  BY <2>1, <2>2, RoundedNearly DEF z
<1>4. 2 * spend <= 2 * y + m /\ 2 * y <= 2 * spend + m /\ m \in Nat
  BY <1>2 DEF Near
<1> HIDE DEF z, m
<1>5. 2 * z <= 2 * (y + cost) + (m + Unit) /\ 2 * (y + cost) <= 2 * z + (m + Unit)
  BY <1>1, <1>3, <1>4
<1> QED  BY <1>2, <1>5 DEF z, m, Near

(* What a key agrees on, after one more statement.                         *)
LEMMA KeyGoesOn ==
  ASSUME NEW bs \in [Requests -> BillRecords], NEW cs, NEW ws \in [Requests -> Books!DailyRows \cup {None}],
         NEW vs, NEW k \in Keys, NEW n \in Nat, NEW spend \in Nat, KeyAgrees(k, n, spend, bs, ws),
         NEW e \in Books!Entries, NEW book, NEW keys, keys[k] # Removed, BillsGrow(bs, cs, book, e, keys),
         NEW n1, n1 = n + (IF book = "counter" /\ e.key = k THEN e.tokens ELSE 0),
         NEW spend1, spend1 = IF book = "spend" /\ e.key = k THEN Books!Rounded(spend + e.cost) ELSE spend,
         Total(OfRows(vs, k, "tokens"), Requests)
           = Total(OfRows(ws, k, "tokens"), Requests) + (IF book = "daily" /\ e.key = k THEN e.tokens ELSE 0),
         Total(OfRows(vs, k, "count"), Requests)
           = Total(OfRows(ws, k, "count"), Requests) + (IF book = "daily" /\ e.key = k THEN 1 ELSE 0)
  PROVE  KeyAgrees(k, n1, spend1, cs, vs)
<1> DEFINE Of(xs, any, what) == Total(OfBills(xs, any, k, what), Requests)
<1>1. \A any, what : Of(cs, any, what)
                       = Of(bs, any, what) + (IF any = book /\ e.key = k THEN Share(e, what) ELSE 0)
  BY DEF BillsGrow
<1>2. \A any, what : Of(bs, any, what) \in Nat
  BY BillSumsAreNat DEF SumsAreNat
<1>3. e.tokens \in Nat /\ e.cost \in Nat
  BY DEF Books!Entries
<1>4. Share(e, "tokens") = e.tokens /\ Share(e, "cost") = e.cost /\ Share(e, "one") = 1
  BY DEF Share
<1>5. /\ n = Of(bs, "counter", "tokens")
      /\ Total(OfRows(ws, k, "tokens"), Requests) = Of(bs, "daily", "tokens")
      /\ Total(OfRows(ws, k, "count"), Requests) = Of(bs, "daily", "one")
      /\ Near(spend, Of(bs, "spend", "cost"), Unit * Of(bs, "spend", "one"))
  BY DEF KeyAgrees
<1> HIDE DEF Of
<1>6. n1 = Of(cs, "counter", "tokens")
  BY <1>1, <1>4, <1>5
<1>7. Total(OfRows(vs, k, "tokens"), Requests) = Of(cs, "daily", "tokens")
  BY <1>1, <1>4, <1>5
<1>8. Total(OfRows(vs, k, "count"), Requests) = Of(cs, "daily", "one")
  BY <1>1, <1>4, <1>5
<1>9. Near(spend1, Of(cs, "spend", "cost"), Unit * Of(cs, "spend", "one"))
  <2>1. CASE book = "spend" /\ e.key = k
    <3>1. /\ Of(cs, "spend", "cost") = Of(bs, "spend", "cost") + e.cost
          /\ Of(cs, "spend", "one") = Of(bs, "spend", "one") + 1
      BY <1>1, <1>4, <2>1
    <3>2. spend1 = Books!Rounded(spend + e.cost)
      BY <2>1
    <3>3. PICK y \in Nat, m \in Nat : y = Of(bs, "spend", "cost") /\ m = Of(bs, "spend", "one")
      BY <1>2
    <3>4. Near(spend, y, Unit * m)
      BY <1>5, <3>3
    <3>5. Near(Books!Rounded(spend + e.cost), y + e.cost, Unit * (m + 1))
      BY <1>3, <3>4, NearlyCharged
    <3> QED  BY <3>1, <3>2, <3>3, <3>5
  <2>2. CASE ~(book = "spend" /\ e.key = k)
    <3>1. /\ Of(cs, "spend", "cost") = Of(bs, "spend", "cost")
          /\ Of(cs, "spend", "one") = Of(bs, "spend", "one")
      BY <1>1, <1>2, <2>2
    <3> QED  BY <1>5, <2>2, <3>1
  <2> QED  BY <2>1, <2>2
<1> QED  BY <1>6, <1>7, <1>8, <1>9 DEF Of, KeyAgrees

(* What a request has kept does not depend on others.                      *)
LEMMA StillKept ==
  ASSUME NEW q, NEW d, NEW l, NEW w, NEW keys, Kept(q, d, l, w, keys),
         NEW q1, q1.at = "answered" <=> q.at = "answered",
         NEW v, v = None <=> w = None, NEW locks, \A k \in Keys : locks[k] = Removed <=> keys[k] = Removed
  PROVE  Kept(q1, d, l, v, locks)
<1>1. d # <<>> =>
       \E e \in Books!Entries :
         /\ LeftOf(d, e)
         /\ "log" \notin Owed(d) =>
              /\ l # None /\ l.tokens = e.tokens /\ l.cost = e.cost
              /\ l.key = IF locks[e.key] = Removed THEN Removed ELSE e.key
  <2> SUFFICES ASSUME d # <<>>
               PROVE  \E e \in Books!Entries :
                        /\ LeftOf(d, e)
                        /\ "log" \notin Owed(d) =>
                             /\ l # None /\ l.tokens = e.tokens /\ l.cost = e.cost
                             /\ l.key = IF locks[e.key] = Removed THEN Removed ELSE e.key
    OBVIOUS
  <2>1. PICK e \in Books!Entries :
          /\ LeftOf(d, e)
          /\ "log" \notin Owed(d) =>
               /\ l # None /\ l.tokens = e.tokens /\ l.cost = e.cost
               /\ l.key = IF keys[e.key] = Removed THEN Removed ELSE e.key
    BY DEF Kept
  <2>2. "log" \notin Owed(d) => e.key \in Keys
    <3>1. Head(d).book \in Owed(d) /\ (e.key = None => Head(d).book = "log")
      BY <2>1, OneStatementLess
    <3>2. e.key \in Keys \cup {None}
      BY DEF Books!Entries
    <3> QED  BY <3>1, <3>2
  <2> QED  BY <2>1, <2>2
<1> QED  BY <1>1 DEF Kept

(* A statement of r is done.                                               *)
LEMMA StatementIsDone ==
  ASSUME Books!TypeOK, AllKept, NEW r \in Requests, duty[r] # <<>>,
         NEW book, book = Head(duty[r]).book, NEW e, e = Head(duty[r]).of,
         duty' = [duty EXCEPT ![r] = Tail(duty[r])],
         log' = IF book = "log" THEN [log EXCEPT ![r] = e] ELSE log,
         book = "log" /\ e.key # None => apiKey[e.key] # Removed,
         req' = req,
         \A q \in Requests : q # r \/ book # "daily" => (daily'[q] = None <=> daily[q] = None),
         \A k \in Keys : apiKey'[k] = Removed <=> apiKey[k] = Removed
  PROVE  /\ AllKept'
         /\ e \in Books!Entries
         /\ book = "daily" => daily[r] = None
         /\ Bills(duty, log) \in [Requests -> BillRecords]
         /\ BillsGrow(Bills(duty, log), Bills(duty, log)', book, e, apiKey)
<1>1. \A q \in Requests : /\ Kept(req[q], duty[q], log[q], daily[q], apiKey)
                          /\ log[q] \in Books!LogRows \cup {None}
  BY DEF AllKept, Books!TypeOK
<1>2. PICK l1 : l1 = IF book = "log" THEN e ELSE log[r]
  OBVIOUS
<1>3. PICK w1 : w1 = IF book = "daily" THEN daily'[r] ELSE daily[r]
  OBVIOUS
<1>4. PICK d : d = duty[r]
  OBVIOUS
<1>5. duty'[r] = Tail(d) /\ log'[r] = l1
  BY <1>2, <1>4 DEF Books!TypeOK
<1>6. \A q \in Requests \ {r} : duty'[q] = duty[q] /\ log'[q] = log[q]
  BY DEF Books!TypeOK
<1>7. Filed(req[r], d, log[r], l1, daily[r], w1, apiKey)
  <2>1. Kept(req[r], d, log[r], daily[r], apiKey) /\ log[r] \in Books!LogRows \cup {None} /\ d # <<>>
    BY <1>1, <1>4
  <2>2. l1 = IF Head(d).book = "log" THEN Head(d).of ELSE log[r]
    BY <1>2, <1>4
  <2>3. Head(d).book # "daily" => w1 = daily[r]
    BY <1>3, <1>4
  <2>4. Head(d).book = "log" /\ Head(d).of.key # None => apiKey[Head(d).of.key] # Removed
    BY <1>4
  <2> QED  BY <2>1, <2>2, <2>3, <2>4, OneBookMore
<1>8. AllKept'
  <2>1. Kept(req[r], duty'[r], log'[r], daily'[r], apiKey')
    <3>1. daily'[r] = None <=> w1 = None
      BY <1>3
    <3>2. \A k \in Keys : apiKey'[k] = Removed <=> apiKey[k] = Removed
      OBVIOUS
    <3>3. Kept(req[r], Tail(d), l1, w1, apiKey)
      BY <1>7 DEF Filed
    <3>4. Kept(req[r], Tail(d), l1, daily'[r], apiKey')
      <4> HIDE DEF AllKept
      <4> QED  BY <3>1, <3>2, <3>3, StillKept
    <3> QED  BY <1>5, <3>4, Zenon
  <2>2. ASSUME NEW q \in Requests \ {r} PROVE Kept(req[q], duty'[q], log'[q], daily'[q], apiKey')
    <3>1. daily'[q] = None <=> daily[q] = None
      OBVIOUS
    <3>2. \A k \in Keys : apiKey'[k] = Removed <=> apiKey[k] = Removed
      OBVIOUS
    <3>3. Kept(req[q], duty[q], log[q], daily'[q], apiKey')
      BY <1>1, <3>1, <3>2, StillKept
    <3> QED  BY <1>6, <3>3
  <2> QED  BY <2>1, <2>2 DEF AllKept
<1>9. Bills(duty, log) \in [Requests -> BillRecords]
  BY BillsType
<1> DEFINE bs == Bills(duty, log)
           cs == Bills(duty, log)'
           c  == Bill(Tail(d), l1)
<1>10. c \in BillRecords
  <2>1. Kept(req[r], Tail(d), l1, w1, apiKey) /\ l1 \in Books!LogRows \cup {None}
    BY <1>7 DEF Filed
  <2> QED  BY <2>1, BillType
<1>11. bs[r] = Bill(d, log[r]) /\ cs = [bs EXCEPT ![r] = c]
  <2>1. \A q \in Requests : cs[q] = Bill(duty'[q], log'[q]) /\ bs[q] = Bill(duty[q], log[q])
    BY DEF Bills
  <2>2. cs = [q \in Requests |-> cs[q]] /\ bs = [q \in Requests |-> bs[q]]
    BY DEF Bills
  <2> HIDE DEF bs, cs, c
  <2>3. cs[r] = c
    BY <1>5, <2>1, Zenon DEF c
  <2>4. \A q \in Requests \ {r} : cs[q] = bs[q]
    BY <1>6, <2>1
  <2> QED  BY <1>4, <2>1, <2>2, <2>3, <2>4
<1> HIDE DEF bs, cs, c
<1>12. BillsGrow(bs, cs, book, e, apiKey)
  <2>1. /\ Same(bs[r], c) /\ bs[r].tokens = e.tokens /\ bs[r].cost = e.cost /\ bs[r].one = One(e)
        /\ book = "daily" => e.key # None
        /\ book \in bs[r].owed /\ c.owed = bs[r].owed \ {book}
        /\ \A k \in Keys : apiKey[k] # Removed => (bs[r].key = k <=> e.key = k)
    BY <1>4, <1>7, <1>11 DEF c, Filed
  <2>2. bs \in [Requests -> BillRecords]
    BY <1>9 DEF bs
  <2>3. e \in Books!Entries
    BY <1>4, <1>7 DEF Filed
  <2> QED  BY <1>10, <1>11, <2>1, <2>2, <2>3, OneStatementCounts
<1>13. e \in Books!Entries /\ (book = "daily" => daily[r] = None)
  BY <1>4, <1>7 DEF Filed
<1> QED  BY <1>8, <1>9, <1>12, <1>13 DEF bs, cs

(* Keys go on, each by its share.                                          *)
LEMMA KeysGoOn ==
  ASSUME Books!TypeOK, KeysAgree, NEW book, NEW e \in Books!Entries,
         Bills(duty, log) \in [Requests -> BillRecords],
         BillsGrow(Bills(duty, log), Bills(duty, log)', book, e, apiKey),
         Books!Live' = Books!Live,
         \A k \in Books!Live :
           /\ tokens'[k] + expired'[k]
                = (tokens[k] + expired[k]) + (IF book = "counter" /\ e.key = k THEN e.tokens ELSE 0)
           /\ apiKey'[k].spend = IF book = "spend" /\ e.key = k
                                   THEN Books!Rounded(apiKey[k].spend + e.cost) ELSE apiKey[k].spend
           /\ Total(OfRows(daily', k, "tokens"), Requests)
                = Total(OfRows(daily, k, "tokens"), Requests) + (IF book = "daily" /\ e.key = k THEN e.tokens ELSE 0)
           /\ Total(OfRows(daily', k, "count"), Requests)
                = Total(OfRows(daily, k, "count"), Requests) + (IF book = "daily" /\ e.key = k THEN 1 ELSE 0)
  PROVE  KeysAgree'
<1> SUFFICES ASSUME NEW k \in Books!Live
             PROVE  KeyAgrees(k, tokens'[k] + expired'[k], apiKey'[k].spend, Bills(duty, log)', daily')
  BY DEF KeysAgree
<1>1. k \in Keys /\ apiKey[k] # Removed /\ tokens[k] + expired[k] \in Nat /\ apiKey[k].spend \in Nat
  BY DEF Books!Live, Books!TypeOK, Books!KeyRows
<1>2. daily \in [Requests -> Books!DailyRows \cup {None}]
  BY DEF Books!TypeOK
<1>3. PICK bs, cs, n, n1, spend, spend1 :
        /\ bs = Bills(duty, log) /\ cs = Bills(duty, log)'
        /\ n = tokens[k] + expired[k] /\ n1 = tokens'[k] + expired'[k]
        /\ spend = apiKey[k].spend /\ spend1 = apiKey'[k].spend
  OBVIOUS
<1>4. KeyAgrees(k, n, spend, bs, daily) /\ BillsGrow(bs, cs, book, e, apiKey)
  BY <1>3 DEF KeysAgree
<1>5. /\ n1 = n + (IF book = "counter" /\ e.key = k THEN e.tokens ELSE 0)
      /\ spend1 = IF book = "spend" /\ e.key = k THEN Books!Rounded(spend + e.cost) ELSE spend
      /\ n \in Nat /\ spend \in Nat
  BY <1>1, <1>3
<1>6. KeyAgrees(k, n1, spend1, cs, daily')
  BY <1>1, <1>2, <1>3, <1>4, <1>5, KeyGoesOn
<1> QED  BY <1>3, <1>6

(* A row that is added to, or a new one.                                   *)
RowsGain(ws, vs, e) ==
  /\ \A k : /\ Total(OfRows(vs, k, "tokens"), Requests)
                 = Total(OfRows(ws, k, "tokens"), Requests) + (IF e.key = k THEN e.tokens ELSE 0)
            /\ Total(OfRows(vs, k, "count"), Requests)
                 = Total(OfRows(ws, k, "count"), Requests) + (IF e.key = k THEN 1 ELSE 0)
  /\ Total(NumberOfRows(vs), Requests) = Total(NumberOfRows(ws), Requests) + 1

(* The totals gain what the entry has, whether it came to a row or made    *)
(* one.                                                                    *)
LEMMA RowsGrow ==
  ASSUME NEW ws \in [Requests -> Books!DailyRows \cup {None}], NEW r \in Requests, NEW w \in Books!DailyRows,
         NEW e \in Books!Entries, NEW vs, vs = [ws EXCEPT ![r] = w],
         w.key = e.key,
         \/ ws[r] = None /\ w.tokens = e.tokens /\ w.count = 1
         \/ ws[r] # None /\ ws[r].key = e.key /\ w.tokens = ws[r].tokens + e.tokens /\ w.count = ws[r].count + 1
  PROVE  RowsGain(ws, vs, e)
<1>1. OneRowCounts(ws, vs, r) /\ vs[r] = w /\ vs \in [Requests -> Books!DailyRows \cup {None}] /\ w # None
  BY OneRowChanges, UnitType
<1>2. e.tokens \in Nat /\ (ws[r] # None => ws[r].tokens \in Nat /\ ws[r].count \in Nat)
  BY DEF Books!Entries, Books!DailyRows
<1>3. \A k : /\ Held(w, k, "tokens") = Held(ws[r], k, "tokens") + (IF e.key = k THEN e.tokens ELSE 0)
             /\ Held(w, k, "count") = Held(ws[r], k, "count") + (IF e.key = k THEN 1 ELSE 0)
  BY <1>1, <1>2 DEF Held
<1>4. Number(w) = Number(ws[r]) + 1
  BY <1>1, <1>2 DEF Number
<1>5. \A k, what : Held(ws[r], k, what) \in Nat
  BY HeldIsNat
<1>6. \A k, what : Total(OfRows(ws, k, what), Requests) \in Nat /\ Total(OfRows(vs, k, what), Requests) \in Nat
  BY <1>1, RowSumsAreNat
<1>11. /\ Total(NumberOfRows(ws), Requests) \in Nat /\ Total(NumberOfRows(vs), Requests) \in Nat
       /\ Number(ws[r]) \in Nat
  BY <1>1, RowSumsAreNat, HeldIsNat
<1>7. \A k, what : Total(OfRows(vs, k, what), Requests) + Held(ws[r], k, what)
                     = Total(OfRows(ws, k, what), Requests) + Held(w, k, what)
  BY <1>1, Zenon DEF OneRowCounts
<1>8. Total(NumberOfRows(vs), Requests) + Number(ws[r]) = Total(NumberOfRows(ws), Requests) + Number(w)
  BY <1>1, Zenon DEF OneRowCounts
<1>9. ASSUME NEW k
      PROVE  /\ Total(OfRows(vs, k, "tokens"), Requests)
                  = Total(OfRows(ws, k, "tokens"), Requests) + (IF e.key = k THEN e.tokens ELSE 0)
             /\ Total(OfRows(vs, k, "count"), Requests)
                  = Total(OfRows(ws, k, "count"), Requests) + (IF e.key = k THEN 1 ELSE 0)
  <2>1. ASSUME NEW what, NEW c \in Nat, Held(w, k, what) = Held(ws[r], k, what) + c
        PROVE  Total(OfRows(vs, k, what), Requests) = Total(OfRows(ws, k, what), Requests) + c
    <3>1. PICK n, n1, m, m1 : /\ n = Total(OfRows(ws, k, what), Requests) /\ m = Held(ws[r], k, what)
                              /\ n1 = Total(OfRows(vs, k, what), Requests) /\ m1 = Held(w, k, what)
      OBVIOUS
    <3>2. n \in Nat /\ n1 \in Nat /\ m \in Nat /\ n1 + m = n + m1
      BY <1>5, <1>6, <1>7, <3>1
    <3>3. m1 = m + c
      BY <2>1, <3>1
    <3>4. n1 = n + c
      BY <3>2, <3>3
    <3> QED  BY <3>1, <3>4
  <2>2. (IF e.key = k THEN e.tokens ELSE 0) \in Nat /\ (IF e.key = k THEN 1 ELSE 0) \in Nat
    BY <1>2
  <2> QED  BY <1>3, <2>1, <2>2
<1>10. Total(NumberOfRows(vs), Requests) = Total(NumberOfRows(ws), Requests) + 1
  BY <1>4, <1>8, <1>11
<1> QED  BY <1>9, <1>10, Zenon DEF RowsGain

(* What the statements of a goroutine have in common.                      *)
LEMMA StatementCounts ==
  ASSUME Books!TypeOK, Agreed, NEW r \in Requests, duty[r] # <<>>,
         NEW book, book = Head(duty[r]).book, NEW e, e = Head(duty[r]).of,
         duty' = [duty EXCEPT ![r] = Tail(duty[r])], req' = req,
         log' = IF book = "log" THEN [log EXCEPT ![r] = e] ELSE log,
         book = "log" /\ e.key # None => apiKey[e.key] # Removed,
         book # "daily" => daily' = daily,
         \A q \in Requests : q # r => (daily'[q] = None <=> daily[q] = None),
         \A k \in Keys : apiKey'[k] = Removed <=> apiKey[k] = Removed
  PROVE  /\ AllKept' /\ Books!Live' = Books!Live
         /\ e \in Books!Entries
         /\ book = "daily" => daily[r] = None
         /\ Bills(duty, log) \in [Requests -> BillRecords]
         /\ BillsGrow(Bills(duty, log), Bills(duty, log)', book, e, apiKey)
<1>1. AllKept
  BY DEF Agreed
<1>2. \A q \in Requests : q # r \/ book # "daily" => (daily'[q] = None <=> daily[q] = None)
  OBVIOUS
<1>3. Books!Live' = Books!Live
  BY DEF Books!Live
<1> QED  BY <1>1, <1>2, <1>3, StatementIsDone

(* No other statement than that of the daily totals changes their number.  *)
LEMMA NumbersStay ==
  ASSUME Agreed, NEW book, book # "daily", NEW e, daily' = daily,
         Bills(duty, log) \in [Requests -> BillRecords],
         BillsGrow(Bills(duty, log), Bills(duty, log)', book, e, apiKey)
  PROVE  NumbersAgree(Bills(duty, log), daily)'
<1>1. NumbersAgree(Bills(duty, log), daily)
  BY DEF Agreed
<1>2. Total(NumberOfBills(Bills(duty, log)'), Requests) = Total(NumberOfBills(Bills(duty, log)), Requests) + 0
  BY DEF BillsGrow
<1>3. Total(NumberOfBills(Bills(duty, log)), Requests) \in Nat
  BY BillSumsAreNat DEF SumsAreNat
<1>4. Total(NumberOfBills(Bills(duty, log)'), Requests) = Total(NumberOfBills(Bills(duty, log)), Requests)
  BY <1>2, <1>3
<1> QED  BY <1>1, <1>4, Zenon DEF NumbersAgree

(* The books agree after tokens are counted.                               *)
LEMMA ConsumeAgrees ==
  ASSUME Books!TypeOK, Agreed, NEW r \in Requests, Books!ConsumeTokens(r)
  PROVE  Agreed'
<1>1. PICK e : e = Head(duty[r]).of
  OBVIOUS
<1>2. /\ duty[r] # <<>> /\ Head(duty[r]).book = "counter"
      /\ duty' = [duty EXCEPT ![r] = Tail(duty[r])]
      /\ tokens' = [tokens EXCEPT ![e.key] = tokens[e.key] + e.tokens] /\ expired' = expired
      /\ req' = req /\ apiKey' = apiKey /\ log' = log /\ daily' = daily
  BY <1>1 DEF Books!ConsumeTokens, Books!Due, Books!Onward, Books!Entered
<1>3. /\ AllKept' /\ Books!Live' = Books!Live /\ e \in Books!Entries
      /\ Bills(duty, log) \in [Requests -> BillRecords]
      /\ BillsGrow(Bills(duty, log), Bills(duty, log)', "counter", e, apiKey)
  BY <1>1, <1>2, StatementCounts
<1>4. NumbersAgree(Bills(duty, log), daily)'
  BY <1>2, <1>3, NumbersStay
<1>5. \A k \in Books!Live :
        /\ tokens'[k] + expired'[k] = (tokens[k] + expired[k]) + (IF e.key = k THEN e.tokens ELSE 0)
        /\ apiKey'[k].spend = apiKey[k].spend
        /\ Total(OfRows(daily', k, "tokens"), Requests) = Total(OfRows(daily, k, "tokens"), Requests) + 0
        /\ Total(OfRows(daily', k, "count"), Requests) = Total(OfRows(daily, k, "count"), Requests) + 0
  <2>1. \A k \in Keys : tokens[k] \in Nat /\ expired[k] \in Nat
    BY DEF Books!TypeOK
  <2>2. \A k, what : Total(OfRows(daily, k, what), Requests) \in Nat
    BY RowSumsAreNat DEF Books!TypeOK
  <2>3. e.key \in Keys
    BY <1>1, <1>2, LoggedAlone DEF Agreed
  <2>4. e.tokens \in Nat
    BY <1>3 DEF Books!Entries
  <2> QED  BY <1>2, <1>3, <2>1, <2>2, <2>3, <2>4 DEF Books!Live, Books!TypeOK
<1>6. KeysAgree'
  <2>1. KeysAgree
    BY DEF Agreed
  <2> QED  BY <1>3, <1>5, <2>1, KeysGoOn
<1>7. Apart(daily)'
  BY <1>2 DEF Agreed
<1> QED  BY <1>3, <1>4, <1>6, <1>7 DEF Agreed

(* They agree after a row is logged.                                       *)
LEMMA InsertAgrees ==
  ASSUME Books!TypeOK, Agreed, NEW r \in Requests, Books!InsertSpendLog(r)
  PROVE  Agreed'
<1>1. PICK e : e = Head(duty[r]).of
  OBVIOUS
<1>2. /\ duty[r] # <<>> /\ Head(duty[r]).book = "log" /\ (e.key # None => apiKey[e.key] # Removed)
      /\ duty' = [duty EXCEPT ![r] = Tail(duty[r])]
      /\ log' = [log EXCEPT ![r] = e]
      /\ req' = req /\ apiKey' = apiKey /\ tokens' = tokens /\ expired' = expired /\ daily' = daily
  BY <1>1 DEF Books!InsertSpendLog, Books!Due, Books!Onward, Books!Entered, Books!Live
<1>3. /\ AllKept' /\ Books!Live' = Books!Live /\ e \in Books!Entries
      /\ Bills(duty, log) \in [Requests -> BillRecords]
      /\ BillsGrow(Bills(duty, log), Bills(duty, log)', "log", e, apiKey)
  BY <1>1, <1>2, StatementCounts
<1>4. NumbersAgree(Bills(duty, log), daily)'
  BY <1>2, <1>3, NumbersStay
<1>5. \A k \in Books!Live :
        /\ tokens'[k] + expired'[k] = (tokens[k] + expired[k]) + 0
        /\ apiKey'[k].spend = apiKey[k].spend
        /\ Total(OfRows(daily', k, "tokens"), Requests) = Total(OfRows(daily, k, "tokens"), Requests) + 0
        /\ Total(OfRows(daily', k, "count"), Requests) = Total(OfRows(daily, k, "count"), Requests) + 0
  <2>1. \A k \in Keys : tokens[k] \in Nat /\ expired[k] \in Nat
    BY DEF Books!TypeOK
  <2>2. \A k, what : Total(OfRows(daily, k, what), Requests) \in Nat
    BY RowSumsAreNat DEF Books!TypeOK
  <2> QED  BY <1>2, <2>1, <2>2 DEF Books!Live
<1>6. KeysAgree'
  <2>1. KeysAgree
    BY DEF Agreed
  <2> QED  BY <1>3, <1>5, <2>1, KeysGoOn
<1>7. Apart(daily)'
  BY <1>2 DEF Agreed
<1> QED  BY <1>3, <1>4, <1>6, <1>7 DEF Agreed

(* They agree after a key is charged, but for another rounding.            *)
LEMMA ChargeAgrees ==
  ASSUME Books!TypeOK, Agreed, NEW r \in Requests, Books!UpdateKeySpend(r)
  PROVE  Agreed'
<1>1. PICK e : e = Head(duty[r]).of
  OBVIOUS
<1>2. /\ duty[r] # <<>> /\ Head(duty[r]).book = "spend"
      /\ duty' = [duty EXCEPT ![r] = Tail(duty[r])]
      /\ apiKey' = [apiKey EXCEPT ![e.key] = Books!Charged(apiKey[e.key], e.cost)]
      /\ req' = req /\ log' = log /\ tokens' = tokens /\ expired' = expired /\ daily' = daily
  BY <1>1 DEF Books!UpdateKeySpend, Books!Due, Books!Onward, Books!Entered, Books!books
<1>3. \A k \in Keys :
        /\ apiKey'[k] = Removed <=> apiKey[k] = Removed
        /\ apiKey[k] # Removed =>
             apiKey'[k].spend = IF e.key = k THEN Books!Rounded(apiKey[k].spend + e.cost) ELSE apiKey[k].spend
  <2>1. \A k \in Keys : apiKey[k] # Removed => apiKey[k] \in Books!KeyRows /\ apiKey[k].spend \in Nat
    BY DEF Books!TypeOK, Books!KeyRows
  <2>2. e \in Books!Entries
    BY <1>1, <1>2, DueType DEF Books!Entered
  <2>3. e.key \in Keys /\ e.cost \in Nat
    BY <1>1, <1>2, <2>2, LoggedAlone DEF Agreed, Books!Entries
  <2>4. \A row \in Books!KeyRows : \A m \in Nat :
          [row EXCEPT !.spend = m] \in Books!KeyRows /\ [row EXCEPT !.spend = m].spend = m
    BY DEF Books!KeyRows
  <2>5. \A k \in Keys : apiKey'[k] = IF k = e.key THEN Books!Charged(apiKey[k], e.cost) ELSE apiKey[k]
    BY <1>2, <2>3 DEF Books!TypeOK
  <2>6. ASSUME apiKey[e.key] # Removed
        PROVE  /\ Books!Charged(apiKey[e.key], e.cost) # Removed
               /\ Books!Charged(apiKey[e.key], e.cost).spend = Books!Rounded(apiKey[e.key].spend + e.cost)
    <3>1. apiKey[e.key] \in Books!KeyRows /\ apiKey[e.key].spend + e.cost \in Nat
      BY <2>1, <2>3, <2>6
    <3>2. PICK m \in Nat : m = Books!Rounded(apiKey[e.key].spend + e.cost)
      BY <3>1, RoundedType
    <3>3. Books!Charged(apiKey[e.key], e.cost) = [apiKey[e.key] EXCEPT !.spend = m]
      BY <2>6, <3>2 DEF Books!Charged
    <3> QED  BY <2>4, <3>1, <3>2, <3>3, UnitType
  <2>7. apiKey[e.key] = Removed => Books!Charged(apiKey[e.key], e.cost) = Removed
    BY DEF Books!Charged
  <2> QED  BY <2>5, <2>6, <2>7
<1>4. /\ AllKept' /\ Books!Live' = Books!Live /\ e \in Books!Entries
      /\ Bills(duty, log) \in [Requests -> BillRecords]
      /\ BillsGrow(Bills(duty, log), Bills(duty, log)', "spend", e, apiKey)
  <2>1. \A k \in Keys : apiKey'[k] = Removed <=> apiKey[k] = Removed
    BY <1>3
  <2> QED  BY <1>1, <1>2, <2>1, StatementCounts
<1>5. NumbersAgree(Bills(duty, log), daily)'
  BY <1>2, <1>4, NumbersStay
<1>6. \A k \in Books!Live :
        /\ tokens'[k] + expired'[k] = (tokens[k] + expired[k]) + 0
        /\ apiKey'[k].spend = IF e.key = k THEN Books!Rounded(apiKey[k].spend + e.cost) ELSE apiKey[k].spend
        /\ Total(OfRows(daily', k, "tokens"), Requests) = Total(OfRows(daily, k, "tokens"), Requests) + 0
        /\ Total(OfRows(daily', k, "count"), Requests) = Total(OfRows(daily, k, "count"), Requests) + 0
  <2>1. \A k \in Keys : tokens[k] \in Nat /\ expired[k] \in Nat
    BY DEF Books!TypeOK
  <2>2. \A k, what : Total(OfRows(daily, k, what), Requests) \in Nat
    BY RowSumsAreNat DEF Books!TypeOK
  <2> QED  BY <1>2, <1>3, <2>1, <2>2 DEF Books!Live
<1>7. KeysAgree'
  <2>1. KeysAgree
    BY DEF Agreed
  <2> QED  BY <1>4, <1>6, <2>1, KeysGoOn
<1>8. Apart(daily)'
  BY <1>2 DEF Agreed
<1> QED  BY <1>4, <1>5, <1>7, <1>8 DEF Agreed

(* They agree after the daily totals are added to.                         *)
LEMMA UpsertAgrees ==
  ASSUME Books!TypeOK, Agreed, NEW r \in Requests, Books!UpsertDailySpend(r)
  PROVE  Agreed'
<1>1. PICK e : e = Head(duty[r]).of
  OBVIOUS
<1>2. /\ duty[r] # <<>> /\ Head(duty[r]).book = "daily"
      /\ duty' = [duty EXCEPT ![r] = Tail(duty[r])]
      /\ daily' = IF Books!Conflicting(e) = {}
                  THEN [daily EXCEPT ![r] = [key |-> e.key, team |-> e.team, tokens |-> e.tokens,
                                             cost |-> Books!Rounded(e.cost), count |-> 1]]
                  ELSE [q \in Requests |-> IF q \in Books!Conflicting(e)
                                           THEN Books!Increased(daily[q], e) ELSE daily[q]]
      /\ req' = req /\ log' = log /\ tokens' = tokens /\ expired' = expired /\ apiKey' = apiKey
  BY <1>1 DEF Books!UpsertDailySpend, Books!Due, Books!Onward, Books!Entered
<1>3. e \in Books!Entries
  BY <1>1, <1>2, DueType DEF Books!Entered
<1>4. e.key \in Keys /\ e.team \in Teams \cup {None} /\ e.tokens \in Nat /\ e.cost \in Nat /\ e.key # Removed
  <2>1. e.key \in Keys
    BY <1>1 DEF Books!UpsertDailySpend, Books!Entered, Books!Live
  <2> QED  BY <1>3, <2>1, UnitType DEF Books!Entries
<1>5. daily \in [Requests -> Books!DailyRows \cup {None}] /\ None \notin Books!DailyRows
  BY UnitType DEF Books!TypeOK
<1>6. daily[r] = None
  <2>1. Kept(req[r], duty[r], log[r], daily[r], apiKey)
    BY DEF Agreed, AllKept
  <2>2. PICK x \in Books!Entries : LeftOf(duty[r], x)
    BY <1>2, <2>1 DEF Kept
  <2>3. "daily" \in Owed(duty[r])
    <3>1. Head(duty[r]).book \in Owed(duty[r])
      BY <1>2, <2>2, OneStatementLess
    <3> QED  BY <1>2, <3>1
  <2> QED  BY <2>1, <2>3 DEF Kept
<1>7. PICK q \in Requests, w \in Books!DailyRows :
        /\ daily' = [daily EXCEPT ![q] = w]
        /\ w.key = e.key /\ w.team = e.team
        /\ q = r \/ daily[q] # None
        /\ \/ daily[q] = None /\ w.tokens = e.tokens /\ w.count = 1
           \/ daily[q] # None /\ daily[q].key = e.key /\ w.tokens = daily[q].tokens + e.tokens
                              /\ w.count = daily[q].count + 1
        /\ \A p \in Requests \ {q} : daily[p] # None => ~(daily[p].key = e.key /\ daily[p].team = e.team /\ e.team # None)
  <2>1. CASE Books!Conflicting(e) = {}
    <3>1. PICK w : w = [key |-> e.key, team |-> e.team, tokens |-> e.tokens,
                        cost |-> Books!Rounded(e.cost), count |-> 1]
      OBVIOUS
    <3>2. w \in Books!DailyRows /\ w.key = e.key /\ w.team = e.team /\ w.tokens = e.tokens /\ w.count = 1
      BY <1>4, <3>1, RoundedType DEF Books!DailyRows
    <3>3. \A p \in Requests : daily[p] # None => ~(daily[p].key = e.key /\ daily[p].team = e.team /\ e.team # None)
      BY <1>4, <2>1 DEF Books!Conflicting
    <3> QED  BY <1>2, <1>6, <2>1, <3>1, <3>2, <3>3
  <2>2. CASE Books!Conflicting(e) # {}
    <3>1. PICK q \in Books!Conflicting(e) : TRUE
      BY <2>2
    <3>2. /\ q \in Requests /\ daily[q] \in Books!DailyRows /\ daily[q].key = e.key /\ daily[q].team = e.team
          /\ e.team # None /\ daily[q] # None
      BY <1>5, <3>1 DEF Books!Conflicting
    <3>3. \A p \in Requests \ {q} : daily[p] # None => ~(daily[p].key = e.key /\ daily[p].team = e.team)
      BY <1>4, <3>2 DEF Agreed, Apart
    <3>4. \A p \in Requests : p \in Books!Conflicting(e) <=> p = q
      BY <3>1, <3>3 DEF Books!Conflicting
    <3>5. PICK w : w = Books!Increased(daily[q], e)
      OBVIOUS
    <3>6. /\ w \in Books!DailyRows /\ w.key = e.key /\ w.team = e.team
          /\ w.tokens = daily[q].tokens + e.tokens /\ w.count = daily[q].count + 1
      <4>1. daily[q].tokens + e.tokens \in Nat /\ daily[q].count + 1 \in Nat /\ daily[q].cost + e.cost \in Nat
        BY <1>4, <3>2 DEF Books!DailyRows
      <4>2. Books!Rounded(daily[q].cost + e.cost) \in Nat
        BY <4>1, RoundedType
      <4> QED  BY <3>2, <3>5, <4>1, <4>2 DEF Books!DailyRows, Books!Increased
    <3>7. daily' = [daily EXCEPT ![q] = w]
      <4>1. daily' = [p \in Requests |-> IF p = q THEN w ELSE daily[p]]
        BY <1>2, <2>2, <3>4, <3>5
      <4> QED  BY <1>5, <3>2, <4>1
    <3> QED  BY <3>2, <3>3, <3>6, <3>7
  <2> QED  BY <2>1, <2>2
<1>8. \A p \in Requests : p # r => (daily'[p] = None <=> daily[p] = None)
  BY <1>5, <1>7
<1>9. /\ AllKept' /\ Books!Live' = Books!Live
      /\ Bills(duty, log) \in [Requests -> BillRecords]
      /\ BillsGrow(Bills(duty, log), Bills(duty, log)', "daily", e, apiKey)
  BY <1>1, <1>2, <1>8, StatementCounts
<1>14. RowsGain(daily, daily', e)
  BY <1>3, <1>5, <1>7, RowsGrow
<1>10. /\ \A k : /\ Total(OfRows(daily', k, "tokens"), Requests)
                      = Total(OfRows(daily, k, "tokens"), Requests) + (IF e.key = k THEN e.tokens ELSE 0)
                 /\ Total(OfRows(daily', k, "count"), Requests)
                      = Total(OfRows(daily, k, "count"), Requests) + (IF e.key = k THEN 1 ELSE 0)
       /\ Total(NumberOfRows(daily'), Requests) = Total(NumberOfRows(daily), Requests) + 1
  BY <1>14, Zenon DEF RowsGain
<1>11. NumbersAgree(Bills(duty, log), daily)'
  <2>1. Total(NumberOfRows(daily), Requests) = Total(NumberOfBills(Bills(duty, log)), Requests)
    BY DEF Agreed, NumbersAgree
  <2>2. Total(NumberOfBills(Bills(duty, log)'), Requests) = Total(NumberOfBills(Bills(duty, log)), Requests) + 1
    BY <1>9 DEF BillsGrow
  <2>3. Total(NumberOfRows(daily'), Requests) = Total(NumberOfBills(Bills(duty, log)'), Requests)
    BY <1>10, <2>1, <2>2, Zenon
  <2> QED  BY <2>3, Zenon DEF NumbersAgree
<1>12. KeysAgree'
  <2>1. KeysAgree
    BY DEF Agreed
  <2>2. \A k \in Books!Live :
          tokens'[k] + expired'[k] = (tokens[k] + expired[k]) + 0 /\ apiKey'[k].spend = apiKey[k].spend
    BY <1>2 DEF Books!Live, Books!TypeOK
  <2> QED  BY <1>3, <1>9, <1>10, <2>1, <2>2, KeysGoOn
<1>13. Apart(daily)'
  BY <1>5, <1>7 DEF Agreed, Apart
<1> QED  BY <1>9, <1>11, <1>12, <1>13 DEF Agreed

(* The endpoints' answers: a new bill, of which nothing is in the books.   *)
AllOwe(d, e) ==
  /\ LeftOf(d, e) /\ d # <<>> /\ "log" \in Owed(d)
  /\ e.key # None => /\ "daily" \in Owed(d)
                     /\ "counter" \notin Owed(d) => e.tokens = 0
                     /\ "spend" \notin Owed(d) => e.cost = 0

(* An answer leaves its request owing every book it has to do with.        *)
LEMMA AnswerOwes ==
  ASSUME Books!TypeOK, NEW r \in Requests, req[r].at = "called",
         NEW p \in Nat, NEW c \in Nat, NEW n \in Nat,
         Books!Answer(r, [prompt |-> p, completion |-> c, counted |-> n])
  PROVE  \E e \in Books!Entries : \E d :
           /\ AllOwe(d, e)
           /\ req' = [req EXCEPT ![r] = [at |-> "answered"]]
           /\ duty' = [duty EXCEPT ![r] = d]
<1> DEFINE u == [prompt |-> p, completion |-> c, counted |-> n]
           e == Books!Entry(r, p + c, Books!Calculate(req[r].endpoint, u))
           d == Books!logSpendAsync(e)
<1>1. req[r] \in Books!Calls
  BY DEF Books!TypeOK
<1>2. req[r].key \in Keys \cup {None} /\ req[r].team \in Teams \cup {None} /\ req[r].endpoint \in Books!Endpoints
  BY <1>1 DEF Books!Calls
<1>3. Books!Calculate(req[r].endpoint, u) \in Nat
  BY <1>2, CostType
<1>4. e \in Books!Entries
  <2> HIDE DEF u
  <2> QED  BY <1>2, <1>3 DEF Books!Entry, Books!Entries
<1>5. /\ req' = [req EXCEPT ![r] = [at |-> "answered"]]
      /\ duty' = [duty EXCEPT ![r] = d]
  BY DEF Books!Answer
<1>6. AllOwe(d, e)
  <2> HIDE DEF e
  <2>1. /\ LeftOf(d, e) /\ d # <<>> /\ "log" \in Owed(d)
        /\ e.key # None => /\ "daily" \in Owed(d)
                           /\ "counter" \notin Owed(d) => e.tokens = 0
                           /\ "spend" \notin Owed(d) => e.cost = 0
    BY <1>4, AllIsOwed
  <2> QED  BY <2>1 DEF AllOwe
<1> QED  BY <1>4, <1>5, <1>6, Zenon

(* Sums that a new bill leaves alone; a charge of nothing may be one more. *)
SameSums(bs, cs, ws, vs, k) ==
  /\ Total(OfBills(cs, "counter", k, "tokens"), Requests) = Total(OfBills(bs, "counter", k, "tokens"), Requests)
  /\ Total(OfBills(cs, "daily", k, "tokens"), Requests) = Total(OfBills(bs, "daily", k, "tokens"), Requests)
  /\ Total(OfBills(cs, "daily", k, "one"), Requests) = Total(OfBills(bs, "daily", k, "one"), Requests)
  /\ Total(OfBills(cs, "spend", k, "cost"), Requests) = Total(OfBills(bs, "spend", k, "cost"), Requests)
  /\ Total(OfBills(cs, "spend", k, "one"), Requests) >= Total(OfBills(bs, "spend", k, "one"), Requests)
  /\ Total(OfRows(vs, k, "tokens"), Requests) = Total(OfRows(ws, k, "tokens"), Requests)
  /\ Total(OfRows(vs, k, "count"), Requests) = Total(OfRows(ws, k, "count"), Requests)

(* A key agrees while the sums are the same.                               *)
LEMMA KeyStillAgrees ==
  ASSUME NEW bs \in [Requests -> BillRecords], NEW cs \in [Requests -> BillRecords], NEW ws, NEW vs,
         NEW k, NEW n \in Nat, NEW spend \in Nat, KeyAgrees(k, n, spend, bs, ws), SameSums(bs, cs, ws, vs, k)
  PROVE  KeyAgrees(k, n, spend, cs, vs)
<1>1. PICK y, m, m1 : /\ y = Total(OfBills(bs, "spend", k, "cost"), Requests)
                      /\ m = Total(OfBills(bs, "spend", k, "one"), Requests)
                      /\ m1 = Total(OfBills(cs, "spend", k, "one"), Requests)
  OBVIOUS
<1>2. y \in Nat /\ m \in Nat /\ m1 \in Nat
  BY <1>1, BillSumsAreNat DEF SumsAreNat
<1>3. m1 >= m
  BY <1>1 DEF SameSums
<1>4. Unit * m1 >= Unit * m /\ Unit * m \in Nat /\ Unit * m1 \in Nat
  BY <1>2, <1>3, UnitType
<1>5. Near(spend, y, Unit * m)
  BY <1>1 DEF KeyAgrees
<1>6. Near(spend, y, Unit * m1)
  BY <1>2, <1>4, <1>5 DEF Near
<1>7. Near(spend, Total(OfBills(cs, "spend", k, "cost"), Requests),
           Unit * Total(OfBills(cs, "spend", k, "one"), Requests))
  BY <1>1, <1>6, Zenon DEF SameSums
<1> QED  BY <1>7, Zenon DEF KeyAgrees, SameSums

(* The books agree after an answer, for it is in none of them.             *)
LEMMA AnswerAgrees ==
  ASSUME Books!TypeOK, Agreed, NEW r \in Requests,
         \/ Books!Embeddings(r) \/ Books!ImageGenerations(r) \/ Books!Moderations(r)
         \/ Books!AudioSpeech(r) \/ Books!AudioTranscriptions(r) \/ Books!Completions(r)
         \/ Books!CreateResponse(r) \/ Books!OpenAIPassthrough(r)
  PROVE  Agreed'
<1>1. /\ req[r].at = "called"
      /\ tokens' = tokens /\ expired' = expired /\ apiKey' = apiKey /\ log' = log /\ daily' = daily
      /\ \E p, c, n \in Nat : Books!Answer(r, [prompt |-> p, completion |-> c, counted |-> n])
  BY AnsweringType
<1>0. PICK e \in Books!Entries :
        \E d : /\ AllOwe(d, e)
               /\ req' = [req EXCEPT ![r] = [at |-> "answered"]]
               /\ duty' = [duty EXCEPT ![r] = d]
  BY <1>1, AnswerOwes
<1>2. PICK d :
        /\ AllOwe(d, e)
        /\ req' = [req EXCEPT ![r] = [at |-> "answered"]]
        /\ duty' = [duty EXCEPT ![r] = d]
  BY <1>0, Zenon
<1>3. \A q \in Requests : Kept(req[q], duty[q], log[q], daily[q], apiKey)
  BY DEF Agreed, AllKept
<1>4. duty[r] = <<>> /\ log[r] = None /\ daily[r] = None
  BY <1>1, <1>3 DEF Kept
<1>5. AllKept'
  <2>1. Kept([at |-> "answered"], d, None, None, apiKey)
    BY <1>2 DEF AllOwe, Kept
  <2>2. \A q \in Requests : Kept(req'[q], duty'[q], log[q], daily[q], apiKey)
    BY <1>2, <1>3, <1>4, <2>1 DEF Books!TypeOK
  <2> QED  BY <1>1, <2>2 DEF AllKept
<1> DEFINE bs == Bills(duty, log)
           cs == Bills(duty, log)'
           c  == BillOf(e, Owed(d))
<1>6. bs \in [Requests -> BillRecords] /\ bs[r] = NoBill
  <2>1. Owed(<<>>) = {}
    BY DEF Owed
  <2>2. Bill(<<>>, None) = NoBill
    BY <2>1 DEF Bill
  <2>3. bs[r] = NoBill
    BY <1>4, <2>2 DEF Bills
  <2> QED  BY <2>3, BillsType DEF Agreed
<1>7. c \in BillRecords
  <2>1. Owed(d) \subseteq Books!BookNames
    BY <1>2, OneStatementLess DEF AllOwe
  <2> QED  BY <2>1 DEF Books!Entries, BillOf, One, BillRecords
<1>8. cs = [bs EXCEPT ![r] = c]
  <2>1. \A q \in Requests : cs[q] = Bill(duty'[q], log'[q]) /\ bs[q] = Bill(duty[q], log[q])
    BY DEF Bills
  <2>2. cs = [q \in Requests |-> cs[q]] /\ bs = [q \in Requests |-> bs[q]]
    BY DEF Bills
  <2>3. Bill(d, None) = c
    <3>1. "log" \in Owed(d) /\ d[1].of = e
      BY <1>2, OneStatementLess DEF AllOwe
    <3> QED  BY <3>1 DEF Bill
  <2> HIDE DEF bs, cs, c
  <2>4. duty'[r] = d /\ log'[r] = None /\ \A q \in Requests \ {r} : duty'[q] = duty[q] /\ log'[q] = log[q]
    BY <1>1, <1>2, <1>4 DEF Books!TypeOK
  <2>5. cs[r] = c /\ \A q \in Requests \ {r} : cs[q] = bs[q]
    BY <2>1, <2>3, <2>4
  <2> QED  BY <2>1, <2>2, <2>5
<1> HIDE DEF bs, cs
<1>9. OneBillCounts(bs, cs, r) /\ cs \in [Requests -> BillRecords] /\ cs[r] = c
  <2> HIDE DEF c
  <2> QED  BY <1>6, <1>7, <1>8, OneBillChanges
<1>10. SumsAreNat(bs) /\ SumsAreNat(cs)
  BY <1>6, <1>9, BillSumsAreNat
<1>11. Numbered(NoBill) = 0 /\ \A any, k, what : Booked(NoBill, any, k, what) = 0
  BY DEF NoBill, Numbered, Booked, Amount
<1>12. /\ Numbered(c) = 0
       /\ \A k \in Keys :
                  /\ Booked(c, "counter", k, "tokens") = 0 /\ Booked(c, "daily", k, "tokens") = 0
                  /\ Booked(c, "daily", k, "one") = 0 /\ Booked(c, "spend", k, "cost") = 0
                  /\ Booked(c, "spend", k, "one") \in Nat
  BY <1>2, UnitType DEF AllOwe, BillOf, One, Numbered, Booked, Amount
<1> HIDE DEF c
<1>13. ASSUME NEW k \in Books!Live PROVE SameSums(bs, cs, daily, daily', k)
  <2>0. k \in Keys
    BY DEF Books!Live
  <2>1. ASSUME NEW any, NEW what, NEW m \in Nat, Booked(c, any, k, what) = m
        PROVE  Total(OfBills(cs, any, k, what), Requests) = Total(OfBills(bs, any, k, what), Requests) + m
    <3>1. PICK x, y : /\ x = Total(OfBills(bs, any, k, what), Requests)
                      /\ y = Total(OfBills(cs, any, k, what), Requests)
      OBVIOUS
    <3>2. x \in Nat /\ y \in Nat
      BY <1>10, <3>1 DEF SumsAreNat
    <3>3. Total(OfBills(cs, any, k, what), Requests) + Booked(bs[r], any, k, what)
            = Total(OfBills(bs, any, k, what), Requests) + Booked(cs[r], any, k, what)
      BY <1>9, Zenon DEF OneBillCounts
    <3>4. y + 0 = x + m
      BY <1>6, <1>9, <1>11, <2>1, <3>1, <3>3
    <3> QED  BY <3>1, <3>2, <3>4
  <2>2. \A any, what : Total(OfBills(bs, any, k, what), Requests) \in Nat
    BY <1>10 DEF SumsAreNat
  <2>3. /\ Total(OfBills(cs, "counter", k, "tokens"), Requests) = Total(OfBills(bs, "counter", k, "tokens"), Requests)
        /\ Total(OfBills(cs, "daily", k, "tokens"), Requests) = Total(OfBills(bs, "daily", k, "tokens"), Requests)
        /\ Total(OfBills(cs, "daily", k, "one"), Requests) = Total(OfBills(bs, "daily", k, "one"), Requests)
        /\ Total(OfBills(cs, "spend", k, "cost"), Requests) = Total(OfBills(bs, "spend", k, "cost"), Requests)
    BY <1>12, <2>0, <2>1, <2>2
  <2>4. PICK m \in Nat : m = Booked(c, "spend", k, "one")
    BY <1>12, <2>0
  <2>5. Total(OfBills(cs, "spend", k, "one"), Requests) = Total(OfBills(bs, "spend", k, "one"), Requests) + m
    BY <2>1, <2>4
  <2>6. Total(OfBills(cs, "spend", k, "one"), Requests) >= Total(OfBills(bs, "spend", k, "one"), Requests)
    BY <2>2, <2>5
  <2> QED  BY <1>1, <2>3, <2>6 DEF SameSums
<1>14. KeysAgree'
  <2> SUFFICES ASSUME NEW k \in Books!Live PROVE KeyAgrees(k, tokens[k] + expired[k], apiKey[k].spend, cs, daily')
    BY <1>1 DEF KeysAgree, Books!Live, cs
  <2>1. tokens[k] + expired[k] \in Nat /\ apiKey[k].spend \in Nat
    BY DEF Books!Live, Books!TypeOK, Books!KeyRows
  <2>2. KeyAgrees(k, tokens[k] + expired[k], apiKey[k].spend, bs, daily)
    BY DEF Agreed, KeysAgree, bs
  <2>3. SameSums(bs, cs, daily, daily', k)
    BY <1>13
  <2> QED  BY <1>6, <1>9, <2>1, <2>2, <2>3, KeyStillAgrees
<1>15. NumbersAgree(cs, daily')
  <2>1. Total(NumberOfBills(cs), Requests) + Numbered(bs[r]) = Total(NumberOfBills(bs), Requests) + Numbered(cs[r])
    BY <1>9 DEF OneBillCounts
  <2>2. Total(NumberOfBills(cs), Requests) = Total(NumberOfBills(bs), Requests)
    BY <1>6, <1>9, <1>10, <1>11, <1>12, <2>1 DEF SumsAreNat
  <2>3. NumbersAgree(bs, daily)
    BY DEF Agreed, bs
  <2> QED  BY <1>1, <2>2, <2>3 DEF NumbersAgree
<1>16. Apart(daily)'
  BY <1>1 DEF Agreed
<1> QED  BY <1>5, <1>14, <1>15, <1>16 DEF Agreed, cs


(* Steps that write no book, and neither add nor remove a key.             *)
LEMMA NothingMoves ==
  ASSUME Books!TypeOK, Agreed,
         duty' = duty, log' = log, daily' = daily,
         \A k \in Keys : tokens'[k] + expired'[k] = tokens[k] + expired[k],
         \A r \in Requests : req'[r].at = "answered" <=> req[r].at = "answered",
         \A k \in Keys : /\ apiKey'[k] = Removed <=> apiKey[k] = Removed
                         /\ apiKey[k] # Removed => apiKey'[k].spend = apiKey[k].spend
  PROVE  Agreed'
<1>1. ASSUME NEW r \in Requests PROVE Kept(req'[r], duty[r], log[r], daily[r], apiKey')
  <2>1. Kept(req[r], duty[r], log[r], daily[r], apiKey)
    BY DEF Agreed, AllKept
  <2>2. \A k \in Keys : apiKey'[k] = Removed <=> apiKey[k] = Removed
    OBVIOUS
  <2>3. req'[r].at = "answered" <=> req[r].at = "answered"
    OBVIOUS
  <2>4. daily[r] = None <=> daily[r] = None
    OBVIOUS
  <2> QED  BY <2>1, <2>2, <2>3, <2>4, StillKept
<1>2. AllKept'
  BY <1>1 DEF AllKept
<1>3. Bills(duty, log)' = Bills(duty, log)
  BY DEF Bills
<1>4. KeysAgree'
  <2> SUFFICES ASSUME NEW k \in Books!Live
               PROVE  KeyAgrees(k, tokens'[k] + expired'[k], apiKey'[k].spend, Bills(duty, log), daily)
    BY <1>3 DEF KeysAgree, Books!Live
  <2>1. apiKey'[k].spend = apiKey[k].spend /\ tokens'[k] + expired'[k] = tokens[k] + expired[k]
    BY DEF Books!Live
  <2>2. KeyAgrees(k, tokens[k] + expired[k], apiKey[k].spend, Bills(duty, log), daily)
    BY DEF Agreed, KeysAgree
  <2> QED  BY <2>1, <2>2
<1>5. Apart(daily)' /\ NumbersAgree(Bills(duty, log), daily)'
  BY <1>3 DEF Agreed, NumbersAgree
<1> QED  BY <1>2, <1>4, <1>5 DEF Agreed

(* A row whose key is deleted keeps all but the key.                       *)
RowKept(l, k) == IF l \notin {None, Removed} /\ l.key = k THEN [l EXCEPT !.key = Removed] ELSE l

(* What is left of a row.                                                  *)
LEMMA RowWithoutKey ==
  ASSUME NEW k \in Keys, NEW l \in Books!LogRows \cup Books!DailyRows \cup {None}
  PROVE  LET m == RowKept(l, k)
         IN  /\ m = None <=> l = None
             /\ l # None => /\ m.tokens = l.tokens /\ m.cost = l.cost /\ m.team = l.team
                            /\ m.key = IF l.key = k THEN Removed ELSE l.key
             /\ l \in Books!DailyRows => m.count = l.count
             /\ l \in Books!LogRows => m \in Books!LogRows
             /\ l \in Books!DailyRows => m \in Books!DailyRows
             /\ l # None /\ l.key # k => m = l
<1>1. CASE l \notin {None, Removed} /\ l.key = k
  <2>1. RowKept(l, k) = [l EXCEPT !.key = Removed]
    BY <1>1 DEF RowKept
  <2>2. ASSUME l \in Books!LogRows
        PROVE  LET m == [l EXCEPT !.key = Removed]
               IN m \in Books!LogRows /\ m.tokens = l.tokens /\ m.cost = l.cost /\ m.team = l.team /\ m.key = Removed
    BY <2>2 DEF Books!LogRows
  <2>3. ASSUME l \in Books!DailyRows
        PROVE  LET m == [l EXCEPT !.key = Removed]
               IN /\ m \in Books!DailyRows /\ m.tokens = l.tokens /\ m.cost = l.cost /\ m.team = l.team
                  /\ m.key = Removed /\ m.count = l.count
    BY <2>3 DEF Books!DailyRows
  <2>4. None \notin Books!LogRows /\ None \notin Books!DailyRows
    BY UnitType
  <2>5. ASSUME l \in Books!LogRows, l \in Books!DailyRows PROVE FALSE
    BY <2>5 DEF Books!LogRows, Books!DailyRows
  <2> QED  BY <1>1, <2>1, <2>2, <2>3, <2>4, <2>5
<1>2. CASE ~(l \notin {None, Removed} /\ l.key = k)
  <2>1. RowKept(l, k) = l
    BY <1>2 DEF RowKept
  <2>2. l # Removed \/ l = None
    BY UnitType
  <2> QED  BY <1>2, <2>1, <2>2
<1> QED  BY <1>1, <1>2

(* A request's part of the books when a key is deleted.                    *)
AloneWithout(k0, b, c, w, v) ==
  /\ \A any, what : \A k \in Keys \ {k0} : Booked(c, any, k, what) = Booked(b, any, k, what)
  /\ Numbered(c) = Numbered(b)
  /\ \A what : \A k \in Keys \ {k0} : Held(v, k, what) = Held(w, k, what)
  /\ Number(v) = Number(w)

(* A request keeps its bill for the other keys, and its number.            *)
LEMMA KeptWithoutKey ==
  ASSUME NEW q, NEW d, NEW l \in Books!LogRows \cup {None}, NEW w \in Books!DailyRows \cup {None}, NEW keys,
         Kept(q, d, l, w, keys), NEW k0 \in Keys, keys[k0] # Removed,
         NEW locks, \A k \in Keys : locks[k] = IF k = k0 THEN Removed ELSE keys[k],
         NEW m, m = RowKept(l, k0), NEW v, v = RowKept(w, k0)
  PROVE  Kept(q, d, m, v, locks) /\ AloneWithout(k0, Bill(d, l), Bill(d, m), w, v)
<1>1. /\ m = None <=> l = None
      /\ l # None => /\ m.tokens = l.tokens /\ m.cost = l.cost
                     /\ m.key = IF l.key = k0 THEN Removed ELSE l.key
  BY RowWithoutKey
<1>2. /\ v = None <=> w = None
      /\ w # None => /\ v.tokens = w.tokens /\ v.count = w.count
                     /\ v.key = IF w.key = k0 THEN Removed ELSE w.key
  BY RowWithoutKey
<1>3. None \notin Keys /\ Removed \notin Keys /\ Removed # None
  BY UnitType
<1>4. d # <<>> =>
       \E e \in Books!Entries :
         /\ LeftOf(d, e)
         /\ "log" \notin Owed(d) =>
              /\ m # None /\ m.tokens = e.tokens /\ m.cost = e.cost
              /\ m.key = IF locks[e.key] = Removed THEN Removed ELSE e.key
  <2> SUFFICES ASSUME d # <<>>
               PROVE  \E e \in Books!Entries :
                        /\ LeftOf(d, e)
                        /\ "log" \notin Owed(d) =>
                             /\ m # None /\ m.tokens = e.tokens /\ m.cost = e.cost
                             /\ m.key = IF locks[e.key] = Removed THEN Removed ELSE e.key
    OBVIOUS
  <2>1. PICK e \in Books!Entries :
          /\ LeftOf(d, e)
          /\ "log" \notin Owed(d) =>
               /\ l # None /\ l.tokens = e.tokens /\ l.cost = e.cost
               /\ l.key = IF keys[e.key] = Removed THEN Removed ELSE e.key
    BY DEF Kept
  <2>2. "log" \notin Owed(d) => e.key \in Keys
    <3>1. Head(d).book \in Owed(d) /\ (e.key = None => Head(d).book = "log")
      BY <2>1, OneStatementLess
    <3>2. e.key \in Keys \cup {None}
      BY DEF Books!Entries
    <3> QED  BY <3>1, <3>2
  <2> QED  BY <1>1, <1>3, <2>1, <2>2
<1>5. Kept(q, d, m, v, locks)
  BY <1>1, <1>2, <1>4 DEF Kept
<1>6. \A what : \A k \in Keys \ {k0} : Held(v, k, what) = Held(w, k, what)
  BY <1>2, <1>3 DEF Held
<1>7. Number(v) = Number(w)
  BY <1>2 DEF Number
<1>8. CASE "log" \in Owed(d)
  <2>1. Bill(d, m) = Bill(d, l)
    BY <1>8 DEF Bill
  <2> QED  BY <1>5, <1>6, <1>7, <2>1 DEF AloneWithout
<1>9. CASE "log" \notin Owed(d) /\ l = None
  <2>1. Bill(d, m) = Bill(d, l)
    BY <1>1, <1>9 DEF Bill
  <2> QED  BY <1>5, <1>6, <1>7, <2>1 DEF AloneWithout
<1>10. CASE "log" \notin Owed(d) /\ l # None
  <2>1. Bill(d, m) = BillOf(m, Owed(d)) /\ Bill(d, l) = BillOf(l, Owed(d))
    BY <1>1, <1>10 DEF Bill
  <2>4. One(m) = One(l)
    BY <1>1, <1>3, <1>10 DEF One
  <2>2. \A any, what : \A k \in Keys \ {k0} :
          Booked(BillOf(m, Owed(d)), any, k, what) = Booked(BillOf(l, Owed(d)), any, k, what)
    BY <1>1, <1>3, <1>10, <2>4 DEF BillOf, Booked, Amount
  <2>3. Numbered(BillOf(m, Owed(d))) = Numbered(BillOf(l, Owed(d)))
    BY <2>4 DEF BillOf, Numbered
  <2> QED  BY <1>5, <1>6, <1>7, <2>1, <2>2, <2>3 DEF AloneWithout
<1> QED  BY <1>8, <1>9, <1>10

(* A deleted key leaves those of the others, and the number of all.        *)
LEMMA DeleteAgrees ==
  ASSUME Books!TypeOK, Agreed, NEW k0 \in Keys, Books!DeleteAPIKey(k0)
  PROVE  Agreed'
<1>1. /\ apiKey[k0] # Removed /\ apiKey' = [apiKey EXCEPT ![k0] = Removed]
      /\ log' = Books!RowsKept(log, k0) /\ daily' = Books!RowsKept(daily, k0)
      /\ req' = req /\ duty' = duty /\ tokens' = tokens /\ expired' = expired
  BY DEF Books!DeleteAPIKey, Books!Live
<1>2. \A r \in Requests : log'[r] = RowKept(log[r], k0) /\ daily'[r] = RowKept(daily[r], k0)
  BY <1>1 DEF Books!RowsKept, RowKept
<1>3. /\ \A r \in Requests : log[r] \in Books!LogRows \cup {None} /\ daily[r] \in Books!DailyRows \cup {None}
      /\ \A k \in Keys : apiKey'[k] = IF k = k0 THEN Removed ELSE apiKey[k]
  BY <1>1 DEF Books!TypeOK
<1>4. ASSUME NEW r \in Requests
      PROVE  /\ Kept(req[r], duty[r], log'[r], daily'[r], apiKey')
             /\ AloneWithout(k0, Bill(duty[r], log[r]), Bill(duty[r], log'[r]), daily[r], daily'[r])
  <2>1. Kept(req[r], duty[r], log[r], daily[r], apiKey)
    BY DEF Agreed, AllKept
  <2>2. log[r] \in Books!LogRows \cup {None} /\ daily[r] \in Books!DailyRows \cup {None}
    BY <1>3
  <2>3. \A k \in Keys : apiKey'[k] = IF k = k0 THEN Removed ELSE apiKey[k]
    BY <1>3
  <2>4. log'[r] = RowKept(log[r], k0) /\ daily'[r] = RowKept(daily[r], k0)
    BY <1>2
  <2>5. apiKey[k0] # Removed
    BY <1>1
  <2> QED  BY <2>1, <2>2, <2>3, <2>4, <2>5, KeptWithoutKey
<1>5. AllKept'
  BY <1>1, <1>4 DEF AllKept
<1> DEFINE bs == Bills(duty, log)
           cs == Bills(duty, log)'
<1>6. \A r \in Requests : bs[r] = Bill(duty[r], log[r]) /\ cs[r] = Bill(duty[r], log'[r])
  BY <1>1 DEF Bills
<1> HIDE DEF bs, cs
<1>7. \A r \in Requests : AloneWithout(k0, bs[r], cs[r], daily[r], daily'[r])
  BY <1>4, <1>6
<1>8. ASSUME NEW k \in Keys \ {k0}
      PROVE  /\ \A any, what : OfBills(cs, any, k, what) = OfBills(bs, any, k, what)
             /\ \A what : OfRows(daily', k, what) = OfRows(daily, k, what)
  BY <1>7 DEF AloneWithout, OfBills, OfRows
<1>9. NumberOfBills(cs) = NumberOfBills(bs) /\ NumberOfRows(daily') = NumberOfRows(daily)
  BY <1>7 DEF AloneWithout, NumberOfBills, NumberOfRows
<1>10. NumbersAgree(cs, daily')
  <2>1. NumbersAgree(bs, daily)
    BY DEF Agreed, bs
  <2> QED  BY <1>9, <2>1 DEF NumbersAgree
<1>11. KeysAgree'
  <2> SUFFICES ASSUME NEW k \in Books!Live, k # k0
               PROVE  KeyAgrees(k, tokens[k] + expired[k], apiKey[k].spend, cs, daily')
    BY <1>1, <1>3 DEF KeysAgree, Books!Live, cs
  <2>1. KeyAgrees(k, tokens[k] + expired[k], apiKey[k].spend, bs, daily)
    BY DEF Agreed, KeysAgree, bs
  <2>2. k \in Keys \ {k0}
    BY DEF Books!Live
  <2> QED  BY <1>8, <2>1, <2>2 DEF KeyAgrees
<1>12. Apart(daily)'
  <2>1. \A r \in Requests :
          /\ daily'[r] = None <=> daily[r] = None
          /\ daily[r] # None => /\ daily'[r].team = daily[r].team
                               /\ daily'[r].key = IF daily[r].key = k0 THEN Removed ELSE daily[r].key
    <3> SUFFICES ASSUME NEW r \in Requests
                 PROVE  /\ daily'[r] = None <=> daily[r] = None
                        /\ daily[r] # None => /\ daily'[r].team = daily[r].team
                                             /\ daily'[r].key = IF daily[r].key = k0 THEN Removed ELSE daily[r].key
      OBVIOUS
    <3>1. PICK w \in Books!LogRows \cup Books!DailyRows \cup {None} : w = daily[r]
      BY <1>3
    <3>2. daily'[r] = RowKept(w, k0)
      BY <1>2, <3>1
    <3> QED  BY <3>1, <3>2, RowWithoutKey
  <2> QED  BY <2>1, UnitType DEF Agreed, Apart
<1> QED  BY <1>5, <1>10, <1>11, <1>12 DEF Agreed, cs

(* Nothing is written at first.                                            *)
LEMMA NoSums ==
  ASSUME NEW f, \A r \in Requests : f[r] = 0
  PROVE  Total(f, Requests) = 0
<1>1. Total(f, {}) = 0
  BY FS_EmptySet, TotalLaws
<1>2. Total(f, Requests) = Total(f, {})
  BY RequestsAreFinite, TotalOfSome
<1> QED  BY <1>1, <1>2

(* The empty books agree.                                                  *)
LEMMA AgreedAtFirst == Books!Init => Agreed
<1> SUFFICES ASSUME Books!Init PROVE Agreed
  OBVIOUS
<1>1. \A r \in Requests : req[r].at = "idle" /\ duty[r] = <<>> /\ log[r] = None /\ daily[r] = None
  BY DEF Books!Init, Books!Idle
<1>2. Owed(<<>>) = {}
  BY DEF Owed
<1>3. AllKept
  BY <1>1, <1>2 DEF AllKept, Kept
<1>4. \A r \in Requests : Bills(duty, log)[r] = NoBill
  BY <1>1, <1>2 DEF Bills, Bill
<1>5. Numbered(NoBill) = 0 /\ \A any, k, what : Booked(NoBill, any, k, what) = 0
  BY DEF NoBill, Numbered, Booked, Amount
<1>6. Number(None) = 0 /\ \A k, what : Held(None, k, what) = 0
  BY DEF Number, Held
<1>7. PICK bs : bs = Bills(duty, log)
  OBVIOUS
<1>8. \A any, k, what : Total(OfBills(bs, any, k, what), Requests) = 0
  <2> SUFFICES ASSUME NEW any, NEW k, NEW what PROVE Total(OfBills(bs, any, k, what), Requests) = 0
    OBVIOUS
  <2>1. \A r \in Requests : OfBills(bs, any, k, what)[r] = 0
    BY <1>4, <1>5, <1>7 DEF OfBills
  <2> QED  BY <2>1, NoSums
<1>9. \A k, what : Total(OfRows(daily, k, what), Requests) = 0
  <2> SUFFICES ASSUME NEW k, NEW what PROVE Total(OfRows(daily, k, what), Requests) = 0
    OBVIOUS
  <2>1. \A r \in Requests : OfRows(daily, k, what)[r] = 0
    BY <1>1, <1>6 DEF OfRows
  <2> QED  BY <2>1, NoSums
<1>10. Total(NumberOfBills(bs), Requests) = 0 /\ Total(NumberOfRows(daily), Requests) = 0
  <2>1. \A r \in Requests : NumberOfBills(bs)[r] = 0 /\ NumberOfRows(daily)[r] = 0
    BY <1>1, <1>4, <1>5, <1>6, <1>7 DEF NumberOfBills, NumberOfRows
  <2> QED  BY <2>1, NoSums
<1>11. NumbersAgree(Bills(duty, log), daily)
  BY <1>7, <1>10 DEF NumbersAgree
<1>12. Apart(daily)
  BY <1>1 DEF Apart
<1>13. KeysAgree
  <2> SUFFICES ASSUME NEW k \in Books!Live PROVE KeyAgrees(k, tokens[k] + expired[k], apiKey[k].spend, bs, daily)
    BY <1>7 DEF KeysAgree
  <2>1. tokens[k] + expired[k] = 0 /\ apiKey[k].spend = 0
    BY DEF Books!Init, Books!Live
  <2>2. Near(0, 0, Unit * 0)
    BY UnitType DEF Near
  <2> QED  BY <1>8, <1>9, <2>1, <2>2 DEF KeyAgrees
<1> QED  BY <1>3, <1>11, <1>12, <1>13 DEF Agreed


(* They agree after a key is moved to another team.                        *)
LEMMA UpdateAgrees ==
  ASSUME Books!TypeOK, Agreed, NEW k0 \in Keys, Books!UpdateAPIKey(k0)
  PROVE  Agreed'
<1>1. /\ apiKey[k0] # Removed /\ req' = req /\ duty' = duty
      /\ tokens' = tokens /\ expired' = expired /\ log' = log /\ daily' = daily
  BY DEF Books!UpdateAPIKey, Books!Live, Books!books
<1>2. PICK t \in Teams : apiKey' = [apiKey EXCEPT ![k0].team = t]
  BY DEF Books!UpdateAPIKey
<1>3. apiKey[k0] \in Books!KeyRows
  BY <1>1 DEF Books!TypeOK
<1>4. [apiKey[k0] EXCEPT !.team = t] # Removed /\ [apiKey[k0] EXCEPT !.team = t].spend = apiKey[k0].spend
  BY <1>3, UnitType DEF Books!KeyRows
<1>5. \A k \in Keys : /\ apiKey'[k] = Removed <=> apiKey[k] = Removed
                      /\ apiKey[k] # Removed => apiKey'[k].spend = apiKey[k].spend
  BY <1>1, <1>2, <1>4 DEF Books!TypeOK
<1>6. \A r \in Requests : req'[r].at = "answered" <=> req[r].at = "answered"
  BY <1>1
<1> QED  BY <1>1, <1>5, <1>6, NothingMoves

(* Handlers that do not answer, and responses that are deleted.            *)
WritesNoBook(r) ==
  /\ duty' = duty /\ apiKey' = apiKey /\ tokens' = tokens /\ expired' = expired
  /\ log' = log /\ daily' = daily
  /\ \/ req' = req
     \/ req[r].at # "answered" /\ \E to : to.at # "answered" /\ req' = [req EXCEPT ![r] = to]

(* They agree after such a step.                                           *)
LEMMA CallAgrees ==
  ASSUME Books!TypeOK, Agreed, NEW r \in Requests,
         \/ \E e \in Books!Endpoints, stream \in BOOLEAN : Books!Call(r, e, stream)
         \/ Books!Refuse(r) \/ Books!DeleteResponse(r)
  PROVE  Agreed'
<1>4. WritesNoBook(r)
  <2>1. ASSUME NEW e \in Books!Endpoints, NEW stream \in BOOLEAN, Books!Call(r, e, stream)
        PROVE  WritesNoBook(r)
    <3>1. PICK k, t :
            req' = [req EXCEPT ![r] = [at |-> "called", endpoint |-> e, stream |-> stream, key |-> k, team |-> t]]
      BY <2>1 DEF Books!Call
    <3>2. req[r].at # "answered"
      BY <2>1 DEF Books!Call, Books!Idle
    <3>3. PICK to : to = [at |-> "called", endpoint |-> e, stream |-> stream, key |-> k, team |-> t]
      OBVIOUS
    <3>4. req' = [req EXCEPT ![r] = to] /\ to.at # "answered"
      BY <3>1, <3>3
    <3> QED  BY <2>1, <3>2, <3>4 DEF Books!Call, Books!books, WritesNoBook
  <2>2. CASE Books!Refuse(r)
    <3>1. PICK to : to = [at |-> "refused"]
      OBVIOUS
    <3>2. to.at # "answered"
      BY <3>1
    <3> QED  BY <2>2, <3>1, <3>2 DEF Books!Refuse, Books!books, WritesNoBook
  <2>3. CASE Books!DeleteResponse(r)
    BY <2>3 DEF Books!DeleteResponse, Books!books, WritesNoBook
  <2> QED  BY <2>1, <2>2, <2>3
<1>1. /\ duty' = duty /\ apiKey' = apiKey /\ tokens' = tokens /\ expired' = expired
      /\ log' = log /\ daily' = daily
  BY <1>4 DEF WritesNoBook
<1>2. \A q \in Requests : req'[q].at = "answered" <=> req[q].at = "answered"
  BY <1>4 DEF Books!TypeOK, WritesNoBook
<1>3. \A k \in Keys : /\ apiKey'[k] = Removed <=> apiKey[k] = Removed
                      /\ apiKey[k] # Removed => apiKey'[k].spend = apiKey[k].spend
  BY <1>1
<1> QED  BY <1>1, <1>2, <1>3, NothingMoves

(* The process ends with nothing left to write, if it loses nothing.       *)
LEMMA ExitAgrees ==
  ASSUME Books!TypeOK, Agreed, Books!Exit, lossless'
  PROVE  Agreed'
<1>1. /\ duty' = duty /\ apiKey' = apiKey /\ tokens' = tokens /\ expired' = expired
      /\ log' = log /\ daily' = daily
  BY DEF Books!Exit, Books!books
<1>2. \A q \in Requests : req'[q].at = "answered" <=> req[q].at = "answered"
  BY DEF Books!Exit
<1>3. \A k \in Keys : /\ apiKey'[k] = Removed <=> apiKey[k] = Removed
                      /\ apiKey[k] # Removed => apiKey'[k].spend = apiKey[k].spend
  BY <1>1
<1> QED  BY <1>1, <1>2, <1>3, NothingMoves

BooksInv == lossless => Agreed

(* While nothing is lost the books agree.                                  *)
LEMMA BooksInvHolds == Books!Spec => []BooksInv
<1>1. Books!Init => BooksInv
  BY AgreedAtFirst DEF BooksInv
<1>2. Books!TypeOK /\ BooksInv /\ [Books!Next]_(Books!vars) => BooksInv'
  <2> SUFFICES ASSUME Books!TypeOK, BooksInv, [Books!Next]_(Books!vars), lossless' PROVE Agreed'
    BY DEF BooksInv
  <2>0. lossless => Agreed
    BY DEF BooksInv
  <2>1. ASSUME NEW r \in Requests, Books!Handler(r) PROVE Agreed'
    <3>1. CASE \E e \in Books!Endpoints, stream \in BOOLEAN : Books!Call(r, e, stream)
      <4>1. lossless' = lossless
        BY <3>1 DEF Books!Call
      <4> QED  BY <2>0, <3>1, <4>1, CallAgrees
    <3>2. CASE Books!Refuse(r)
      <4>1. lossless' = lossless
        BY <3>2 DEF Books!Refuse
      <4> QED  BY <2>0, <3>2, <4>1, CallAgrees
    <3>3. CASE \/ Books!Embeddings(r) \/ Books!ImageGenerations(r) \/ Books!Moderations(r)
               \/ Books!AudioSpeech(r) \/ Books!AudioTranscriptions(r) \/ Books!Completions(r)
               \/ Books!CreateResponse(r) \/ Books!OpenAIPassthrough(r)
      <4>1. lossless' = lossless
        BY <3>3, AnsweringType
      <4> QED  BY <2>0, <3>3, <4>1, AnswerAgrees
    <3> QED  BY <2>1, <3>1, <3>2, <3>3 DEF Books!Handler, Books!Endpoints
  <2>2. ASSUME NEW r \in Requests, Books!Goroutine(r) PROVE Agreed'
    <3>1. CASE Books!ConsumeTokens(r)
      <4>1. lossless' = lossless
        BY <3>1 DEF Books!ConsumeTokens
      <4> QED  BY <2>0, <3>1, <4>1, ConsumeAgrees
    <3>2. CASE Books!InsertSpendLog(r)
      <4>1. lossless' = lossless
        BY <3>2 DEF Books!InsertSpendLog
      <4> QED  BY <2>0, <3>2, <4>1, InsertAgrees
    <3>3. CASE Books!UpdateKeySpend(r)
      <4>1. lossless' = lossless
        BY <3>3 DEF Books!UpdateKeySpend
      <4> QED  BY <2>0, <3>3, <4>1, ChargeAgrees
    <3>4. CASE Books!UpsertDailySpend(r)
      <4>1. lossless' = lossless
        BY <3>4 DEF Books!UpsertDailySpend
      <4> QED  BY <2>0, <3>4, <4>1, UpsertAgrees
    <3>5. CASE Books!StatementFails(r)
      BY <3>5 DEF Books!StatementFails
    <3> QED  BY <2>2, <3>1, <3>2, <3>3, <3>4, <3>5 DEF Books!Goroutine
  <2>3. ASSUME NEW r \in Requests, Books!DeleteResponse(r) PROVE Agreed'
    <3>1. lossless' = lossless
      BY <2>3 DEF Books!DeleteResponse
    <3> QED  BY <2>0, <2>3, <3>1, CallAgrees
  <2>4. ASSUME NEW k \in Keys, Books!DeleteAPIKey(k) PROVE Agreed'
    <3>1. lossless' = lossless
      BY <2>4 DEF Books!DeleteAPIKey
    <3> QED  BY <2>0, <2>4, <3>1, DeleteAgrees
  <2>5. ASSUME NEW k \in Keys, Books!UpdateAPIKey(k) PROVE Agreed'
    <3>1. lossless' = lossless
      BY <2>5 DEF Books!UpdateAPIKey
    <3> QED  BY <2>0, <2>5, <3>1, UpdateAgrees
  <2>8. ASSUME NEW k \in Keys, Books!WindowEnds(k) PROVE Agreed'
    <3>1. /\ lossless' = lossless /\ duty' = duty /\ log' = log /\ daily' = daily
          /\ req' = req /\ apiKey' = apiKey
      BY <2>8 DEF Books!WindowEnds
    <3>2. \A any \in Keys : tokens'[any] + expired'[any] = tokens[any] + expired[any]
      BY <2>8 DEF Books!WindowEnds, Books!TypeOK
    <3>3. /\ \A r \in Requests : req'[r].at = "answered" <=> req[r].at = "answered"
          /\ \A any \in Keys : /\ apiKey'[any] = Removed <=> apiKey[any] = Removed
                               /\ apiKey[any] # Removed => apiKey'[any].spend = apiKey[any].spend
      BY <3>1
    <3> QED  BY <2>0, <3>1, <3>2, <3>3, NothingMoves
  <2>6. CASE Books!Exit
    <3>1. lossless
      BY <2>6 DEF Books!Exit
    <3> QED  BY <2>0, <2>6, <3>1, ExitAgrees
  <2>7. CASE UNCHANGED Books!vars
    <3>1. /\ duty' = duty /\ log' = log /\ daily' = daily /\ tokens' = tokens /\ expired' = expired
          /\ lossless' = lossless
          /\ req' = req /\ apiKey' = apiKey
      BY <2>7 DEF Books!vars, Books!books
    <3>2. /\ \A r \in Requests : req'[r].at = "answered" <=> req[r].at = "answered"
          /\ \A k \in Keys : /\ apiKey'[k] = Removed <=> apiKey[k] = Removed
                             /\ apiKey[k] # Removed => apiKey'[k].spend = apiKey[k].spend
      BY <3>1
    <3> QED  BY <2>0, <3>1, <3>2, NothingMoves
  <2> QED  BY <2>1, <2>2, <2>3, <2>4, <2>5, <2>6, <2>7, <2>8 DEF Books!Next
<1> QED  BY <1>1, <1>2, BooksTypeHolds, PTL DEF Books!Spec

(* The columns of the books are the sums of the bills.                     *)
LEMMA ColumnIsSum ==
  ASSUME NEW S \in SUBSET Requests, NEW h, DOMAIN h = S, NEW f,
         \A r \in Requests : f[r] \in Nat, \A r \in S : h[r] = f[r], \A r \in Requests \ S : f[r] = 0
  PROVE  Books!SumFunction(h) = Total(f, Requests)
<1>1. IsFiniteSet(Requests) /\ IsFiniteSet(S)
  BY RequestsAreFinite, FS_Subset
<1>2. Books!SumFunction(h) = Total(h, S)
  BY Zenon DEF Books!SumFunction, Books!SumFunctionOnSet, Books!FoldFunctionOnSet, Books!MapThenFoldSet,
               Total, Totals, Pick
<1>3. Total(h, S) = Total(f, S)
  BY <1>1, TotalOfEqual
<1>4. Total(f, Requests) = Total(f, S)
  BY <1>1, TotalOfSome
<1> QED  BY <1>2, <1>3, <1>4


(* A number of requests is a sum of ones.                                  *)
LEMMA NumberIsSum ==
  ASSUME NEW S \in SUBSET Requests, NEW f,
         \A r \in S : f[r] = 1, \A r \in Requests \ S : f[r] = 0
  PROVE  Books!Cardinality(S) = Total(f, Requests)
<1>1. IsFiniteSet(Requests) /\ IsFiniteSet(S) /\ \A r \in Requests : f[r] \in Nat
  BY RequestsAreFinite, FS_Subset
<1>2. Total(f, S) = Cardinality(S)
  BY <1>1, TotalOfOnes
<1>3. Total(f, Requests) = Total(f, S)
  BY <1>1, TotalOfSome
<1>4. Books!Cardinality(S) = Cardinality(S)
  BY DEF Books!Cardinality, Cardinality
<1> QED  BY <1>2, <1>3, <1>4

(* A bill of which nothing is owed is in every book.                       *)
InEveryBook(l, b) ==
  /\ l = None => Numbered(b) = 0 /\ \A any, k, what : Booked(b, any, k, what) = 0
  /\ l # None =>
       /\ Numbered(b) = One(l)
       /\ \A any, what : \A k \in Keys : Booked(b, any, k, what) = IF l.key = k THEN Share(l, what) ELSE 0

(* So is that of an answered request when all is settled.                  *)
LEMMA SettledBill ==
  ASSUME Books!TypeOK, Agreed, Books!Settled, NEW r \in Requests, NEW bs, bs = Bills(duty, log)
  PROVE  (log[r] # None <=> req[r].at = "answered") /\ InEveryBook(log[r], bs[r])
<1>1. duty[r] = <<>> /\ Kept(req[r], duty[r], log[r], daily[r], apiKey)
  BY DEF Books!Settled, Agreed, AllKept
<1>2. Owed(duty[r]) = {}
  BY <1>1 DEF Owed
<1>3. bs[r] = IF log[r] # None THEN BillOf(log[r], {}) ELSE NoBill
  BY <1>2 DEF Bills, Bill
<1>4. log[r] # None <=> req[r].at = "answered"
  BY <1>1, <1>2 DEF Kept
<1>5. Numbered(NoBill) = 0 /\ \A any, k, what : Booked(NoBill, any, k, what) = 0
  BY DEF NoBill, Numbered, Booked, Amount
<1>6. \A l : /\ Numbered(BillOf(l, {})) = One(l)
             /\ \A any, what : \A k \in Keys :
                  Booked(BillOf(l, {}), any, k, what) = IF l.key = k THEN Share(l, what) ELSE 0
  BY UnitType DEF BillOf, One, Numbered, Booked, Amount, Share
<1> QED  BY <1>3, <1>4, <1>5, <1>6 DEF InEveryBook

(* What a settled book says of a key.                                      *)
LEMMA SettledKey ==
  ASSUME Books!TypeOK, Agreed, Books!Settled, NEW bs, bs = Bills(duty, log), NEW k \in Keys, NEW any
  PROVE  /\ Books!Tokens(log, Books!Paid(log, k)) = Total(OfBills(bs, any, k, "tokens"), Requests)
         /\ Books!Cost(log, Books!Paid(log, k)) = Total(OfBills(bs, any, k, "cost"), Requests)
         /\ Books!Cardinality(Books!Paid(log, k)) = Total(OfBills(bs, any, k, "one"), Requests)
         /\ Books!Tokens(daily, Books!Paid(daily, k)) = Total(OfRows(daily, k, "tokens"), Requests)
         /\ Books!Counted(Books!Paid(daily, k)) = Total(OfRows(daily, k, "count"), Requests)
<1>1. PICK S, D : S = Books!Paid(log, k) /\ D = Books!Paid(daily, k)
  OBVIOUS
<1>2. /\ S \in SUBSET Requests /\ D \in SUBSET Requests
      /\ \A r \in Requests : r \in S <=> log[r] # None /\ log[r].key = k
      /\ \A r \in Requests : r \in D <=> daily[r] # None /\ daily[r].key = k
  BY <1>1 DEF Books!Paid
<1>3. \A r \in Requests : \A what :
        Booked(bs[r], any, k, what) = IF r \in S THEN Share(log[r], what) ELSE 0
  <2>1. \A r \in Requests : InEveryBook(log[r], bs[r])
    BY SettledBill
  <2> QED  BY <1>2, <2>1 DEF InEveryBook
<1>4. \A r \in S : Share(log[r], "tokens") = log[r].tokens /\ Share(log[r], "cost") = log[r].cost
                   /\ Share(log[r], "one") = 1 /\ log[r].tokens \in Nat /\ log[r].cost \in Nat
  BY <1>2 DEF Share, Books!TypeOK, Books!LogRows
<1>5. Books!Tokens(log, S) = Total(OfBills(bs, any, k, "tokens"), Requests)
  <2>1. PICK f, h : f = OfBills(bs, any, k, "tokens") /\ h = [r \in S |-> log[r].tokens]
    OBVIOUS
  <2>2. \A r \in Requests : f[r] = IF r \in S THEN log[r].tokens ELSE 0
    BY <1>3, <1>4, <2>1 DEF OfBills
  <2>3. /\ DOMAIN h = S /\ \A r \in Requests : f[r] \in Nat
        /\ \A r \in S : h[r] = f[r]
        /\ \A r \in Requests \ S : f[r] = 0
    BY <1>2, <1>4, <2>1, <2>2
  <2>4. Books!SumFunction(h) = Total(f, Requests)
    BY <1>2, <2>3, ColumnIsSum
  <2> QED  BY <2>1, <2>4 DEF Books!Tokens
<1>6. Books!Cost(log, S) = Total(OfBills(bs, any, k, "cost"), Requests)
  <2>1. PICK f, h : f = OfBills(bs, any, k, "cost") /\ h = [r \in S |-> log[r].cost]
    OBVIOUS
  <2>2. \A r \in Requests : f[r] = IF r \in S THEN log[r].cost ELSE 0
    BY <1>3, <1>4, <2>1 DEF OfBills
  <2>3. /\ DOMAIN h = S /\ \A r \in Requests : f[r] \in Nat
        /\ \A r \in S : h[r] = f[r]
        /\ \A r \in Requests \ S : f[r] = 0
    BY <1>2, <1>4, <2>1, <2>2
  <2>4. Books!SumFunction(h) = Total(f, Requests)
    BY <1>2, <2>3, ColumnIsSum
  <2> QED  BY <2>1, <2>4 DEF Books!Cost
<1>7. Books!Cardinality(S) = Total(OfBills(bs, any, k, "one"), Requests)
  <2>1. PICK f : f = OfBills(bs, any, k, "one")
    OBVIOUS
  <2>2. \A r \in Requests : f[r] = IF r \in S THEN 1 ELSE 0
    BY <1>3, <1>4, <2>1 DEF OfBills
  <2>3. (\A r \in S : f[r] = 1) /\ \A r \in Requests \ S : f[r] = 0
    BY <1>2, <2>2
  <2> QED  BY <1>2, <2>1, <2>3, NumberIsSum
<1>8. \A r \in D : daily[r].tokens \in Nat /\ daily[r].count \in Nat
  BY <1>2 DEF Books!TypeOK, Books!DailyRows
<1>9. Books!Tokens(daily, D) = Total(OfRows(daily, k, "tokens"), Requests)
  <2>1. PICK f, h : f = OfRows(daily, k, "tokens") /\ h = [r \in D |-> daily[r].tokens]
    OBVIOUS
  <2>2. \A r \in Requests : f[r] = IF r \in D THEN daily[r].tokens ELSE 0
    BY <1>2, <2>1 DEF OfRows, Held
  <2>3. /\ DOMAIN h = D /\ \A r \in Requests : f[r] \in Nat
        /\ \A r \in D : h[r] = f[r]
        /\ \A r \in Requests \ D : f[r] = 0
    BY <1>2, <1>8, <2>1, <2>2
  <2>4. Books!SumFunction(h) = Total(f, Requests)
    BY <1>2, <2>3, ColumnIsSum
  <2> QED  BY <2>1, <2>4 DEF Books!Tokens
<1>10. Books!Counted(D) = Total(OfRows(daily, k, "count"), Requests)
  <2>1. PICK f, h : f = OfRows(daily, k, "count") /\ h = [r \in D |-> daily[r].count]
    OBVIOUS
  <2>2. \A r \in Requests : f[r] = IF r \in D THEN daily[r].count ELSE 0
    BY <1>2, <2>1 DEF OfRows, Held
  <2>3. /\ DOMAIN h = D /\ \A r \in Requests : f[r] \in Nat
        /\ \A r \in D : h[r] = f[r]
        /\ \A r \in Requests \ D : f[r] = 0
    BY <1>2, <1>8, <2>1, <2>2
  <2>4. Books!SumFunction(h) = Total(f, Requests)
    BY <1>2, <2>3, ColumnIsSum
  <2> QED  BY <2>1, <2>4 DEF Books!Counted
<1> QED  BY <1>1, <1>5, <1>6, <1>7, <1>9, <1>10


(* Settled books that agree are those the property speaks of.              *)
LEMMA SettledBooksAgree ==
  ASSUME Books!TypeOK, Agreed, Books!Settled
  PROVE  Books!BooksAgree /\ Books!SpendIsWithinRounding
<1>1. PICK bs : bs = Bills(duty, log)
  OBVIOUS
<1>2. \A r \in Requests : (log[r] # None <=> req[r].at = "answered") /\ InEveryBook(log[r], bs[r])
  BY <1>1, SettledBill
<1>3. Books!Logged = {r \in Requests : req[r].at = "answered"}
  BY <1>2 DEF Books!Logged
<1>4. Books!Cardinality(Books!Keyed) = Total(NumberOfBills(bs), Requests)
  <2>1. PICK f, S : f = NumberOfBills(bs) /\ S = Books!Keyed
    OBVIOUS
  <2>2. S \in SUBSET Requests /\ \A r \in Requests : r \in S <=> log[r] # None /\ log[r].key # None
    BY <2>1 DEF Books!Keyed, Books!Logged
  <2>3. \A r \in Requests : f[r] = IF r \in S THEN 1 ELSE 0
    BY <1>2, <2>1, <2>2 DEF NumberOfBills, InEveryBook, One
  <2>4. (\A r \in S : f[r] = 1) /\ \A r \in Requests \ S : f[r] = 0
    BY <2>2, <2>3
  <2> QED  BY <2>1, <2>2, <2>4, NumberIsSum
<1>5. Books!Counted({r \in Requests : daily[r] # None}) = Total(NumberOfRows(daily), Requests)
  <2>1. PICK f, S, h : /\ f = NumberOfRows(daily) /\ S = {r \in Requests : daily[r] # None}
                       /\ h = [r \in S |-> daily[r].count]
    OBVIOUS
  <2>2. \A r \in Requests : f[r] = IF r \in S THEN daily[r].count ELSE 0
    BY <2>1 DEF NumberOfRows, Number
  <2>3. \A r \in S : daily[r].count \in Nat
    BY <2>1 DEF Books!TypeOK, Books!DailyRows
  <2>4. /\ S \in SUBSET Requests /\ DOMAIN h = S /\ \A r \in Requests : f[r] \in Nat
        /\ \A r \in S : h[r] = f[r]
        /\ \A r \in Requests \ S : f[r] = 0
    BY <2>1, <2>2, <2>3
  <2>5. Books!SumFunction(h) = Total(f, Requests)
    BY <2>4, ColumnIsSum
  <2>6. Books!Counted(S) = Total(f, Requests)
    BY <2>1, <2>5 DEF Books!Counted
  <2> QED  BY <2>1, <2>6
<1>6. Books!Counted({r \in Requests : daily[r] # None}) = Books!Cardinality(Books!Keyed)
  BY <1>1, <1>4, <1>5 DEF Agreed, NumbersAgree
<1>7. ASSUME NEW k \in Books!Live
      PROVE  /\ Books!Counted(Books!Paid(daily, k)) = Books!Cardinality(Books!Paid(log, k))
             /\ Books!Tokens(daily, Books!Paid(daily, k)) = Books!Tokens(log, Books!Paid(log, k))
             /\ tokens[k] + expired[k] = Books!Tokens(log, Books!Paid(log, k))
             /\ Near(apiKey[k].spend, Books!Cost(log, Books!Paid(log, k)),
                     Unit * Books!Cardinality(Books!Paid(log, k)))
             /\ apiKey[k].spend \in Nat
             /\ Books!Cost(log, Books!Paid(log, k)) \in Nat /\ Books!Cardinality(Books!Paid(log, k)) \in Nat
  <2>1. k \in Keys /\ apiKey[k].spend \in Nat
    BY DEF Books!Live, Books!TypeOK, Books!KeyRows
  <2>2. ASSUME NEW any
        PROVE  /\ Books!Tokens(log, Books!Paid(log, k)) = Total(OfBills(bs, any, k, "tokens"), Requests)
               /\ Books!Cost(log, Books!Paid(log, k)) = Total(OfBills(bs, any, k, "cost"), Requests)
               /\ Books!Cardinality(Books!Paid(log, k)) = Total(OfBills(bs, any, k, "one"), Requests)
               /\ Books!Tokens(daily, Books!Paid(daily, k)) = Total(OfRows(daily, k, "tokens"), Requests)
               /\ Books!Counted(Books!Paid(daily, k)) = Total(OfRows(daily, k, "count"), Requests)
    BY <1>1, <2>1, SettledKey
  <2>3. KeyAgrees(k, tokens[k] + expired[k], apiKey[k].spend, bs, daily)
    BY <1>1 DEF Agreed, KeysAgree
  <2>4. SumsAreNat(bs)
    BY <1>1, BillsType, BillSumsAreNat DEF Agreed
  <2> QED  BY <2>1, <2>2, <2>3, <2>4 DEF KeyAgrees, SumsAreNat
<1>8. Books!BooksAgree
  BY <1>3, <1>6, <1>7 DEF Books!BooksAgree
<1>9. Books!SpendIsWithinRounding
  <2> SUFFICES ASSUME NEW k \in Books!Live
               PROVE  LET off == 2 * (apiKey[k].spend - Books!Cost(log, Books!Paid(log, k)))
                      IN  /\ off <= Unit * Books!Cardinality(Books!Paid(log, k))
                          /\ -off <= Unit * Books!Cardinality(Books!Paid(log, k))
    BY DEF Books!SpendIsWithinRounding
  <2>1. PICK x \in Nat, y \in Nat, n \in Nat :
          /\ x = apiKey[k].spend /\ y = Books!Cost(log, Books!Paid(log, k))
          /\ n = Books!Cardinality(Books!Paid(log, k))
    BY <1>7
  <2>2. Near(x, y, Unit * n)
    BY <1>7, <2>1
  <2>3. 2 * (x - y) <= Unit * n /\ -(2 * (x - y)) <= Unit * n
    <3>1. PICK m \in Nat : m = Unit * n
      BY UnitType
    <3> QED  BY <2>2, <3>1 DEF Near
  <2> QED  BY <2>1, <2>3
<1> QED  BY <1>8, <1>9

----------------------------------------------------------------------------
(* Both parts of MCFallback                                                *)

(* A behaviour of the two parts is one of each.                            *)
LEMMA PartsAreBehaviours == MCSpec => Spec /\ Books!Spec
<1>1. MCInit => Init /\ Books!Init
  BY DEF MCInit
<1>2. [MCNext]_MCVars => [Next]_vars /\ [Books!Next]_(Books!vars)
  BY DEF MCNext, RequestStep, BookStep, Rest, MCVars, bookVars, Books!vars, Books!books, vars
<1> QED  BY <1>1, <1>2, PTL DEF MCSpec, Spec, Books!Spec

(* The budget of attempts is kept, a good answer is served, and the state  *)
(* of both parts has its type (fallback.go, helpers.go).                   *)
THEOREM VerdictsAreEarned == MCSpec => []VerdictIsEarned
<1>1. TypeOK /\ RetryBudget /\ HealthyAnswerIsServed /\ Books!TypeOK => VerdictIsEarned
  BY DEF VerdictIsEarned
<1> QED
  BY <1>1, PartsAreBehaviours, TypeAndEquipment, BudgetIsKept, GoodAnswersAreServed, BooksTypeHolds, PTL

(* Of Spending: with no statement failed and none outstanding, the log,    *)
(* the daily totals and the windows of the token counter tell of the same  *)
(* requests, but for those of the master key, which are in the log alone,  *)
(* and a key's spend is the sum of its log but for rounding (helpers.go,   *)
(* postgres.go).                                                           *)
THEOREM BooksAddUp == MCSpec => []BooksAgree
<1>1. Books!TypeOK /\ BooksInv => BooksAgree
  <2> SUFFICES ASSUME Books!TypeOK, BooksInv PROVE Books!BooksAgree /\ Books!SpendIsWithinRounding
    BY DEF BooksAgree
  <2>1. CASE Books!Settled
    <3>1. Agreed
      BY <2>1 DEF BooksInv, Books!Settled
    <3> QED  BY <2>1, <3>1, SettledBooksAgree
  <2>2. CASE ~Books!Settled
    BY <2>2 DEF Books!BooksAgree, Books!SpendIsWithinRounding
  <2> QED  BY <2>1, <2>2
<1> QED  BY <1>1, PartsAreBehaviours, BooksTypeHolds, BooksInvHolds, PTL
=============================================================================
