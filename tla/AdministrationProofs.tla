------------------------- MODULE AdministrationProofs -------------------------
(***************************************************************************)
(* What administrators change, for any rows, organizations, teams, users,  *)
(* keys, prices and administrators at work at once: the deployments and    *)
(* the router's copy, the accounts, the prices and the discounts.          *)
(***************************************************************************)
EXTENDS MCAdministration, SequenceTheorems, FiniteSetTheorems, TLAPS

(***************************************************************************)
(* The table of deployments and the router's copy of it, for any rows,     *)
(* organizations, strategies and administrators: types, what a deletion    *)
(* means whatever the handlers do at once, and that the router follows the *)
(* table when one administrator works at a time.                           *)
(***************************************************************************)

Copies == [Targets -> Routes \cup {Absent}]

(* What a handler carries from one statement to the next.                  *)
LocalOK ==
  \A a \in Admins :
    /\ pc[a] = "insert"  => local[a] \in Rows
    /\ pc[a] = "update"  => local[a].id \in Ids /\ local[a].row \in Rows
    /\ pc[a] = "install" => local[a] \in Copies

Typed == TypeOK /\ LocalOK /\ local = [a \in Admins |-> local[a]]

----------------------------------------------------------------------------
(* A route is one, and not the mark of none.                               *)
LEMMA NoRouteIsAbsent ==
  ASSUME NEW o \in Owners, NEW s \in Strategies \cup {Unspecified}
  PROVE  /\ [owner |-> o, strategy |-> s] \in Routes
         /\ [owner |-> o, strategy |-> s] # Absent
BY AbsentAssumption DEF Routes

(* The routes of rows are those of the active ones, each for its owner.    *)
Follow(copy, rows) ==
  /\ {i \in Ids : copy[i] # Absent} = ActiveIn(rows)
  /\ \A i \in ActiveIn(rows) : copy[i].owner = rows[i].owner
  /\ copy[Config] # Absent => ActiveIn(rows) = {}

(* What a reload builds from the rows follows them.                        *)
LEMMA ReloadFollows ==
  ASSUME NEW rows \in [Ids -> Rows \cup {Absent}]
  PROVE  /\ RoutesOf(rows, LAMBDA i : Unspecified) \in Copies
         /\ Follow(RoutesOf(rows, LAMBDA i : Unspecified), rows)
<1> DEFINE copy == RoutesOf(rows, LAMBDA i : Unspecified)
<1>1. copy = [i \in Targets |-> IF i \in ActiveIn(rows)
                                THEN [owner |-> rows[i].owner, strategy |-> Unspecified]
                                ELSE Absent]
  BY DEF RoutesOf
<1>2. \A i \in ActiveIn(rows) : /\ i \in Ids /\ i \in Targets /\ rows[i].owner \in Owners
                                /\ [owner |-> rows[i].owner, strategy |-> Unspecified] \in Routes
                                /\ [owner |-> rows[i].owner, strategy |-> Unspecified] # Absent
  BY NoRouteIsAbsent DEF ActiveIn, PresentIn, Rows, Targets
<1>3. Config \in Targets /\ Config \notin ActiveIn(rows)
  BY OwnersAssumption DEF Targets, ActiveIn, PresentIn
<1> HIDE DEF copy
<1>4. copy \in Copies /\ Follow(copy, rows)
  BY <1>1, <1>2, <1>3 DEF Copies, Follow, Targets
<1> QED  BY <1>4 DEF copy

(* What a start builds from the rows follows them.                         *)
LEMMA StartFollows ==
  ASSUME NEW rows \in [Ids -> Rows \cup {Absent}]
  PROVE  StartRoutes(rows) \in Copies /\ Follow(StartRoutes(rows), rows)
<1>1. CASE ActiveIn(rows) = {}
  <2>1. StartRoutes(rows) = [i \in Targets |-> IF i = Config
                                               THEN [owner |-> Global, strategy |-> Unspecified]
                                               ELSE Absent]
    BY <1>1 DEF StartRoutes
  <2>2. [owner |-> Global, strategy |-> Unspecified] \in Routes
    BY NoRouteIsAbsent, OwnersAssumption
  <2>3. \A i \in Ids : i # Config /\ i \in Targets
    BY OwnersAssumption DEF Targets
  <2> QED  BY <1>1, <2>1, <2>2, <2>3 DEF Copies, Follow
<1>2. CASE ActiveIn(rows) # {}
  <2> DEFINE copy == StartRoutes(rows)
  <2>1. copy = [i \in Targets |-> IF i \in ActiveIn(rows)
                                  THEN [owner |-> rows[i].owner, strategy |-> rows[i].strategy]
                                  ELSE Absent]
    BY <1>2 DEF StartRoutes, RoutesOf
  <2>2. \A i \in ActiveIn(rows) : /\ i \in Ids /\ i \in Targets
                                  /\ rows[i].owner \in Owners /\ rows[i].strategy \in Strategies
                                  /\ [owner |-> rows[i].owner, strategy |-> rows[i].strategy] \in Routes
                                  /\ [owner |-> rows[i].owner, strategy |-> rows[i].strategy] # Absent
    BY NoRouteIsAbsent DEF ActiveIn, PresentIn, Rows, Targets
  <2>3. Config \in Targets /\ Config \notin ActiveIn(rows)
    BY OwnersAssumption DEF Targets, ActiveIn, PresentIn
  <2> HIDE DEF copy
  <2>4. copy \in Copies /\ Follow(copy, rows)
    BY <2>1, <2>2, <2>3 DEF Copies, Follow, Targets
  <2> QED  BY <2>4 DEF copy
<1> QED  BY <1>1, <1>2

----------------------------------------------------------------------------
(* Types.                                                                  *)

LEMMA GotoIsTyped ==
  ASSUME Typed, NEW a \in Admins, NEW to, NEW what, Goto(a, to, what),
         to \in {"idle", "insert", "update", "fetch", "install"},
         to = "insert" => what \in Rows,
         to = "update" => what.id \in Ids /\ what.row \in Rows,
         to = "install" => what \in Copies
  PROVE  /\ pc' \in [Admins -> {"idle", "insert", "update", "fetch", "install"}]
         /\ LocalOK' /\ local' = [b \in Admins |-> local'[b]]
         /\ pc'[a] = to /\ local'[a] = what
         /\ \A b \in Admins \ {a} : pc'[b] = pc[b] /\ local'[b] = local[b]
BY DEF Typed, TypeOK, LocalOK, Goto

(* A new row is a row.                                                     *)
LEMMA NewRowsAreRows ==
  ASSUME NEW o \in Owners, NEW s \in Strategies
  PROVE  Row(o, s) \in Rows
BY DEF Row, Rows

(* A start keeps the types, with copies that follow and no handler at      *)
(* work.                                                                   *)
LEMMA StartIsTyped ==
  ASSUME Typed, NEW rows \in [Ids -> Rows \cup {Absent}], Start(rows), used' \subseteq Ids
  PROVE  Typed' /\ table' = rows /\ Follow(routes', table') /\ \A a \in Admins : pc'[a] = "idle"
<1>1. routes' \in Copies /\ Follow(routes', table')
  BY StartFollows DEF Start
<1> QED  BY <1>1 DEF Start, Typed, TypeOK, LocalOK, Copies

(* The first start has its types, and copies that follow.                  *)
LEMMA InitIsTyped == Init => Typed /\ Follow(routes, table) /\ \A a \in Admins : pc[a] = "idle"
<1> SUFFICES ASSUME Init PROVE Typed /\ Follow(routes, table) /\ \A a \in Admins : pc[a] = "idle"
  OBVIOUS
<1>1. Row(Global, Default) \in Rows
  BY NewRowsAreRows, OwnersAssumption, StrategiesAssumption
<1>2. table \in [Ids -> Rows \cup {Absent}] /\ used \subseteq Ids
  BY <1>1 DEF Init
<1>3. routes \in Copies /\ Follow(routes, table)
  BY <1>2, StartFollows DEF Init
<1> QED  BY <1>2, <1>3 DEF Init, Typed, TypeOK, LocalOK, Copies

(* A step of a handler keeps the types, also one that fails.               *)
LEMMA HandlerIsTyped ==
  ASSUME Typed, NEW a \in Admins, Handler(a) \/ CreateUnchecked(a) \/ Fail(a)
  PROVE  Typed'
<1>1. CASE Create(a) \/ CreateUnchecked(a)
  <2>1. PICK o \in Owners, s \in Strategies : Goto(a, "insert", Row(o, s))
    BY <1>1 DEF Create, CreateUnchecked
  <2> QED  BY <1>1, <2>1, NewRowsAreRows, GotoIsTyped DEF Create, CreateUnchecked, Typed, TypeOK
<1>2. CASE Insert(a)
  <2>1. Goto(a, "fetch", Absent)
    BY <1>2 DEF Insert
  <2>2. table' \in [Ids -> Rows \cup {Absent}] /\ used' \subseteq Ids
    BY <1>2 DEF Insert, Typed, TypeOK, LocalOK
  <2> QED  BY <1>2, <2>1, <2>2, GotoIsTyped DEF Insert, Typed, TypeOK
<1>3. CASE ReadForUpdate(a)
  <2>1. PICK i \in Present, new \in Rows : Goto(a, "update", [id |-> i, row |-> new])
    BY <1>3 DEF ReadForUpdate
  <2>2. i \in Ids
    BY DEF Present, PresentIn
  <2> QED  BY <1>3, <2>1, <2>2, GotoIsTyped DEF ReadForUpdate, Typed, TypeOK
<1>4. CASE Update(a)
  <2>1. Goto(a, "fetch", Absent)
    BY <1>4 DEF Update
  <2>2. table' \in [Ids -> Rows \cup {Absent}]
    BY <1>4 DEF Update, Typed, TypeOK, LocalOK
  <2> QED  BY <1>4, <2>1, <2>2, GotoIsTyped DEF Update, Typed, TypeOK
<1>5. CASE Delete(a)
  <2>1. table' \in [Ids -> Rows \cup {Absent}] /\ Goto(a, "fetch", Absent)
    BY <1>5 DEF Delete, Typed, TypeOK
  <2> QED  BY <1>5, <2>1, GotoIsTyped DEF Delete, Typed, TypeOK
<1>6. CASE UpdateAliasStrategy(a)
  <2>1. PICK o \in Owners, s \in Strategies :
          table' = [i \in Ids |-> IF i \in Present /\ table[i].owner = o
                                  THEN [table[i] EXCEPT !.strategy = s]
                                  ELSE table[i]]
    BY <1>6 DEF UpdateAliasStrategy
  <2>2. \A i \in Present : table[i] \in Rows
    BY DEF Present, PresentIn, Typed, TypeOK
  <2>3. \A i \in Present : [table[i] EXCEPT !.strategy = s] \in Rows
    BY <2>2 DEF Rows
  <2>4. table' \in [Ids -> Rows \cup {Absent}] /\ Goto(a, "fetch", Absent)
    BY <1>6, <2>1, <2>3 DEF UpdateAliasStrategy, Typed, TypeOK
  <2> QED  BY <1>6, <2>4, GotoIsTyped DEF UpdateAliasStrategy, Typed, TypeOK
<1>7. CASE Fetch(a)
  <2>1. Goto(a, "install", RoutesOf(table, LAMBDA i : Unspecified))
    BY <1>7 DEF Fetch
  <2>2. RoutesOf(table, LAMBDA i : Unspecified) \in Copies
    BY ReloadFollows DEF Typed, TypeOK
  <2> HIDE DEF RoutesOf
  <2> QED  BY <1>7, <2>1, <2>2, GotoIsTyped DEF Fetch, Typed, TypeOK
<1>8. CASE Install(a)
  <2>1. routes' \in Copies /\ Goto(a, "idle", Absent)
    BY <1>8 DEF Install, Typed, LocalOK
  <2> QED  BY <1>8, <2>1, GotoIsTyped DEF Install, Typed, TypeOK, Copies
<1>9. CASE UpdateSettings(a)
  BY <1>9 DEF UpdateSettings, Typed, TypeOK, LocalOK
<1>10. CASE Fail(a)
  BY <1>10, GotoIsTyped DEF Fail, Typed, TypeOK
<1> QED  BY <1>1, <1>2, <1>3, <1>4, <1>5, <1>6, <1>7, <1>8, <1>9, <1>10 DEF Handler

(* A restart keeps the types, with copies that follow and no handler at    *)
(* work.                                                                   *)
LEMMA RestartIsTyped ==
  ASSUME Typed, Restart \/ RestartSeeding \/ RestartUnseeded
  PROVE  Typed' /\ Follow(routes', table') /\ \A a \in Admins : pc'[a] = "idle"
<1>1. CASE Restart \/ RestartUnseeded
  BY <1>1, StartIsTyped DEF Restart, RestartUnseeded, Typed, TypeOK
<1>2. CASE RestartSeeding
  <2>1. PICK i \in Ids \ used : Start([table EXCEPT ![i] = Row(Global, Default)]) /\ used' = used \cup {i}
    BY <1>2 DEF RestartSeeding
  <2>2. [table EXCEPT ![i] = Row(Global, Default)] \in [Ids -> Rows \cup {Absent}]
    BY NewRowsAreRows, OwnersAssumption, StrategiesAssumption DEF Typed, TypeOK
  <2> QED  BY <2>1, <2>2, StartIsTyped DEF Typed, TypeOK
<1> QED  BY <1>1, <1>2

(* Every step keeps the types.                                             *)
LEMMA StepsAreTyped ==
  ASSUME Typed, [Next]_vars
  PROVE  Typed'
<1>1. CASE Next
  BY <1>1, HandlerIsTyped, RestartIsTyped DEF Next, ReliableNext
<1>2. CASE UNCHANGED vars
  BY <1>2 DEF vars, Typed, TypeOK, LocalOK
<1> QED  BY <1>1, <1>2

(* An insert takes an id that is not used, and an update only a row that   *)
(* is still there.                                                         *)
LEMMA FreeIdsStayFree ==
  ASSUME Typed, [Next]_vars
  PROVE  [\A i \in used : table[i] = Absent => table'[i] = Absent]_vars
<1>1. ASSUME NEW i \in used, table[i] = Absent, Next
      PROVE  table'[i] = Absent
  <2>1. i \in Ids /\ i \notin Present
    BY <1>1 DEF Typed, TypeOK, Present, PresentIn
  <2>2. ASSUME NEW a \in Admins, Handler(a) \/ CreateUnchecked(a) \/ Fail(a)
        PROVE  table'[i] = Absent
    <3>1. CASE Insert(a)
      BY <1>1, <2>1, <3>1 DEF Insert, Typed, TypeOK
    <3>2. CASE Update(a) \/ Delete(a)
      BY <1>1, <2>1, <3>2 DEF Update, Delete, Present, PresentIn, Typed, TypeOK
    <3>3. CASE UpdateAliasStrategy(a)
      BY <1>1, <2>1, <3>3 DEF UpdateAliasStrategy
    <3>4. CASE UNCHANGED table
      BY <1>1, <3>4
    <3> QED
      BY <2>2, <3>1, <3>2, <3>3, <3>4
      DEF Handler, Create, CreateUnchecked, ReadForUpdate, Fetch, Install, UpdateSettings, Fail
  <2>3. CASE Restart \/ RestartUnseeded
    BY <1>1, <2>3 DEF Restart, RestartUnseeded, Start
  <2>4. CASE RestartSeeding
    <3>1. PICK j \in Ids \ used : table' = [table EXCEPT ![j] = Row(Global, Default)]
      BY <2>4 DEF RestartSeeding, Start
    <3> QED  BY <1>1, <2>1, <3>1
  <2> QED  BY <1>1, <2>2, <2>3, <2>4 DEF Next, ReliableNext
<1> QED  BY <1>1

----------------------------------------------------------------------------
(* One administrator at a time.  Between a write and the end of its reload *)
(* the router may be behind, and then what it will install is not.         *)

OneAtATime == \A a, b \in Admins : pc[a] # "idle" /\ pc[b] # "idle" => a = b

FollowInv ==
  /\ Typed /\ OneAtATime
  /\ (\A a \in Admins : pc[a] \notin {"fetch", "install"}) => Follow(routes, table)
  /\ \A a \in Admins : pc[a] = "install" => Follow(local[a], table)

(* Where the others are while one works.                                   *)
LEMMA AloneGoes ==
  ASSUME FollowInv, NEW a \in Admins, Alone(a), NEW to, NEW what, Goto(a, to, what)
  PROVE  /\ pc'[a] = to /\ local'[a] = what
         /\ \A b \in Admins \ {a} : pc'[b] = "idle"
         /\ OneAtATime'
BY DEF FollowInv, Typed, TypeOK, Alone, Goto, OneAtATime

(* A handler that is alone keeps the copies behind no more than its own    *)
(* write.                                                                  *)
LEMMA AloneSteps ==
  ASSUME FollowInv, NEW a \in Admins, Alone(a), Handler(a)
  PROVE  FollowInv'
<1>1. Typed'
  BY HandlerIsTyped DEF FollowInv
<1>2. CASE Create(a) \/ ReadForUpdate(a)
  <2>1. pc[a] = "idle" /\ UNCHANGED <<routes, table>>
    BY <1>2 DEF Create, ReadForUpdate
  <2>2. \E what : Goto(a, "insert", what) \/ Goto(a, "update", what)
    <3>1. CASE Create(a)
      <4>1. PICK owner \in Owners, strategy \in Strategies : Goto(a, "insert", Row(owner, strategy))
        BY <3>1 DEF Create
      <4> QED  BY <4>1
    <3>2. CASE ReadForUpdate(a)
      <4>1. PICK i \in Present, new \in Rows : Goto(a, "update", [id |-> i, row |-> new])
        BY <3>2 DEF ReadForUpdate
      <4> QED  BY <4>1
    <3> QED  BY <1>2, <3>1, <3>2
  <2>3. Follow(routes, table)
    BY <2>1 DEF FollowInv, Alone
  <2>4. Follow(routes, table)'
    BY <2>1, <2>3 DEF Follow, ActiveIn, PresentIn
  <2> QED  BY <1>1, <2>2, <2>4, AloneGoes DEF FollowInv
<1>3. CASE Insert(a) \/ Update(a) \/ Delete(a) \/ UpdateAliasStrategy(a)
  <2>1. Goto(a, "fetch", Absent)
    BY <1>3 DEF Insert, Update, Delete, UpdateAliasStrategy
  <2> QED  BY <1>1, <2>1, AloneGoes DEF FollowInv
<1>4. CASE Fetch(a)
  <2>1. Goto(a, "install", RoutesOf(table, LAMBDA i : Unspecified)) /\ UNCHANGED table
    BY <1>4 DEF Fetch
  <2>2. Follow(RoutesOf(table, LAMBDA i : Unspecified), table)
    BY ReloadFollows DEF FollowInv, Typed, TypeOK
  <2>3. /\ pc'[a] = "install" /\ local'[a] = RoutesOf(table, LAMBDA i : Unspecified)
        /\ \A b \in Admins \ {a} : pc'[b] = "idle"
        /\ OneAtATime'
    BY <2>1, AloneGoes
  <2>4. Follow(local'[a], table)
    BY <2>2, <2>3
  <2>5. Follow(local[a], table)'
    BY <2>1, <2>4 DEF Follow, ActiveIn, PresentIn
  <2> QED  BY <1>1, <2>3, <2>5 DEF FollowInv
<1>5. CASE Install(a)
  <2>1. pc[a] = "install" /\ routes' = local[a] /\ Goto(a, "idle", Absent) /\ UNCHANGED table
    BY <1>5 DEF Install
  <2>2. Follow(local[a], table)
    BY <2>1 DEF FollowInv
  <2>3. Follow(routes, table)'
    BY <2>1, <2>2 DEF Follow, ActiveIn, PresentIn
  <2> QED  BY <1>1, <2>1, <2>3, AloneGoes DEF FollowInv
<1>6. CASE UpdateSettings(a)
  BY <1>1, <1>6 DEF UpdateSettings, FollowInv, OneAtATime, Follow, ActiveIn, PresentIn
<1> QED  BY <1>2, <1>3, <1>4, <1>5, <1>6 DEF Handler

(* So does every step while administrators work one at a time.             *)
LEMMA FollowInvSteps ==
  ASSUME FollowInv, [LoneNext]_vars
  PROVE  FollowInv'
<1>1. ASSUME NEW a \in Admins, Alone(a), Handler(a)
      PROVE  FollowInv'
  BY <1>1, AloneSteps
<1>2. CASE Restart \/ RestartSeeding
  <2>1. Typed' /\ Follow(routes', table') /\ \A a \in Admins : pc'[a] = "idle"
    BY <1>2, RestartIsTyped DEF FollowInv
  <2>2. Follow(routes, table)'
    BY <2>1 DEF Follow, ActiveIn, PresentIn
  <2> QED  BY <2>1, <2>2 DEF FollowInv, OneAtATime
<1>3. CASE UNCHANGED vars
  <2>1. Typed' /\ OneAtATime'
    BY <1>3 DEF vars, FollowInv, Typed, TypeOK, LocalOK, OneAtATime
  <2> QED  BY <1>3, <2>1 DEF vars, FollowInv, Follow, ActiveIn, PresentIn
<1> QED  BY <1>1, <1>2, <1>3 DEF LoneNext

----------------------------------------------------------------------------
(***************************************************************************)
(* What is billed as a discount, for any organizations, percentages,       *)
(* handlers and restarts, and every order of declarations, attestations,   *)
(* revocations, loads and swaps.                                           *)
(*                                                                         *)
(* A discount travels from the table, where it is attested, through the    *)
(* map a handler has loaded and not swapped in yet, to the engine.  On     *)
(* each of the three it has been countersigned, and attested only grows:   *)
(* a map that is swapped in late can be old, and never forged.             *)
(***************************************************************************)

(* Every discount of a map was countersigned.                              *)
Backed(map) == \A o \in Owners : map[o] # None => <<o, map[o]>> \in attested

TableIsBacked ==
  \A o \in Owners : discount[o] # None /\ discount[o].attested => <<o, discount[o].percent>> \in attested

LoadsAreBacked ==
  \A r \in Admins : loading[r].at = "swap" /\ loading[r].table = "discount" => Backed(loading[r].map)

(* What the argument needs of the types.                                   *)
BookShape ==
  /\ loading = [r \in Admins |-> loading[r]]
  /\ discount \in [Owners -> Prices!Maybe(Prices!DiscountRow)]
  /\ "discount" \in DOMAIN engine

DiscountInv == BookShape /\ TableIsBacked /\ LoadsAreBacked /\ Backed(engine.discount)

----------------------------------------------------------------------------
(* What is backed stays backed when more is attested.                      *)
LEMMA BackedGrows ==
  ASSUME NEW map, Backed(map), attested \subseteq attested'
  PROVE  \A o \in Owners : map[o] # None => <<o, map[o]>> \in attested'
BY DEF Backed

(* A load copies what the table holds and is attested.                     *)
LEMMA LoadIsBacked ==
  ASSUME TableIsBacked, NEW map \in Prices!LoadEffectiveDiscounts
  PROVE  Backed(map)
BY DEF TableIsBacked, Prices!LoadEffectiveDiscounts, Backed

(* Steps that swap nothing in, and leave discounts as they are.            *)
LEMMA OtherCalls ==
  ASSUME DiscountInv, UNCHANGED <<discount, attested, engine>>, NEW r \in Admins, NEW c, c.at # "swap",
         loading' = [loading EXCEPT ![r] = c]
  PROVE  DiscountInv'
BY DEF DiscountInv, BookShape, TableIsBacked, LoadsAreBacked, Backed

(* An upsert of prices brings no discount in.                              *)
LEMMA UpsertSteps ==
  ASSUME DiscountInv, UNCHANGED <<discount, attested, engine>>, NEW r \in Admins, NEW left, NEW seed,
         Prices!Upserting(r, left, seed)
  PROVE  DiscountInv'
<1> DEFINE c == IF left # {} THEN [at |-> "upsert", left |-> left, seed |-> seed]
                ELSE [at |-> "list", table |-> "operator"]
<1>1. c.at # "swap"
  OBVIOUS
<1>2. loading' = [loading EXCEPT ![r] = c]
  BY DEF Prices!Upserting
<1> HIDE DEF c
<1> QED  BY <1>1, <1>2, OtherCalls

(* Neither do an answer and the beginning of a reload.                     *)
LEMMA RespondSteps ==
  ASSUME DiscountInv, UNCHANGED <<discount, attested, engine>>, NEW r \in Admins, NEW which,
         Prices!Respond(r) \/ Prices!Reload(r, which)
  PROVE  DiscountInv'
<1>1. Prices!Idle.at # "swap" /\ [at |-> "list", table |-> which].at # "swap"
  BY DEF Prices!Idle
<1> QED  BY <1>1, OtherCalls DEF Prices!Respond, Prices!Reload

(* A step that changes the table of discounts, and no map.                 *)
LEMMA TableSteps ==
  ASSUME DiscountInv, UNCHANGED engine, attested \subseteq attested',
         discount' \in [Owners -> Prices!Maybe(Prices!DiscountRow)], TableIsBacked',
         UNCHANGED loading \/ \E r \in Admins : Prices!Reload(r, "discount")
  PROVE  DiscountInv'
<1>1. Backed(engine.discount)'
  BY BackedGrows DEF DiscountInv, Backed
<1>2. BookShape'
  BY DEF DiscountInv, BookShape, Prices!Reload
<1>3. ASSUME NEW r \in Admins, loading'[r].at = "swap", loading'[r].table = "discount"
      PROVE  Backed(loading[r].map)'
  <2>1. [at |-> "list", table |-> "discount"].at # "swap"
    OBVIOUS
  <2>2. loading'[r] = loading[r]
    BY <1>3, <2>1 DEF Prices!Reload, DiscountInv, BookShape
  <2>3. Backed(loading[r].map)
    BY <1>3, <2>2 DEF DiscountInv, LoadsAreBacked
  <2> QED  BY <2>2, <2>3, BackedGrows DEF Backed
<1> QED  BY <1>1, <1>2, <1>3 DEF DiscountInv, LoadsAreBacked

(* A declared discount is in no map before it is attested.                 *)
LEMMA DeclareSteps ==
  ASSUME DiscountInv, NEW r \in Admins, Prices!DeclareDiscount(r)
  PROVE  DiscountInv'
<1>1. PICK o \in Owners, p \in Percents : discount' = [discount EXCEPT ![o] = [percent |-> p, attested |-> FALSE]]
  BY DEF Prices!DeclareDiscount
<1>2. discount' \in [Owners -> Prices!Maybe(Prices!DiscountRow)]
  BY <1>1 DEF DiscountInv, BookShape, Prices!Maybe, Prices!DiscountRow
<1>3. TableIsBacked'
  BY <1>1 DEF Prices!DeclareDiscount, DiscountInv, BookShape, TableIsBacked
<1> QED  BY <1>2, <1>3, TableSteps DEF Prices!DeclareDiscount

(* A countersigned discount is attested.                                   *)
LEMMA CountersignSteps ==
  ASSUME DiscountInv, Prices!CountersignDiscount
  PROVE  DiscountInv'
<1>1. PICK o \in Owners :
        /\ discount[o] # None
        /\ discount' = [discount EXCEPT ![o].attested = TRUE]
        /\ attested' = attested \cup {<<o, discount[o].percent>>}
  BY DEF Prices!CountersignDiscount
<1>2. discount[o] \in Prices!DiscountRow
  BY <1>1 DEF DiscountInv, BookShape, Prices!Maybe
<1>3. [discount[o] EXCEPT !.attested = TRUE] \in Prices!DiscountRow
  BY <1>2 DEF Prices!DiscountRow
<1>4. discount' \in [Owners -> Prices!Maybe(Prices!DiscountRow)]
  BY <1>1, <1>3 DEF DiscountInv, BookShape, Prices!Maybe
<1>5. [discount[o] EXCEPT !.attested = TRUE].percent = discount[o].percent
  BY <1>2 DEF Prices!DiscountRow
<1>6. TableIsBacked'
  BY <1>1, <1>5 DEF DiscountInv, BookShape, TableIsBacked
<1> QED  BY <1>1, <1>4, <1>6, TableSteps DEF Prices!CountersignDiscount

(* A revocation takes the row from the table, whatever maps still hold.    *)
LEMMA RevokeSteps ==
  ASSUME DiscountInv, NEW r \in Admins, Prices!RevokeDiscount(r)
  PROVE  DiscountInv'
<1>1. PICK o \in Owners : discount' = [discount EXCEPT ![o] = None]
  BY DEF Prices!RevokeDiscount
<1>2. discount' \in [Owners -> Prices!Maybe(Prices!DiscountRow)]
  BY <1>1 DEF DiscountInv, BookShape, Prices!Maybe
<1>3. TableIsBacked'
  BY <1>1 DEF Prices!RevokeDiscount, DiscountInv, BookShape, TableIsBacked
<1> QED  BY <1>2, <1>3, TableSteps DEF Prices!RevokeDiscount, Prices!AfterRevocation

(* What is listed is what is attested now.                                 *)
LEMMA PriceListSteps ==
  ASSUME DiscountInv, NEW r \in Admins, Prices!List(r)
  PROVE  DiscountInv'
<1>1. PICK m \in Prices!Load(loading[r].table) :
        loading' = [loading EXCEPT ![r] = [at |-> "swap", table |-> @.table, map |-> m]]
  BY DEF Prices!List
<1>2. loading'[r] = [at |-> "swap", table |-> loading[r].table, map |-> m]
  BY <1>1 DEF DiscountInv, BookShape
<1>3. loading[r].table = "discount" => Backed(m)
  BY <1>1, LoadIsBacked DEF Prices!Load, DiscountInv
<1>4. UNCHANGED <<discount, attested, engine>>
  BY DEF Prices!List, Prices!tables
<1>5. BookShape' /\ TableIsBacked' /\ Backed(engine.discount)'
  BY <1>1, <1>4 DEF DiscountInv, BookShape, TableIsBacked, Backed
<1>6. ASSUME NEW q \in Admins, loading'[q].at = "swap", loading'[q].table = "discount"
      PROVE  Backed(loading[q].map)'
  <2>1. CASE q = r
    BY <1>2, <1>3, <1>4, <1>6, <2>1 DEF Backed
  <2>2. CASE q # r
    BY <1>1, <1>4, <1>6, <2>2 DEF DiscountInv, BookShape, LoadsAreBacked, Backed
  <2> QED  BY <2>1, <2>2
<1> QED  BY <1>5, <1>6 DEF DiscountInv, LoadsAreBacked

(* A map that is swapped in was backed when it was loaded.                 *)
LEMMA SwapSteps ==
  ASSUME DiscountInv, NEW r \in Admins, Prices!Swap(r)
  PROVE  DiscountInv'
<1>1. UNCHANGED <<discount, attested>>
  BY DEF Prices!Swap, Prices!tables
<1>2. loading' = [loading EXCEPT ![r] = Prices!Idle] /\ Prices!Idle.at # "swap"
  BY DEF Prices!Swap, Prices!Respond, Prices!Idle
<1>3. BookShape' /\ TableIsBacked' /\ LoadsAreBacked'
  BY <1>1, <1>2 DEF Prices!Swap, DiscountInv, BookShape, TableIsBacked, LoadsAreBacked, Backed
<1>4. engine' = [engine EXCEPT ![loading[r].table] = loading[r].map] /\ loading[r].at = "swap"
  BY DEF Prices!Swap
<1>5. CASE loading[r].table = "discount"
  BY <1>1, <1>3, <1>4, <1>5 DEF DiscountInv, BookShape, LoadsAreBacked, Backed
<1>6. CASE loading[r].table # "discount"
  BY <1>1, <1>3, <1>4, <1>6 DEF DiscountInv, BookShape, Backed
<1> QED  BY <1>5, <1>6

(* A start loads what the table has attested.                              *)
LEMMA PriceStartSteps ==
  ASSUME DiscountInv, NEW signer, Prices!Restart(signer) \/ Prices!autoSeedCatalog(signer)
  PROVE  DiscountInv'
<1>1. UNCHANGED <<discount, attested>>
  BY DEF Prices!Restart, Prices!autoSeedCatalog, Prices!tables
<1>2. PICK d \in Prices!LoadEffectiveDiscounts : engine'.discount = d /\ "discount" \in DOMAIN engine'
  <2>1. CASE Prices!Restart(signer)
    BY <2>1 DEF Prices!Restart, Prices!Started
  <2>2. CASE Prices!autoSeedCatalog(signer)
    BY <2>2 DEF Prices!autoSeedCatalog
  <2> QED  BY <2>1, <2>2
<1>3. loading' = [r \in Admins |-> Prices!Idle]
  BY DEF Prices!Restart, Prices!autoSeedCatalog, Prices!Started
<1>4. Prices!Idle.at # "swap"
  BY DEF Prices!Idle
<1>5. Backed(d)
  BY LoadIsBacked DEF DiscountInv
<1>6. Backed(engine.discount)'
  BY <1>1, <1>2, <1>5 DEF Backed
<1>7. BookShape' /\ TableIsBacked' /\ LoadsAreBacked'
  BY <1>1, <1>2, <1>3, <1>4 DEF DiscountInv, BookShape, TableIsBacked, LoadsAreBacked
<1> QED  BY <1>6, <1>7 DEF DiscountInv

(* Every step of a price handler keeps the discounts backed.               *)
LEMMA PriceHandlerSteps ==
  ASSUME DiscountInv, NEW r \in Admins, Prices!Handler(r) \/ Prices!UpsertFails(r) \/ Prices!ListFails(r)
  PROVE  DiscountInv'
<1>1. CASE Prices!SetOperatorCatalogRow(r)
  BY <1>1, UpsertSteps DEF Prices!SetOperatorCatalogRow, Prices!tables
<1>2. CASE Prices!SeedOperatorCatalogFromEmbedded(r)
  BY <1>2, UpsertSteps DEF Prices!SeedOperatorCatalogFromEmbedded, Prices!tables
<1>3. CASE Prices!Supersede(r)
  <2>1. PICK p \in loading[r].left :
          loading' = [loading EXCEPT ![r] = [at |-> "insert", left |-> @.left \ {p}, seed |-> @.seed, row |-> p,
                                       seen |-> {i \in Prices!InForce(price) : price[i].entry = p.entry}]]
    BY <1>3 DEF Prices!Supersede
  <2> DEFINE c == [at |-> "insert", left |-> loading[r].left \ {p}, seed |-> loading[r].seed, row |-> p,
                   seen |-> {i \in Prices!InForce(price) : price[i].entry = p.entry}]
  <2>2. loading' = [loading EXCEPT ![r] = c] /\ c.at # "swap"
    BY <2>1
  <2> HIDE DEF c
  <2> QED  BY <1>3, <2>2, OtherCalls DEF Prices!Supersede, Prices!tables
<1>4. CASE Prices!UpsertOperatorCatalogRow(r)
  BY <1>4, UpsertSteps DEF Prices!UpsertOperatorCatalogRow
<1>5. CASE Prices!SetModelPricing(r) \/ Prices!DeleteModelPricing(r)
  BY <1>5, RespondSteps DEF Prices!SetModelPricing, Prices!DeleteModelPricing
<1>6. CASE Prices!DeclareDiscount(r) \/ Prices!RevokeDiscount(r)
  BY <1>6, DeclareSteps, RevokeSteps
<1>7. CASE Prices!List(r) \/ Prices!Swap(r)
  BY <1>7, PriceListSteps, SwapSteps
<1>8. CASE Prices!UpsertFails(r) \/ Prices!ListFails(r)
  BY <1>8, UpsertSteps, RespondSteps DEF Prices!UpsertFails, Prices!ListFails, Prices!tables
<1> QED
  BY <1>1, <1>2, <1>3, <1>4, <1>5, <1>6, <1>7, <1>8 DEF Prices!Handler, Prices!PriceHandler, Prices!DiscountHandler

----------------------------------------------------------------------------
(* There are no discounts at first but those the table has attested.       *)
LEMMA InitIsBacked == Prices!Init => DiscountInv
<1> SUFFICES ASSUME Prices!Init PROVE DiscountInv
  OBVIOUS
<1>1. discount \in [Owners -> Prices!Maybe(Prices!DiscountRow)] /\ \A o \in Owners : discount[o] = None
  BY DEF Prices!Init, Prices!Nothing, Prices!Maybe
<1>2. "discount" \in DOMAIN engine /\ \A o \in Owners : engine.discount[o] = None
  BY DEF Prices!Init, Prices!Nothing
<1>3. TableIsBacked /\ Backed(engine.discount)
  BY <1>1, <1>2 DEF TableIsBacked, Backed
<1>4. LoadsAreBacked /\ loading = [r \in Admins |-> loading[r]]
  BY DEF Prices!Init, LoadsAreBacked, Prices!Idle
<1> QED  BY <1>1, <1>2, <1>3, <1>4 DEF DiscountInv, BookShape

(* Every step of the price book keeps the discounts backed.                *)
LEMMA StepsAreBacked == DiscountInv /\ [Prices!Next]_(Prices!vars) => DiscountInv'
<1> SUFFICES ASSUME DiscountInv, [Prices!Next]_(Prices!vars) PROVE DiscountInv'
  OBVIOUS
<1>1. ASSUME NEW r \in Admins, Prices!Handler(r) \/ Prices!UpsertFails(r) \/ Prices!ListFails(r)
      PROVE  DiscountInv'
  BY <1>1, PriceHandlerSteps
<1>2. CASE Prices!CountersignDiscount
  BY <1>2, CountersignSteps
<1>3. CASE Prices!Start
  BY <1>3, PriceStartSteps DEF Prices!Start
<1>4. CASE UNCHANGED Prices!vars
  BY <1>4 DEF Prices!vars, DiscountInv, BookShape, TableIsBacked, LoadsAreBacked, Backed
<1> QED  BY <1>1, <1>2, <1>3, <1>4 DEF Prices!Next

----------------------------------------------------------------------------
(***************************************************************************)
(* The spend of API keys, for any organizations, teams, users, keys and    *)
(* requests in progress, with failed statements and crashes.               *)
(*                                                                         *)
(* Statements wait in their request with rows read long ago.  An update is *)
(* harmless, for it keeps the spend that is in the table; what could set   *)
(* one back is an insert, and no insert waits for an id that is in use or  *)
(* that another insert waits for.                                          *)
(***************************************************************************)

IsSequence(s) == \E S : s \in Seq(S)

HasSpend(row) == "spend" \in DOMAIN row

(* What the argument needs of the types.                                   *)
AccountsShape ==
  /\ key = [k \in Keys |-> key[k]]
  /\ call = [r \in Admins |-> call[r]]
  /\ \A r \in Admins : IsSequence(call[r])

SpendsAreNumbers == \A k \in People!Live(key) : HasSpend(key[k]) /\ key[k].spend \in Nat

RowsHaveSpends ==
  \A r \in Admins : \A n \in DOMAIN call[r] :
    call[r][n].op \in {"CreateAPIKey", "UpdateAPIKey"} => HasSpend(call[r][n].row)

InsertsAreNew ==
  \A r \in Admins : \A n \in DOMAIN call[r] :
    call[r][n].op = "CreateAPIKey" => call[r][n].id \notin People!Live(key)

InsertsAreApart ==
  \A r, q \in Admins : \A n \in DOMAIN call[r], m \in DOMAIN call[q] :
    /\ call[r][n].op = "CreateAPIKey" /\ call[q][m].op = "CreateAPIKey"
    /\ call[r][n].id = call[q][m].id
    => r = q /\ n = m

SpendInv == AccountsShape /\ SpendsAreNumbers /\ RowsHaveSpends /\ InsertsAreNew /\ InsertsAreApart

----------------------------------------------------------------------------
(* What a statement may do to the keys.                                    *)

Keeps(k) == HasSpend(key'[k]) /\ key'[k].spend = key[k].spend

KeysMove(s) ==
  /\ key' = [k \in Keys |-> key'[k]]
  /\ \A k \in Keys : \/ key'[k] = key[k]
                     \/ key'[k] = Gone
                     \/ k \in People!Live(key) /\ Keeps(k)
                     \/ s.op = "CreateAPIKey" /\ k = s.id /\ HasSpend(key'[k]) /\ key'[k].spend = 0

(* An insert moves only the key it brings to life.                         *)
LEMMA InsertMoves ==
  ASSUME SpendInv, NEW s, HasSpend(s.row), People!InsertKey(s)
  PROVE  KeysMove(s)
<1> DEFINE row == [team |-> s.row.team, user |-> s.row.user, active |-> TRUE, expires |-> FALSE, spend |-> 0]
<1>1. HasSpend(row) /\ row.spend = 0
  BY DEF HasSpend
<1>2. key' = [key EXCEPT ![s.id] = row] /\ s.op = "CreateAPIKey"
  BY DEF People!InsertKey
<1> HIDE DEF row
<1> QED  BY <1>1, <1>2 DEF SpendInv, AccountsShape, KeysMove

(* An update leaves the spend that is in the table.                        *)
LEMMA UpdateMoves ==
  ASSUME SpendInv, NEW s, HasSpend(s.row), People!UpdateAPIKey(s)
  PROVE  KeysMove(s)
<1> DEFINE row == [s.row EXCEPT !.spend = key[s.id].spend]
<1>1. HasSpend(row) /\ row.spend = key[s.id].spend
  BY DEF HasSpend
<1>2. key' = [key EXCEPT ![s.id] = IF s.id \in People!Live(key) THEN row ELSE @]
  BY DEF People!UpdateAPIKey, People!Rewritten
<1> HIDE DEF row
<1> QED  BY <1>1, <1>2 DEF SpendInv, AccountsShape, KeysMove, Keeps

(* Keys that are deactivated keep their spend.                             *)
LEMMA DeactivationMoves ==
  ASSUME SpendInv, NEW s, People!DeactivateUserKeys(s) \/ People!DeactivateTeamKeys(s)
  PROVE  KeysMove(s)
<1>1. ASSUME NEW k \in People!Live(key), NEW row, row = [key[k] EXCEPT !.active = FALSE]
      PROVE  HasSpend(row) /\ row.spend = key[k].spend
  BY <1>1 DEF SpendInv, SpendsAreNumbers, HasSpend
<1>2. key' = [k \in Keys |-> key'[k]]
  BY DEF People!DeactivateUserKeys, People!DeactivateTeamKeys
<1>3. ASSUME NEW k \in Keys
      PROVE  \/ key'[k] = key[k]
             \/ k \in People!Live(key) /\ key'[k] = [key[k] EXCEPT !.active = FALSE]
  BY DEF People!DeactivateUserKeys, People!DeactivateTeamKeys
<1> QED  BY <1>1, <1>2, <1>3 DEF KeysMove, Keeps

(* Whatever a statement is, it moves keys only so.                         *)
LEMMA IssueMoves ==
  ASSUME SpendInv, NEW s, s.op \in {"CreateAPIKey", "UpdateAPIKey"} => HasSpend(s.row), People!Issue(s)
  PROVE  KeysMove(s)
<1>1. CASE People!InsertKey(s)
  BY <1>1, InsertMoves DEF People!InsertKey
<1>2. CASE People!UpdateAPIKey(s)
  BY <1>2, UpdateMoves DEF People!UpdateAPIKey
<1>3. CASE People!DeactivateUserKeys(s) \/ People!DeactivateTeamKeys(s)
  BY <1>3, DeactivationMoves
<1>4. CASE People!DeleteKeyRow(s)
  BY <1>4 DEF People!DeleteKeyRow, KeysMove, SpendInv, AccountsShape
<1>5. CASE UNCHANGED key
  BY <1>5 DEF KeysMove, SpendInv, AccountsShape
<1> QED
  BY <1>1, <1>2, <1>3, <1>4, <1>5
  DEF People!Issue, People!StoreOrg, People!StoreTeam, People!StoreUser, People!DeleteUserRow, People!DeleteTeamRow, People!DeleteOrgRow

----------------------------------------------------------------------------
(* What a request holds after one statement less.                          *)
LEMMA Shortened ==
  ASSUME SpendInv, NEW r \in Admins, call[r] # <<>>, People!Proceed(r)
  PROVE  /\ call' = [q \in Admins |-> call'[q]]
         /\ \A q \in Admins : IsSequence(call'[q])
         /\ Head(call[r]) = call[r][1] /\ 1 \in DOMAIN call[r]
         /\ \A n \in DOMAIN call'[r] : n + 1 \in DOMAIN call[r] /\ call'[r][n] = call[r][n + 1] /\ n + 1 # 1
         /\ \A q \in Admins \ {r} : call'[q] = call[q]
<1>1. PICK S : call[r] \in Seq(S)
  BY DEF SpendInv, AccountsShape, IsSequence
<1>2. call'[r] = Tail(call[r]) /\ call' = [q \in Admins |-> call'[q]]
  BY DEF People!Proceed, SpendInv, AccountsShape
<1>3. \A q \in Admins \ {r} : call'[q] = call[q]
  BY DEF People!Proceed, SpendInv, AccountsShape
<1>4. /\ Tail(call[r]) \in Seq(S) /\ Len(Tail(call[r])) = Len(call[r]) - 1
      /\ \A n \in 1 .. Len(Tail(call[r])) : Tail(call[r])[n] = call[r][n + 1]
  BY <1>1, HeadTailProperties
<1>5. Len(call[r]) \in Nat \ {0} /\ DOMAIN call[r] = 1 .. Len(call[r])
      /\ DOMAIN Tail(call[r]) = 1 .. Len(Tail(call[r]))
  BY <1>1, <1>4, EmptySeq
<1>6. \A n \in DOMAIN call'[r] : n + 1 \in DOMAIN call[r] /\ call'[r][n] = call[r][n + 1] /\ n + 1 # 1
  BY <1>2, <1>4, <1>5
<1>7. \A q \in Admins : IsSequence(call'[q])
  BY <1>2, <1>3, <1>4 DEF SpendInv, AccountsShape, IsSequence
<1>8. Head(call[r]) = call[r][1]
  BY <1>1
<1> QED  BY <1>2, <1>3, <1>5, <1>6, <1>7, <1>8

(* The keys that a statement moves keep their spend, and only an insert    *)
(* brings one to life.                                                     *)
LEMMA MovesKeepSpends ==
  ASSUME SpendInv, NEW s, KeysMove(s)
  PROVE  /\ SpendsAreNumbers'
         /\ \A k \in People!Live(key)' \ People!Live(key) : s.op = "CreateAPIKey" /\ k = s.id
<1>1. \A k \in People!Live(key) : k \in Keys
  BY DEF SpendInv, AccountsShape, People!Live
<1>2. \A k \in People!Live(key)' : k \in Keys /\ key'[k] \notin {None, Gone}
  BY DEF KeysMove, People!Live
<1>3. \A k \in Keys : key[k] \notin {None, Gone} => k \in People!Live(key)
  BY DEF SpendInv, AccountsShape, People!Live
<1>4. ASSUME NEW k \in People!Live(key)'
      PROVE  /\ HasSpend(key'[k]) /\ key'[k].spend \in Nat
             /\ k \notin People!Live(key) => s.op = "CreateAPIKey" /\ k = s.id
  BY <1>2, <1>3, <1>4 DEF KeysMove, Keeps, SpendInv, SpendsAreNumbers
<1> QED  BY <1>4 DEF SpendsAreNumbers, HasSpend

(* A stored statement keeps the invariant of the spends.                   *)
LEMMA StoreSteps ==
  ASSUME SpendInv, NEW r \in Admins, People!Store(r)
  PROVE  SpendInv'
<1>1. /\ call[r] # <<>> /\ People!Issue(Head(call[r])) /\ People!Proceed(r)
      /\ Head(call[r]) = call[r][1] /\ 1 \in DOMAIN call[r]
  BY Shortened DEF People!Store
<1>2. KeysMove(call[r][1])
  BY <1>1, IssueMoves DEF SpendInv, RowsHaveSpends
<1>3. ASSUME NEW q \in Admins, NEW n \in DOMAIN call'[q]
      PROVE  \E m \in DOMAIN call[q] : /\ call'[q][n] = call[q][m]
                                       /\ q = r => m = n + 1 /\ m # 1
                                       /\ q # r => m = n
  BY <1>1, Shortened
<1>4. AccountsShape'
  BY <1>1, <1>2, Shortened DEF AccountsShape, KeysMove
<1>5. RowsHaveSpends'
  BY <1>3 DEF SpendInv, RowsHaveSpends
<1>6. InsertsAreNew'
  BY <1>1, <1>2, <1>3, MovesKeepSpends DEF SpendInv, InsertsAreNew, InsertsAreApart
<1>7. ASSUME NEW p \in Admins, NEW q \in Admins, NEW n \in DOMAIN call'[p], NEW m \in DOMAIN call'[q],
             call'[p][n].op = "CreateAPIKey", call'[q][m].op = "CreateAPIKey",
             call'[p][n].id = call'[q][m].id
      PROVE  p = q /\ n = m
  <2>1. PICK i \in DOMAIN call[p] : call'[p][n] = call[p][i] /\ (p = r => i = n + 1) /\ (p # r => i = n)
    BY <1>3
  <2>2. PICK j \in DOMAIN call[q] : call'[q][m] = call[q][j] /\ (q = r => j = m + 1) /\ (q # r => j = m)
    BY <1>3
  <2>3. p = q /\ i = j
    BY <1>7, <2>1, <2>2 DEF SpendInv, InsertsAreApart
  <2>4. n \in Int /\ m \in Int
    BY <1>7, <1>4 DEF AccountsShape, IsSequence
  <2> QED  BY <2>1, <2>2, <2>3, <2>4
<1> QED  BY <1>2, <1>4, <1>5, <1>6, <1>7, MovesKeepSpends DEF SpendInv, InsertsAreApart

(* A failed statement goes, and perhaps those after it; the process may    *)
(* forget them all.                                                        *)
LEMMA AccountsFailSteps ==
  ASSUME SpendInv, UNCHANGED key,
         (\E r \in Admins : People!Fail(r)) \/ People!Crash
  PROVE  SpendInv'
<1>1. SpendsAreNumbers' /\ People!Live(key)' = People!Live(key)
  BY DEF SpendInv, SpendsAreNumbers, People!Live, HasSpend
<1>2. CASE People!Crash
  <2>1. \A r \in Admins : call'[r] = <<>> /\ IsSequence(call'[r])
    BY <1>2 DEF People!Crash, IsSequence
  <2>2. DOMAIN <<>> = {}
    OBVIOUS
  <2> QED
    BY <1>1, <1>2, <2>1, <2>2
    DEF People!Crash, SpendInv, AccountsShape, RowsHaveSpends, InsertsAreNew, InsertsAreApart
<1>3. ASSUME NEW r \in Admins, People!Fail(r)
      PROVE  SpendInv'
  <2>1. CASE People!Proceed(r)
    <3>1. call[r] # <<>>
      BY <1>3 DEF People!Fail
    <3>2. AccountsShape'
      BY <2>1, <3>1, Shortened DEF AccountsShape, SpendInv
    <3>3. ASSUME NEW q \in Admins, NEW n \in DOMAIN call'[q]
          PROVE  \E m \in DOMAIN call[q] : /\ call'[q][n] = call[q][m]
                                           /\ q = r => m = n + 1
                                           /\ q # r => m = n
      BY <2>1, <3>1, Shortened
    <3>4. RowsHaveSpends' /\ InsertsAreNew'
      BY <1>1, <3>3 DEF SpendInv, RowsHaveSpends, InsertsAreNew
    <3>5. \A q \in Admins : \A n \in DOMAIN call'[q] : n \in Int
      BY <3>2 DEF AccountsShape, IsSequence
    <3>6. InsertsAreApart'
      BY <3>3, <3>5 DEF SpendInv, InsertsAreApart
    <3> QED  BY <1>1, <3>2, <3>4, <3>6 DEF SpendInv
  <2>2. CASE call' = [call EXCEPT ![r] = <<>>]
    <3>1. IsSequence(<<>>) /\ DOMAIN <<>> = {}
      BY DEF IsSequence
    <3>2. AccountsShape'
      BY <2>2, <3>1 DEF SpendInv, AccountsShape
    <3>3. \A q \in Admins : \A n \in DOMAIN call'[q] : n \in DOMAIN call[q] /\ call'[q] = call[q]
      BY <2>2, <3>1 DEF SpendInv, AccountsShape
    <3> QED
      BY <1>1, <3>2, <3>3 DEF SpendInv, RowsHaveSpends, InsertsAreNew, InsertsAreApart
  <2> QED  BY <1>3, <2>1, <2>2 DEF People!Fail
<1> QED  BY <1>2, <1>3

----------------------------------------------------------------------------
(* What a handler begins with: no more than one insert of a key, of a      *)
(* fresh id, and whole rows.                                               *)

Sound(s) ==
  /\ s.op = "CreateAPIKey" => s.id \in People!Fresh(key)
  /\ s.op \in {"CreateAPIKey", "UpdateAPIKey"} => HasSpend(s.row)

WellBegun(stmts) ==
  /\ IsSequence(stmts)
  /\ \A n \in DOMAIN stmts : Sound(stmts[n])
  /\ \A n, m \in DOMAIN stmts :
       stmts[n].op = "CreateAPIKey" /\ stmts[m].op = "CreateAPIKey" => n = m

(* A handler that begins well keeps it.                                    *)
LEMMA BeginSteps ==
  ASSUME SpendInv, NEW r \in Admins, NEW stmts, WellBegun(stmts), People!Begin(r, stmts)
  PROVE  SpendInv'
<1>1. UNCHANGED key /\ People!Live(key)' = People!Live(key)
  BY DEF People!Begin, People!tables, People!Live
<1>2. /\ call[r] = <<>> /\ call' = [q \in Admins |-> call'[q]]
      /\ call'[r] = stmts /\ \A q \in Admins \ {r} : call'[q] = call[q]
  BY DEF People!Begin, SpendInv, AccountsShape
<1>3. AccountsShape' /\ SpendsAreNumbers'
  BY <1>1, <1>2 DEF SpendInv, AccountsShape, SpendsAreNumbers, HasSpend, WellBegun
<1>4. RowsHaveSpends'
  BY <1>2 DEF SpendInv, RowsHaveSpends, WellBegun, Sound
<1>5. ASSUME NEW i \in People!Fresh(key)
      PROVE  i \notin People!Live(key) /\ \A q \in Admins : \A n \in DOMAIN call[q] : call[q][n].id # i
  BY <1>5 DEF People!Fresh, People!Live
<1>6. InsertsAreNew'
  BY <1>1, <1>2, <1>5 DEF SpendInv, InsertsAreNew, WellBegun, Sound
<1>7. InsertsAreApart'
  BY <1>2, <1>5 DEF SpendInv, InsertsAreApart, WellBegun, Sound
<1> QED  BY <1>3, <1>4, <1>6, <1>7 DEF SpendInv

(* One sound statement is a good beginning.                                *)
LEMMA OneSoundStatement ==
  ASSUME NEW s, Sound(s)
  PROVE  WellBegun(<<s>>)
<1>1. <<s>> \in Seq({s})
  OBVIOUS
<1>2. DOMAIN <<s>> = {1} /\ <<s>>[1] = s
  OBVIOUS
<1> QED  BY <1>1, <1>2 DEF WellBegun, IsSequence

(* So are two of which the first inserts no key.                           *)
LEMMA TwoSoundStatements ==
  ASSUME NEW s, NEW t, Sound(s), Sound(t), s.op # "CreateAPIKey"
  PROVE  WellBegun(<<s, t>>)
<1>1. <<s, t>> \in Seq({s, t})
  OBVIOUS
<1>2. DOMAIN <<s, t>> = {1, 2} /\ <<s, t>>[1] = s /\ <<s, t>>[2] = t
  OBVIOUS
<1> QED  BY <1>1, <1>2 DEF WellBegun, IsSequence

(* And four of which none but the last does.                               *)
LEMMA FourSoundStatements ==
  ASSUME NEW s, NEW t, NEW u, NEW v, Sound(s), Sound(t), Sound(u), Sound(v),
         s.op # "CreateAPIKey", t.op # "CreateAPIKey", u.op # "CreateAPIKey"
  PROVE  WellBegun(<<s, t, u, v>>)
<1>1. <<s, t, u, v>> \in Seq({s, t, u, v})
  OBVIOUS
<1>2. /\ DOMAIN <<s, t, u, v>> = {1, 2, 3, 4}
      /\ <<s, t, u, v>>[1] = s /\ <<s, t, u, v>>[2] = t
      /\ <<s, t, u, v>>[3] = u /\ <<s, t, u, v>>[4] = v
  OBVIOUS
<1> QED  BY <1>1, <1>2 DEF WellBegun, IsSequence

(* Statements about other tables, and those that write no row.             *)
LEMMA OthersAreSound ==
  ASSUME NEW op, NEW id, NEW row, op \notin {"CreateAPIKey", "UpdateAPIKey"}
  PROVE  Sound(People!Stmt(op, id, row)) /\ People!Stmt(op, id, row).op # "CreateAPIKey"
BY DEF Sound, People!Stmt

(* The insert of a fresh key is sound.                                     *)
LEMMA InsertsAreSound ==
  ASSUME NEW k \in People!Fresh(key), NEW t, NEW u, NEW e
  PROVE  Sound(People!Stmt("CreateAPIKey", k, People!NewKey(t, u, e)))
BY DEF Sound, People!Stmt, People!NewKey, HasSpend

(* The handlers of keys begin well.                                        *)
LEMMA KeyHandlerSteps ==
  ASSUME SpendInv, NEW r \in Admins, NEW c,
         \/ People!CreateAPIKey(r, c) \/ People!DeleteAPIKey(r, c) \/ People!UpdateAPIKeyHandler(r, c)
         \/ People!LiteLLMKeyGenerate(r, c) \/ People!LiteLLMKeyDelete(r, c)
  PROVE  SpendInv'
<1>1. CASE People!CreateAPIKey(r, c)
  BY <1>1, InsertsAreSound, OneSoundStatement, BeginSteps DEF People!CreateAPIKey
<1>2. CASE People!DeleteAPIKey(r, c)
  BY <1>2, OthersAreSound, OneSoundStatement, BeginSteps DEF People!DeleteAPIKey
<1>3. CASE People!UpdateAPIKeyHandler(r, c)
  <2>1. PICK k, t, u, a :
          /\ k \in People!Live(key)
          /\ People!Begin(r, <<People!Stmt("UpdateAPIKey", k,
                             [key[k] EXCEPT !.team = People!Given(t, @), !.user = People!Given(u, @),
                                            !.active = People!Given(a, @)])>>)
    BY <1>3 DEF People!UpdateAPIKeyHandler
  <2> DEFINE row == [key[k] EXCEPT !.team = People!Given(t, @), !.user = People!Given(u, @), !.active = People!Given(a, @)]
  <2>2. HasSpend(row)
    BY <2>1 DEF SpendInv, SpendsAreNumbers, HasSpend
  <2> HIDE DEF row
  <2>3. Sound(People!Stmt("UpdateAPIKey", k, row))
    BY <2>2 DEF Sound, People!Stmt
  <2> QED  BY <2>1, <2>3, OneSoundStatement, BeginSteps DEF row
<1>4. CASE People!LiteLLMKeyGenerate(r, c)
  BY <1>4, InsertsAreSound, OneSoundStatement, BeginSteps DEF People!LiteLLMKeyGenerate
<1>5. CASE People!LiteLLMKeyDelete(r, c)
  BY <1>5, OthersAreSound, OneSoundStatement, BeginSteps DEF People!LiteLLMKeyDelete
<1> QED  BY <1>1, <1>2, <1>3, <1>4, <1>5

(* The handlers of organizations, teams and users begin well.              *)
LEMMA OtherHandlerSteps ==
  ASSUME SpendInv, NEW r \in Admins, NEW c,
         \/ People!CreateTeam(r, c) \/ People!DeleteTeam(r, c)
         \/ People!CreateUser(r, c) \/ People!UpdateUser(r, c) \/ People!DeleteUser(r, c)
         \/ People!CreateOrganization(r, c) \/ People!UpdateOrganization(r, c) \/ People!DeleteOrganization(r, c)
         \/ People!LiteLLMTeamNew(r, c) \/ People!LiteLLMUserNew(r, c)
  PROVE  SpendInv'
<1>1. CASE People!CreateTeam(r, c) \/ People!LiteLLMTeamNew(r, c)
  BY <1>1, OthersAreSound, OneSoundStatement, BeginSteps DEF People!CreateTeam, People!LiteLLMTeamNew
<1>2. CASE People!CreateUser(r, c) \/ People!UpdateUser(r, c) \/ People!LiteLLMUserNew(r, c)
  BY <1>2, OthersAreSound, OneSoundStatement, BeginSteps DEF People!CreateUser, People!UpdateUser, People!LiteLLMUserNew
<1>3. CASE People!CreateOrganization(r, c) \/ People!UpdateOrganization(r, c) \/ People!DeleteOrganization(r, c)
  BY <1>3, OthersAreSound, OneSoundStatement, BeginSteps
  DEF People!CreateOrganization, People!UpdateOrganization, People!DeleteOrganization
<1>4. CASE People!DeleteTeam(r, c)
  BY <1>4, OthersAreSound, TwoSoundStatements, BeginSteps DEF People!DeleteTeam
<1>5. CASE People!DeleteUser(r, c)
  BY <1>5, OthersAreSound, TwoSoundStatements, BeginSteps DEF People!DeleteUser, People!DeletionOf
<1> QED  BY <1>1, <1>2, <1>3, <1>4, <1>5

(* So do logins and registrations.                                         *)
LEMMA NewcomerSteps ==
  ASSUME SpendInv, NEW r \in Admins, People!LoginUser(r) \/ People!RegisterUser(r)
  PROVE  SpendInv'
<1>1. CASE People!LoginUser(r)
  BY <1>1, InsertsAreSound, OneSoundStatement, BeginSteps DEF People!LoginUser
<1>2. CASE People!RegisterUser(r)
  BY <1>2, OthersAreSound, InsertsAreSound, FourSoundStatements, BeginSteps DEF People!RegisterUser
<1> QED  BY <1>1, <1>2

(* Charges only add.                                                       *)
LEMMA ChargeSteps ==
  ASSUME SpendInv, People!UpdateKeySpend
  PROVE  /\ SpendInv'
         /\ \A k \in People!Live(key) : key'[k].spend >= key[k].spend
<1>1. PICK k \in People!Live(key) : key' = [key EXCEPT ![k].spend = @ + 1]
  BY DEF People!UpdateKeySpend
<1> DEFINE row == [key[k] EXCEPT !.spend = @ + 1]
<1>2. k \in Keys /\ HasSpend(key[k]) /\ key[k].spend \in Nat
  BY DEF SpendInv, AccountsShape, SpendsAreNumbers, People!Live
<1>3. HasSpend(row) /\ row.spend = key[k].spend + 1
  BY <1>2 DEF HasSpend
<1>4. key' = [key EXCEPT ![k] = row]
  BY <1>1
<1> HIDE DEF row
<1>5. /\ key' = [j \in Keys |-> key'[j]] /\ key'[k] = row
      /\ \A j \in Keys \ {k} : key'[j] = key[j]
  BY <1>2, <1>4 DEF SpendInv, AccountsShape
<1>6. \A j \in People!Live(key)' : j \in People!Live(key) /\ HasSpend(key'[j]) /\ key'[j].spend \in Nat
  BY <1>2, <1>3, <1>5 DEF People!Live, SpendInv, AccountsShape, SpendsAreNumbers
<1>7. UNCHANGED call
  BY DEF People!UpdateKeySpend
<1>8. SpendInv'
  BY <1>5, <1>6, <1>7
  DEF SpendInv, AccountsShape, SpendsAreNumbers, RowsHaveSpends, InsertsAreNew, InsertsAreApart, HasSpend
<1>9. \A j \in People!Live(key) : key'[j].spend >= key[j].spend
  BY <1>2, <1>3, <1>5 DEF People!Live, SpendInv, AccountsShape, SpendsAreNumbers
<1> QED  BY <1>8, <1>9

----------------------------------------------------------------------------
(* No spend is at risk at first.                                           *)
LEMMA SpendInvInit == People!Init => SpendInv
<1> SUFFICES ASSUME People!Init PROVE SpendInv
  OBVIOUS
<1>1. IsSequence(<<>>) /\ DOMAIN <<>> = {}
  BY DEF IsSequence
<1>2. People!Live(key) = {}
  BY DEF People!Init, People!Live
<1> QED
  BY <1>1, <1>2
  DEF People!Init, SpendInv, AccountsShape, SpendsAreNumbers, RowsHaveSpends, InsertsAreNew, InsertsAreApart

(* No step puts one at risk.                                               *)
LEMMA SpendInvSteps ==
  ASSUME SpendInv, [People!Next]_(People!vars)
  PROVE  SpendInv'
<1>1. ASSUME NEW r \in Admins, People!Handler(r)
      PROVE  SpendInv'
  BY <1>1, KeyHandlerSteps, OtherHandlerSteps, NewcomerSteps DEF People!Handler
<1>2. ASSUME NEW r \in Admins, People!Store(r)
      PROVE  SpendInv'
  BY <1>2, StoreSteps
<1>3. CASE (\E r \in Admins : People!Fail(r)) \/ People!Crash
  <2>1. UNCHANGED key
    BY <1>3 DEF People!Fail, People!Crash, People!tables
  <2> QED  BY <1>3, <2>1, AccountsFailSteps
<1>4. CASE People!UpdateKeySpend
  BY <1>4, ChargeSteps
<1>5. CASE UNCHANGED People!vars
  BY <1>5
  DEF People!vars, SpendInv, AccountsShape, SpendsAreNumbers, RowsHaveSpends, InsertsAreNew, InsertsAreApart, People!Live, HasSpend
<1> QED  BY <1>1, <1>2, <1>3, <1>4, <1>5 DEF People!Next

(* No step takes from the spend of a key that stays.                       *)
LEMMA StepsLoseNoSpend ==
  ASSUME SpendInv, People!Next
  PROVE  \A k \in People!Live(key) : key'[k] # Gone => key'[k].spend >= key[k].spend
<1> SUFFICES ASSUME NEW k \in People!Live(key), key'[k] # Gone
             PROVE  key'[k].spend >= key[k].spend
  OBVIOUS
<1>1. k \in Keys /\ key[k].spend \in Nat
  BY DEF SpendInv, AccountsShape, SpendsAreNumbers, People!Live
<1>2. CASE UNCHANGED key
  BY <1>1, <1>2
<1>3. ASSUME NEW r \in Admins, People!Store(r)
      PROVE  key'[k].spend >= key[k].spend
  <2>1. /\ call[r] # <<>> /\ People!Issue(Head(call[r])) /\ People!Proceed(r)
        /\ Head(call[r]) = call[r][1] /\ 1 \in DOMAIN call[r]
    BY <1>3, Shortened DEF People!Store
  <2>2. KeysMove(call[r][1])
    BY <2>1, IssueMoves DEF SpendInv, RowsHaveSpends
  <2>3. call[r][1].op = "CreateAPIKey" => call[r][1].id # k
    BY <2>1 DEF SpendInv, InsertsAreNew
  <2>4. key'[k].spend = key[k].spend
    BY <1>1, <2>2, <2>3 DEF KeysMove, Keeps
  <2> QED  BY <1>1, <2>4
<1>4. CASE People!UpdateKeySpend
  BY <1>4, ChargeSteps
<1>5. ASSUME NEW r \in Admins, People!Handler(r)
      PROVE  UNCHANGED key
  <2>1. ASSUME NEW stmts, People!Begin(r, stmts)
        PROVE  UNCHANGED key
    BY <2>1 DEF People!Begin, People!tables
  <2>2. CASE People!LoginUser(r) \/ People!RegisterUser(r)
    BY <2>1, <2>2 DEF People!LoginUser, People!RegisterUser
  <2>3. ASSUME NEW c, People!CreateAPIKey(r, c) \/ People!DeleteAPIKey(r, c) \/ People!UpdateAPIKeyHandler(r, c)
                      \/ People!LiteLLMKeyGenerate(r, c) \/ People!LiteLLMKeyDelete(r, c)
        PROVE  UNCHANGED key
    BY <2>1, <2>3 DEF People!CreateAPIKey, People!DeleteAPIKey, People!UpdateAPIKeyHandler, People!LiteLLMKeyGenerate, People!LiteLLMKeyDelete
  <2>4. ASSUME NEW c, People!CreateTeam(r, c) \/ People!DeleteTeam(r, c) \/ People!LiteLLMTeamNew(r, c) \/ People!LiteLLMUserNew(r, c)
                      \/ People!CreateUser(r, c) \/ People!UpdateUser(r, c) \/ People!DeleteUser(r, c)
        PROVE  UNCHANGED key
    BY <2>1, <2>4
    DEF People!CreateTeam, People!DeleteTeam, People!LiteLLMTeamNew, People!LiteLLMUserNew, People!CreateUser, People!UpdateUser, People!DeleteUser
  <2>5. ASSUME NEW c, People!CreateOrganization(r, c) \/ People!UpdateOrganization(r, c) \/ People!DeleteOrganization(r, c)
        PROVE  UNCHANGED key
    BY <2>1, <2>5 DEF People!CreateOrganization, People!UpdateOrganization, People!DeleteOrganization
  <2> QED  BY <1>5, <2>2, <2>3, <2>4, <2>5 DEF People!Handler
<1>6. (\E r \in Admins : People!Fail(r)) \/ People!Crash => UNCHANGED key
  BY DEF People!Fail, People!Crash, People!tables
<1> QED  BY <1>2, <1>3, <1>4, <1>5, <1>6 DEF People!Next

----------------------------------------------------------------------------
(* What a handler carries from one step to the next, while the engine      *)
(* verifies with pub.                                                      *)
BookTables == {"operator", "custom", "discount"}

MapsOf(which) ==
  IF which = "discount" THEN [Owners -> Prices!Maybe(Percents)] ELSE [Entries -> Prices!Maybe(Costs)]

CallOK(c, pub) ==
  /\ c.at \in {"idle", "upsert", "insert", "list", "swap"}
  /\ c.at \in {"upsert", "insert"} => c.left \subseteq Prices!Prices /\ pub \in SigningKeys
  /\ c.at = "insert" => c.row \in Prices!Prices
  /\ c.at \in {"list", "swap"} => c.table \in BookTables
  /\ c.at = "swap" => c.map \in MapsOf(c.table)

CallsOK == loading = [r \in Admins |-> loading[r]] /\ \A r \in Admins : CallOK(loading[r], engine.pub)

(* A row that an upsert has seen stays.                                    *)
SeenArePresent ==
  \A r \in Admins : loading[r].at = "insert" =>
    \A i \in loading[r].seen : i \in PriceRows /\ price[i] # None

BookTyped == Prices!TypeOK /\ CallsOK /\ SeenArePresent

----------------------------------------------------------------------------
(* One administrator at a time.  A map of the engine may be behind its     *)
(* table from the write to the end of the reload, and then what is about   *)
(* to be swapped in is not.                                                *)

OperatorFollows(map) ==
  \A e \in Entries :
    /\ \A i \in Prices!InForce(price) :
         price[i].entry = e /\ price[i].signer = engine.pub => map[e] = price[i].cost
    /\ map[e] # None => \E i \in Prices!InForce(price) : price[i].entry = e /\ Prices!Verifies(price[i])

CustomFollows(map) ==
  \A e \in Entries : IF \E p \in custom : p.entry = e
                     THEN [entry |-> e, cost |-> map[e]] \in custom
                     ELSE map[e] = None

RevokedFollows(map) == \A o \in Owners : discount[o] = None => map[o] = None

Follows(which, map) ==
  /\ which = "operator" => OperatorFollows(map)
  /\ which = "custom"   => CustomFollows(map)
  /\ which = "discount" => RevokedFollows(map)

(* What a handler that is at c is about to bring up to date.               *)
WorksOn(c, which) ==
  \/ c.at \in {"upsert", "insert"} /\ which = "operator"
  \/ c.at \in {"list", "swap"} /\ c.table = which

OneBusy == \A a, b \in Admins : loading[a].at # "idle" /\ loading[b].at # "idle" => a = b

SeenIsCurrent ==
  \A r \in Admins : loading[r].at = "insert" =>
    loading[r].seen = {i \in Prices!InForce(price) : price[i].entry = loading[r].row.entry}

EngineFollows ==
  \A which \in BookTables :
    (\A r \in Admins : ~WorksOn(loading[r], which)) => Follows(which, engine[which])

LoadsFollow ==
  \A r \in Admins : loading[r].at = "swap" => Follows(loading[r].table, loading[r].map)

LoneBook == OneBusy /\ Prices!OneActivePrice /\ SeenIsCurrent /\ EngineFollows /\ LoadsFollow


----------------------------------------------------------------------------
(* Every statement that waits writes a row of its table at an id of it; a  *)
(* deletion of a user waits for one that is there.                         *)
StatementOK(s) ==
  /\ s.op \in {"CreateOrganization", "UpdateOrganization", "CreateTeam", "CreateUser", "UpdateUser",
               "CreateAPIKey", "UpdateAPIKey", "DeactivateUserKeys", "DeactivateTeamKeys",
               "DeleteUser", "DeleteTeam", "DeleteOrganization", "DeleteAPIKey"}
  /\ s.op \in {"CreateOrganization", "UpdateOrganization"} => s.row \in People!OrgRows
  /\ s.op = "CreateTeam" => s.row \in People!TeamRows
  /\ s.op \in {"CreateUser", "UpdateUser"} => s.row \in People!UserRows
  /\ s.op \in {"CreateAPIKey", "UpdateAPIKey"} => s.row \in People!KeyRows
  /\ s.op = "DeleteUser" => s.id \in People!Live(user)

RequestsOK ==
  \A r \in Admins : /\ Len(call[r]) <= 4
                    /\ \A n \in DOMAIN call[r] : StatementOK(call[r][n])

(* One request at a time: nothing else waits, and when the deletion of a   *)
(* user is the next statement the user's keys are not active.              *)
LoneRequests ==
  /\ \A r, q \in Admins : call[r] # <<>> /\ call[q] # <<>> => r = q
  /\ \A r \in Admins : \A n \in DOMAIN call[r] :
       call[r][n].op = "DeleteUser" =>
         IF n = 1 THEN \A k \in People!Live(key) : key[k].user = call[r][1].id => ~key[k].active
         ELSE n = 2 /\ call[r][1].op = "DeactivateUserKeys" /\ call[r][1].id = call[r][2].id


----------------------------------------------------------------------------
(* Types of the price book.                                                *)

LEMMA EntersIsTyped ==
  ASSUME CallsOK, engine'.pub = engine.pub, NEW r \in Admins, NEW c, CallOK(c, engine.pub),
         loading' = [loading EXCEPT ![r] = c]
  PROVE  CallsOK'
BY DEF CallsOK

(* To be idle and to list are stages that carry nothing.                   *)
LEMMA PlainCalls ==
  ASSUME NEW which \in BookTables, NEW pub
  PROVE  /\ CallOK(Prices!Idle, pub) /\ Prices!Idle.at = "idle"
         /\ CallOK([at |-> "list", table |-> which], pub)
BY DEF CallOK, Prices!Idle

(* The prices listed are prices.                                           *)
LEMMA PricingIsTyped ==
  ASSUME Prices!TypeOK
  PROVE  Prices!GetAllPricing \subseteq Prices!Prices
<1>1. ASSUME NEW e \in Entries, Prices!GetPricing(e) # None
      PROVE  Prices!GetPricing(e) \in Costs
  BY <1>1, PricesAssumption
  DEF Prices!GetPricing, Prices!TypeOK, Prices!Maps, Prices!Maybe, Prices!ConstantsOK
<1> QED  BY <1>1 DEF Prices!GetAllPricing, Prices!Prices

(* What is loaded from a table is a map of it.                             *)
LEMMA LoadsAreTyped ==
  ASSUME Prices!TypeOK, NEW which \in BookTables, NEW map \in Prices!Load(which)
  PROVE  map \in MapsOf(which)
<1>1. CASE which = "operator"
  BY <1>1 DEF Prices!Load, Prices!LoadOperatorCatalog, Prices!Listings, MapsOf
<1>2. CASE which = "custom"
  BY <1>2 DEF Prices!Load, Prices!LoadCustomPricing, Prices!Listings, MapsOf
<1>3. CASE which = "discount"
  <2>1. map = [o \in Owners |-> IF discount[o] # None /\ discount[o].attested
                                THEN discount[o].percent ELSE None]
    BY <1>3 DEF Prices!Load, Prices!LoadEffectiveDiscounts
  <2>2. \A o \in Owners : discount[o] # None => discount[o].percent \in Percents
    BY DEF Prices!TypeOK, Prices!DiscountRow, Prices!Maybe
  <2>3. map \in [Owners -> Prices!Maybe(Percents)]
    BY <2>1, <2>2 DEF Prices!Maybe
  <2> QED  BY <1>3, <2>3 DEF MapsOf
<1> QED  BY <1>1, <1>2, <1>3 DEF BookTables

(* The steps of a request that leave the tables as they are, and none but  *)
(* the rows in force to be superseded.                                     *)
LEMMA RequestsAreTyped ==
  ASSUME BookTyped, NEW r \in Admins, NEW c, UNCHANGED <<Prices!tables, engine>>,
         CallOK(c, engine.pub), loading' = [loading EXCEPT ![r] = c],
         c.at = "insert" => c.seen \subseteq Prices!InForce(price)
  PROVE  BookTyped'
<1>1. CallsOK'
  BY EntersIsTyped DEF BookTyped
<1>2. \A q \in Admins : loading'[q].at \in {"idle", "upsert", "insert", "list", "swap"}
  BY <1>1 DEF CallsOK, CallOK
<1>3. Prices!TypeOK'
  BY <1>2 DEF BookTyped, Prices!TypeOK, Prices!tables
<1>4. loading'[r] = c /\ \A q \in Admins \ {r} : loading'[q] = loading[q]
  BY DEF BookTyped, CallsOK
<1>5. SeenArePresent'
  BY <1>4 DEF BookTyped, SeenArePresent, Prices!InForce, Prices!tables
<1> QED  BY <1>1, <1>3, <1>5 DEF BookTyped

(* The same of requests that have written to another table.                *)
LEMMA WritesAreTyped ==
  ASSUME BookTyped, UNCHANGED <<price, engine>>, CallsOK', NEW r \in Admins,
         custom' \subseteq Prices!Prices, discount' \in [Owners -> Prices!Maybe(Prices!DiscountRow)],
         attested' \subseteq Owners \X Percents,
         \A q \in Admins : loading'[q].at = "insert" => loading'[q] = loading[q]
  PROVE  BookTyped'
<1>1. \A q \in Admins : loading'[q].at \in {"idle", "upsert", "insert", "list", "swap"}
  BY DEF CallsOK, CallOK
<1>2. Prices!TypeOK'
  BY <1>1 DEF BookTyped, Prices!TypeOK
<1>3. SeenArePresent'
  BY DEF BookTyped, SeenArePresent
<1> QED  BY <1>2, <1>3 DEF BookTyped

(* What an upsert goes on to: the next row, or the reload.                 *)
Onwards(left, seed) ==
  IF left # {} THEN [at |-> "upsert", left |-> left, seed |-> seed]
  ELSE [at |-> "list", table |-> "operator"]

(* What an upsert goes on to is a stage, of which no insert is yet part.   *)
LEMMA OnwardsIsTyped ==
  ASSUME NEW left \in SUBSET Prices!Prices, NEW seed, NEW pub \in SigningKeys
  PROVE  CallOK(Onwards(left, seed), pub) /\ Onwards(left, seed).at # "insert"
BY DEF CallOK, Onwards, BookTables

(* An upsert that is done with a row goes on to the next.                  *)
LEMMA UpsertingGoesOn ==
  ASSUME NEW r \in Admins, NEW left, NEW seed, Prices!Upserting(r, left, seed)
  PROVE  loading' = [loading EXCEPT ![r] = Onwards(left, seed)]
BY DEF Prices!Upserting, Onwards

(* Where an upsert is there is a key to sign with.                         *)
LEMMA UpsertsAreSigned ==
  ASSUME BookTyped, NEW r \in Admins
  PROVE  /\ engine.pub # None => engine.pub \in SigningKeys
         /\ loading[r].at \in {"upsert", "insert"} =>
              loading[r].left \in SUBSET Prices!Prices /\ engine.pub \in SigningKeys
BY DEF BookTyped, CallsOK, CallOK, Prices!TypeOK, Prices!Maps, Prices!Maybe

(* Upserts keep the types up to their insert.                              *)
LEMMA UpsertsAreTyped ==
  ASSUME BookTyped, NEW r \in Admins,
         \/ Prices!SetOperatorCatalogRow(r) \/ Prices!SeedOperatorCatalogFromEmbedded(r)
         \/ Prices!Supersede(r) \/ Prices!UpsertFails(r) \/ Prices!ListFails(r)
  PROVE  BookTyped'
<1>1. UNCHANGED <<Prices!tables, engine>>
  BY DEF Prices!SetOperatorCatalogRow, Prices!SeedOperatorCatalogFromEmbedded, Prices!Supersede,
         Prices!UpsertFails, Prices!ListFails
<1>2. ASSUME NEW left \in SUBSET Prices!Prices, NEW seed, engine.pub \in SigningKeys,
             Prices!Upserting(r, left, seed)
      PROVE  BookTyped'
  BY <1>1, <1>2, UpsertingGoesOn, OnwardsIsTyped, RequestsAreTyped
<1>3. CASE Prices!SetOperatorCatalogRow(r)
  <2>1. PICK p \in Prices!Prices : Prices!Upserting(r, {p}, FALSE)
    BY <1>3 DEF Prices!SetOperatorCatalogRow
  <2>2. {p} \in SUBSET Prices!Prices /\ engine.pub # None
    BY <1>3 DEF Prices!SetOperatorCatalogRow
  <2> QED  BY <1>2, <2>1, <2>2, UpsertsAreSigned
<1>4. CASE Prices!SeedOperatorCatalogFromEmbedded(r)
  BY <1>2, <1>4, PricingIsTyped, UpsertsAreSigned
  DEF Prices!SeedOperatorCatalogFromEmbedded, BookTyped
<1>5. CASE Prices!Supersede(r)
  <2>1. PICK p \in loading[r].left :
          loading' = [loading EXCEPT ![r] =
                        [at |-> "insert", left |-> @.left \ {p}, seed |-> @.seed, row |-> p,
                         seen |-> {i \in Prices!InForce(price) : price[i].entry = p.entry}]]
    BY <1>5 DEF Prices!Supersede
  <2> DEFINE c == [at |-> "insert", left |-> loading[r].left \ {p}, seed |-> loading[r].seed, row |-> p,
                   seen |-> {i \in Prices!InForce(price) : price[i].entry = p.entry}]
  <2>2. loading[r].left \in SUBSET Prices!Prices /\ engine.pub \in SigningKeys
    BY <1>5, UpsertsAreSigned DEF Prices!Supersede
  <2>3. CallOK(c, engine.pub) /\ c.seen \subseteq Prices!InForce(price)
    BY <2>1, <2>2 DEF CallOK
  <2>4. loading' = [loading EXCEPT ![r] = c]
    BY <2>1
  <2> HIDE DEF c
  <2> QED  BY <1>1, <2>3, <2>4, RequestsAreTyped
<1>6. ASSUME Prices!Respond(r)
      PROVE  BookTyped'
  <2>1. "custom" \in BookTables
    BY DEF BookTables
  <2> QED  BY <1>1, <1>6, <2>1, PlainCalls, RequestsAreTyped DEF Prices!Respond
<1>7. CASE Prices!UpsertFails(r)
  BY <1>2, <1>6, <1>7, UpsertsAreSigned DEF Prices!UpsertFails
<1>8. CASE Prices!ListFails(r)
  BY <1>6, <1>8 DEF Prices!ListFails
<1> QED  BY <1>3, <1>4, <1>5, <1>7, <1>8

(* Rows of prices and discounts are not the mark of none.                  *)
LEMMA NoRowIsNone ==
  /\ \A row \in Prices!CatalogRow : row # None
  /\ \A row \in Prices!DiscountRow : row # None
BY PricesAssumption DEF Prices!ConstantsOK

(* The row that is superseded stays, and the new one is there.             *)
LEMMA InsertsKeepRows ==
  ASSUME BookTyped, NEW r \in Admins, Prices!UpsertOperatorCatalogRow(r)
  PROVE  /\ price' \in [PriceRows -> Prices!Maybe(Prices!CatalogRow)]
         /\ \A j \in PriceRows : price[j] # None => price'[j] # None
<1>1. loading[r].row \in Prices!Prices /\ engine.pub \in SigningKeys /\ SeenArePresent
  BY DEF Prices!UpsertOperatorCatalogRow, BookTyped, CallsOK, CallOK
<1>2. PICK i \in Prices!Fresh : price' = Prices!Superseded(loading[r].seen, i, loading[r].row, engine.pub)
  BY DEF Prices!UpsertOperatorCatalogRow
<1> DEFINE new == [entry |-> loading[r].row.entry, cost |-> loading[r].row.cost, active |-> TRUE,
                   signer |-> engine.pub]
<1>3. new \in Prices!CatalogRow
  BY <1>1 DEF Prices!CatalogRow, Prices!Prices
<1>4. ASSUME NEW row \in Prices!CatalogRow
      PROVE  [row EXCEPT !.active = FALSE] \in Prices!CatalogRow
  BY DEF Prices!CatalogRow
<1>5. ASSUME NEW j \in PriceRows
      PROVE  /\ price[j] \in Prices!Maybe(Prices!CatalogRow)
             /\ \/ price'[j] = new
                \/ price[j] # None /\ price'[j] = [price[j] EXCEPT !.active = FALSE]
                \/ price'[j] = price[j]
  BY <1>1, <1>2 DEF Prices!Superseded, BookTyped, Prices!TypeOK, SeenArePresent, Prices!UpsertOperatorCatalogRow
<1>6. price' = [j \in PriceRows |-> price'[j]]
  BY <1>2 DEF Prices!Superseded
<1> HIDE DEF new
<1>7. ASSUME NEW j \in PriceRows
      PROVE  price'[j] \in Prices!Maybe(Prices!CatalogRow) /\ (price[j] # None => price'[j] # None)
  BY <1>3, <1>4, <1>5, NoRowIsNone DEF Prices!Maybe
<1> QED  BY <1>6, <1>7

(* The insert of a catalog row keeps the types.                            *)
LEMMA InsertsAreTyped ==
  ASSUME BookTyped, NEW r \in Admins, Prices!UpsertOperatorCatalogRow(r)
  PROVE  BookTyped'
<1>1. /\ loading[r].left \in SUBSET Prices!Prices /\ engine.pub \in SigningKeys
      /\ UNCHANGED <<custom, discount, attested, engine>>
      /\ loading' = [loading EXCEPT ![r] = Onwards(loading[r].left, loading[r].seed)]
  BY UpsertsAreSigned, UpsertingGoesOn DEF Prices!UpsertOperatorCatalogRow
<1>2. CallsOK' /\ Onwards(loading[r].left, loading[r].seed).at # "insert"
  BY <1>1, OnwardsIsTyped, EntersIsTyped DEF BookTyped
<1>3. \A q \in Admins : loading'[q].at \in {"idle", "upsert", "insert", "list", "swap"}
  BY <1>2 DEF CallsOK, CallOK
<1>4. \A q \in Admins : loading'[q].at = "insert" => loading'[q] = loading[q]
  BY <1>1, <1>2 DEF BookTyped, CallsOK
<1>5. Prices!TypeOK'
  BY <1>1, <1>3, InsertsKeepRows DEF BookTyped, Prices!TypeOK
<1>6. SeenArePresent'
  BY <1>4, InsertsKeepRows DEF BookTyped, SeenArePresent
<1> QED  BY <1>2, <1>5, <1>6 DEF BookTyped

(* So do the writes of custom prices and discounts.                        *)
LEMMA OtherWritesAreTyped ==
  ASSUME BookTyped, NEW r \in Admins,
         \/ Prices!SetModelPricing(r) \/ Prices!DeleteModelPricing(r)
         \/ Prices!DeclareDiscount(r) \/ Prices!RevokeDiscount(r)
  PROVE  BookTyped'
<1>1. UNCHANGED <<price, engine, attested>> /\ attested \subseteq Owners \X Percents
  BY DEF Prices!SetModelPricing, Prices!DeleteModelPricing, Prices!DeclareDiscount, Prices!RevokeDiscount,
         BookTyped, Prices!TypeOK
<1>2. custom' \subseteq Prices!Prices
  BY DEF Prices!SetModelPricing, Prices!DeleteModelPricing, Prices!DeclareDiscount, Prices!RevokeDiscount,
         BookTyped, Prices!TypeOK, Prices!Deleted
<1>3. discount' \in [Owners -> Prices!Maybe(Prices!DiscountRow)]
  <2>1. ASSUME NEW p \in Percents
        PROVE  [percent |-> p, attested |-> FALSE] \in Prices!Maybe(Prices!DiscountRow)
    BY DEF Prices!Maybe, Prices!DiscountRow
  <2>2. None \in Prices!Maybe(Prices!DiscountRow)
    BY DEF Prices!Maybe
  <2> QED
    BY <2>1, <2>2
    DEF Prices!SetModelPricing, Prices!DeleteModelPricing, Prices!DeclareDiscount, Prices!RevokeDiscount,
        BookTyped, Prices!TypeOK
<1>4. UNCHANGED loading \/ \E which \in BookTables : Prices!Reload(r, which)
  BY DEF Prices!SetModelPricing, Prices!DeleteModelPricing, Prices!DeclareDiscount, Prices!RevokeDiscount,
         Prices!AfterRevocation, BookTables
<1>5. CallsOK' /\ \A q \in Admins : loading'[q].at = "insert" => loading'[q] = loading[q]
  <2>1. CASE UNCHANGED loading
    BY <1>1, <2>1 DEF BookTyped, CallsOK
  <2>2. ASSUME NEW which \in BookTables, Prices!Reload(r, which)
        PROVE  CallsOK' /\ \A q \in Admins : loading'[q].at = "insert" => loading'[q] = loading[q]
    <3>1. [at |-> "list", table |-> which].at # "insert"
      OBVIOUS
    <3> QED  BY <1>1, <2>2, <3>1, PlainCalls, EntersIsTyped DEF Prices!Reload, BookTyped, CallsOK
  <2> QED  BY <1>4, <2>1, <2>2
<1> QED  BY <1>1, <1>2, <1>3, <1>5, WritesAreTyped

(* So does the attestation of a discount.                                  *)
LEMMA CountersigningIsTyped ==
  ASSUME BookTyped, Prices!CountersignDiscount
  PROVE  BookTyped'
<1>1. PICK o \in Owners :
        /\ discount[o] # None
        /\ discount' = [discount EXCEPT ![o].attested = TRUE]
        /\ attested' = attested \cup {<<o, discount[o].percent>>}
  BY DEF Prices!CountersignDiscount
<1>2. discount[o] \in Prices!DiscountRow /\ UNCHANGED <<price, custom, engine, loading>>
  BY <1>1 DEF BookTyped, Prices!TypeOK, Prices!Maybe, Prices!CountersignDiscount
<1>3. [discount[o] EXCEPT !.attested = TRUE] \in Prices!DiscountRow /\ discount[o].percent \in Percents
  BY <1>2 DEF Prices!DiscountRow
<1>4. discount' \in [Owners -> Prices!Maybe(Prices!DiscountRow)] /\ attested' \subseteq Owners \X Percents
  BY <1>1, <1>3 DEF BookTyped, Prices!TypeOK, Prices!Maybe
<1>5. CallsOK' /\ SeenArePresent'
  BY <1>2 DEF BookTyped, CallsOK, SeenArePresent
<1>6. Prices!TypeOK'
  BY <1>2, <1>4 DEF BookTyped, Prices!TypeOK
<1> QED  BY <1>5, <1>6 DEF BookTyped

(* So do the two steps of a reload.                                        *)
LEMMA ReloadsAreTyped ==
  ASSUME BookTyped, NEW r \in Admins, Prices!List(r) \/ Prices!Swap(r)
  PROVE  BookTyped'
<1>1. CASE Prices!List(r)
  <2>1. loading[r].at = "list" /\ loading[r].table \in BookTables
    BY <1>1 DEF Prices!List, BookTyped, CallsOK, CallOK
  <2>2. PICK m \in Prices!Load(loading[r].table) :
          loading' = [loading EXCEPT ![r] = [at |-> "swap", table |-> @.table, map |-> m]]
    BY <1>1 DEF Prices!List
  <2> DEFINE c == [at |-> "swap", table |-> loading[r].table, map |-> m]
  <2>3. CallOK(c, engine.pub) /\ c.at # "insert"
    BY <2>1, <2>2, LoadsAreTyped DEF CallOK, BookTyped
  <2>4. loading' = [loading EXCEPT ![r] = c]
    BY <2>2
  <2> HIDE DEF c
  <2> QED  BY <1>1, <2>3, <2>4, RequestsAreTyped DEF Prices!List
<1>2. CASE Prices!Swap(r)
  <2>1. /\ loading[r].at = "swap" /\ loading[r].table \in BookTables
        /\ loading[r].map \in MapsOf(loading[r].table)
        /\ engine' = [engine EXCEPT ![loading[r].table] = loading[r].map]
        /\ loading' = [loading EXCEPT ![r] = Prices!Idle] /\ UNCHANGED Prices!tables
    BY <1>2 DEF Prices!Swap, Prices!Respond, BookTyped, CallsOK, CallOK
  <2>2. engine \in Prices!Maps
    BY DEF BookTyped, Prices!TypeOK
  <2>3. engine' \in Prices!Maps /\ engine'.pub = engine.pub
    BY <2>1, <2>2 DEF Prices!Maps, MapsOf, BookTables
  <2>4. CallsOK' /\ Prices!Idle.at # "insert"
    BY <2>1, <2>3, PlainCalls, EntersIsTyped DEF BookTyped
  <2>5. \A q \in Admins : loading'[q].at \in {"idle", "upsert", "insert", "list", "swap"}
    BY <2>4 DEF CallsOK, CallOK
  <2>6. \A q \in Admins : loading'[q].at = "insert" => loading'[q] = loading[q]
    BY <2>1, <2>4 DEF BookTyped, CallsOK
  <2>7. Prices!TypeOK' /\ SeenArePresent'
    BY <2>1, <2>3, <2>5, <2>6 DEF BookTyped, Prices!TypeOK, SeenArePresent, Prices!tables
  <2> QED  BY <2>4, <2>7 DEF BookTyped
<1> QED  BY <1>1, <1>2

(* What a start that seeds the catalog does, when it has loaded the custom *)
(* prices m.                                                               *)
Seeded(m, e) == IF m[e] # None THEN m[e] ELSE BuiltIn[e]

Seeds(m, signer) ==
  /\ \E offered \in SUBSET {e \in Entries : Seeded(m, e) # None} :
       /\ \E ids \in SUBSET Prices!Fresh, entryOf \in [PriceRows -> Entries] :
            /\ {entryOf[i] : i \in ids} = offered /\ Cardinality(ids) = Cardinality(offered)
            /\ price' = [i \in PriceRows |-> IF i \in ids
                                            THEN [entry |-> entryOf[i], cost |-> Seeded(m, entryOf[i]),
                                                  active |-> TRUE, signer |-> signer]
                                            ELSE price[i]]
       /\ \E d \in Prices!LoadEffectiveDiscounts :
            engine' = [operator |-> [e \in Entries |-> IF e \in offered THEN Seeded(m, e) ELSE None],
                       custom |-> m, discount |-> d, pub |-> signer]
       /\ loading' = [r \in Admins |-> Prices!Idle]

(* A start: every handler is gone, and the tables keep their rows.         *)
LEMMA StartedIsTyped ==
  ASSUME BookTyped, engine' \in Prices!Maps, UNCHANGED <<custom, discount, attested>>,
         price' \in [PriceRows -> Prices!Maybe(Prices!CatalogRow)],
         loading' = [r \in Admins |-> Prices!Idle]
  PROVE  BookTyped'
<1>1. \A r \in Admins : loading'[r].at = "idle"
  BY DEF Prices!Idle
<1>2. CallsOK'
  BY <1>1 DEF CallsOK, CallOK
<1> QED  BY <1>1, <1>2 DEF BookTyped, Prices!TypeOK, SeenArePresent

(* What a start loads are maps of their tables.                            *)
LEMMA StartLoadsAreTyped ==
  ASSUME BookTyped
  PROVE  /\ Prices!LoadCustomPricing \subseteq [Entries -> Prices!Maybe(Costs)]
         /\ Prices!LoadEffectiveDiscounts \subseteq [Owners -> Prices!Maybe(Percents)]
<1>1. Prices!Load("custom") = Prices!LoadCustomPricing /\ Prices!Load("discount") = Prices!LoadEffectiveDiscounts
  BY DEF Prices!Load
<1> QED  BY <1>1, LoadsAreTyped DEF BookTyped, BookTables, MapsOf

(* A start keeps the types of the price book.                              *)
LEMMA StartsAreTyped ==
  ASSUME BookTyped, Prices!Start
  PROVE  BookTyped'
<1>1. PICK signer \in Prices!Maybe(SigningKeys) : Prices!Restart(signer) \/ Prices!autoSeedCatalog(signer)
  BY DEF Prices!Start
<1>2. CASE Prices!Restart(signer)
  <2>1. PICK operator \in [Entries -> Prices!Maybe(Costs)] : Prices!Started(signer, operator)
    BY <1>2 DEF Prices!Restart, Prices!Listings
  <2>2. engine' \in Prices!Maps
    BY <2>1, StartLoadsAreTyped DEF Prices!Started, Prices!Maps
  <2>3. UNCHANGED <<price, custom, discount, attested>>
    BY <1>2 DEF Prices!Restart, Prices!tables
  <2>4. price' \in [PriceRows -> Prices!Maybe(Prices!CatalogRow)]
    BY <2>3 DEF BookTyped, Prices!TypeOK
  <2> QED  BY <2>1, <2>2, <2>3, <2>4, StartedIsTyped DEF Prices!Started
<1>3. CASE Prices!autoSeedCatalog(signer)
  <2>1. PICK m \in Prices!LoadCustomPricing :
          Seeds(m, signer)
    BY <1>3 DEF Prices!autoSeedCatalog, Seeds, Seeded, Prices!Cardinality, Cardinality
  <2>2. m \in [Entries -> Prices!Maybe(Costs)] /\ signer \in SigningKeys
    BY <1>1, <1>3, StartLoadsAreTyped DEF Prices!autoSeedCatalog, Prices!Maybe
  <2>3. \A e \in Entries : Seeded(m, e) \in Prices!Maybe(Costs)
    BY <2>2, PricesAssumption DEF Seeded, Prices!ConstantsOK
  <2>4. PICK offered \in SUBSET {e \in Entries : Seeded(m, e) # None}, d \in Prices!LoadEffectiveDiscounts :
          engine' = [operator |-> [e \in Entries |-> IF e \in offered THEN Seeded(m, e) ELSE None],
                     custom |-> m, discount |-> d, pub |-> signer]
    BY <2>1 DEF Seeds
  <2>5. [e \in Entries |-> IF e \in offered THEN Seeded(m, e) ELSE None] \in [Entries -> Prices!Maybe(Costs)]
    BY <2>3 DEF Prices!Maybe
  <2>6. engine' \in Prices!Maps
    BY <2>2, <2>4, <2>5, StartLoadsAreTyped DEF Prices!Maps, Prices!Maybe
  <2>7. PICK ids \in SUBSET Prices!Fresh, entryOf \in [PriceRows -> Entries],
             given \in SUBSET {e \in Entries : Seeded(m, e) # None} :
          /\ {entryOf[i] : i \in ids} = given
          /\ price' = [i \in PriceRows |-> IF i \in ids
                                          THEN [entry |-> entryOf[i], cost |-> Seeded(m, entryOf[i]),
                                                active |-> TRUE, signer |-> signer]
                                          ELSE price[i]]
    BY <2>1 DEF Seeds
  <2>8. ASSUME NEW i \in ids
        PROVE  [entry |-> entryOf[i], cost |-> Seeded(m, entryOf[i]), active |-> TRUE, signer |-> signer]
                 \in Prices!CatalogRow
    <3>1. i \in PriceRows /\ entryOf[i] \in given
      BY <2>7, <2>8 DEF Prices!Fresh
    <3>2. entryOf[i] \in Entries /\ Seeded(m, entryOf[i]) \in Costs
      BY <2>3, <2>7, <3>1 DEF Prices!Maybe
    <3> QED  BY <2>2, <3>2 DEF Prices!CatalogRow
  <2>9. price' \in [PriceRows -> Prices!Maybe(Prices!CatalogRow)]
    BY <2>7, <2>8 DEF Prices!Maybe, BookTyped, Prices!TypeOK
  <2> QED
    BY <1>3, <2>1, <2>6, <2>9, StartedIsTyped DEF Prices!autoSeedCatalog, Seeds
<1> QED  BY <1>1, <1>2, <1>3

(* Every step keeps the types of the price book.                           *)
LEMMA BookStepsAreTyped ==
  ASSUME BookTyped, [Prices!Next]_(Prices!vars)
  PROVE  BookTyped'
<1>1. ASSUME NEW r \in Admins, Prices!Handler(r) \/ Prices!UpsertFails(r) \/ Prices!ListFails(r)
      PROVE  BookTyped'
  BY <1>1, UpsertsAreTyped, InsertsAreTyped, OtherWritesAreTyped, ReloadsAreTyped
  DEF Prices!Handler, Prices!PriceHandler, Prices!DiscountHandler
<1>2. CASE Prices!CountersignDiscount
  BY <1>2, CountersigningIsTyped
<1>3. CASE Prices!Start
  BY <1>3, StartsAreTyped
<1>4. CASE UNCHANGED Prices!vars
  BY <1>4 DEF Prices!vars, BookTyped, Prices!TypeOK, CallsOK, SeenArePresent
<1> QED  BY <1>1, <1>2, <1>3, <1>4 DEF Prices!Next

(* The price book has its types at first.                                  *)
LEMMA BookBegins ==
  ASSUME Prices!Init
  PROVE  BookTyped
<1>1. \A r \in Admins : loading[r].at = "idle"
  BY DEF Prices!Init, Prices!Idle
<1>2. CallsOK /\ SeenArePresent
  BY <1>1 DEF Prices!Init, CallsOK, CallOK, SeenArePresent
<1>3. engine \in Prices!Maps
  BY DEF Prices!Init, Prices!Maps, Prices!Nothing, Prices!Maybe
<1> QED  BY <1>1, <1>2, <1>3 DEF BookTyped, Prices!Init, Prices!TypeOK, Prices!Nothing, Prices!Maybe

----------------------------------------------------------------------------
(* A map goes on following its table when the rows it was loaded from do   *)
(* not change; a revocation is followed by whatever drops discounts.       *)
LEMMA FollowsKept ==
  ASSUME NEW which, NEW map, Follows(which, map),
         which = "operator" => price' = price /\ engine'.pub = engine.pub,
         which = "custom" => custom' = custom,
         which = "discount" => \A o \in Owners : discount'[o] = None => discount[o] = None
  PROVE  Follows(which, map)'
<1>1. which = "operator" => OperatorFollows(map)'
  BY DEF Follows, OperatorFollows, Prices!InForce, Prices!Verifies
<1>2. which = "custom" => CustomFollows(map)'
  BY DEF Follows, CustomFollows
<1>3. which = "discount" => RevokedFollows(map)'
  BY DEF Follows, RevokedFollows
<1> QED  BY <1>1, <1>2, <1>3 DEF Follows

(* A load of the rows in force that were signed by signer, when no two of  *)
(* them are for one entry.                                                 *)
SignedBy(signer) ==
  Prices!Listings({[entry |-> price[i].entry, cost |-> price[i].cost] :
                     i \in {j \in Prices!InForce(price) : price[j].signer = signer}})

ListsSigned(map, signer) ==
  \A e \in Entries :
    /\ \A i \in Prices!InForce(price) :
         price[i].entry = e /\ price[i].signer = signer => map[e] = price[i].cost
    /\ map[e] # None => \E i \in Prices!InForce(price) : price[i].entry = e /\ price[i].signer = signer

(* A map loaded from the rows a signer signed lists them all, and no       *)
(* others.                                                                 *)
LEMMA CatalogIsListed ==
  ASSUME BookTyped, Prices!OneActivePrice, NEW signer, NEW map \in SignedBy(signer)
  PROVE  ListsSigned(map, signer)
<1> DEFINE mine  == {j \in Prices!InForce(price) : price[j].signer = signer}
           found == {[entry |-> price[i].entry, cost |-> price[i].cost] : i \in mine}
<1> SUFFICES ASSUME NEW e \in Entries
             PROVE  /\ \A i \in mine : price[i].entry = e => map[e] = price[i].cost
                    /\ map[e] # None => \E i \in mine : price[i].entry = e
  BY DEF ListsSigned
<1>1. IF \E p \in found : p.entry = e THEN [entry |-> e, cost |-> map[e]] \in found ELSE map[e] = None
  BY DEF SignedBy, Prices!Listings
<1>2. ASSUME \E p \in found : p.entry = e
      PROVE  \E i \in mine : price[i].entry = e /\ price[i].cost = map[e]
  <2>1. PICK i \in mine : [entry |-> e, cost |-> map[e]] = [entry |-> price[i].entry, cost |-> price[i].cost]
    BY <1>1, <1>2
  <2>2. e = price[i].entry /\ map[e] = price[i].cost
    BY <2>1
  <2> QED  BY <2>2
<1>3. ASSUME NEW i \in mine, price[i].entry = e
      PROVE  map[e] = price[i].cost
  <2>1. [entry |-> price[i].entry, cost |-> price[i].cost] \in found
    OBVIOUS
  <2>2. PICK j \in mine : price[j].entry = e /\ price[j].cost = map[e]
    BY <1>2, <1>3, <2>1
  <2>3. i = j
    BY <1>3, <2>2 DEF Prices!OneActivePrice
  <2> QED  BY <2>2, <2>3
<1>4. ASSUME map[e] # None
      PROVE  \E i \in mine : price[i].entry = e
  BY <1>1, <1>2, <1>4
<1> QED  BY <1>3, <1>4

(* What is loaded from a table follows it.                                 *)
LEMMA LoadsFollowTables ==
  ASSUME BookTyped, Prices!OneActivePrice, NEW which \in BookTables, NEW map \in Prices!Load(which)
  PROVE  Follows(which, map)
<1>1. CASE which = "operator"
  <2>1. map \in SignedBy(engine.pub)
    <3>1. {j \in Prices!InForce(price) : Prices!Verifies(price[j])}
            = {j \in Prices!InForce(price) : price[j].signer = engine.pub}
      BY DEF Prices!Verifies
    <3> QED  BY <1>1, <3>1 DEF Prices!Load, Prices!LoadOperatorCatalog, SignedBy
  <2>2. ListsSigned(map, engine.pub)
    BY <2>1, CatalogIsListed
  <2> QED  BY <1>1, <2>2 DEF ListsSigned, Follows, OperatorFollows, Prices!Verifies
<1>2. CASE which = "custom"
  BY <1>2 DEF Prices!Load, Prices!LoadCustomPricing, Prices!Listings, Follows, CustomFollows
<1>3. CASE which = "discount"
  BY <1>3 DEF Prices!Load, Prices!LoadEffectiveDiscounts, Follows, RevokedFollows
<1> QED  BY <1>1, <1>2, <1>3 DEF BookTables

----------------------------------------------------------------------------
Others(r) == \A b \in Admins \ {r} : Prices!IsIdle(b)

(* What a lone handler has to see to when it goes on to c.                 *)
LEMMA LoneGoesOn ==
  ASSUME BookTyped, LoneBook, NEW r \in Admins, Others(r), NEW c, loading' = [loading EXCEPT ![r] = c],
         Prices!OneActivePrice',
         c.at = "insert" => c.seen = {i \in Prices!InForce(price) : price[i].entry = c.row.entry}',
         c.at = "swap" => Follows(c.table, c.map)',
         \A which \in BookTables : ~WorksOn(c, which) => Follows(which, engine[which])'
  PROVE  LoneBook'
<1>1. loading'[r] = c /\ \A b \in Admins \ {r} : loading'[b] = Prices!Idle /\ loading'[b].at = "idle"
  BY DEF BookTyped, CallsOK, Others, Prices!IsIdle, Prices!Idle
<1>2. OneBusy'
  BY <1>1 DEF OneBusy
<1>3. SeenIsCurrent'
  BY <1>1 DEF SeenIsCurrent
<1>4. LoadsFollow'
  BY <1>1 DEF LoadsFollow
<1>5. EngineFollows'
  BY <1>1 DEF EngineFollows
<1> QED  BY <1>2, <1>3, <1>4, <1>5 DEF LoneBook

(* What a lone handler does not work on follows already.                   *)
LEMMA TheRestFollows ==
  ASSUME LoneBook, NEW r \in Admins, Others(r), NEW which \in BookTables, ~WorksOn(loading[r], which)
  PROVE  Follows(which, engine[which])
<1>1. \A b \in Admins : ~WorksOn(loading[b], which)
  BY DEF Others, Prices!IsIdle, Prices!Idle, WorksOn
<1> QED  BY <1>1 DEF LoneBook, EngineFollows

(* An idle handler works on no table.                                      *)
LEMMA IdleWorksOnNothing ==
  ASSUME NEW which
  PROVE  ~WorksOn(Prices!Idle, which)
BY DEF WorksOn, Prices!Idle

(* An upsert that goes on works on the prices of the operator alone.       *)
LEMMA OnwardsWorksOnPrices ==
  ASSUME NEW left, NEW seed, NEW which \in BookTables
  PROVE  /\ WorksOn(Onwards(left, seed), which) <=> which = "operator"
         /\ Onwards(left, seed).at \notin {"insert", "swap"}
BY DEF WorksOn, Onwards, BookTables

(* Steps that change no table and no map: the new stage has at least the   *)
(* work of the old one.                                                    *)
LEMMA LoneQuietSteps ==
  ASSUME BookTyped, LoneBook, NEW r \in Admins, Others(r), NEW c, loading' = [loading EXCEPT ![r] = c],
         UNCHANGED <<Prices!tables, engine>>,
         c.at = "insert" => c.seen = {i \in Prices!InForce(price) : price[i].entry = c.row.entry},
         c.at = "swap" => Follows(c.table, c.map),
         \A which \in BookTables : WorksOn(loading[r], which) => WorksOn(c, which)
  PROVE  LoneBook'
<1>1. Prices!OneActivePrice'
  BY DEF LoneBook, Prices!OneActivePrice, Prices!InForce, Prices!tables
<1>2. c.at = "insert" => c.seen = {i \in Prices!InForce(price) : price[i].entry = c.row.entry}'
  BY DEF Prices!InForce, Prices!tables
<1>3. ASSUME NEW which, NEW map, Follows(which, map)
      PROVE  Follows(which, map)'
  BY <1>3, FollowsKept DEF Prices!tables
<1>4. ASSUME NEW which \in BookTables, ~WorksOn(c, which)
      PROVE  Follows(which, engine[which])'
  <2>1. Follows(which, engine[which])
    BY <1>4, TheRestFollows
  <2> DEFINE map == engine[which]
  <2>2. PICK m : m = engine[which]
    OBVIOUS
  <2>3. Follows(which, m)'
    BY <1>3, <2>1, <2>2
  <2>4. engine'[which] = m
    BY <2>2
  <2> QED  BY <2>3, <2>4
<1> QED  BY <1>1, <1>2, <1>3, <1>4, LoneGoesOn

(* The maps follow while a lone handler upserts.                           *)
LEMMA LoneUpsertSteps ==
  ASSUME BookTyped, LoneBook, NEW r \in Admins, Others(r),
         Prices!SetOperatorCatalogRow(r) \/ Prices!SeedOperatorCatalogFromEmbedded(r) \/ Prices!Supersede(r)
  PROVE  LoneBook'
<1>1. UNCHANGED <<Prices!tables, engine>>
  BY DEF Prices!SetOperatorCatalogRow, Prices!SeedOperatorCatalogFromEmbedded, Prices!Supersede
<1>2. ASSUME NEW left, NEW seed, Prices!IsIdle(r), Prices!Upserting(r, left, seed)
      PROVE  LoneBook'
  <2>1. \A which \in BookTables : ~WorksOn(loading[r], which)
    BY <1>2, IdleWorksOnNothing DEF Prices!IsIdle
  <2>2. PICK c : c = Onwards(left, seed)
    OBVIOUS
  <2>3. loading' = [loading EXCEPT ![r] = c] /\ c.at \notin {"insert", "swap"}
    BY <1>2, <2>2, UpsertingGoesOn, OnwardsWorksOnPrices DEF BookTables
  <2> QED  BY <1>1, <2>1, <2>3, LoneQuietSteps
<1>3. CASE Prices!Supersede(r)
  <2>1. PICK p \in loading[r].left :
          loading' = [loading EXCEPT ![r] =
                        [at |-> "insert", left |-> @.left \ {p}, seed |-> @.seed, row |-> p,
                         seen |-> {i \in Prices!InForce(price) : price[i].entry = p.entry}]]
    BY <1>3 DEF Prices!Supersede
  <2> DEFINE c == [at |-> "insert", left |-> loading[r].left \ {p}, seed |-> loading[r].seed, row |-> p,
                   seen |-> {i \in Prices!InForce(price) : price[i].entry = p.entry}]
  <2>2. c.at = "insert" /\ c.seen = {i \in Prices!InForce(price) : price[i].entry = c.row.entry}
    OBVIOUS
  <2>3. \A which \in BookTables : WorksOn(loading[r], which) => WorksOn(c, which)
    BY <1>3 DEF Prices!Supersede, WorksOn
  <2>4. loading' = [loading EXCEPT ![r] = c]
    BY <2>1
  <2> HIDE DEF c
  <2> QED  BY <1>1, <2>2, <2>3, <2>4, LoneQuietSteps
<1>4. CASE Prices!SetOperatorCatalogRow(r)
  BY <1>2, <1>4 DEF Prices!SetOperatorCatalogRow
<1>5. CASE Prices!SeedOperatorCatalogFromEmbedded(r)
  BY <1>2, <1>5 DEF Prices!SeedOperatorCatalogFromEmbedded
<1> QED  BY <1>3, <1>4, <1>5

(* The rows that were seen are those in force for the entry: one is left.  *)
LEMMA LoneInsertSteps ==
  ASSUME BookTyped, LoneBook, NEW r \in Admins, Others(r), Prices!UpsertOperatorCatalogRow(r)
  PROVE  LoneBook'
<1> DEFINE p == loading[r].row
<1>1. /\ loading[r].at = "insert"
      /\ loading' = [loading EXCEPT ![r] = Onwards(loading[r].left, loading[r].seed)]
      /\ UNCHANGED <<custom, discount, attested, engine>>
  BY UpsertingGoesOn DEF Prices!UpsertOperatorCatalogRow
<1>2. PICK i \in Prices!Fresh : price' = Prices!Superseded(loading[r].seen, i, p, engine.pub)
  BY DEF Prices!UpsertOperatorCatalogRow
<1>3. loading[r].seen = {j \in Prices!InForce(price) : price[j].entry = p.entry}
  BY <1>1 DEF LoneBook, SeenIsCurrent
<1>4. ASSUME NEW j \in Prices!InForce(price)', j # i
      PROVE  j \in Prices!InForce(price) /\ price'[j] = price[j] /\ price[j].entry # p.entry
  <2>1. j \in PriceRows /\ price'[j] # None /\ price'[j].active
    BY <1>4 DEF Prices!InForce
  <2>2. j \notin loading[r].seen
    <3>1. SUFFICES ASSUME j \in loading[r].seen PROVE FALSE
      OBVIOUS
    <3>2. price[j] \in Prices!CatalogRow
      BY <1>3, <3>1 DEF BookTyped, Prices!TypeOK, Prices!Maybe, Prices!InForce
    <3>3. price'[j] = [price[j] EXCEPT !.active = FALSE]
      BY <1>2, <1>4, <2>1, <3>1 DEF Prices!Superseded
    <3> QED  BY <2>1, <3>2, <3>3 DEF Prices!CatalogRow
  <2>3. price'[j] = price[j]
    BY <1>2, <1>4, <2>1, <2>2 DEF Prices!Superseded
  <2> QED  BY <1>3, <2>1, <2>2, <2>3 DEF Prices!InForce
<1>5. i \in Prices!InForce(price)' => price'[i].entry = p.entry
  BY <1>2 DEF Prices!Superseded, Prices!Fresh
<1> HIDE DEF p
<1>6. Prices!OneActivePrice'
  BY <1>4, <1>5 DEF LoneBook, Prices!OneActivePrice
<1>7. ASSUME NEW which \in BookTables, which # "operator"
      PROVE  Follows(which, engine[which])'
  <2>1. ~WorksOn(loading[r], which)
    BY <1>1, <1>7 DEF WorksOn
  <2>2. PICK m : m = engine[which]
    OBVIOUS
  <2>3. Follows(which, m)'
    BY <1>1, <1>7, <2>1, <2>2, TheRestFollows, FollowsKept
  <2> QED  BY <1>1, <2>2, <2>3
<1>8. PICK c : c = Onwards(loading[r].left, loading[r].seed)
  OBVIOUS
<1>9. /\ loading' = [loading EXCEPT ![r] = c] /\ c.at \notin {"insert", "swap"}
      /\ \A which \in BookTables : WorksOn(c, which) <=> which = "operator"
  BY <1>1, <1>8, OnwardsWorksOnPrices DEF BookTables
<1> QED  BY <1>6, <1>7, <1>9, LoneGoesOn

(* A write to another table, with the reload that it calls for.            *)
LEMMA LoneWriteSteps ==
  ASSUME BookTyped, LoneBook, NEW r \in Admins, Others(r),
         \/ Prices!SetModelPricing(r) \/ Prices!DeleteModelPricing(r)
         \/ Prices!DeclareDiscount(r) \/ Prices!RevokeDiscount(r)
  PROVE  LoneBook'
<1>1. /\ UNCHANGED <<price, engine>> /\ Prices!IsIdle(r)
      /\ \/ Prices!Reload(r, "custom") /\ UNCHANGED discount
         \/ Prices!Reload(r, "discount") /\ UNCHANGED custom
         \/ /\ UNCHANGED <<custom, loading>>
            /\ \E o \in Owners, p \in Percents :
                 discount' = [discount EXCEPT ![o] = [percent |-> p, attested |-> FALSE]]
  BY DEF Prices!SetModelPricing, Prices!DeleteModelPricing, Prices!DeclareDiscount, Prices!RevokeDiscount,
         Prices!AfterRevocation
<1>2. Prices!OneActivePrice'
  BY <1>1 DEF LoneBook, Prices!OneActivePrice, Prices!InForce
<1>3. ASSUME NEW which \in BookTables
      PROVE  Follows(which, engine[which])
  BY <1>1, <1>3, IdleWorksOnNothing, TheRestFollows DEF Prices!IsIdle
<1>4. ASSUME NEW which \in BookTables,
             which = "custom" => UNCHANGED custom,
             which = "discount" => \A o \in Owners : discount'[o] = None => discount[o] = None
      PROVE  Follows(which, engine[which])'
  <2>1. PICK m : m = engine[which]
    OBVIOUS
  <2>2. Follows(which, m)'
    BY <1>1, <1>3, <1>4, <2>1, FollowsKept
  <2> QED  BY <1>1, <2>1, <2>2
<1>5. ASSUME NEW reloaded \in BookTables
      PROVE  /\ [at |-> "list", table |-> reloaded].at \notin {"insert", "swap"}
             /\ \A which \in BookTables : WorksOn([at |-> "list", table |-> reloaded], which) <=> which = reloaded
  BY DEF WorksOn
<1>6. CASE Prices!Reload(r, "custom") /\ UNCHANGED discount
  <2>1. "custom" \in BookTables
    BY DEF BookTables
  <2>2. PICK c : c = [at |-> "list", table |-> "custom"]
    OBVIOUS
  <2>3. loading' = [loading EXCEPT ![r] = c]
    BY <1>6, <2>2 DEF Prices!Reload
  <2>4. c.at \notin {"insert", "swap"} /\ \A which \in BookTables : WorksOn(c, which) <=> which = "custom"
    BY <1>5, <2>1, <2>2
  <2>5. \A which \in BookTables : ~WorksOn(c, which) => Follows(which, engine[which])'
    BY <1>4, <1>6, <2>4
  <2> QED  BY <1>2, <2>3, <2>4, <2>5, LoneGoesOn
<1>7. CASE Prices!Reload(r, "discount") /\ UNCHANGED custom
  <2>1. "discount" \in BookTables
    BY DEF BookTables
  <2>2. PICK c : c = [at |-> "list", table |-> "discount"]
    OBVIOUS
  <2>3. loading' = [loading EXCEPT ![r] = c]
    BY <1>7, <2>2 DEF Prices!Reload
  <2>4. c.at \notin {"insert", "swap"} /\ \A which \in BookTables : WorksOn(c, which) <=> which = "discount"
    BY <1>5, <2>1, <2>2
  <2>5. \A which \in BookTables : ~WorksOn(c, which) => Follows(which, engine[which])'
    BY <1>4, <1>7, <2>4
  <2> QED  BY <1>2, <2>3, <2>4, <2>5, LoneGoesOn
<1>8. ASSUME UNCHANGED <<custom, loading>>, NEW o \in Owners, NEW p \in Percents,
             discount' = [discount EXCEPT ![o] = [percent |-> p, attested |-> FALSE]]
      PROVE  LoneBook'
  <2>1. [percent |-> p, attested |-> FALSE] # None
    BY NoRowIsNone DEF Prices!DiscountRow
  <2>2. \A q \in Owners : discount'[q] = None => discount[q] = None
    BY <1>8, <2>1 DEF BookTyped, Prices!TypeOK
  <2>3. loading' = [loading EXCEPT ![r] = Prices!Idle] /\ Prices!Idle.at = "idle"
    BY <1>1, <1>8 DEF Prices!IsIdle, BookTyped, CallsOK, Prices!Idle
  <2> QED  BY <1>2, <1>4, <1>8, <2>2, <2>3, LoneGoesOn
<1> QED  BY <1>1, <1>6, <1>7, <1>8

(* They follow while a lone handler reloads.                               *)
LEMMA LoneReloadSteps ==
  ASSUME BookTyped, LoneBook, NEW r \in Admins, Others(r), Prices!List(r) \/ Prices!Swap(r)
  PROVE  LoneBook'
<1>1. CASE Prices!List(r)
  <2>1. /\ loading[r].at = "list" /\ loading[r].table \in BookTables
        /\ UNCHANGED <<Prices!tables, engine>>
    BY <1>1 DEF Prices!List, BookTyped, CallsOK, CallOK
  <2>2. PICK m \in Prices!Load(loading[r].table) :
          loading' = [loading EXCEPT ![r] = [at |-> "swap", table |-> @.table, map |-> m]]
    BY <1>1 DEF Prices!List
  <2>3. PICK c : c = [at |-> "swap", table |-> loading[r].table, map |-> m]
    OBVIOUS
  <2>4. loading' = [loading EXCEPT ![r] = c]
    BY <2>2, <2>3
  <2>5. c.at = "swap" /\ Follows(c.table, c.map)
    BY <2>1, <2>3, LoadsFollowTables DEF LoneBook
  <2>6. \A which \in BookTables : WorksOn(loading[r], which) => WorksOn(c, which)
    BY <2>1, <2>3 DEF WorksOn
  <2> QED  BY <2>1, <2>4, <2>5, <2>6, LoneQuietSteps
<1>2. CASE Prices!Swap(r)
  <2>1. /\ loading[r].at = "swap" /\ loading[r].table \in BookTables
        /\ engine' = [engine EXCEPT ![loading[r].table] = loading[r].map]
        /\ loading' = [loading EXCEPT ![r] = Prices!Idle] /\ UNCHANGED Prices!tables
    BY <1>2 DEF Prices!Swap, Prices!Respond, BookTyped, CallsOK, CallOK
  <2>2. engine \in Prices!Maps
    BY DEF BookTyped, Prices!TypeOK
  <2>3. /\ engine'.pub = engine.pub /\ engine'[loading[r].table] = loading[r].map
        /\ \A which \in BookTables : which # loading[r].table => engine'[which] = engine[which]
    BY <2>1, <2>2 DEF Prices!Maps, BookTables
  <2>4. Prices!OneActivePrice' /\ UNCHANGED <<price, custom, discount>>
    BY <2>1 DEF LoneBook, Prices!OneActivePrice, Prices!InForce, Prices!tables
  <2>5. ASSUME NEW which \in BookTables
        PROVE  Follows(which, engine[which])'
    <3>1. PICK m : m = engine'[which]
      OBVIOUS
    <3>2. Follows(which, m)
      <4>1. CASE which = loading[r].table
        BY <2>1, <2>3, <3>1, <4>1 DEF LoneBook, LoadsFollow
      <4>2. CASE which # loading[r].table
        <5>1. ~WorksOn(loading[r], which)
          BY <2>1, <4>2 DEF WorksOn
        <5> QED  BY <2>3, <3>1, <4>2, <5>1, TheRestFollows
      <4> QED  BY <4>1, <4>2
    <3>3. Follows(which, m)'
      BY <2>3, <2>4, <3>2, FollowsKept
    <3> QED  BY <3>1, <3>3
  <2>6. Prices!Idle.at = "idle"
    BY DEF Prices!Idle
  <2> QED  BY <2>1, <2>4, <2>5, <2>6, LoneGoesOn
<1> QED  BY <1>1, <1>2

(* They follow when a discount is attested.                                *)
LEMMA LoneCountersigning ==
  ASSUME BookTyped, LoneBook, Prices!CountersignDiscount
  PROVE  LoneBook'
<1>1. PICK o \in Owners :
        discount[o] # None /\ discount' = [discount EXCEPT ![o].attested = TRUE]
  BY DEF Prices!CountersignDiscount
<1>2. UNCHANGED <<price, custom, engine, loading>>
  BY DEF Prices!CountersignDiscount
<1>3. \A q \in Owners : discount'[q] = None => discount[q] = None
  <2>2. \A q \in Owners \ {o} : discount'[q] = discount[q]
    BY <1>1 DEF BookTyped, Prices!TypeOK
  <2>3. discount'[o] # None
    <3>1. discount[o] \in Prices!DiscountRow
      BY <1>1 DEF BookTyped, Prices!TypeOK, Prices!Maybe
    <3>2. [discount[o] EXCEPT !.attested = TRUE] \in Prices!DiscountRow
      BY <3>1 DEF Prices!DiscountRow
    <3>3. discount'[o] = [discount[o] EXCEPT !.attested = TRUE]
      BY <1>1 DEF BookTyped, Prices!TypeOK
    <3> QED  BY <3>2, <3>3, NoRowIsNone
  <2> QED  BY <2>2, <2>3
<1>4. ASSUME NEW which, NEW m, Follows(which, m)
      PROVE  Follows(which, m)'
  BY <1>2, <1>3, <1>4, FollowsKept
<1>5. Prices!OneActivePrice' /\ OneBusy' /\ SeenIsCurrent'
  BY <1>2 DEF LoneBook, Prices!OneActivePrice, OneBusy, SeenIsCurrent, Prices!InForce
<1>6. EngineFollows'
  <2>1. ASSUME NEW which \in BookTables, \A r \in Admins : ~WorksOn(loading'[r], which)
        PROVE  Follows(which, engine[which])'
    <3>1. PICK m : m = engine[which]
      OBVIOUS
    <3>2. Follows(which, m)
      BY <1>2, <2>1, <3>1 DEF LoneBook, EngineFollows
    <3>3. Follows(which, m)'
      BY <1>4, <3>2
    <3> QED  BY <1>2, <3>1, <3>3
  <2> QED  BY <2>1 DEF EngineFollows
<1>7. LoadsFollow'
  <2>1. ASSUME NEW r \in Admins, loading'[r].at = "swap"
        PROVE  Follows(loading[r].table, loading[r].map)'
    <3>1. PICK t, m : t = loading[r].table /\ m = loading[r].map
      OBVIOUS
    <3>2. Follows(t, m)
      BY <1>2, <2>1, <3>1 DEF LoneBook, LoadsFollow
    <3>3. Follows(t, m)'
      BY <1>4, <3>2
    <3> QED  BY <1>2, <3>1, <3>3
  <2> QED  BY <2>1 DEF LoadsFollow
<1> QED  BY <1>5, <1>6, <1>7 DEF LoneBook

(* A start: nobody is at work, and each map has been loaded.               *)
LEMMA AllFollowAtStart ==
  ASSUME loading' = [r \in Admins |-> Prices!Idle], Prices!OneActivePrice',
         OperatorFollows(engine.operator)', CustomFollows(engine.custom)', RevokedFollows(engine.discount)'
  PROVE  LoneBook'
<1>1. \A r \in Admins : loading'[r].at = "idle"
  BY DEF Prices!Idle
<1>2. OneBusy' /\ SeenIsCurrent' /\ LoadsFollow'
  BY <1>1 DEF OneBusy, SeenIsCurrent, LoadsFollow
<1>3. \A which \in BookTables : Follows(which, engine[which])'
  BY DEF BookTables, Follows
<1> QED  BY <1>2, <1>3 DEF LoneBook, EngineFollows

(* What a start has loaded follows.                                        *)
LEMMA StartLoadsFollow ==
  ASSUME UNCHANGED <<custom, discount>>, NEW m \in Prices!LoadCustomPricing,
         NEW d \in Prices!LoadEffectiveDiscounts, engine'.custom = m, engine'.discount = d
  PROVE  CustomFollows(engine.custom)' /\ RevokedFollows(engine.discount)'
BY DEF CustomFollows, RevokedFollows, Prices!LoadCustomPricing, Prices!LoadEffectiveDiscounts, Prices!Listings

(* The maps follow after a restart.                                        *)
LEMMA LoneRestarts ==
  ASSUME BookTyped, LoneBook, NEW signer, Prices!Restart(signer)
  PROVE  LoneBook'
<1>1. PICK operator \in SignedBy(signer) : Prices!Started(signer, operator)
  BY DEF Prices!Restart, SignedBy
<1>2. PICK m \in Prices!LoadCustomPricing, d \in Prices!LoadEffectiveDiscounts :
        engine' = [operator |-> operator, custom |-> m, discount |-> d, pub |-> signer]
  BY <1>1 DEF Prices!Started
<1>3. /\ UNCHANGED <<price, custom, discount>> /\ loading' = [r \in Admins |-> Prices!Idle]
      /\ engine'.operator = operator /\ engine'.custom = m /\ engine'.discount = d /\ engine'.pub = signer
  BY <1>1, <1>2 DEF Prices!Restart, Prices!tables, Prices!Started
<1>4. ListsSigned(operator, signer)
  BY CatalogIsListed DEF LoneBook
<1>5. OperatorFollows(engine.operator)'
  BY <1>3, <1>4 DEF ListsSigned, OperatorFollows, Prices!Verifies, Prices!InForce
<1>6. Prices!OneActivePrice'
  BY <1>3 DEF LoneBook, Prices!OneActivePrice, Prices!InForce
<1> QED  BY <1>3, <1>5, <1>6, StartLoadsFollow, AllFollowAtStart

(* As many ids as entries: each new row is for an entry of its own.        *)
LEMMA SeedingIsOneToOne ==
  ASSUME NEW ids \in SUBSET PriceRows, NEW entryOf \in [PriceRows -> Entries], NEW offered,
         {entryOf[i] : i \in ids} = offered, Cardinality(ids) = Cardinality(offered)
  PROVE  \A i, j \in ids : entryOf[i] = entryOf[j] => i = j
<1> DEFINE f == [i \in ids |-> entryOf[i]]
<1>1. IsFiniteSet(ids)
  <2>1. Prices!IsFiniteSet(PriceRows)
    BY PricesAssumption DEF Prices!ConstantsOK
  <2>2. IsFiniteSet(PriceRows)
    BY <2>1 DEF Prices!IsFiniteSet, IsFiniteSet
  <2> QED  BY <2>2, FS_Subset
<1>2. f \in [ids -> offered] /\ \A y \in offered : \E x \in ids : f[x] = y
  OBVIOUS
<1>3. f \in Surjection(ids, offered)
  BY <1>2 DEF Surjection
<1>4. f \in Injection(ids, offered)
  BY <1>1, <1>3, FS_SurjSameCardinalityImpliesInj
<1> QED  BY <1>4 DEF Injection, IsInjective

(* They follow after a start that seeds the catalog.                       *)
LEMMA LoneSeedings ==
  ASSUME BookTyped, LoneBook, NEW signer \in Prices!Maybe(SigningKeys), Prices!autoSeedCatalog(signer)
  PROVE  LoneBook'
<1>1. PICK m \in Prices!LoadCustomPricing : Seeds(m, signer)
  BY DEF Prices!autoSeedCatalog, Seeds, Seeded, Prices!Cardinality, Cardinality
<1>2. Prices!InForce(price) = {} /\ UNCHANGED <<custom, discount>>
  BY DEF Prices!autoSeedCatalog
<1>3. PICK offered \in SUBSET {e \in Entries : Seeded(m, e) # None} :
        /\ \E ids \in SUBSET Prices!Fresh, entryOf \in [PriceRows -> Entries] :
             /\ {entryOf[i] : i \in ids} = offered /\ Cardinality(ids) = Cardinality(offered)
             /\ price' = [i \in PriceRows |-> IF i \in ids
                                             THEN [entry |-> entryOf[i], cost |-> Seeded(m, entryOf[i]),
                                                   active |-> TRUE, signer |-> signer]
                                             ELSE price[i]]
        /\ \E d \in Prices!LoadEffectiveDiscounts :
             engine' = [operator |-> [e \in Entries |-> IF e \in offered THEN Seeded(m, e) ELSE None],
                        custom |-> m, discount |-> d, pub |-> signer]
        /\ loading' = [r \in Admins |-> Prices!Idle]
  BY <1>1 DEF Seeds
<1>4. PICK ids \in SUBSET Prices!Fresh, entryOf \in [PriceRows -> Entries] :
        /\ {entryOf[i] : i \in ids} = offered /\ Cardinality(ids) = Cardinality(offered)
        /\ price' = [i \in PriceRows |-> IF i \in ids
                                        THEN [entry |-> entryOf[i], cost |-> Seeded(m, entryOf[i]),
                                              active |-> TRUE, signer |-> signer]
                                        ELSE price[i]]
  BY <1>3
<1>5. PICK d \in Prices!LoadEffectiveDiscounts :
        engine' = [operator |-> [e \in Entries |-> IF e \in offered THEN Seeded(m, e) ELSE None],
                   custom |-> m, discount |-> d, pub |-> signer]
  BY <1>3
<1>6. ids \in SUBSET PriceRows
  BY DEF Prices!Fresh
<1>7. \A i, j \in ids : entryOf[i] = entryOf[j] => i = j
  BY <1>4, <1>6, SeedingIsOneToOne
<1>8. ASSUME NEW i \in ids
      PROVE  /\ i \in Prices!InForce(price)' /\ price'[i].entry = entryOf[i] /\ entryOf[i] \in offered
             /\ price'[i].cost = Seeded(m, entryOf[i]) /\ price'[i].signer = signer
  <2>1. i \in PriceRows
    BY <1>6
  <2>2. price'[i] = [entry |-> entryOf[i], cost |-> Seeded(m, entryOf[i]), active |-> TRUE, signer |-> signer]
    BY <1>4, <2>1
  <2>3. price'[i] # None
    <3>1. price' \in [PriceRows -> Prices!Maybe(Prices!CatalogRow)]
      BY StartsAreTyped DEF Prices!Start, BookTyped, Prices!TypeOK
    <3>2. entryOf[i] \in offered /\ signer \in SigningKeys
      BY <1>4 DEF Prices!autoSeedCatalog, Prices!Maybe
    <3>3. m \in [Entries -> Prices!Maybe(Costs)]
      BY StartLoadsAreTyped
    <3>4. Seeded(m, entryOf[i]) \in Costs /\ entryOf[i] \in Entries
      BY <1>3, <3>2, <3>3, PricesAssumption DEF Seeded, Prices!ConstantsOK, Prices!Maybe
    <3>5. [entry |-> entryOf[i], cost |-> Seeded(m, entryOf[i]), active |-> TRUE, signer |-> signer]
            \in Prices!CatalogRow
      BY <3>2, <3>4 DEF Prices!CatalogRow
    <3> QED  BY <2>2, <3>5, NoRowIsNone
  <2> QED  BY <1>4, <2>1, <2>2, <2>3 DEF Prices!InForce
<1>9. Prices!InForce(price)' = ids
  <2>1. ASSUME NEW i \in Prices!InForce(price)', i \notin ids
        PROVE  FALSE
    <3>1. i \in PriceRows /\ price'[i] = price[i] /\ price'[i] # None /\ price'[i].active
      BY <1>4, <2>1 DEF Prices!InForce
    <3> QED  BY <1>2, <3>1 DEF Prices!InForce
  <2> QED  BY <1>8, <2>1
<1>10. Prices!OneActivePrice'
  BY <1>7, <1>8, <1>9 DEF Prices!OneActivePrice
<1>11. engine'.operator = [e \in Entries |-> IF e \in offered THEN Seeded(m, e) ELSE None]
       /\ engine'.custom = m /\ engine'.discount = d /\ engine'.pub = signer
  BY <1>5
<1>12. OperatorFollows(engine.operator)'
  <2>1. ASSUME NEW e \in Entries, NEW i \in ids, price'[i].entry = e
        PROVE  engine'.operator[e] = price'[i].cost
    BY <1>8, <1>11, <2>1
  <2>2. ASSUME NEW e \in Entries, engine'.operator[e] # None
        PROVE  \E i \in ids : price'[i].entry = e /\ engine'.pub = price'[i].signer
    <3>1. e \in offered
      BY <1>11, <2>2
    <3>2. PICK i \in ids : entryOf[i] = e
      BY <1>4, <3>1
    <3> QED  BY <1>8, <1>11, <3>2
  <2> QED  BY <1>9, <2>1, <2>2 DEF OperatorFollows, Prices!Verifies
<1>13. CustomFollows(engine.custom)' /\ RevokedFollows(engine.discount)'
  BY <1>2, <1>11, StartLoadsFollow
<1> QED  BY <1>3, <1>10, <1>12, <1>13, AllFollowAtStart

----------------------------------------------------------------------------
(* What a request costs.                                                   *)

LEMMA RatesAgree ==
  ASSUME NEW p \in Nat, NEW rest \in Nat, NEW u \in Nat, NEW v \in Nat, NEW w \in Nat, w <= u
  PROVE  LET billed == u * (2 * p * rest) + v * (4 * p * rest) - w * (2 * p - p) * rest
             plain  == u * (2 * p) + v * (4 * p) - w * (2 * p - p)
         IN  billed \in Nat /\ billed = rest * plain
<1> DEFINE n == 2 * u + 4 * v - w
<1>1. n \in Nat
  OBVIOUS
<1>2. u * (2 * p) + v * (4 * p) - w * (2 * p - p) = p * n
  OBVIOUS
<1>3. u * (2 * p * rest) + v * (4 * p * rest) - w * (2 * p - p) * rest = rest * (p * n)
  OBVIOUS
<1>4. p * n \in Nat /\ rest * (p * n) \in Nat
  BY <1>1
<1> QED  BY <1>2, <1>3, <1>4

(* A discount takes less than the whole price.                             *)
LEMMA DiscountsArePercents ==
  ASSUME Prices!TypeOK, NEW o \in Owners
  PROVE  Prices!discountFor(o) \in Nat /\ Prices!discountFor(o) <= 99
<1>1. ASSUME NEW q \in Owners, engine.discount[q] # None
      PROVE  engine.discount[q] \in Percents
  BY <1>1 DEF Prices!TypeOK, Prices!Maps, Prices!Maybe
<1>2. Global \in Owners /\ Percents \subseteq 0..99
  BY PricesAssumption DEF Prices!ConstantsOK
<1>3. PICK n : n = Prices!discountFor(o)
  OBVIOUS
<1>4. n \in Percents \cup {0}
  BY <1>1, <1>2, <1>3 DEF Prices!discountFor
<1>5. \A p \in Percents : p \in 0..99
  BY <1>2
<1>6. n \in 0..99
  BY <1>4, <1>5
<1> QED  BY <1>3, <1>6

(* For any numbers of tokens, of which no more are cached than prompted.   *)
LEMMA FormulasAgree ==
  ASSUME Prices!TypeOK, NEW o \in Owners, NEW e \in Entries, Prices!GetPricing(e) # None,
         NEW usage, usage.prompt \in Nat, usage.completion \in Nat, usage.cached \in Nat,
         usage.cached <= usage.prompt
  PROVE  100 * Prices!BaselineCost(o, e, usage)
           = (100 - Prices!discountFor(o)) * Prices!Calculate("chat", e, usage)
<1> DEFINE p == Prices!GetPricing(e)
           rest == 100 - Prices!discountFor(o)
           u == usage.prompt
           v == usage.completion
           w == usage.cached
           plain == u * (2 * p) + v * (4 * p) - w * (2 * p - p)
           billed == u * (2 * p * rest) + v * (4 * p * rest) - w * (2 * p - p) * rest
<1>1. p \in Nat
  BY PricesAssumption DEF Prices!GetPricing, Prices!TypeOK, Prices!Maps, Prices!Maybe, Prices!ConstantsOK
<1>2. rest \in Nat
  <2>1. Prices!discountFor(o) \in Nat /\ Prices!discountFor(o) <= 99
    BY DiscountsArePercents
  <2> QED  BY <2>1
<1>3. Prices!BaselineCost(o, e, usage) = Prices!AtLeastZero(billed)
  BY DEF Prices!BaselineCost, Prices!EffectiveRate, Prices!InputRate, Prices!OutputRate, Prices!CachedRate
<1>4. Prices!Calculate("chat", e, usage) = 100 * plain
  BY DEF Prices!Calculate, Prices!InputRate, Prices!OutputRate, Prices!CachedRate
<1> HIDE DEF p, rest
<1>5. billed \in Nat /\ billed = rest * plain /\ plain \in Int
  BY <1>1, <1>2, RatesAgree
<1> HIDE DEF billed, plain
<1>6. Prices!AtLeastZero(billed) = rest * plain
  BY <1>5 DEF Prices!AtLeastZero
<1>7. 100 * (rest * plain) = rest * (100 * plain)
  BY <1>2, <1>5
<1> QED  BY <1>3, <1>4, <1>6, <1>7 DEF rest

(* A request served by the baseline costs what the baseline costs.         *)
LEMMA BaselineSavesNothing ==
  ASSUME Prices!TypeOK
  PROVE  Prices!ServedAsBaselineSavesNothing
<1> SUFFICES ASSUME NEW o \in Owners, NEW e \in Entries, NEW usage \in Prices!Usages,
                    Prices!GetPricing(e) # None, usage.cached <= usage.prompt
             PROVE  100 * Prices!BaselineCost(o, e, usage)
                      = (100 - Prices!discountFor(o)) * Prices!Calculate("chat", e, usage)
  BY DEF Prices!ServedAsBaselineSavesNothing
<1>1. usage.prompt \in Nat /\ usage.completion \in Nat /\ usage.cached \in Nat
  BY DEF Prices!Usages
<1> QED  BY <1>1, FormulasAgree

----------------------------------------------------------------------------
(* Types of the accounts.                                                  *)

AccountsTyped == People!TypeOK /\ SpendInv /\ RequestsOK

(* What stays of the users while a statement is stored.                    *)
LEMMA StatementsStayTyped ==
  ASSUME NEW s, StatementOK(s), People!Live(user) \subseteq People!Live(user)'
  PROVE  StatementOK(s)'
BY DEF StatementOK, People!OrgRows, People!TeamRows, People!UserRows, People!KeyRows

(* A whole statement leaves rows in every table.                           *)
LEMMA StoresKeepTables ==
  ASSUME AccountsTyped, NEW s, StatementOK(s), People!Issue(s)
  PROVE  /\ orgs' \in [Orgs -> People!OrgRows \cup {None, Gone}]
         /\ team' \in [Teams -> People!TeamRows \cup {None, Gone}]
         /\ user' \in [Users -> People!UserRows \cup {None}]
         /\ key' \in [Keys -> People!KeyRows \cup {None, Gone}]
<1>1. CASE People!StoreOrg(s)
  BY <1>1 DEF People!StoreOrg, AccountsTyped, People!TypeOK, StatementOK
<1>2. CASE People!StoreTeam(s)
  BY <1>2 DEF People!StoreTeam, AccountsTyped, People!TypeOK, StatementOK
<1>3. CASE People!StoreUser(s)
  BY <1>3 DEF People!StoreUser, AccountsTyped, People!TypeOK, StatementOK
<1>4. CASE People!InsertKey(s)
  <2>1. s.row \in People!KeyRows /\ MaxSpend \in Nat
    BY <1>4, AccountsAssumption DEF People!InsertKey, StatementOK, People!ConstantsOK
  <2>3. 0 \in 0..MaxSpend /\ s.row.team \in People!Maybe(Teams) /\ s.row.user \in People!Maybe(Users)
    BY <2>1 DEF People!KeyRows
  <2>4. [team |-> s.row.team, user |-> s.row.user, active |-> TRUE, expires |-> FALSE, spend |-> 0]
          \in People!KeyRows
    BY <2>3 DEF People!KeyRows
  <2> QED  BY <1>4, <2>4 DEF People!InsertKey, AccountsTyped, People!TypeOK
<1>5. CASE People!UpdateAPIKey(s)
  <2>1. s.row \in People!KeyRows
    BY <1>5 DEF People!UpdateAPIKey, StatementOK
  <2>2. ASSUME s.id \in People!Live(key)
        PROVE  key[s.id] \in People!KeyRows
    BY <2>2 DEF People!Live, AccountsTyped, People!TypeOK
  <2>3. ASSUME NEW now \in People!KeyRows
        PROVE  [s.row EXCEPT !.spend = now.spend] \in People!KeyRows
    <3>1. PICK n \in 0..MaxSpend : n = now.spend
      BY DEF People!KeyRows
    <3>2. [s.row EXCEPT !.spend = n] \in People!KeyRows
      BY <2>1, AccountsAssumption DEF People!KeyRows, People!ConstantsOK
    <3> QED  BY <3>1, <3>2
  <2>4. key' = [key EXCEPT ![s.id] = IF s.id \in People!Live(key)
                                     THEN [s.row EXCEPT !.spend = key[s.id].spend] ELSE @]
    BY <1>5 DEF People!UpdateAPIKey, People!Rewritten
  <2> QED  BY <1>5, <2>2, <2>3, <2>4 DEF People!UpdateAPIKey, AccountsTyped, People!TypeOK
<1>6. CASE People!DeactivateUserKeys(s) \/ People!DeactivateTeamKeys(s)
  <2>1. ASSUME NEW k \in People!Live(key)
        PROVE  [key[k] EXCEPT !.active = FALSE] \in People!KeyRows
    BY <2>1 DEF People!Live, AccountsTyped, People!TypeOK, People!KeyRows
  <2> QED
    BY <1>6, <2>1 DEF People!DeactivateUserKeys, People!DeactivateTeamKeys, AccountsTyped, People!TypeOK
<1>7. CASE People!DeleteUserRow(s)
  <2>1. user[s.id] \in People!UserRows
    BY <1>7 DEF People!DeleteUserRow, StatementOK, People!Live, AccountsTyped, People!TypeOK
  <2>2. [user[s.id] EXCEPT !.active = FALSE] \in People!UserRows
    BY <2>1 DEF People!UserRows
  <2> QED  BY <1>7, <2>2 DEF People!DeleteUserRow, AccountsTyped, People!TypeOK
<1>8. CASE People!DeleteTeamRow(s) \/ People!DeleteOrgRow(s) \/ People!DeleteKeyRow(s)
  BY <1>8 DEF People!DeleteTeamRow, People!DeleteOrgRow, People!DeleteKeyRow, AccountsTyped, People!TypeOK
<1> QED  BY <1>1, <1>2, <1>3, <1>4, <1>5, <1>6, <1>7, <1>8 DEF People!Issue

(* Rows of users and keys are not the marks of none and gone.              *)
LEMMA NoAccountIsNone ==
  /\ \A row \in People!UserRows : row \notin {None, Gone}
  /\ \A row \in People!KeyRows : row \notin {None, Gone}
BY AccountsAssumption DEF People!ConstantsOK

(* Users stay, also those that are deleted.                                *)
LEMMA UsersStay ==
  ASSUME AccountsTyped, NEW s, StatementOK(s), People!Issue(s)
  PROVE  People!Live(user) \subseteq People!Live(user)'
<1>1. CASE People!StoreUser(s)
  <2>1. s.row \in People!UserRows /\ user' = [user EXCEPT ![s.id] = s.row]
    BY <1>1 DEF People!StoreUser, StatementOK
  <2> QED  BY <2>1, NoAccountIsNone DEF People!Live, AccountsTyped, People!TypeOK
<1>2. CASE People!DeleteUserRow(s)
  <2>1. user[s.id] \in People!UserRows
    BY <1>2 DEF People!DeleteUserRow, StatementOK, People!Live, AccountsTyped, People!TypeOK
  <2>2. PICK row : row = [user[s.id] EXCEPT !.active = FALSE]
    OBVIOUS
  <2>3. row \in People!UserRows
    BY <2>1, <2>2 DEF People!UserRows
  <2>4. user' = [user EXCEPT ![s.id] = row]
    BY <1>2, <2>2 DEF People!DeleteUserRow
  <2> QED  BY <2>3, <2>4, NoAccountIsNone DEF People!Live, AccountsTyped, People!TypeOK
<1>3. CASE UNCHANGED user
  BY <1>3 DEF People!Live
<1> QED
  BY <1>1, <1>2, <1>3
  DEF People!Issue, People!StoreOrg, People!StoreTeam, People!InsertKey, People!UpdateAPIKey,
      People!DeactivateUserKeys, People!DeactivateTeamKeys, People!DeleteTeamRow, People!DeleteOrgRow,
      People!DeleteKeyRow

(* One statement less, whatever has become of it.                          *)
LEMMA FewerStatements ==
  ASSUME AccountsTyped, NEW r \in Admins, call[r] # <<>>, People!Proceed(r),
         People!Live(user) \subseteq People!Live(user)'
  PROVE  RequestsOK'
<1>1. /\ \A n \in DOMAIN call'[r] : n + 1 \in DOMAIN call[r] /\ call'[r][n] = call[r][n + 1]
      /\ \A q \in Admins \ {r} : call'[q] = call[q]
  BY Shortened DEF AccountsTyped
<1>2. Len(call'[r]) <= 4
  <2>1. PICK S : call[r] \in Seq(S)
    BY DEF AccountsTyped, SpendInv, AccountsShape, IsSequence
  <2>2. call'[r] = Tail(call[r])
    BY DEF People!Proceed, AccountsTyped, SpendInv, AccountsShape
  <2>3. Len(Tail(call[r])) = Len(call[r]) - 1 /\ Len(call[r]) \in Nat /\ Len(call[r]) <= 4
    BY <2>1, HeadTailProperties DEF AccountsTyped, RequestsOK
  <2> QED  BY <2>2, <2>3
<1>3. ASSUME NEW q \in Admins, NEW n \in DOMAIN call'[q]
      PROVE  StatementOK(call[q][n])'
  <2>1. PICK s : s = call'[q][n]
    OBVIOUS
  <2>2. StatementOK(s)
    BY <1>1, <2>1 DEF AccountsTyped, RequestsOK
  <2> QED  BY <2>1, <2>2, StatementsStayTyped
<1> QED  BY <1>1, <1>2, <1>3 DEF AccountsTyped, RequestsOK

(* A stored statement keeps the types of the accounts.                     *)
LEMMA StoresAreTyped ==
  ASSUME AccountsTyped, NEW r \in Admins, People!Store(r)
  PROVE  AccountsTyped'
<1>1. /\ call[r] # <<>> /\ People!Issue(call[r][1]) /\ People!Proceed(r) /\ StatementOK(call[r][1])
  BY Shortened DEF People!Store, AccountsTyped, RequestsOK
<1>2. RequestsOK'
  BY <1>1, UsersStay, FewerStatements
<1>3. SpendInv'
  BY StoreSteps DEF AccountsTyped
<1>4. People!TypeOK'
  BY <1>1, <1>2, StoresKeepTables DEF People!TypeOK, RequestsOK
<1> QED  BY <1>2, <1>3, <1>4 DEF AccountsTyped

(* The tables stay as they are, but for a charge.                          *)
LEMMA UnissuedIsTyped ==
  ASSUME AccountsTyped, UNCHANGED <<orgs, team, user>>, RequestsOK', SpendInv',
         key' \in [Keys -> People!KeyRows \cup {None, Gone}]
  PROVE  AccountsTyped'
BY DEF AccountsTyped, People!TypeOK, RequestsOK

(* So do one that fails, and a crash.                                      *)
LEMMA FailuresAreTyped ==
  ASSUME AccountsTyped, (\E r \in Admins : People!Fail(r)) \/ People!Crash
  PROVE  AccountsTyped'
<1>1. UNCHANGED <<orgs, team, user, key>> /\ key \in [Keys -> People!KeyRows \cup {None, Gone}]
  BY DEF People!Fail, People!Crash, People!tables, AccountsTyped, People!TypeOK
<1>2. SpendInv'
  BY <1>1, AccountsFailSteps DEF AccountsTyped
<1>3. Len(<<>>) <= 4 /\ DOMAIN <<>> = {}
  OBVIOUS
<1>4. RequestsOK'
  <2>1. ASSUME NEW s, StatementOK(s)
        PROVE  StatementOK(s)'
    BY <1>1, <2>1, StatementsStayTyped DEF People!Live
  <2>2. CASE People!Crash
    BY <1>3, <2>2 DEF People!Crash, RequestsOK
  <2>3. ASSUME NEW r \in Admins, People!Fail(r), People!Proceed(r)
        PROVE  RequestsOK'
    BY <1>1, <2>3, FewerStatements DEF People!Fail, People!Live
  <2>4. ASSUME NEW r \in Admins, call' = [call EXCEPT ![r] = <<>>]
        PROVE  RequestsOK'
    <3>1. \A q \in Admins : call'[q] = call[q] \/ call'[q] = <<>>
      BY <2>4 DEF AccountsTyped, SpendInv, AccountsShape
    <3>2. ASSUME NEW q \in Admins
          PROVE  Len(call'[q]) <= 4 /\ \A n \in DOMAIN call'[q] : StatementOK(call[q][n])'
      <4>1. CASE call'[q] = <<>>
        BY <1>3, <4>1
      <4>2. CASE call'[q] = call[q]
        <5>1. ASSUME NEW n \in DOMAIN call'[q]
              PROVE  StatementOK(call[q][n])'
          <6>1. PICK s : s = call[q][n]
            OBVIOUS
          <6>2. StatementOK(s)'
            BY <2>1, <4>2, <5>1, <6>1 DEF AccountsTyped, RequestsOK
          <6> QED  BY <4>2, <6>1, <6>2
        <5> QED  BY <4>2, <5>1 DEF AccountsTyped, RequestsOK
      <4> QED  BY <3>1, <4>1, <4>2
    <3> QED  BY <3>2 DEF RequestsOK
  <2> QED  BY <2>2, <2>3, <2>4 DEF People!Fail
<1> QED  BY <1>1, <1>2, <1>4, UnissuedIsTyped

----------------------------------------------------------------------------
(* What handlers begin with.                                               *)

Whole(stmts) == Len(stmts) <= 4 /\ \A n \in DOMAIN stmts : StatementOK(stmts[n])

(* Whole statements are whole together.                                    *)
LEMMA WholeStatements ==
  ASSUME NEW s, NEW t, NEW u, NEW v, StatementOK(s)
  PROVE  /\ Whole(<<s>>)
         /\ StatementOK(t) => Whole(<<s, t>>)
         /\ StatementOK(t) /\ StatementOK(u) /\ StatementOK(v) => Whole(<<s, t, u, v>>)
BY DEF Whole

(* A handler that begins with whole statements keeps the types.            *)
LEMMA BeginsAreTyped ==
  ASSUME AccountsTyped, SpendInv', NEW r \in Admins, NEW stmts, Whole(stmts), People!Begin(r, stmts)
  PROVE  AccountsTyped'
<1>1. UNCHANGED <<orgs, team, user, key>> /\ key \in [Keys -> People!KeyRows \cup {None, Gone}]
  BY DEF People!Begin, People!tables, AccountsTyped, People!TypeOK
<1>2. call'[r] = stmts /\ \A q \in Admins \ {r} : call'[q] = call[q]
  BY DEF People!Begin, AccountsTyped, SpendInv, AccountsShape
<1>3. ASSUME NEW s, StatementOK(s)
      PROVE  StatementOK(s)'
  BY <1>1, <1>3, StatementsStayTyped DEF People!Live
<1>4. ASSUME NEW q \in Admins
      PROVE  Len(call'[q]) <= 4 /\ \A n \in DOMAIN call'[q] : StatementOK(call[q][n])'
  <2>1. Len(call'[q]) <= 4 /\ \A n \in DOMAIN call'[q] : StatementOK(call'[q][n])
    BY <1>2 DEF Whole, AccountsTyped, RequestsOK
  <2>2. ASSUME NEW n \in DOMAIN call'[q]
        PROVE  StatementOK(call[q][n])'
    <3>1. PICK s : s = call'[q][n]
      OBVIOUS
    <3> QED  BY <1>3, <2>1, <3>1
  <2> QED  BY <2>1, <2>2
<1>5. RequestsOK'
  BY <1>4 DEF RequestsOK
<1> QED  BY <1>1, <1>5, UnissuedIsTyped

(* Statements that write no row.                                           *)
LEMMA PlainStatements ==
  ASSUME NEW id, NEW op \in {"DeactivateUserKeys", "DeactivateTeamKeys", "DeleteTeam",
                             "DeleteOrganization", "DeleteAPIKey"}
  PROVE  StatementOK(People!Stmt(op, id, None))
BY DEF StatementOK, People!Stmt

(* The insert of a new key is whole.                                       *)
LEMMA NewKeysAreRows ==
  ASSUME NEW t \in People!Maybe(Teams), NEW u \in People!Maybe(Users), NEW e \in BOOLEAN, NEW k
  PROVE  StatementOK(People!Stmt("CreateAPIKey", k, People!NewKey(t, u, e)))
<1>1. 0 \in 0..MaxSpend
  BY AccountsAssumption DEF People!ConstantsOK
<1>2. People!NewKey(t, u, e) \in People!KeyRows
  BY <1>1 DEF People!NewKey, People!KeyRows
<1> QED  BY <1>2 DEF StatementOK, People!Stmt

(* So are the inserts and updates of rows of each table.                   *)
LEMMA NewRowsOfAccounts ==
  ASSUME NEW id
  PROVE  /\ \A row \in People!OrgRows :
              /\ StatementOK(People!Stmt("CreateOrganization", id, row))
              /\ StatementOK(People!Stmt("UpdateOrganization", id, row))
         /\ \A row \in People!TeamRows : StatementOK(People!Stmt("CreateTeam", id, row))
         /\ \A row \in People!UserRows : /\ StatementOK(People!Stmt("CreateUser", id, row))
                                        /\ StatementOK(People!Stmt("UpdateUser", id, row))
         /\ \A row \in People!KeyRows : StatementOK(People!Stmt("UpdateAPIKey", id, row))
BY DEF StatementOK, People!Stmt

(* Ids that rows are found at, and the organization of a caller.           *)
LEMMA LiveRows ==
  ASSUME People!TypeOK
  PROVE  /\ \A o \in People!Live(orgs) : o \in Orgs /\ orgs[o] \in People!OrgRows
         /\ \A t \in People!Live(team) : t \in Teams /\ team[t] \in People!TeamRows
         /\ \A u \in People!Live(user) : u \in Users /\ user[u] \in People!UserRows
         /\ \A k \in People!Live(key) : k \in Keys /\ key[k] \in People!KeyRows
BY DEF People!TypeOK, People!Live

(* The organization of a caller is one or none, and so is the user.        *)
LEMMA CallersHaveHomes ==
  ASSUME People!TypeOK, NEW c \in People!Callers
  PROVE  /\ People!OrgOf(c) \in People!Maybe(Orgs)
         /\ People!UserOf(c) \in People!Maybe(Users)
         /\ People!UserOf(c) # None => People!UserOf(c) \in People!Live(user)
<1>1. c # Master => c \in People!Live(key)
  BY DEF People!Callers
<1>2. People!UserOf(c) # None => People!UserOf(c) \in People!Live(user)
  BY DEF People!UserOf
<1>3. People!UserOf(c) \in People!Maybe(Users)
  BY <1>2, LiveRows DEF People!Maybe
<1>4. People!UserOf(c) # None => user[People!UserOf(c)].org \in People!Maybe(Orgs)
  BY <1>2, LiveRows DEF People!UserRows
<1>5. ASSUME NEW t \in People!Live(team)
      PROVE  team[t].org \in People!Maybe(Orgs)
  BY LiveRows DEF People!TeamRows
<1>6. People!OrgOf(c) \in People!Maybe(Orgs)
  BY <1>4, <1>5 DEF People!OrgOf, People!Maybe
<1> QED  BY <1>2, <1>3, <1>6

----------------------------------------------------------------------------
(* What an update makes of a row.                                          *)
LEMMA KeyUpdatesAreRows ==
  ASSUME NEW row \in People!KeyRows, NEW t \in People!Maybe(Teams), NEW u \in People!Maybe(Users),
         NEW a \in BOOLEAN
  PROVE  [row EXCEPT !.team = t, !.user = u, !.active = a] \in People!KeyRows
BY DEF People!KeyRows

(* An updated user is a row.                                               *)
LEMMA UserUpdatesAreRows ==
  ASSUME NEW row \in People!UserRows, NEW e \in Emails, NEW role \in People!Roles,
         NEW t \in People!Maybe(Teams), NEW a \in BOOLEAN
  PROVE  [row EXCEPT !.email = e, !.role = role, !.team = t, !.active = a] \in People!UserRows
BY DEF People!UserRows

(* A field that is given or kept has the type of both.                     *)
LEMMA GivenIsTyped ==
  ASSUME NEW S, NEW old \in S, NEW field \in People!Maybe(S)
  PROVE  People!Given(field, old) \in S
BY DEF People!Given, People!Maybe

(* The handlers of keys begin with whole statements.                       *)
LEMMA KeyHandlersAreTyped ==
  ASSUME AccountsTyped, SpendInv', NEW r \in Admins, NEW c \in People!Callers,
         \/ People!CreateAPIKey(r, c) \/ People!DeleteAPIKey(r, c) \/ People!UpdateAPIKeyHandler(r, c)
         \/ People!LiteLLMKeyGenerate(r, c) \/ People!LiteLLMKeyDelete(r, c)
  PROVE  AccountsTyped'
<1>1. ASSUME NEW s, StatementOK(s), People!Begin(r, <<s>>)
      PROVE  AccountsTyped'
  BY <1>1, WholeStatements, BeginsAreTyped
<1>2. ASSUME NEW t \in People!Maybe(People!Live(team))
      PROVE  t \in People!Maybe(Teams)
  BY LiveRows DEF People!Maybe, AccountsTyped
<1>3. ASSUME NEW u \in People!Maybe(People!Live(user))
      PROVE  u \in People!Maybe(Users)
  BY LiveRows DEF People!Maybe, AccountsTyped
<1>4. CASE People!CreateAPIKey(r, c)
  <2>1. PICK k \in People!Fresh(key), t \in People!Maybe(People!Live(team)), u \in People!Maybe(People!Live(user)) :
          LET owner == IF t = None /\ u = None /\ ~People!IsSuperAdmin(c) THEN People!UserOf(c) ELSE u
          IN  People!Begin(r, <<People!Stmt("CreateAPIKey", k, People!NewKey(t, owner, FALSE))>>)
    BY <1>4 DEF People!CreateAPIKey
  <2>2. PICK owner \in People!Maybe(Users) :
          People!Begin(r, <<People!Stmt("CreateAPIKey", k, People!NewKey(t, owner, FALSE))>>)
    BY <1>3, <2>1, CallersHaveHomes DEF AccountsTyped
  <2>3. t \in People!Maybe(Teams) /\ FALSE \in BOOLEAN
    BY <1>2
  <2> QED  BY <1>1, <2>2, <2>3, NewKeysAreRows
<1>5. CASE People!DeleteAPIKey(r, c) \/ People!LiteLLMKeyDelete(r, c)
  BY <1>1, <1>5, PlainStatements DEF People!DeleteAPIKey, People!LiteLLMKeyDelete
<1>6. CASE People!UpdateAPIKeyHandler(r, c)
  <2>1. PICK k \in People!Live(key), t \in People!Maybe(People!Live(team)),
             u \in People!Maybe(People!Live(user)), a \in People!Maybe(BOOLEAN) :
          People!Begin(r, <<People!Stmt("UpdateAPIKey", k,
                              [key[k] EXCEPT !.team = People!Given(t, @), !.user = People!Given(u, @),
                                             !.active = People!Given(a, @)])>>)
    BY <1>6 DEF People!UpdateAPIKeyHandler
  <2>2. key[k] \in People!KeyRows
    BY LiveRows DEF AccountsTyped
  <2>3. /\ key[k].team \in People!Maybe(Teams) /\ key[k].user \in People!Maybe(Users)
        /\ key[k].active \in BOOLEAN
    BY <2>2 DEF People!KeyRows
  <2>4. PICK newT, newU, newA :
          /\ newT = People!Given(t, key[k].team) /\ newU = People!Given(u, key[k].user)
          /\ newA = People!Given(a, key[k].active)
    OBVIOUS
  <2>5. newT \in People!Maybe(Teams) /\ newU \in People!Maybe(Users) /\ newA \in BOOLEAN
    <3>1. newA \in BOOLEAN
      BY <2>3, <2>4, GivenIsTyped
    <3>2. newT \in People!Maybe(Teams)
      BY <1>2, <2>3, <2>4 DEF People!Given
    <3>3. newU \in People!Maybe(Users)
      BY <1>3, <2>3, <2>4 DEF People!Given
    <3> QED  BY <3>1, <3>2, <3>3
  <2>6. PICK row : row = [key[k] EXCEPT !.team = newT, !.user = newU, !.active = newA]
    OBVIOUS
  <2>7. row \in People!KeyRows
    BY <2>2, <2>5, <2>6, KeyUpdatesAreRows
  <2>8. People!Begin(r, <<People!Stmt("UpdateAPIKey", k, row)>>)
    BY <2>1, <2>4, <2>6
  <2> QED  BY <1>1, <2>7, <2>8, NewRowsOfAccounts
<1>7. CASE People!LiteLLMKeyGenerate(r, c)
  <2>1. PICK k \in People!Fresh(key), t \in People!Maybe(People!Live(team)), u \in People!Maybe(People!Live(user)),
             expires \in BOOLEAN :
          People!Begin(r, <<People!Stmt("CreateAPIKey", k, People!NewKey(t, u, expires))>>)
    BY <1>7 DEF People!LiteLLMKeyGenerate
  <2> QED  BY <1>1, <1>2, <1>3, <2>1, NewKeysAreRows
<1> QED  BY <1>4, <1>5, <1>6, <1>7

(* So do those of teams and organizations.                                 *)
LEMMA OrgHandlersAreTyped ==
  ASSUME AccountsTyped, SpendInv', NEW r \in Admins, NEW c \in People!Callers,
         \/ People!CreateTeam(r, c) \/ People!DeleteTeam(r, c) \/ People!LiteLLMTeamNew(r, c)
         \/ People!CreateOrganization(r, c) \/ People!UpdateOrganization(r, c)
         \/ People!DeleteOrganization(r, c)
  PROVE  AccountsTyped'
<1>1. ASSUME NEW s, StatementOK(s), People!Begin(r, <<s>>)
      PROVE  AccountsTyped'
  BY <1>1, WholeStatements, BeginsAreTyped
<1>2. ASSUME NEW o \in People!Maybe(Orgs), NEW t, People!Begin(r, <<People!Stmt("CreateTeam", t, [org |-> o])>>)
      PROVE  AccountsTyped'
  <2>1. [org |-> o] \in People!TeamRows
    BY DEF People!TeamRows
  <2> QED  BY <1>1, <1>2, <2>1, NewRowsOfAccounts
<1>3. \A o \in People!Maybe(People!Live(orgs)) : o \in People!Maybe(Orgs)
  BY LiveRows DEF People!Maybe, AccountsTyped
<1>4. People!OrgOf(c) \in People!Maybe(Orgs)
  BY CallersHaveHomes DEF AccountsTyped
<1>5. CASE People!CreateTeam(r, c)
  <2>1. PICK t, home : /\ home \in People!Maybe(People!Live(orgs)) \cup {People!OrgOf(c)}
                       /\ People!Begin(r, <<People!Stmt("CreateTeam", t, [org |-> home])>>)
    BY <1>5 DEF People!CreateTeam
  <2> QED  BY <1>2, <1>3, <1>4, <2>1
<1>6. CASE People!LiteLLMTeamNew(r, c)
  <2>1. PICK t, home : /\ home \in People!Maybe(People!Live(orgs)) \cup {People!OrgOf(c)}
                       /\ People!Begin(r, <<People!Stmt("CreateTeam", t, [org |-> home])>>)
    BY <1>6 DEF People!LiteLLMTeamNew
  <2> QED  BY <1>2, <1>3, <1>4, <2>1
<1>7. CASE People!DeleteTeam(r, c)
  <2>1. PICK t : People!Begin(r, <<People!Stmt("DeactivateTeamKeys", t, None),
                                   People!Stmt("DeleteTeam", t, None)>>)
    BY <1>7 DEF People!DeleteTeam
  <2>2. StatementOK(People!Stmt("DeactivateTeamKeys", t, None)) /\ StatementOK(People!Stmt("DeleteTeam", t, None))
    BY PlainStatements
  <2>3. Whole(<<People!Stmt("DeactivateTeamKeys", t, None), People!Stmt("DeleteTeam", t, None)>>)
    BY <2>2, WholeStatements
  <2> QED  BY <2>1, <2>3, BeginsAreTyped
<1>8. CASE People!CreateOrganization(r, c)
  <2>1. PICK o \in People!Fresh(orgs), n \in Names : People!Begin(r, <<People!Stmt("CreateOrganization", o,
                                                            [name |-> n, active |-> TRUE])>>)
    BY <1>8 DEF People!CreateOrganization
  <2>2. [name |-> n, active |-> TRUE] \in People!OrgRows
    BY DEF People!OrgRows
  <2> QED  BY <1>1, <2>1, <2>2, NewRowsOfAccounts
<1>9. CASE People!UpdateOrganization(r, c)
  <2>1. PICK o \in People!Live(orgs), a \in BOOLEAN :
          People!Begin(r, <<People!Stmt("UpdateOrganization", o, [orgs[o] EXCEPT !.active = a])>>)
    BY <1>9 DEF People!UpdateOrganization
  <2>2. orgs[o] \in People!OrgRows
    BY LiveRows DEF AccountsTyped
  <2>3. [orgs[o] EXCEPT !.active = a] \in People!OrgRows
    BY <2>2 DEF People!OrgRows
  <2> QED  BY <1>1, <2>1, <2>3, NewRowsOfAccounts
<1>10. CASE People!DeleteOrganization(r, c)
  BY <1>1, <1>10, PlainStatements DEF People!DeleteOrganization
<1> QED  BY <1>5, <1>6, <1>7, <1>8, <1>9, <1>10

(* So do those of users.                                                   *)
LEMMA UserHandlersAreTyped ==
  ASSUME AccountsTyped, SpendInv', NEW r \in Admins, NEW c \in People!Callers,
         \/ People!CreateUser(r, c) \/ People!UpdateUser(r, c) \/ People!DeleteUser(r, c)
         \/ People!LiteLLMUserNew(r, c)
  PROVE  AccountsTyped'
<1>1. ASSUME NEW s, StatementOK(s), People!Begin(r, <<s>>)
      PROVE  AccountsTyped'
  BY <1>1, WholeStatements, BeginsAreTyped
<1>2. \A o \in People!Maybe(People!Live(orgs)) : o \in People!Maybe(Orgs)
  BY LiveRows DEF People!Maybe, AccountsTyped
<1>3. \A t \in People!Maybe(People!Live(team)) : t \in People!Maybe(Teams)
  BY LiveRows DEF People!Maybe, AccountsTyped
<1>4. People!OrgOf(c) \in People!Maybe(Orgs) /\ Granted \subseteq People!Roles
  BY CallersHaveHomes, AccountsAssumption DEF AccountsTyped, People!ConstantsOK
<1>5. ASSUME NEW u, NEW e \in Emails, NEW role \in People!Roles, NEW t \in People!Maybe(Teams),
             NEW o \in People!Maybe(Orgs), NEW a \in BOOLEAN,
             People!Begin(r, <<People!Stmt("CreateUser", u, [email |-> e, role |-> role, team |-> t,
                                                             org |-> o, active |-> a])>>)
      PROVE  AccountsTyped'
  <2>1. [email |-> e, role |-> role, team |-> t, org |-> o, active |-> a] \in People!UserRows
    BY DEF People!UserRows
  <2> QED  BY <1>1, <1>5, <2>1, NewRowsOfAccounts
<1>6. CASE People!CreateUser(r, c)
  <2>1. PICK u \in People!Fresh(user), e \in Emails, role \in Granted, t \in People!Maybe(People!Live(team)),
             home \in People!Maybe(People!Live(orgs)) \cup {People!OrgOf(c)} :
          People!Begin(r, <<People!Stmt("CreateUser", u, [email |-> e, role |-> role, team |-> t,
                                                          org |-> home, active |-> TRUE])>>)
    BY <1>6 DEF People!CreateUser
  <2>2. role \in People!Roles /\ t \in People!Maybe(Teams) /\ home \in People!Maybe(Orgs) /\ TRUE \in BOOLEAN
    BY <1>2, <1>3, <1>4
  <2> QED  BY <1>5, <2>1, <2>2
<1>7. CASE People!LiteLLMUserNew(r, c)
  <2>1. PICK u \in People!Fresh(user), e \in Emails, role \in Granted, t \in People!Maybe(People!Live(team)) :
          People!Begin(r, <<People!Stmt("CreateUser", u, [email |-> e, role |-> role, team |-> t,
                                                          org |-> People!OrgOf(c), active |-> FALSE])>>)
    BY <1>7 DEF People!LiteLLMUserNew
  <2>2. role \in People!Roles /\ t \in People!Maybe(Teams) /\ FALSE \in BOOLEAN
    BY <1>3, <1>4
  <2> QED  BY <1>4, <1>5, <2>1, <2>2
<1>8. CASE People!UpdateUser(r, c)
  <2>1. PICK u \in People!Live(user), e \in People!Maybe(Emails), role \in People!Maybe(Granted),
             t \in People!Maybe(People!Live(team)), a \in People!Maybe(BOOLEAN) :
          People!Begin(r, <<People!Stmt("UpdateUser", u,
                              [user[u] EXCEPT !.email = People!Given(e, @), !.role = People!Given(role, @),
                                              !.team = People!Given(t, @), !.active = People!Given(a, @)])>>)
    BY <1>8 DEF People!UpdateUser
  <2>2. user[u] \in People!UserRows
    BY LiveRows DEF AccountsTyped
  <2>3. /\ user[u].email \in Emails /\ user[u].role \in People!Roles
        /\ user[u].team \in People!Maybe(Teams) /\ user[u].active \in BOOLEAN
    BY <2>2 DEF People!UserRows
  <2>4. PICK newE, newR, newT, newA :
          /\ newE = People!Given(e, user[u].email) /\ newR = People!Given(role, user[u].role)
          /\ newT = People!Given(t, user[u].team) /\ newA = People!Given(a, user[u].active)
    OBVIOUS
  <2>5. newE \in Emails /\ newA \in BOOLEAN
    BY <2>3, <2>4, GivenIsTyped
  <2>6. newR \in People!Roles /\ newT \in People!Maybe(Teams)
    BY <1>3, <1>4, <2>3, <2>4 DEF People!Given, People!Maybe
  <2>7. PICK row : row = [user[u] EXCEPT !.email = newE, !.role = newR, !.team = newT, !.active = newA]
    OBVIOUS
  <2>8. row \in People!UserRows
    BY <2>2, <2>5, <2>6, <2>7, UserUpdatesAreRows
  <2>9. People!Begin(r, <<People!Stmt("UpdateUser", u, row)>>)
    BY <2>1, <2>4, <2>7
  <2> QED  BY <1>1, <2>8, <2>9, NewRowsOfAccounts
<1>9. CASE People!DeleteUser(r, c)
  <2>1. PICK u \in People!Live(user) :
          People!Begin(r, <<People!Stmt("DeactivateUserKeys", u, None), People!Stmt("DeleteUser", u, None)>>)
    BY <1>9 DEF People!DeleteUser, People!DeletionOf
  <2>2. StatementOK(People!Stmt("DeactivateUserKeys", u, None)) /\ StatementOK(People!Stmt("DeleteUser", u, None))
    BY PlainStatements DEF StatementOK, People!Stmt
  <2>3. Whole(<<People!Stmt("DeactivateUserKeys", u, None), People!Stmt("DeleteUser", u, None)>>)
    BY <2>2, WholeStatements
  <2> QED  BY <2>1, <2>3, BeginsAreTyped
<1> QED  BY <1>6, <1>7, <1>8, <1>9

(* So do logins and registrations.                                         *)
LEMMA NewcomersAreTyped ==
  ASSUME AccountsTyped, SpendInv', NEW r \in Admins, People!LoginUser(r) \/ People!RegisterUser(r)
  PROVE  AccountsTyped'
<1>1. CASE People!LoginUser(r)
  <2>1. PICK u \in People!Live(user), k \in People!Fresh(key) :
          People!Begin(r, <<People!Stmt("CreateAPIKey", k, People!NewKey(None, u, TRUE))>>)
    BY <1>1 DEF People!LoginUser
  <2>2. u \in People!Maybe(Users) /\ None \in People!Maybe(Teams) /\ TRUE \in BOOLEAN
    BY LiveRows DEF AccountsTyped, People!Maybe
  <2>3. StatementOK(People!Stmt("CreateAPIKey", k, People!NewKey(None, u, TRUE)))
    BY <2>2, NewKeysAreRows
  <2> QED  BY <2>1, <2>3, WholeStatements, BeginsAreTyped
<1>2. CASE People!RegisterUser(r)
  <2>1. PICK e \in Emails, o \in People!Fresh(orgs), t \in People!Fresh(team), u \in People!Fresh(user),
             k \in People!Fresh(key) :
          People!Begin(r, << People!Stmt("CreateOrganization", o, [name |-> Workspace[e], active |-> TRUE]),
                             People!Stmt("CreateTeam", t, [org |-> o]),
                             People!Stmt("CreateUser", u, [email |-> e, role |-> "org_admin", team |-> t,
                                                           org |-> o, active |-> TRUE]),
                             People!Stmt("CreateAPIKey", k, People!NewKey(t, u, TRUE)) >>)
    BY <1>2 DEF People!RegisterUser
  <2>2. o \in People!Maybe(Orgs) /\ t \in People!Maybe(Teams) /\ u \in People!Maybe(Users)
    BY DEF People!Fresh, AccountsTyped, People!TypeOK, People!Maybe
  <2>3. Workspace[e] \in Names
    BY AccountsAssumption DEF People!ConstantsOK
  <2>4. [name |-> Workspace[e], active |-> TRUE] \in People!OrgRows /\ [org |-> o] \in People!TeamRows
    BY <2>2, <2>3 DEF People!OrgRows, People!TeamRows
  <2>5. "org_admin" \in People!Roles
    BY DEF People!Roles, People!RoleLevel
  <2>6. [email |-> e, role |-> "org_admin", team |-> t, org |-> o, active |-> TRUE] \in People!UserRows
    BY <2>2, <2>5 DEF People!UserRows
  <2>7. StatementOK(People!Stmt("CreateAPIKey", k, People!NewKey(t, u, TRUE)))
    BY <2>2, NewKeysAreRows
  <2> QED  BY <2>1, <2>4, <2>6, <2>7, NewRowsOfAccounts, WholeStatements, BeginsAreTyped
<1> QED  BY <1>1, <1>2

(* A charge keeps the types.                                               *)
LEMMA ChargesAreTyped ==
  ASSUME AccountsTyped, People!UpdateKeySpend
  PROVE  AccountsTyped'
<1>1. PICK k \in People!Live(key) : key[k].spend < MaxSpend /\ key' = [key EXCEPT ![k].spend = @ + 1]
  BY DEF People!UpdateKeySpend
<1>2. key[k] \in People!KeyRows /\ key[k].spend \in 0..MaxSpend /\ MaxSpend \in Nat
  BY LiveRows, AccountsAssumption DEF AccountsTyped, People!KeyRows, People!ConstantsOK
<1>3. PICK n : n = key[k].spend + 1
  OBVIOUS
<1>4. n \in 0..MaxSpend
  BY <1>1, <1>2, <1>3
<1>5. PICK row : row = [key[k] EXCEPT !.spend = n]
  OBVIOUS
<1>6. row \in People!KeyRows
  BY <1>2, <1>4, <1>5 DEF People!KeyRows
<1>7. key' = [key EXCEPT ![k] = row]
  BY <1>1, <1>3, <1>5
<1>8. key' \in [Keys -> People!KeyRows \cup {None, Gone}]
  BY <1>6, <1>7 DEF AccountsTyped, People!TypeOK
<1>9. UNCHANGED <<orgs, team, user, call>>
  BY DEF People!UpdateKeySpend
<1>10. RequestsOK'
  <2>1. ASSUME NEW q \in Admins, NEW m \in DOMAIN call[q]
        PROVE  StatementOK(call[q][m])'
    <3>1. PICK s : s = call[q][m]
      OBVIOUS
    <3>2. StatementOK(s)'
      BY <1>9, <2>1, <3>1, StatementsStayTyped DEF AccountsTyped, RequestsOK, People!Live
    <3> QED  BY <1>9, <3>1, <3>2
  <2> QED  BY <1>9, <2>1 DEF AccountsTyped, RequestsOK
<1> QED  BY <1>8, <1>9, <1>10, ChargeSteps, UnissuedIsTyped DEF AccountsTyped

(* Every step keeps the types of the accounts.                             *)
LEMMA AccountsStepsAreTyped ==
  ASSUME AccountsTyped, [People!Next]_(People!vars)
  PROVE  AccountsTyped'
<1>1. SpendInv'
  BY SpendInvSteps DEF AccountsTyped
<1>2. ASSUME NEW r \in Admins, People!Handler(r)
      PROVE  AccountsTyped'
  BY <1>1, <1>2, KeyHandlersAreTyped, OrgHandlersAreTyped, UserHandlersAreTyped, NewcomersAreTyped
  DEF People!Handler
<1>3. CASE UNCHANGED People!vars
  <2>1. ASSUME NEW q \in Admins, NEW n \in DOMAIN call[q]
        PROVE  StatementOK(call[q][n])'
    <3>1. PICK s : s = call[q][n]
      OBVIOUS
    <3>2. StatementOK(s)'
      BY <1>3, <2>1, <3>1, StatementsStayTyped DEF AccountsTyped, RequestsOK, People!Live, People!vars
    <3> QED  BY <1>3, <3>1, <3>2 DEF People!vars
  <2>2. RequestsOK'
    BY <1>3, <2>1 DEF AccountsTyped, RequestsOK, People!vars
  <2> QED  BY <1>1, <1>3, <2>2, UnissuedIsTyped DEF People!vars, AccountsTyped, People!TypeOK
<1> QED  BY <1>2, <1>3, StoresAreTyped, FailuresAreTyped, ChargesAreTyped DEF People!Next

----------------------------------------------------------------------------
(* One request at a time.                                                  *)

(* What a handler begins with deletes a user only after the user's keys.   *)
KeysFirst(stmts) ==
  \A n \in DOMAIN stmts :
    stmts[n].op = "DeleteUser" => /\ n = 2 /\ stmts[1].op = "DeactivateUserKeys"
                                  /\ stmts[1].id = stmts[2].id

(* A single statement deletes no user.                                     *)
LEMMA OneIsNoDeletion ==
  ASSUME NEW op, NEW id, NEW row, op # "DeleteUser"
  PROVE  KeysFirst(<<People!Stmt(op, id, row)>>)
BY DEF KeysFirst, People!Stmt

(* Every handler begins with statements that delete a user last.           *)
LEMMA HandlersDeleteKeysFirst ==
  ASSUME NEW r \in Admins, People!Handler(r)
  PROVE  \E stmts : KeysFirst(stmts) /\ People!Begin(r, stmts)
<1>1. CASE People!LoginUser(r)
  BY <1>1, OneIsNoDeletion DEF People!LoginUser
<1>2. CASE People!RegisterUser(r)
  <2>1. ASSUME NEW o, NEW t, NEW u, NEW k, NEW rowO, NEW rowT, NEW rowU, NEW rowK
        PROVE  KeysFirst(<<People!Stmt("CreateOrganization", o, rowO), People!Stmt("CreateTeam", t, rowT),
                           People!Stmt("CreateUser", u, rowU), People!Stmt("CreateAPIKey", k, rowK)>>)
    BY DEF KeysFirst, People!Stmt
  <2> QED  BY <1>2, <2>1 DEF People!RegisterUser
<1>3. ASSUME NEW c, People!CreateAPIKey(r, c) \/ People!DeleteAPIKey(r, c) \/ People!UpdateAPIKeyHandler(r, c)
                    \/ People!LiteLLMKeyGenerate(r, c) \/ People!LiteLLMKeyDelete(r, c)
      PROVE  \E stmts : KeysFirst(stmts) /\ People!Begin(r, stmts)
  BY <1>3, OneIsNoDeletion
  DEF People!CreateAPIKey, People!DeleteAPIKey, People!UpdateAPIKeyHandler, People!LiteLLMKeyGenerate,
      People!LiteLLMKeyDelete
<1>4. ASSUME NEW c, People!CreateTeam(r, c) \/ People!LiteLLMTeamNew(r, c) \/ People!CreateUser(r, c)
                    \/ People!UpdateUser(r, c) \/ People!LiteLLMUserNew(r, c)
      PROVE  \E stmts : KeysFirst(stmts) /\ People!Begin(r, stmts)
  BY <1>4, OneIsNoDeletion
  DEF People!CreateTeam, People!LiteLLMTeamNew, People!CreateUser, People!UpdateUser, People!LiteLLMUserNew
<1>5. ASSUME NEW c, People!CreateOrganization(r, c) \/ People!UpdateOrganization(r, c)
                    \/ People!DeleteOrganization(r, c)
      PROVE  \E stmts : KeysFirst(stmts) /\ People!Begin(r, stmts)
  BY <1>5, OneIsNoDeletion
  DEF People!CreateOrganization, People!UpdateOrganization, People!DeleteOrganization
<1>6. ASSUME NEW c, People!DeleteTeam(r, c) \/ People!DeleteUser(r, c)
      PROVE  \E stmts : KeysFirst(stmts) /\ People!Begin(r, stmts)
  <2>1. ASSUME NEW i
        PROVE  /\ KeysFirst(<<People!Stmt("DeactivateTeamKeys", i, None), People!Stmt("DeleteTeam", i, None)>>)
               /\ KeysFirst(<<People!Stmt("DeactivateUserKeys", i, None), People!Stmt("DeleteUser", i, None)>>)
    BY DEF KeysFirst, People!Stmt
  <2> QED  BY <1>6, <2>1 DEF People!DeleteTeam, People!DeleteUser, People!DeletionOf
<1> QED  BY <1>1, <1>2, <1>3, <1>4, <1>5, <1>6 DEF People!Handler

(* A lone handler begins with nothing else waiting.                        *)
LEMMA LoneHandlers ==
  ASSUME AccountsTyped, NEW r \in Admins, \A b \in Admins : call[b] = <<>>, People!Handler(r)
  PROVE  LoneRequests'
<1>1. PICK stmts : KeysFirst(stmts) /\ People!Begin(r, stmts)
  BY HandlersDeleteKeysFirst
<1>2. call'[r] = stmts /\ \A q \in Admins \ {r} : call'[q] = <<>>
  BY <1>1 DEF People!Begin, AccountsTyped, SpendInv, AccountsShape
<1>3. DOMAIN <<>> = {}
  OBVIOUS
<1>4. \A q \in Admins : \A n \in DOMAIN call'[q] : q = r
  BY <1>2, <1>3
<1> QED  BY <1>1, <1>2, <1>4 DEF LoneRequests, KeysFirst

(* A lone statement that is stored leaves the rest of its request in       *)
(* order.                                                                  *)
LEMMA LoneStores ==
  ASSUME AccountsTyped, LoneRequests, NEW r \in Admins, People!Store(r)
  PROVE  LoneRequests'
<1>1. /\ call[r] # <<>> /\ People!Issue(call[r][1]) /\ 1 \in DOMAIN call[r]
      /\ \A n \in DOMAIN call'[r] : n + 1 \in DOMAIN call[r] /\ call'[r][n] = call[r][n + 1] /\ n + 1 # 1
      /\ \A q \in Admins \ {r} : call'[q] = call[q]
  BY Shortened DEF People!Store, AccountsTyped
<1>2. \A q \in Admins \ {r} : call[q] = <<>> /\ call'[q] = <<>>
  BY <1>1 DEF LoneRequests
<1>3. DOMAIN <<>> = {}
  OBVIOUS
<1>4. ASSUME NEW n \in DOMAIN call'[r], call'[r][n].op = "DeleteUser"
      PROVE  /\ n = 1
             /\ \A k \in People!Live(key)' : key'[k].user = call'[r][1].id => ~key'[k].active
  <2>1. n \in Int
    <3>1. IsSequence(call'[r])
      BY StoreSteps DEF AccountsTyped, SpendInv, AccountsShape
    <3> QED  BY <3>1 DEF IsSequence
  <2>2. n + 1 = 2 /\ call[r][1].op = "DeactivateUserKeys" /\ call[r][1].id = call[r][2].id
    BY <1>1, <1>4 DEF LoneRequests
  <2>3. n = 1 /\ call'[r][1].id = call[r][1].id
    BY <1>1, <2>1, <2>2
  <2>4. key' = [k \in Keys |-> IF k \in People!Live(key) /\ key[k].user = call[r][1].id
                               THEN [key[k] EXCEPT !.active = FALSE] ELSE key[k]]
    BY <1>1, <2>2
    DEF People!Issue, People!StoreOrg, People!StoreTeam, People!StoreUser, People!InsertKey,
        People!UpdateAPIKey, People!DeactivateUserKeys, People!DeactivateTeamKeys, People!DeleteUserRow,
        People!DeleteTeamRow, People!DeleteOrgRow, People!DeleteKeyRow
  <2>5. ASSUME NEW k \in People!Live(key)', key'[k].user = call[r][1].id
        PROVE  ~key'[k].active
    <3>1. k \in Keys /\ key'[k] \notin {None, Gone}
      BY <2>4, <2>5 DEF People!Live
    <3>2. CASE k \in People!Live(key) /\ key[k].user = call[r][1].id
      <4>1. key[k] \in People!KeyRows
        BY <3>2, LiveRows DEF AccountsTyped
      <4>2. key'[k] = [key[k] EXCEPT !.active = FALSE]
        BY <2>4, <3>1, <3>2
      <4> QED  BY <4>1, <4>2 DEF People!KeyRows
    <3>3. CASE ~(k \in People!Live(key) /\ key[k].user = call[r][1].id)
      <4>1. key'[k] = key[k]
        BY <2>4, <3>1, <3>3
      <4> QED  BY <2>5, <3>1, <3>3, <4>1 DEF People!Live, AccountsTyped, People!TypeOK
    <3> QED  BY <3>2, <3>3
  <2> QED  BY <2>3, <2>5
<1> QED  BY <1>2, <1>3, <1>4 DEF LoneRequests

(* A charge turns no key on.                                               *)
LEMMA LoneCharges ==
  ASSUME AccountsTyped, LoneRequests, People!UpdateKeySpend
  PROVE  LoneRequests'
<1>1. PICK k \in People!Live(key) : key' = [key EXCEPT ![k].spend = @ + 1]
  BY DEF People!UpdateKeySpend
<1>2. PICK n : n = key[k].spend + 1
  OBVIOUS
<1>3. PICK row : row = [key[k] EXCEPT !.spend = n]
  OBVIOUS
<1>4. key[k] \in People!KeyRows /\ k \in Keys /\ key' = [key EXCEPT ![k] = row]
  BY <1>1, <1>2, <1>3, LiveRows DEF AccountsTyped
<1>5. row.user = key[k].user /\ row.active = key[k].active
  BY <1>3, <1>4 DEF People!KeyRows
<1>6. \A j \in People!Live(key)' : /\ j \in People!Live(key) /\ key'[j].user = key[j].user
                                   /\ key'[j].active = key[j].active
  BY <1>4, <1>5 DEF People!Live, AccountsTyped, People!TypeOK
<1>7. UNCHANGED call
  BY DEF People!UpdateKeySpend
<1> QED  BY <1>6, <1>7 DEF LoneRequests

(* Every step of a lone request keeps it so.                               *)
LEMMA LoneRequestsGoOn ==
  ASSUME AccountsTyped, LoneRequests, LonePeople
  PROVE  LoneRequests'
BY LoneHandlers, LoneStores, LoneCharges DEF LonePeople

(* When the deletion of a user ends, the keys are off already.             *)
LEMMA DeletionsRevoke ==
  ASSUME AccountsTyped, LoneRequests, LonePeople, NEW u
  PROVE  People!RevokesAll(u)
<1> SUFFICES ASSUME NEW r \in Admins, call[r] # <<>>, Head(call[r]) = People!Stmt("DeleteUser", u, None),
                    user' # user, NEW k \in Keys, key'[k] \notin {None, Gone}, key'[k].user = u
             PROVE  ~key'[k].active
  BY DEF People!RevokesAll
<1>1. ASSUME NEW a \in Admins, NEW stmts, People!Begin(a, stmts)
      PROVE  UNCHANGED user
  BY <1>1 DEF People!Begin, People!tables
<1>2. PICK a \in Admins : People!Store(a)
  BY <1>1, HandlersDeleteKeysFirst DEF LonePeople, People!UpdateKeySpend
<1>3. a = r
  BY <1>2 DEF People!Store, LoneRequests
<1>4. People!Issue(call[r][1]) /\ call[r][1] = People!Stmt("DeleteUser", u, None) /\ 1 \in DOMAIN call[r]
  BY <1>2, <1>3, Shortened DEF People!Store, AccountsTyped
<1>5. call[r][1].op = "DeleteUser" /\ call[r][1].id = u
  BY <1>4 DEF People!Stmt
<1>6. UNCHANGED key
  BY <1>4, <1>5
  DEF People!Issue, People!StoreOrg, People!StoreTeam, People!StoreUser, People!InsertKey,
      People!UpdateAPIKey, People!DeactivateUserKeys, People!DeactivateTeamKeys, People!DeleteUserRow,
      People!DeleteTeamRow, People!DeleteOrgRow, People!DeleteKeyRow
<1>7. k \in People!Live(key)
  BY <1>6 DEF People!Live, AccountsTyped, People!TypeOK
<1> QED  BY <1>4, <1>5, <1>6, <1>7 DEF LoneRequests

(* What a caller is listed the totals count.  It needs no invariant: the   *)
(* five ways to the scope of a caller agree on any tables.                 *)
LEMMA ListingsAreCounted == People!ListedKeysAreCounted
<1> SUFFICES ASSUME NEW c \in People!Callers, NEW first \in [Teams -> Keys], People!HasRole(c, "viewer")
             PROVE  /\ People!ListAPIKeys(c, first) \subseteq People!Counted(c)
                    /\ ~People!HasRole(c, "org_admin") =>
                         \A k \in People!ListAPIKeys(c, first) : People!CanSeeKey(c, k)
  BY DEF People!ListedKeysAreCounted
<1>1. CASE ~People!HasRole(c, "org_admin")
  <2>1. People!UserOf(c) # None
    BY <1>1 DEF People!HasRole
  <2> QED
    BY <1>1, <2>1
    DEF People!ListAPIKeys, People!Counted, People!KeysOfUser, People!CanSeeKey, People!Owns
<1>2. CASE People!HasRole(c, "org_admin") /\ People!IsSuperAdmin(c)
  BY <1>2 DEF People!ListAPIKeys, People!Counted
<1>3. CASE People!HasRole(c, "org_admin") /\ ~People!IsSuperAdmin(c)
  BY <1>3 DEF People!ListAPIKeys, People!Counted, People!KeysOfOrg, People!OrgOfKey
<1> QED  BY <1>1, <1>2, <1>3

----------------------------------------------------------------------------
(* The three together.                                                     *)

AdministrationInv ==
  /\ Typed /\ BookTyped /\ DiscountInv /\ AccountsTyped
  /\ part = "routes" /\ alone => FollowInv
  /\ part = "people" /\ alone => LoneRequests
  /\ part \in Halves /\ alone => LoneBook

LonePrices ==
  \/ \E r \in Admins : /\ Others(r)
                       /\ Prices!Handler(r)
  \/ Prices!CountersignDiscount
  \/ Prices!Start

(* Every step of a lone price handler keeps the maps following.            *)
LEMMA LonePricesGoOn ==
  ASSUME BookTyped, LoneBook, LonePrices
  PROVE  LoneBook'
BY LoneUpsertSteps, LoneInsertSteps, LoneWriteSteps, LoneReloadSteps, LoneCountersigning, LoneRestarts,
   LoneSeedings
DEF LonePrices, Prices!Handler, Prices!PriceHandler, Prices!DiscountHandler, Prices!Start

(* A step of a part is a step of its module, and the others stand still.   *)
LEMMA PartsStep ==
  ASSUME [MCNext]_MCVars
  PROVE  /\ UNCHANGED <<part, alone>>
         /\ [Next]_vars /\ [Prices!Next]_(Prices!vars) /\ [People!Next]_(People!vars)
         /\ alone => [LoneNext]_vars /\ (LonePeople \/ UNCHANGED People!vars)
                     /\ (LonePrices \/ UNCHANGED Prices!vars)
<1>1. CASE RouteStep
  <2>1. Next /\ (alone => LoneNext)
    BY <1>1 DEF RouteStep, LoneNext, Next, ReliableNext
  <2> QED  BY <1>1, <2>1 DEF RouteStep, peopleVars, priceVars, People!vars, Prices!vars
<1>2. CASE PeopleStep
  <2>1. People!Next /\ (alone => LonePeople)
    BY <1>2 DEF PeopleStep, LonePeople, People!Next
  <2> QED  BY <1>2, <2>1 DEF PeopleStep, priceVars, Prices!vars
<1>3. CASE PriceStep
  <2>1. Prices!Next /\ (alone => LonePrices)
    BY <1>3 DEF PriceStep, PriceOf, LonePrices, Others, Prices!Next, Prices!Handler
  <2> QED  BY <1>3, <2>1 DEF PriceStep, peopleVars, People!vars
<1>4. CASE UNCHANGED MCVars
  BY <1>4 DEF MCVars, peopleVars, priceVars, People!vars, Prices!vars
<1> QED  BY <1>1, <1>2, <1>3, <1>4 DEF MCNext, Rest

(* The tables of the small instance have their types.                      *)
LEMMA FurnishedIsTyped ==
  ASSUME Furnished
  PROVE  AccountsTyped
<1>1. [name |-> acme, active |-> TRUE] \in People!OrgRows /\ [org |-> o1] \in People!TeamRows
  BY FurnishedAssumption DEF People!OrgRows, People!TeamRows, People!Maybe
<1>2. [email |-> e1, role |-> "org_admin", team |-> t1, org |-> o1, active |-> TRUE] \in People!UserRows
  BY FurnishedAssumption DEF People!UserRows, People!Maybe, People!Roles, People!RoleLevel
<1>3. PICK row : row = [People!NewKey(t1, u1, FALSE) EXCEPT !.spend = 0]
  OBVIOUS
<1>4. row = [team |-> t1, user |-> u1, active |-> TRUE, expires |-> FALSE, spend |-> 0] /\ row.spend = 0
  BY <1>3 DEF People!NewKey
<1>5. 0 \in 0..MaxSpend
  BY AccountsAssumption DEF People!ConstantsOK
<1>6. row \in People!KeyRows /\ HasSpend(row)
  BY <1>4, <1>5, FurnishedAssumption DEF People!KeyRows, People!Maybe, HasSpend
<1>7. key = [k \in Keys |-> IF k = i1 THEN row ELSE None]
  BY <1>3 DEF Furnished
<1>8. IsSequence(<<>>) /\ DOMAIN <<>> = {} /\ Len(<<>>) <= 4
  BY DEF IsSequence
<1>9. \A r \in Admins : call[r] = <<>>
  BY DEF Furnished
<1>10. RequestsOK /\ RowsHaveSpends /\ InsertsAreNew /\ InsertsAreApart
  BY <1>8, <1>9 DEF RequestsOK, RowsHaveSpends, InsertsAreNew, InsertsAreApart
<1>11. AccountsShape
  BY <1>7, <1>8, <1>9 DEF Furnished, AccountsShape
<1>12. SpendsAreNumbers
  <2>1. \A k \in People!Live(key) : key[k] = row
    BY <1>7 DEF People!Live
  <2>2. row.spend \in Nat
    BY <1>4
  <2>3. ASSUME NEW k \in People!Live(key)
        PROVE  HasSpend(key[k]) /\ key[k].spend \in Nat
    BY <1>6, <2>1, <2>2
  <2> QED  BY <2>3 DEF SpendsAreNumbers
<1>13. People!TypeOK
  BY <1>1, <1>2, <1>6, <1>7, <1>8, <1>9 DEF Furnished, People!TypeOK
<1> QED  BY <1>10, <1>11, <1>12, <1>13 DEF AccountsTyped, SpendInv

(* The three invariants hold at first.                                     *)
LEMMA AdministrationBegins ==
  ASSUME MCInit
  PROVE  AdministrationInv
<1>1. Typed /\ FollowInv
  BY InitIsTyped DEF MCInit, FollowInv, OneAtATime
<1>2. BookTyped /\ DiscountInv
  BY BookBegins, InitIsBacked DEF MCInit
<1>3. AccountsTyped /\ \A r \in Admins : call[r] = <<>>
  <2>1. CASE People!Init
    <3>1. Len(<<>>) <= 4 /\ DOMAIN <<>> = {}
      OBVIOUS
    <3>2. RequestsOK /\ People!TypeOK
      BY <2>1, <3>1 DEF People!Init, RequestsOK, People!TypeOK
    <3> QED  BY <2>1, <3>2, SpendInvInit DEF AccountsTyped, People!Init
  <2>2. CASE Furnished
    BY <2>2, FurnishedIsTyped DEF Furnished
  <2> QED  BY <2>1, <2>2 DEF MCInit
<1>4. LoneRequests
  <2>1. DOMAIN <<>> = {}
    OBVIOUS
  <2> QED  BY <1>3, <2>1 DEF LoneRequests
<1>5. LoneBook
  <2>1. \A r \in Admins : loading[r].at = "idle"
    BY DEF MCInit, Prices!Init, Prices!Idle
  <2>2. Prices!OneActivePrice
    BY DEF MCInit, Prices!Init, Prices!OneActivePrice, Prices!InForce, Prices!Nothing
  <2>3. \A which \in BookTables : Follows(which, engine[which])
    BY DEF MCInit, Prices!Init, Prices!Nothing, Prices!InForce, BookTables, Follows, OperatorFollows,
           CustomFollows, RevokedFollows
  <2> QED  BY <2>1, <2>2, <2>3 DEF LoneBook, OneBusy, SeenIsCurrent, EngineFollows, LoadsFollow
<1> QED  BY <1>1, <1>2, <1>3, <1>4, <1>5 DEF AdministrationInv

(* Every step of the three parts keeps them.                               *)
LEMMA AdministrationSteps ==
  ASSUME AdministrationInv, [MCNext]_MCVars
  PROVE  AdministrationInv'
<1>1. Typed' /\ BookTyped' /\ DiscountInv' /\ AccountsTyped'
  BY PartsStep, StepsAreTyped, BookStepsAreTyped, StepsAreBacked, AccountsStepsAreTyped DEF AdministrationInv
<1>2. part' = "routes" /\ alone' => FollowInv'
  BY PartsStep, FollowInvSteps DEF AdministrationInv
<1>3. part' = "people" /\ alone' => LoneRequests'
  <2>1. ASSUME part' = "people", alone'
        PROVE  LoneRequests /\ AccountsTyped /\ (LonePeople \/ UNCHANGED People!vars)
    BY <2>1, PartsStep DEF AdministrationInv
  <2>2. ASSUME LoneRequests, UNCHANGED People!vars
        PROVE  LoneRequests'
    BY <2>2 DEF People!vars, LoneRequests, People!Live
  <2> QED  BY <2>1, <2>2, LoneRequestsGoOn
<1>4. part' \in Halves /\ alone' => LoneBook'
  <2>1. ASSUME part' \in Halves, alone'
        PROVE  LoneBook /\ BookTyped /\ (LonePrices \/ UNCHANGED Prices!vars)
    BY <2>1, PartsStep DEF AdministrationInv, Halves
  <2>2. ASSUME LoneBook, UNCHANGED Prices!vars
        PROVE  LoneBook'
    BY <2>2 DEF Prices!vars, LoneBook, OneBusy, Prices!OneActivePrice, SeenIsCurrent, EngineFollows,
                LoadsFollow, Follows, OperatorFollows, CustomFollows, RevokedFollows, Prices!InForce,
                Prices!Verifies
  <2> QED  BY <2>1, <2>2, LonePricesGoOn
<1> QED  BY <1>1, <1>2, <1>3, <1>4 DEF AdministrationInv

(* They hold always.                                                       *)
LEMMA AdministrationHolds == MCSpec => []AdministrationInv
<1>1. MCInit => AdministrationInv
  BY AdministrationBegins
<1>2. AdministrationInv /\ [MCNext]_MCVars => AdministrationInv'
  BY AdministrationSteps
<1> QED  BY <1>1, <1>2, PTL DEF MCSpec

(* The tables, the copies in memory and what handlers are about to do keep *)
(* their types, whatever fails and whenever the server stops.              *)
THEOREM AdministrationIsTyped == MCSpec => []PartTypeOK
<1>1. AdministrationInv => PartTypeOK
  BY DEF AdministrationInv, PartTypeOK, Typed, BookTyped, AccountsTyped
<1> QED  BY <1>1, AdministrationHolds, PTL

(* What a lone administrator is promised: the routes, the prices and the   *)
(* discounts in memory are those of the tables whenever nobody is at work, *)
(* a revoked discount is not billed, one row per entry is in force, through*)
(* restarts and first starts that seed the catalog (triggerRouterReload,   *)
(* reloadOperatorCatalog, UpsertOperatorCatalogRow, autoSeedCatalog).  And *)
(* the two formulas of the engine agree on what any request costs.         *)
THEOREM LoneFollows == MCSpec => []LoneFollowsTables
<1>1. FollowInv => RouterFollowsTable
  BY DEF FollowInv, Follow, RouterFollowsTable, Idle, RoutedIds, Active
<1>2. ASSUME LoneBook
      PROVE  Prices!CachesFollowTables /\ Prices!RevokedIsNotBilled /\ Prices!OneActivePrice
  <2>1. ASSUME \A r \in Admins : Prices!IsIdle(r), NEW which \in BookTables
        PROVE  Follows(which, engine[which])
    BY <1>2, <2>1, IdleWorksOnNothing DEF LoneBook, EngineFollows, Prices!IsIdle
  <2>2. ASSUME \A r \in Admins : Prices!IsIdle(r)
        PROVE  OperatorFollows(engine.operator) /\ CustomFollows(engine.custom) /\ RevokedFollows(engine.discount)
    BY <2>1, <2>2 DEF BookTables, Follows
  <2>3. Prices!CachesFollowTables
    BY <2>2 DEF Prices!CachesFollowTables, OperatorFollows, CustomFollows
  <2>4. Prices!RevokedIsNotBilled
    BY <2>2 DEF Prices!RevokedIsNotBilled, RevokedFollows
  <2> QED  BY <1>2, <2>3, <2>4 DEF LoneBook
<1>3. AdministrationInv => LoneFollowsTables
  BY <1>1, <1>2, BaselineSavesNothing DEF AdministrationInv, LoneFollowsTables, BookTyped
<1> QED  BY <1>3, AdministrationHolds, PTL

(* A discount that the engine bills was countersigned by the operator,     *)
(* with the percentage that is billed, however the loads of concurrent     *)
(* handlers and of starts interleave with declarations and revocations     *)
(* (CalculateBaselineCost, LoadEffectiveDiscounts).                        *)
THEOREM BilledIsAttested == MCSpec => []BilledDiscountWasAttested
<1>1. AdministrationInv => BilledDiscountWasAttested
  BY DEF AdministrationInv, DiscountInv, Backed, BilledDiscountWasAttested, Prices!BilledDiscountWasAttested
<1> QED  BY <1>1, AdministrationHolds, PTL

(* What a caller is listed is in the totals that caller is shown, and can  *)
(* be opened by those below organization admin (ListAPIKeys, GetUsage,     *)
(* GetKeyUsage).                                                           *)
THEOREM ListingsAddUp == MCSpec => []ListedKeysAreCounted
<1>1. ListedKeysAreCounted
  BY ListingsAreCounted DEF ListedKeysAreCounted
<1> QED  BY <1>1, PTL

(* No step of any handler, late update or restart puts a row at an id that *)
(* was given out and is free: an insert takes an id that is not used, and  *)
(* an update only a row that is still there (UpdateDeployment,             *)
(* DeleteDeployment).                                                      *)
THEOREM DeletionsLast == MCSpec => DeletedStaysDeleted
<1>1. AdministrationInv /\ [MCNext]_MCVars => [\A i \in used : table[i] = Absent => table'[i] = Absent]_vars
  BY PartsStep, FreeIdsStayFree DEF AdministrationInv
<1> QED  BY <1>1, AdministrationHolds, PTL DEF MCSpec, DeletedStaysDeleted

(* No step sets the spend of a key back: neither the update that writes a  *)
(* row read before a charge, nor a statement that waited while others ran, *)
(* nor a crash between two of them (UpdateAPIKey, UpdateKeySpend).         *)
THEOREM NoSpendIsLost == MCSpec => SpendIsNeverLost
<1>1. AdministrationInv /\ [MCNext]_MCVars =>
        [\A k \in People!Live(key) : key'[k] # Gone => key'[k].spend >= key[k].spend]_(People!vars)
  BY PartsStep, StepsLoseNoSpend DEF AdministrationInv, AccountsTyped
<1> QED  BY <1>1, AdministrationHolds, PTL DEF MCSpec, SpendIsNeverLost, People!SpendIsNeverLost

(* When the deletion of a user by a lone administrator ends, none of the   *)
(* user's keys is active (DeleteUser, DeactivateUserKeys).                 *)
THEOREM DeletionRevokes == MCSpec => LoneDeletionRevokes
<1>1. AdministrationInv /\ [MCNext]_MCVars =>
        [part = "people" /\ alone => \A u \in People!Live(user) : People!RevokesAll(u)]_MCVars
  <2> SUFFICES ASSUME AdministrationInv, [MCNext]_MCVars, part = "people", alone, NEW u
               PROVE  People!RevokesAll(u)
    OBVIOUS
  <2>1. AccountsTyped /\ LoneRequests
    BY DEF AdministrationInv
  <2>2. CASE LonePeople
    BY <2>1, <2>2, DeletionsRevoke
  <2>3. CASE UNCHANGED People!vars
    BY <2>3 DEF People!vars, People!RevokesAll
  <2> QED  BY <2>2, <2>3, PartsStep
<1> QED  BY <1>1, AdministrationHolds, PTL DEF MCSpec, LoneDeletionRevokes

=============================================================================
