-------------------------- MODULE DeploymentCatalog --------------------------
(***************************************************************************)
(* The deployments of one model alias: the table in Postgres, the admin    *)
(* handlers that change it (handlers/deployments.go), and the router's     *)
(* in-memory copy, which every handler reloads after its write             *)
(* (handlers/settings.go) and a starting server loads (server.go).  The    *)
(* alias is the only one, and config.yaml lists one deployment for it.     *)
(*                                                                         *)
(* Every database statement is one step; handlers interleave between       *)
(* their statements.  A handler may fail at any statement and the server   *)
(* may restart at any time.                                                *)
(***************************************************************************)
EXTENDS Naturals, FiniteSets

CONSTANTS Ids,           \* the ids the table can give to a row: bounds creations
          Owners,        \* organizations, and the nil org of global rows
          Strategies,    \* routing strategies
          Admins         \* the admin requests that may be in progress at once

CONSTANTS Absent,        \* no row
          Unspecified,   \* the empty routing strategy
          Global,        \* the nil org
          Default,       \* the strategy of a row that is created without one
          Config         \* the deployment of config.yaml

ASSUME StrategiesAssumption == Unspecified \notin Strategies /\ Default \in Strategies
ASSUME OwnersAssumption == Global \in Owners /\ Config \notin Ids
ASSUME AbsentAssumption ==
  Absent \notin [owner : Owners, strategy : Strategies \cup {Unspecified}]

VARIABLES table,         \* the deployments table: the row of each id, or Absent
          used,          \* the ids given out so far
          routes,        \* the router's copy: the route of each target, or Absent
          setting,       \* the global strategy stored by the settings handler
          routerStrategy,\* the global strategy the router uses
          pc,            \* where each handler is
          local          \* what it has read, or is about to write or install

vars == <<table, used, routes, setting, routerStrategy, pc, local>>

Rows    == [owner : Owners, strategy : Strategies, active : BOOLEAN]
Routes  == [owner : Owners, strategy : Strategies \cup {Unspecified}]
Targets == Ids \cup {Config}

TypeOK ==
  /\ table \in [Ids -> Rows \cup {Absent}]
  /\ used \subseteq Ids
  /\ routes \in [Targets -> Routes \cup {Absent}]
  /\ setting \in Strategies /\ routerStrategy \in Strategies
  /\ pc \in [Admins -> {"idle", "insert", "update", "fetch", "install"}]

PresentIn(rows) == {i \in Ids : rows[i] # Absent}
ActiveIn(rows)  == {i \in PresentIn(rows) : rows[i].active}
Present == PresentIn(table)
Active  == ActiveIn(table)

(* Routes for the active rows and no others, each with some strategy. *)
RoutesOf(rows, StrategyOf(_)) ==
  [i \in Targets |-> IF i \in ActiveIn(rows)
                     THEN [owner |-> rows[i].owner, strategy |-> StrategyOf(i)]
                     ELSE Absent]

Row(owner, strategy) == [owner |-> owner, strategy |-> strategy, active |-> TRUE]

(* The routes of a starting server: the router is built with the targets   *)
(* of config.yaml, and loads the table unless no row is active.            *)
StartRoutes(rows) ==
  IF ActiveIn(rows) = {}
  THEN [i \in Targets |-> IF i = Config THEN [owner |-> Global, strategy |-> Unspecified]
                                        ELSE Absent]
  ELSE RoutesOf(rows, LAMBDA i : rows[i].strategy)

Start(rows) ==
  /\ table' = rows
  /\ routes' = StartRoutes(rows)
  /\ pc' = [a \in Admins |-> "idle"]
  /\ local' = [a \in Admins |-> Absent]
  /\ UNCHANGED <<setting, routerStrategy>>

(* The state after the first start, which has seeded the table. *)
Init ==
  /\ \E i \in Ids :
       /\ table = [j \in Ids |-> IF j = i THEN Row(Global, Default) ELSE Absent]
       /\ used = {i}
  /\ routes = StartRoutes(table)
  /\ setting \in Strategies
  /\ routerStrategy = setting
  /\ pc = [a \in Admins |-> "idle"]
  /\ local = [a \in Admins |-> Absent]

Goto(a, to, what) ==
  /\ pc' = [pc EXCEPT ![a] = to]
  /\ local' = [local EXCEPT ![a] = what]

----------------------------------------------------------------------------
(* CreateDeploymentHandler: list the table, refuse a strategy that differs *)
(* from a row's of the same owner, insert.                                 *)

Create(a) ==
  /\ pc[a] = "idle"
  /\ Ids # used
  /\ \E owner \in Owners, strategy \in Strategies :
       /\ \A i \in Present : table[i].owner = owner => table[i].strategy = strategy
       /\ Goto(a, "insert", Row(owner, strategy))
  /\ UNCHANGED <<table, used, routes, setting, routerStrategy>>

(* The list could not be read: the check is skipped. *)
CreateUnchecked(a) ==
  /\ pc[a] = "idle"
  /\ Ids # used
  /\ \E owner \in Owners, strategy \in Strategies : Goto(a, "insert", Row(owner, strategy))
  /\ UNCHANGED <<table, used, routes, setting, routerStrategy>>

Insert(a) ==
  /\ pc[a] = "insert"
  /\ \E i \in Ids \ used :
       /\ table' = [table EXCEPT ![i] = local[a]]
       /\ used' = used \cup {i}
  /\ Goto(a, "fetch", Absent)
  /\ UNCHANGED <<routes, setting, routerStrategy>>

(* UpdateDeploymentHandler: read the row, change the given fields in       *)
(* memory, write the whole row back to the id, if that still exists.  The  *)
(* owner can be changed but not removed.                                   *)
ReadForUpdate(a) ==
  /\ pc[a] = "idle"
  /\ \E i \in Present, new \in Rows :
       /\ new.owner \in {table[i].owner} \cup (Owners \ {Global})
       /\ Goto(a, "update", [id |-> i, row |-> new])
  /\ UNCHANGED <<table, used, routes, setting, routerStrategy>>

(* Fault: the row is inserted if it does not exist. *)
UpdateOrInsert(a) ==
  /\ pc[a] = "update"
  /\ table' = [table EXCEPT ![local[a].id] = local[a].row]
  /\ Goto(a, "fetch", Absent)
  /\ UNCHANGED <<used, routes, setting, routerStrategy>>

Update(a) ==
  /\ pc[a] = "update"
  /\ LET i == local[a].id
     IN  table' = IF i \in Present THEN [table EXCEPT ![i] = local[a].row] ELSE table
  /\ Goto(a, "fetch", Absent)
  /\ UNCHANGED <<used, routes, setting, routerStrategy>>

Delete(a) ==
  /\ pc[a] = "idle"
  /\ \E i \in Ids : table' = [table EXCEPT ![i] = Absent]
  /\ Goto(a, "fetch", Absent)
  /\ UNCHANGED <<used, routes, setting, routerStrategy>>

(* Fault: the empty strategy is not refused. *)
UpdateAliasUnchecked(a) ==
  /\ pc[a] = "idle"
  /\ \E owner \in Owners, strategy \in Strategies \cup {Unspecified} :
       table' = [i \in Ids |-> IF i \in Present /\ table[i].owner = owner
                               THEN [table[i] EXCEPT !.strategy = strategy]
                               ELSE table[i]]
  /\ Goto(a, "fetch", Absent)
  /\ UNCHANGED <<used, routes, setting, routerStrategy>>

UpdateAliasStrategy(a) ==
  /\ pc[a] = "idle"
  /\ \E owner \in Owners, strategy \in Strategies :
       table' = [i \in Ids |-> IF i \in Present /\ table[i].owner = owner
                               THEN [table[i] EXCEPT !.strategy = strategy]
                               ELSE table[i]]
  /\ Goto(a, "fetch", Absent)
  /\ UNCHANGED <<used, routes, setting, routerStrategy>>

(* A statement fails: the handler answers with an error.  After its write  *)
(* only the fetch can fail, and the router then keeps what it has.         *)
Fail(a) ==
  /\ pc[a] \in {"insert", "update", "fetch"}
  /\ Goto(a, "idle", Absent)
  /\ UNCHANGED <<table, used, routes, setting, routerStrategy>>

----------------------------------------------------------------------------
(* triggerRouterReload: fetch the active rows, then install new routes.    *)
(* The strategy (and weight) of a row is not copied.                       *)

Fetch(a) ==
  /\ pc[a] = "fetch"
  /\ Goto(a, "install", RoutesOf(table, LAMBDA i : Unspecified))
  /\ UNCHANGED <<table, used, routes, setting, routerStrategy>>

Install(a) ==
  /\ pc[a] = "install"
  /\ routes' = local[a]
  /\ Goto(a, "idle", Absent)
  /\ UNCHANGED <<table, used, setting, routerStrategy>>

(* UpdateSettings stores the routing settings and changes nothing else. *)
UpdateSettings(a) ==
  /\ pc[a] = "idle"
  /\ \E strategy \in Strategies : setting' = strategy
  /\ UNCHANGED <<table, used, routes, routerStrategy, pc, local>>

----------------------------------------------------------------------------
(* The server stops at any point and starts again: the handlers are gone.  *)

Restart == Present # {} /\ Start(table) /\ UNCHANGED used

(* An empty table is seeded from config.yaml. *)
RestartSeeding ==
  /\ Present = {}
  /\ \E i \in Ids \ used :
       /\ Start([table EXCEPT ![i] = Row(Global, Default)])
       /\ used' = used \cup {i}

(* The seeding fails with a warning. *)
RestartUnseeded == Present = {} /\ Start(table) /\ UNCHANGED used

Handler(a) ==
  \/ Create(a) \/ Insert(a)
  \/ ReadForUpdate(a) \/ Update(a)
  \/ Delete(a) \/ UpdateAliasStrategy(a)
  \/ Fetch(a) \/ Install(a)
  \/ UpdateSettings(a)

(* No statement fails; the server may stop. *)
ReliableNext == (\E a \in Admins : Handler(a)) \/ Restart \/ RestartSeeding

Next == ReliableNext \/ (\E a \in Admins : CreateUnchecked(a) \/ Fail(a)) \/ RestartUnseeded

Spec == Init /\ [][Next]_vars

(* One administrator at a time, whose statements succeed. *)
Alone(a) == \A b \in Admins \ {a} : pc[b] = "idle"

LoneNext == (\E a \in Admins : Alone(a) /\ Handler(a)) \/ Restart \/ RestartSeeding

LoneSpec == Init /\ [][LoneNext]_vars

----------------------------------------------------------------------------
Idle == \A a \in Admins : pc[a] = "idle"
RoutedIds == {i \in Ids : routes[i] # Absent}

(* An administrator working alone sees the router follow the table: after  *)
(* each change, and after a restart between the change and its reload, the *)
(* active deployments and no others are routed, each for its owner.  Only  *)
(* when no row is active may the deployment of config.yaml be routed.      *)
RouterFollowsTable ==
  Idle => /\ RoutedIds = Active
          /\ \A i \in Active : routes[i].owner = table[i].owner
          /\ routes[Config] # Absent => Active = {}

(* An update that was read before a deletion never brings the deleted      *)
(* deployment back (UpdateDeployment matches on the id and does not        *)
(* insert), however the handlers interleave.                               *)
DeletedStaysDeleted ==
  [][\A i \in used : table[i] = Absent => table'[i] = Absent]_vars

(* What router.go says at lines 60-64: the per-alias strategy is the one   *)
(* the router reads off the deployments.                                   *)
StrategyIsRouted ==
  Idle => \A i \in RoutedIds : routes[i].strategy = table[i].strategy
=============================================================================
