------------------------------- MODULE Accounts -------------------------------
(***************************************************************************)
(* Organizations, teams, users and API keys: the handlers of the           *)
(* management API, of the LiteLLM-compatible one, of login and of the      *)
(* registration, over the tables they change.                              *)
(*                                                                         *)
(* A handler reads the tables once, decides, and then issues its           *)
(* statements one after the other without a transaction: `call' holds what *)
(* each request in progress has still to issue.  Rows read at the start    *)
(* are written back whole, so a statement can carry values that another    *)
(* request has replaced since.  Every statement may fail, and the process  *)
(* may die between two of them.                                            *)
(***************************************************************************)
EXTENDS Naturals, Sequences

CONSTANTS
  Orgs, Teams, Users, Keys,  \* ids the database may hand out
  Requests,                  \* handlers that can be in progress at once
  Emails, Names,             \* emails of users, names of organizations
  Workspace,                 \* the name a registration gives, by email
  Granted,                   \* the roles requests ask for
  Master,                    \* the caller that presents the master key
  None,                      \* an id not used yet, an absent reference or field
  Gone,                      \* a deleted row
  MaxSpend                   \* bound on the spend of a key

RoleLevel == [super_admin |-> 4, org_admin |-> 3, team_admin |-> 2, member |-> 1, viewer |-> 0]
Roles     == DOMAIN RoleLevel

Maybe(S) == S \cup {None}

OrgRows  == [name : Names, active : BOOLEAN]
TeamRows == [org : Maybe(Orgs)]
UserRows == [email : Emails, role : Roles, team : Maybe(Teams), org : Maybe(Orgs), active : BOOLEAN]
KeyRows  == [team : Maybe(Teams), user : Maybe(Users), active : BOOLEAN, expires : BOOLEAN,
             spend : 0..MaxSpend]

ConstantsOK ==
  /\ Workspace \in [Emails -> Names]
  /\ Granted \subseteq Roles
  /\ MaxSpend \in Nat
  /\ None # Gone
  /\ \A x \in {None, Gone} : x \notin OrgRows \cup TeamRows \cup UserRows \cup KeyRows

VARIABLES org, team, user, key, call

tables == <<org, team, user, key>>
vars   == <<org, team, user, key, call>>

Live(table) == {i \in DOMAIN table : table[i] \notin {None, Gone}}

----------------------------------------------------------------------------
(* The request's context, as Auth builds it from the caller's key.         *)

UserOf(c) == IF c # Master /\ key[c].user \in Live(user) THEN key[c].user ELSE None

OrgOf(c) ==
  IF c = Master THEN None
  ELSE IF key[c].team \in Live(team) /\ team[key[c].team].org # None THEN team[key[c].team].org
  ELSE IF UserOf(c) # None THEN user[UserOf(c)].org
  ELSE None

Callers ==
  {Master} \cup {k \in Live(key) : /\ key[k].active
                                   /\ OrgOf(k) \in Live(org) => org[OrgOf(k)].active}

HasRole(c, role) ==
  c = Master \/ (UserOf(c) # None /\ RoleLevel[user[UserOf(c)].role] >= RoleLevel[role])

IsSuperAdmin(c) == HasRole(c, "super_admin")

CanAccessOrg(c, o) == IsSuperAdmin(c) \/ (o # None /\ OrgOf(c) = o)

----------------------------------------------------------------------------
(* Statements.                                                             *)

Fresh(table) ==
  {i \in DOMAIN table : /\ table[i] = None
                        /\ \A r \in Requests : \A n \in DOMAIN call[r] : call[r][n].id # i}

Stmt(op, id, row) == [op |-> op, id |-> id, row |-> row]

(* The unique columns and the foreign keys of the schema.                  *)
RefersWell(row) == row.team \in Maybe(Live(team))

Constraint(s) ==
  /\ s.op \in {"CreateOrganization", "UpdateOrganization"} =>
       \A o \in Live(org) \ {s.id} : org[o].name # s.row.name
  /\ s.op = "CreateTeam" => s.row.org \in Maybe(Live(org))
  /\ s.op \in {"CreateUser", "UpdateUser"} =>
       /\ \A u \in Live(user) \ {s.id} : user[u].email # s.row.email
       /\ RefersWell(s.row) /\ s.row.org \in Maybe(Live(org))
  /\ s.op \in {"CreateAPIKey", "UpdateAPIKey"} =>
       RefersWell(s.row) /\ s.row.user \in Maybe(Live(user))
  /\ s.op = "DeleteTeam" => /\ \A u \in Live(user) : user[u].team # s.id
                            /\ \A k \in Live(key) : key[k].team # s.id
  /\ s.op = "DeleteOrganization" => /\ \A t \in Live(team) : team[t].org # s.id
                                    /\ \A u \in Live(user) : user[u].org # s.id

StoreOrg(s) ==
  /\ s.op \in {"CreateOrganization", "UpdateOrganization"}
  /\ org' = [org EXCEPT ![s.id] = IF @ = Gone THEN Gone ELSE s.row]
  /\ UNCHANGED <<team, user, key>>

StoreTeam(s) ==
  /\ s.op = "CreateTeam"
  /\ team' = [team EXCEPT ![s.id] = s.row]
  /\ UNCHANGED <<org, user, key>>

StoreUser(s) ==
  /\ s.op \in {"CreateUser", "UpdateUser"}
  /\ user' = [user EXCEPT ![s.id] = s.row]
  /\ UNCHANGED <<org, team, key>>

(* The statement names neither is_active nor expires_at: a new key is      *)
(* active and never expires, whatever the handler asked for.               *)
InsertKey(s) ==
  /\ s.op = "CreateAPIKey"
  /\ key' = [key EXCEPT ![s.id] = [team |-> s.row.team, user |-> s.row.user,
                                   active |-> TRUE, expires |-> FALSE, spend |-> 0]]
  /\ UNCHANGED <<org, team, user>>

(* Fault: the update writes the spend it had read. *)
RewrittenWhole(now, row) == row

(* Every column but the spend.                                             *)
Rewritten(now, row) == [row EXCEPT !.spend = now.spend]

UpdateAPIKey(s) ==
  /\ s.op = "UpdateAPIKey"
  /\ key' = [key EXCEPT ![s.id] = IF s.id \in Live(key) THEN Rewritten(@, s.row) ELSE @]
  /\ UNCHANGED <<org, team, user>>

DeactivateUserKeys(s) ==
  /\ s.op = "DeactivateUserKeys"
  /\ key' = [k \in Keys |-> IF k \in Live(key) /\ key[k].user = s.id
                              THEN [key[k] EXCEPT !.active = FALSE] ELSE key[k]]
  /\ UNCHANGED <<org, team, user>>

DeactivateTeamKeys(s) ==
  /\ s.op = "DeactivateTeamKeys"
  /\ key' = [k \in Keys |-> IF k \in Live(key) /\ key[k].team = s.id
                              THEN [key[k] EXCEPT !.active = FALSE] ELSE key[k]]
  /\ UNCHANGED <<org, team, user>>

DeleteUserRow(s) ==
  /\ s.op = "DeleteUser"
  /\ user' = [user EXCEPT ![s.id].active = FALSE]
  /\ UNCHANGED <<org, team, key>>

DeleteTeamRow(s) ==
  /\ s.op = "DeleteTeam"
  /\ team' = [team EXCEPT ![s.id] = Gone]
  /\ UNCHANGED <<org, user, key>>

DeleteOrgRow(s) ==
  /\ s.op = "DeleteOrganization"
  /\ org' = [org EXCEPT ![s.id] = Gone]
  /\ UNCHANGED <<team, user, key>>

DeleteKeyRow(s) ==
  /\ s.op = "DeleteAPIKey"
  /\ key' = [key EXCEPT ![s.id] = Gone]
  /\ UNCHANGED <<org, team, user>>

Issue(s) ==
  /\ Constraint(s)
  /\ \/ StoreOrg(s) \/ StoreTeam(s) \/ StoreUser(s) \/ InsertKey(s) \/ UpdateAPIKey(s)
     \/ DeactivateUserKeys(s) \/ DeactivateTeamKeys(s)
     \/ DeleteUserRow(s) \/ DeleteTeamRow(s) \/ DeleteOrgRow(s) \/ DeleteKeyRow(s)

(* A failed cascade is only logged.  Any other failure ends the request    *)
(* with an error, and what was stored before stays.                        *)
OnlyLogged == {"DeactivateUserKeys", "DeactivateTeamKeys"}

Proceed(r) == call' = [call EXCEPT ![r] = Tail(@)]

Store(r) == call[r] # <<>> /\ Issue(Head(call[r])) /\ Proceed(r)

Fail(r) ==
  /\ call[r] # <<>>
  /\ IF Head(call[r]).op \in OnlyLogged THEN Proceed(r) ELSE call' = [call EXCEPT ![r] = <<>>]
  /\ UNCHANGED tables

(* The process dies: what was not issued is forgotten.                     *)
Crash == call' = [r \in Requests |-> <<>>] /\ UNCHANGED tables

(* Charges of answered requests go on meanwhile.                           *)
UpdateKeySpend ==
  /\ \E k \in Live(key) : /\ key[k].spend < MaxSpend
                          /\ key' = [key EXCEPT ![k].spend = @ + 1]
  /\ UNCHANGED <<org, team, user, call>>

----------------------------------------------------------------------------
(* Handlers.  A field of a request that is None is absent.                 *)

Begin(r, stmts) ==
  /\ call[r] = <<>>
  /\ call' = [call EXCEPT ![r] = stmts]
  /\ UNCHANGED tables

Given(field, old) == IF field = None THEN old ELSE field

NewKey(t, u, expires) == [team |-> t, user |-> u, active |-> TRUE, expires |-> expires, spend |-> 0]

CreateAPIKey(r, c) ==
  /\ HasRole(c, "team_admin")
  /\ \E k \in Fresh(key), t \in Maybe(Live(team)), u \in Maybe(Live(user)) :
       /\ t # None => CanAccessOrg(c, team[t].org)
       /\ LET owner == IF t = None /\ u = None /\ ~IsSuperAdmin(c) THEN UserOf(c) ELSE u
          IN  Begin(r, <<Stmt("CreateAPIKey", k, NewKey(t, owner, FALSE))>>)

Owns(c, k) == UserOf(c) # None /\ key[k].user = UserOf(c)

InTeamOf(c, k) ==
  /\ HasRole(c, "team_admin")
  /\ UserOf(c) # None
  /\ user[UserOf(c)].team # None /\ key[k].team = user[UserOf(c)].team

DeleteAPIKey(r, c) ==
  /\ HasRole(c, "team_admin")
  /\ \E k \in Live(key) :
       /\ HasRole(c, "org_admin") \/ Owns(c, k) \/ InTeamOf(c, k)
       /\ Begin(r, <<Stmt("DeleteAPIKey", k, None)>>)

UpdateAPIKeyHandler(r, c) ==
  /\ HasRole(c, "team_admin")
  /\ \E k \in Live(key), t \in Maybe(Live(team)), u \in Maybe(Live(user)), a \in Maybe(BOOLEAN) :
       /\ HasRole(c, "org_admin") \/ Owns(c, k)
       /\ key[k].team # None => CanAccessOrg(c, team[key[k].team].org)
       /\ Begin(r, <<Stmt("UpdateAPIKey", k,
                          [key[k] EXCEPT !.team = Given(t, @), !.user = Given(u, @),
                                         !.active = Given(a, @)])>>)

CreateTeam(r, c) ==
  /\ HasRole(c, "team_admin")
  /\ \E t \in Fresh(team), o \in Maybe(Live(org)) :
       LET home == IF IsSuperAdmin(c) THEN o ELSE OrgOf(c)
       IN  /\ ~IsSuperAdmin(c) => home # None /\ o \in {None, home}
           /\ Begin(r, <<Stmt("CreateTeam", t, [org |-> home])>>)

DeleteTeam(r, c) ==
  /\ HasRole(c, "team_admin")
  /\ \E t \in Live(team) :
       /\ CanAccessOrg(c, team[t].org)
       /\ Begin(r, <<Stmt("DeactivateTeamKeys", t, None), Stmt("DeleteTeam", t, None)>>)

CreateUser(r, c) ==
  /\ HasRole(c, "org_admin")
  /\ \E u \in Fresh(user), e \in Emails, role \in Granted,
        t \in Maybe(Live(team)), o \in Maybe(Live(org)) :
       LET home == IF IsSuperAdmin(c) THEN o ELSE OrgOf(c)
       IN  /\ ~IsSuperAdmin(c) => /\ home # None /\ o \in {None, home}
                                  /\ role # "super_admin"
           /\ t # None => team[t].org = None \/ home \in {None, team[t].org}
           /\ Begin(r, <<Stmt("CreateUser", u, [email |-> e, role |-> role, team |-> t,
                                                org |-> home, active |-> TRUE])>>)

UpdateUser(r, c) ==
  /\ HasRole(c, "org_admin")
  /\ \E u \in Live(user), e \in Maybe(Emails), role \in Maybe(Granted),
        t \in Maybe(Live(team)), a \in Maybe(BOOLEAN) :
       /\ UserOf(c) = u \/ CanAccessOrg(c, user[u].org)
       /\ Begin(r, <<Stmt("UpdateUser", u,
                          [user[u] EXCEPT !.email = Given(e, @), !.role = Given(role, @),
                                          !.team = Given(t, @), !.active = Given(a, @)])>>)

(* Fault: the deletion leaves the keys alone. *)
DeletionUncascaded(u) == <<Stmt("DeleteUser", u, None)>>

(* Keys first, then the user.                                              *)
DeletionOf(u) == <<Stmt("DeactivateUserKeys", u, None), Stmt("DeleteUser", u, None)>>

DeleteUser(r, c) ==
  /\ HasRole(c, "org_admin")
  /\ \E u \in Live(user) : CanAccessOrg(c, user[u].org) /\ Begin(r, DeletionOf(u))

LoginUser(r) ==
  \E u \in Live(user), k \in Fresh(key) :
    /\ user[u].active
    /\ Begin(r, <<Stmt("CreateAPIKey", k, NewKey(None, u, TRUE))>>)

RegisterUser(r) ==
  \E e \in Emails, o \in Fresh(org), t \in Fresh(team), u \in Fresh(user), k \in Fresh(key) :
    /\ \A v \in Live(user) : user[v].email # e
    /\ Begin(r, << Stmt("CreateOrganization", o, [name |-> Workspace[e], active |-> TRUE]),
                   Stmt("CreateTeam", t, [org |-> o]),
                   Stmt("CreateUser", u, [email |-> e, role |-> "org_admin", team |-> t,
                                          org |-> o, active |-> TRUE]),
                   Stmt("CreateAPIKey", k, NewKey(t, u, TRUE)) >>)

CreateOrganization(r, c) ==
  /\ IsSuperAdmin(c)
  /\ \E o \in Fresh(org), n \in Names \ {Workspace[e] : e \in Emails} :
       Begin(r, <<Stmt("CreateOrganization", o, [name |-> n, active |-> TRUE])>>)

UpdateOrganization(r, c) ==
  /\ HasRole(c, "org_admin")
  /\ \E o \in Live(org), a \in BOOLEAN :
       /\ CanAccessOrg(c, o)
       /\ Begin(r, <<Stmt("UpdateOrganization", o, [org[o] EXCEPT !.active = a])>>)

DeleteOrganization(r, c) ==
  /\ IsSuperAdmin(c)
  /\ \E o \in Live(org) : Begin(r, <<Stmt("DeleteOrganization", o, None)>>)

(* The LiteLLM surface: the same statements from other requests.           *)
LiteLLMKeyGenerate(r, c) ==
  \E k \in Fresh(key), t \in Maybe(Live(team)), u \in Maybe(Live(user)), expires \in BOOLEAN :
    Begin(r, <<Stmt("CreateAPIKey", k, NewKey(t, u, expires))>>)

LiteLLMKeyDelete(r, c) == \E k \in Live(key) : Begin(r, <<Stmt("DeleteAPIKey", k, None)>>)

LiteLLMTeamNew(r, c) ==
  \E t \in Fresh(team), o \in Maybe(Live(org)) :
    Begin(r, <<Stmt("CreateTeam", t, [org |-> IF o = None THEN OrgOf(c) ELSE o])>>)

(* The new user has no password and is not active until an update says so. *)
LiteLLMUserNew(r, c) ==
  \E u \in Fresh(user), e \in Emails, role \in Granted, t \in Maybe(Live(team)) :
    Begin(r, <<Stmt("CreateUser", u, [email |-> e, role |-> role, team |-> t,
                                      org |-> OrgOf(c), active |-> FALSE])>>)

Handler(r) ==
  \/ LoginUser(r) \/ RegisterUser(r)
  \/ \E c \in Callers :
       \/ CreateAPIKey(r, c) \/ DeleteAPIKey(r, c) \/ UpdateAPIKeyHandler(r, c)
       \/ CreateTeam(r, c) \/ DeleteTeam(r, c)
       \/ CreateUser(r, c) \/ UpdateUser(r, c) \/ DeleteUser(r, c)
       \/ CreateOrganization(r, c) \/ UpdateOrganization(r, c) \/ DeleteOrganization(r, c)
       \/ LiteLLMKeyGenerate(r, c) \/ LiteLLMKeyDelete(r, c)
       \/ LiteLLMTeamNew(r, c) \/ LiteLLMUserNew(r, c)

----------------------------------------------------------------------------
Init ==
  /\ org = [o \in Orgs |-> None] /\ team = [t \in Teams |-> None]
  /\ user = [u \in Users |-> None] /\ key = [k \in Keys |-> None]
  /\ call = [r \in Requests |-> <<>>]

Next ==
  \/ \E r \in Requests : Handler(r) \/ Store(r) \/ Fail(r)
  \/ Crash
  \/ UpdateKeySpend

Spec == Init /\ [][Next]_vars

----------------------------------------------------------------------------
(* What the read handlers show.                                            *)

(* The organization ListAPIKeys gives a key.  It remembers the             *)
(* organization of each team it has looked up, but for a team without one  *)
(* the first key ends the search and the later ones go on to their owner:  *)
(* `first' is the key of each team that the list meets first.              *)
OrgOfKey(k, first) ==
  LET t == key[k].team
      u == key[k].user
  IN  IF t \in Live(team) /\ team[t].org # None THEN team[t].org
      ELSE IF (t \in Live(team) /\ first[t] = k) \/ u \notin Live(user) THEN None
      ELSE user[u].org

KeysOfUser(u) == {k \in Live(key) : key[k].user = u}

ListAPIKeys(c, first) ==
  IF ~HasRole(c, "org_admin") THEN KeysOfUser(UserOf(c))
  ELSE IF IsSuperAdmin(c) THEN Live(key)
  ELSE {k \in Live(key) : OrgOf(c) # None /\ OrgOfKey(k, first) = OrgOf(c)}

(* Fault: the query joins the teams only. *)
KeysOfOrgTeams(o) ==
  {k \in Live(key) : key[k].team \in Live(team) /\ team[key[k].team].org = o}

(* The keys of an organization in the queries over spend: of its teams or  *)
(* of its users.                                                           *)
KeysOfOrg(o) ==
  {k \in Live(key) : \/ key[k].team \in Live(team) /\ team[key[k].team].org = o
                     \/ key[k].user \in Live(user) /\ user[key[k].user].org = o}

(* The keys whose spend GetUsage and GetDailyUsage add up.                 *)
Counted(c) ==
  IF ~HasRole(c, "org_admin") THEN KeysOfUser(UserOf(c))
  ELSE IF IsSuperAdmin(c) THEN Live(key)
  ELSE IF OrgOf(c) = None THEN {} ELSE KeysOfOrg(OrgOf(c))

(* The keys whose own usage the caller may open.                           *)
CanSeeKey(c, k) ==
  \/ IsSuperAdmin(c)
  \/ /\ UserOf(c) # None
     /\ \/ Owns(c, k) \/ InTeamOf(c, k)
        \/ HasRole(c, "org_admin") /\ key[k].user = None /\ key[k].team = None

----------------------------------------------------------------------------
(* Types of the tables; a request never holds more statements than a       *)
(* registration.                                                           *)
TypeOK ==
  /\ org  \in [Orgs  -> OrgRows  \cup {None, Gone}]
  /\ team \in [Teams -> TeamRows \cup {None, Gone}]
  /\ user \in [Users -> UserRows \cup {None}]
  /\ key  \in [Keys  -> KeyRows  \cup {None, Gone}]
  /\ \A r \in Requests : Len(call[r]) <= 4

(* Whatever a key's user lists was spent is in the totals the same caller  *)
(* is shown, and a caller below organization admin can open the usage of   *)
(* every key listed: five read handlers derive their scope in different    *)
(* ways, over rows that move between teams and owners (management.go).     *)
ListedKeysAreCounted ==
  \A c \in Callers, first \in [Teams -> Keys] :
    HasRole(c, "viewer") =>
      /\ ListAPIKeys(c, first) \subseteq Counted(c)
      /\ ~HasRole(c, "org_admin") => \A k \in ListAPIKeys(c, first) : CanSeeKey(c, k)

(* A key's spend is never set back by an administrator's update, although  *)
(* the update writes back a row that was read before the charge            *)
(* (settings.go, postgres.go).                                             *)
SpendIsNeverLost ==
  [][\A k \in Live(key) : key'[k] # Gone => key'[k].spend >= key[k].spend]_vars

(* The step that ends the deletion of u leaves none of u's keys active.    *)
(* Two statements do it and the first only warns when it fails, so it is   *)
(* asked of requests that run alone (management.go).                       *)
RevokesAll(u) ==
  (\E r \in Requests : /\ call[r] # <<>> /\ Head(call[r]) = Stmt("DeleteUser", u, None)
                       /\ call'[r] = <<>> /\ user' # user)
    => \A k \in Keys : (key'[k] \notin {None, Gone} /\ key'[k].user = u) => ~key'[k].active
=============================================================================
