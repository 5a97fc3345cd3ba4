-------------------------- MODULE MCAdministration --------------------------
(***************************************************************************)
(* What administrators change, in three parts that share no state:         *)
(*   "routes"   DeploymentCatalog with two row ids, global rows and one    *)
(*              organization's, and two strategies;                        *)
(*   "people"   Accounts with two organizations, a team, two users and two *)
(*              keys, from an empty database or one with a user, a team    *)
(*              and a key;                                                 *)
(*   "prices" and "discounts"  the two halves of PriceBook, with three     *)
(*              rows for one entry of the catalog, and two signing keys.   *)
(* A behaviour exercises one of them, chosen at the start; the variables   *)
(* of the others stay as they started.  Either two administrators work at  *)
(* once and every statement may fail, or one works alone and only the      *)
(* server stops; what the server promises to follow is asked of the        *)
(* latter.                                                                 *)
(***************************************************************************)
EXTENDS DeploymentCatalog, TLC

CONSTANTS i1, i2, i3, org, rr, ll, a1, a2, None, Gone,
          o1, o2, t1, u1, u2, e1, e2, alice, acme, entry, ka, kb

(* What the parts run with, given values by the configurations.            *)
CONSTANTS
  Orgs, Teams, Users, Keys, Emails, Names, Workspace, Granted, Master, MaxSpend,
  PriceRows, Entries, Costs, BuiltIn, Percents, SigningKeys

TwoIds        == {i1, i2}
ThreeRows     == {i1, i2, i3}
TwoOwners     == {org, Global}
TwoStrategies == {rr, ll}
TwoAdmins     == {a1, a2}
TwoOrgs       == {o1, o2}
OneTeam       == {t1}
TwoUsers      == {u1, u2}
TwoEmails     == {e1, e2}
TwoNames      == {alice, acme}
AllAlice      == [e \in Emails |-> alice]
TeamAdmin     == {"team_admin"}
OneEntry      == {entry}
TwoCosts      == {1, 2}
AllOne        == [e \in Entries |-> 1]
OnePercent    == {20}
TwoSigners    == {ka, kb}

(* Rows, keys and administrators are interchangeable: sound for safety.    *)
Interchangeable == Permutations(TwoIds) \cup Permutations(TwoAdmins)

VARIABLES part, alone, orgs, team, user, key, call, started,
          price, custom, discount, attested, engine, loading

peopleVars == <<orgs, team, user, key, call, started>>
priceVars  == <<price, custom, discount, attested, engine, loading>>
MCVars     == <<vars, part, alone, peopleVars, priceVars>>

People == INSTANCE Accounts WITH
            org <- orgs, Requests <- Admins

Prices == INSTANCE PriceBook WITH
            call <- loading, Rows <- PriceRows, Requests <- Admins

ASSUME AccountsAssumption == People!ConstantsOK
ASSUME PricesAssumption   == Prices!ConstantsOK
ASSUME FurnishedAssumption ==
  o1 \in Orgs /\ t1 \in Teams /\ u1 \in Users /\ acme \in Names /\ e1 \in Emails

----------------------------------------------------------------------------
Furnished ==
  /\ call = [a \in Admins |-> <<>>]
  /\ orgs = [o \in Orgs |-> IF o = o1 THEN [name |-> acme, active |-> TRUE] ELSE None]
  /\ team = [t \in Teams |-> [org |-> o1]]
  /\ user = [u \in Users |->
               IF u = u1 THEN [email |-> e1, role |-> "org_admin", team |-> t1, org |-> o1, active |-> TRUE]
               ELSE None]
  /\ key = [k \in Keys |-> IF k = i1 THEN [People!NewKey(t1, u1, FALSE) EXCEPT !.spend = 0] ELSE None]

Halves == {"prices", "discounts"}

MCInit ==
  /\ part \in {"routes", "people"} \cup Halves /\ alone \in BOOLEAN
  /\ Init /\ Prices!Init /\ started = 0
  /\ IF part = "people" THEN People!Init \/ Furnished ELSE People!Init

RouteStep ==
  /\ part = "routes" /\ IF alone THEN LoneNext ELSE Next
  /\ UNCHANGED <<part, alone, peopleVars, priceVars>>

(* Two requests, of a lone administrator one after the other.              *)
LonePeople ==
  \/ \E a \in Admins : \/ /\ \A b \in Admins : call[b] = <<>>
                          /\ People!Handler(a)
                       \/ People!Store(a)
  \/ People!UpdateKeySpend

PeopleStep ==
  /\ part = "people" /\ IF alone THEN LonePeople ELSE People!Next
  /\ started' = started + Cardinality({a \in Admins : call[a] = <<>> /\ call'[a] # <<>>})
  /\ started' <= 2
  /\ UNCHANGED <<vars, part, alone, priceVars>>

PriceOf(a) ==
  \/ Prices!List(a) \/ Prices!Swap(a)
  \/ part = "prices" /\ Prices!PriceHandler(a)
  \/ part = "discounts" /\ Prices!DiscountHandler(a)
  \/ ~alone /\ (Prices!UpsertFails(a) \/ Prices!ListFails(a))

PriceStep ==
  /\ part \in Halves
  /\ \/ \E a \in Admins : /\ alone => \A b \in Admins \ {a} : Prices!IsIdle(b)
                          /\ PriceOf(a)
     \/ part = "discounts" /\ Prices!CountersignDiscount
     \/ Prices!Start
  /\ ~alone => price'[i3] = None /\ engine'.pub # kb
  /\ UNCHANGED <<vars, part, alone, peopleVars>>

(* Requests to the accounts are bounded, and so are the rows of prices.    *)
Rest == part # "routes" /\ UNCHANGED MCVars

MCNext == RouteStep \/ PeopleStep \/ PriceStep \/ Rest

MCSpec == MCInit /\ [][MCNext]_MCVars

----------------------------------------------------------------------------
(* The types of the three. *)
PartTypeOK ==
  /\ part = "routes" => TypeOK
  /\ part = "people" => People!TypeOK
  /\ part \in Halves => Prices!TypeOK

(* What a server keeps in memory is what the tables say, between any two   *)
(* requests of a lone administrator and through restarts: the routes       *)
(* (DeploymentCatalog), the prices and the discounts (PriceBook); and of an *)
(* entry of the price catalog one row is active.  At any time the two      *)
(* formulas of the engine agree on what a request costs.                   *)
LoneFollowsTables ==
  /\ part = "routes" /\ alone => RouterFollowsTable
  /\ part \in Halves /\ alone => Prices!CachesFollowTables /\ Prices!RevokedIsNotBilled /\ Prices!OneActivePrice
  /\ part \in Halves => Prices!ServedAsBaselineSavesNothing

LoneIsRouted == part = "routes" /\ alone => StrategyIsRouted

(* Of Accounts: what the caller is listed the totals count                 *)
(* (management.go, postgres.go).                                           *)
ListedKeysAreCounted == part = "people" => People!ListedKeysAreCounted

(* Of Accounts: no update of a key sets back its spend (settings.go,       *)
(* postgres.go).                                                           *)
SpendIsNeverLost == People!SpendIsNeverLost

(* Of Accounts: when the deletion of a user by a lone administrator ends,  *)
(* none of the user's keys is active (management.go).                      *)
LoneDeletionRevokes ==
  [][part = "people" /\ alone => \A u \in People!Live(user) : People!RevokesAll(u)]_MCVars

(* Of PriceBook: what is billed as a discount was countersigned            *)
(* (operator_catalog.go, catalog.go).                                      *)
BilledDiscountWasAttested == Prices!BilledDiscountWasAttested
=============================================================================
