------------------------------- MODULE PriceBook -------------------------------
(***************************************************************************)
(* What a request costs: the operator's signed price catalog, the custom   *)
(* prices and the discounts of organizations, as tables, and the maps that *)
(* the cost engine serves them from.                                       *)
(*                                                                         *)
(* A handler changes a table, lists it again and swaps the result into the *)
(* engine, with nothing that holds the three steps together.  The upsert   *)
(* of a catalog row is a READ COMMITTED transaction: its UPDATE sees the   *)
(* rows that were active when it began, waits for whoever is changing      *)
(* them, and leaves alone those that are no longer active by then.  What   *)
(* follows the wait is one step here, since no other transaction sees any  *)
(* of it before the commit.                                                *)
(*                                                                         *)
(* A discount is for all the providers an organization uses, and a price   *)
(* is one number per token of each kind.                                   *)
(***************************************************************************)
EXTENDS Integers, FiniteSets

CONSTANTS
  Rows,        \* ids of catalog rows the database may hand out
  Entries,     \* provider/model pairs
  Costs,       \* prices per prompt token
  BuiltIn,     \* the embedded price list: [Entries -> Costs \cup {None}]
  Owners,      \* organizations, and Global for the row without one
  Global,
  Percents,    \* discounts
  SigningKeys, \* keys the operator may sign with, from one start to the next
  Requests,    \* handlers that can be in progress at once
  None

Maybe(S) == S \cup {None}

CatalogRow  == [entry : Entries, cost : Costs, active : BOOLEAN, signer : SigningKeys]
DiscountRow == [percent : Percents, attested : BOOLEAN]

ConstantsOK ==
  /\ IsFiniteSet(Rows)
  /\ Costs \subseteq Nat \ {0} /\ Percents \subseteq 0..99
  /\ BuiltIn \in [Entries -> Maybe(Costs)]
  /\ Global \in Owners
  /\ None \notin Costs \cup Percents \cup SigningKeys
  /\ None \notin CatalogRow \cup DiscountRow

VARIABLES
  price,     \* operator_price_catalog
  custom,    \* custom_pricing
  discount,  \* the active row of each owner in org_provider_discounts
  attested,  \* history: the discounts that were ever countersigned
  engine,    \* the maps the engine serves, and the key it verifies with
  call       \* what each handler has still to do

tables == <<price, custom, discount, attested>>
vars   == <<price, custom, discount, attested, engine, call>>

Prices == [entry : Entries, cost : Costs]
Idle   == [at |-> "idle"]

Nothing(S) == [x \in S |-> None]

----------------------------------------------------------------------------
(* Lookups.                                                                *)

GetPricing(e) ==
  IF engine.operator[e] # None THEN engine.operator[e]
  ELSE IF engine.custom[e] # None THEN engine.custom[e]
  ELSE BuiltIn[e]

GetAllPricing == {[entry |-> e, cost |-> GetPricing(e)] : e \in {x \in Entries : GetPricing(x) # None}}

discountFor(o) ==
  IF engine.discount[o] # None THEN engine.discount[o]
  ELSE IF engine.discount[Global] # None THEN engine.discount[Global]
  ELSE 0

(* Prices in hundredths: a completion token costs twice a prompt token, a  *)
(* cached one half of it.                                                  *)
InputRate(e)  == 2 * GetPricing(e)
OutputRate(e) == 4 * GetPricing(e)
CachedRate(e) == GetPricing(e)

EffectiveRate(o, e) ==
  LET rest == 100 - discountFor(o) IN [input |-> InputRate(e) * rest, output |-> OutputRate(e) * rest]

AtLeastZero(n) == IF n < 0 THEN 0 ELSE n

BaselineCost(o, e, usage) ==
  LET rate == EffectiveRate(o, e) IN
  AtLeastZero(usage.prompt * rate.input + usage.completion * rate.output
              - usage.cached * (InputRate(e) - CachedRate(e)) * (100 - discountFor(o)))

Calculate(endpoint, e, usage) ==
  100 * CASE endpoint = "chat" ->
               usage.prompt * InputRate(e) + usage.completion * OutputRate(e)
               - usage.cached * (InputRate(e) - CachedRate(e))
          [] endpoint \in {"embeddings", "moderations"} -> usage.prompt * InputRate(e)

----------------------------------------------------------------------------
(* What a load may find.  Rows of one entry are listed in no fixed order,  *)
(* and the last one stays in the map.                                      *)

Verifies(row) == engine.pub = row.signer

Listings(found) ==
  {m \in [Entries -> Maybe(Costs)] :
     \A e \in Entries : IF \E p \in found : p.entry = e
                        THEN [entry |-> e, cost |-> m[e]] \in found
                        ELSE m[e] = None}

InForce(table) == {i \in Rows : table[i] # None /\ table[i].active}

LoadOperatorCatalog ==
  Listings({[entry |-> price[i].entry, cost |-> price[i].cost] :
              i \in {j \in InForce(price) : Verifies(price[j])}})

LoadCustomPricing == Listings(custom)

(* Fault: a declared discount is loaded like a countersigned one. *)
LoadDeclaredDiscounts ==
  {[o \in Owners |-> IF discount[o] # None THEN discount[o].percent ELSE None]}

LoadEffectiveDiscounts ==
  {[o \in Owners |-> IF discount[o] # None /\ discount[o].attested THEN discount[o].percent ELSE None]}

Load(table) == CASE table = "operator" -> LoadOperatorCatalog
                 [] table = "custom"   -> LoadCustomPricing
                 [] table = "discount" -> LoadEffectiveDiscounts

----------------------------------------------------------------------------
Init ==
  /\ price = Nothing(Rows) /\ custom = {} /\ discount = Nothing(Owners) /\ attested = {}
  /\ engine = [operator |-> Nothing(Entries), custom |-> Nothing(Entries),
               discount |-> Nothing(Owners), pub |-> None]
  /\ call = [r \in Requests |-> Idle]

Respond(r)       == call' = [call EXCEPT ![r] = Idle]
Reload(r, table) == call' = [call EXCEPT ![r] = [at |-> "list", table |-> table]]
Upserting(r, left, seed) ==
  call' = [call EXCEPT ![r] = IF left # {} THEN [at |-> "upsert", left |-> left, seed |-> seed]
                              ELSE [at |-> "list", table |-> "operator"]]

IsIdle(r) == call[r] = Idle

SetOperatorCatalogRow(r) ==
  /\ IsIdle(r) /\ engine.pub # None
  /\ \E p \in Prices : Upserting(r, {p}, FALSE)
  /\ UNCHANGED <<tables, engine>>

(* Every price in effect is signed anew, the operator's own included.      *)
SeedOperatorCatalogFromEmbedded(r) ==
  /\ IsIdle(r) /\ engine.pub # None
  /\ Upserting(r, GetAllPricing, TRUE)
  /\ UNCHANGED <<tables, engine>>

(* The UPDATE of the next upsert begins.                                   *)
Supersede(r) ==
  /\ call[r].at = "upsert"
  /\ \E p \in call[r].left :
       call' = [call EXCEPT ![r] =
                  [at |-> "insert", left |-> @.left \ {p}, seed |-> @.seed, row |-> p,
                   seen |-> {i \in InForce(price) : price[i].entry = p.entry}]]
  /\ UNCHANGED <<tables, engine>>

Fresh == {i \in Rows : price[i] = None}

Superseded(seen, i, p, signer) ==
  [j \in Rows |->
     IF j = i THEN [entry |-> p.entry, cost |-> p.cost, active |-> TRUE, signer |-> signer]
     ELSE IF j \in seen THEN [price[j] EXCEPT !.active = FALSE]
     ELSE price[j]]

UpsertOperatorCatalogRow(r) ==
  /\ call[r].at = "insert"
  /\ \E i \in Fresh :
       /\ price' = Superseded(call[r].seen, i, call[r].row, engine.pub)
  /\ Upserting(r, call[r].left, call[r].seed)
  /\ UNCHANGED <<custom, discount, attested, engine>>

(* A failed upsert ends the request of one row; a seeding skips it.        *)
UpsertFails(r) ==
  /\ call[r].at = "insert"
  /\ IF call[r].seed THEN Upserting(r, call[r].left, TRUE) ELSE Respond(r)
  /\ UNCHANGED <<tables, engine>>

(* deployment_id is null in every row the handlers write, and nulls are    *)
(* distinct to the unique constraint: the upsert of a price adds a row.    *)
SetModelPricing(r) ==
  /\ IsIdle(r)
  /\ \E p \in Prices : custom' = custom \cup {p}
  /\ Reload(r, "custom")
  /\ UNCHANGED <<price, discount, attested, engine>>

Deleted(e) == {p \in custom : p.entry # e}

DeleteModelPricing(r) ==
  /\ IsIdle(r)
  /\ \E p \in custom : custom' = Deleted(p.entry)
  /\ Reload(r, "custom")
  /\ UNCHANGED <<price, discount, attested, engine>>

(* Supersedes the owner's discount, an attested one too, and loads nothing.*)
DeclareDiscount(r) ==
  /\ IsIdle(r)
  /\ \E o \in Owners, p \in Percents :
       discount' = [discount EXCEPT ![o] = [percent |-> p, attested |-> FALSE]]
  /\ UNCHANGED <<price, custom, attested, engine, call>>

(* The statement that countersigns.  CountersignDiscount of the API always *)
(* issues it with the zero user id, for the master key it requires has no  *)
(* user, and the foreign key of attested_by refuses that: a row is only    *)
(* attested by an operator who names a user, in the database.              *)
CountersignDiscount ==
  \E o \in Owners :
    /\ discount[o] # None /\ ~discount[o].attested
    /\ discount' = [discount EXCEPT ![o].attested = TRUE]
    /\ attested' = attested \cup {<<o, discount[o].percent>>}
    /\ UNCHANGED <<price, custom, engine, call>>

(* Fault: no reload follows. *)
RevokedOnly(r) == UNCHANGED call

AfterRevocation(r) == Reload(r, "discount")

RevokeDiscount(r) ==
  /\ IsIdle(r)
  /\ \E o \in Owners : discount' = [discount EXCEPT ![o] = None]
  /\ AfterRevocation(r)
  /\ UNCHANGED <<price, custom, attested, engine>>

List(r) ==
  /\ call[r].at = "list"
  /\ \E m \in Load(call[r].table) :
       call' = [call EXCEPT ![r] = [at |-> "swap", table |-> @.table, map |-> m]]
  /\ UNCHANGED <<tables, engine>>

(* The query fails: the engine keeps the map it has.                       *)
ListFails(r) ==
  /\ call[r].at = "list"
  /\ Respond(r)
  /\ UNCHANGED <<tables, engine>>

Swap(r) ==
  /\ call[r].at = "swap"
  /\ engine' = [engine EXCEPT ![call[r].table] = call[r].map]
  /\ Respond(r)
  /\ UNCHANGED tables

----------------------------------------------------------------------------
(* A start of the process: the custom prices and the discounts are loaded; *)
(* with receipts enabled the catalog is, and when it has no row in force   *)
(* it is seeded first from the prices in effect.                           *)

Started(key, operator) ==
  /\ \E m \in LoadCustomPricing, d \in LoadEffectiveDiscounts :
       engine' = [operator |-> operator, custom |-> m, discount |-> d, pub |-> key]
  /\ call' = [r \in Requests |-> Idle]

Restart(key) ==
  /\ key = None \/ InForce(price) # {}
  /\ \E operator \in Listings({[entry |-> price[i].entry, cost |-> price[i].cost] :
                                 i \in {j \in InForce(price) : price[j].signer = key}}) :
       Started(key, operator)
  /\ UNCHANGED tables

(* No row is in force, so the engine that starts has no operator price.    *)
(* An upsert that fails leaves its entry out.                              *)
autoSeedCatalog(key) ==
  /\ key # None /\ InForce(price) = {}
  /\ \E m \in LoadCustomPricing :
     LET seeded(e) == IF m[e] # None THEN m[e] ELSE BuiltIn[e]
     IN \E offered \in SUBSET {e \in Entries : seeded(e) # None} :
        /\ \E ids \in SUBSET Fresh, entryOf \in [Rows -> Entries] :
             /\ {entryOf[i] : i \in ids} = offered /\ Cardinality(ids) = Cardinality(offered)
             /\ price' = [i \in Rows |-> IF i \in ids
                                         THEN [entry |-> entryOf[i], cost |-> seeded(entryOf[i]),
                                               active |-> TRUE, signer |-> key]
                                         ELSE price[i]]
        /\ \E d \in LoadEffectiveDiscounts :
             engine' = [operator |-> [e \in Entries |-> IF e \in offered THEN seeded(e) ELSE None],
                        custom |-> m, discount |-> d, pub |-> key]
        /\ call' = [r \in Requests |-> Idle]
  /\ UNCHANGED <<custom, discount, attested>>

PriceHandler(r) ==
  \/ SetOperatorCatalogRow(r) \/ SeedOperatorCatalogFromEmbedded(r)
  \/ Supersede(r) \/ UpsertOperatorCatalogRow(r)
  \/ SetModelPricing(r) \/ DeleteModelPricing(r)

DiscountHandler(r) == DeclareDiscount(r) \/ RevokeDiscount(r)

Handler(r) == PriceHandler(r) \/ DiscountHandler(r) \/ List(r) \/ Swap(r)

Start == \E key \in Maybe(SigningKeys) : Restart(key) \/ autoSeedCatalog(key)

Next ==
  \/ \E r \in Requests : Handler(r) \/ UpsertFails(r) \/ ListFails(r)
  \/ CountersignDiscount
  \/ Start

Spec == Init /\ [][Next]_vars

----------------------------------------------------------------------------
Maps        == [operator : [Entries -> Maybe(Costs)], custom : [Entries -> Maybe(Costs)],
                discount : [Owners -> Maybe(Percents)], pub : Maybe(SigningKeys)]

TypeOK ==
  /\ price \in [Rows -> Maybe(CatalogRow)]
  /\ custom \subseteq Prices
  /\ discount \in [Owners -> Maybe(DiscountRow)]
  /\ attested \subseteq Owners \X Percents
  /\ engine \in Maps
  /\ \A r \in Requests : call[r].at \in {"idle", "upsert", "insert", "list", "swap"}

(* At most one row of an entry is in force, which the comment of           *)
(* UpsertOperatorCatalogRow says no transaction ever breaks; two upserts   *)
(* at once do (savings.go).                                                *)
OneActivePrice ==
  \A i, j \in InForce(price) : price[i].entry = price[j].entry => i = j

(* A discount that is billed was countersigned by the operator, with that  *)
(* percentage, however loads, declarations and restarts interleave.        *)
BilledDiscountWasAttested ==
  \A o \in Owners : engine.discount[o] # None => <<o, engine.discount[o]>> \in attested

(* When no handler is in progress, the engine serves for each entry the    *)
(* row in force that the running key signed, and a custom price that is in *)
(* the table.  It holds as long as one administrator works at a time and   *)
(* no load fails: maps that are swapped in late undo newer ones.           *)
CachesFollowTables ==
  (\A r \in Requests : IsIdle(r)) =>
     \A e \in Entries :
       /\ \A i \in InForce(price) :
            price[i].entry = e /\ price[i].signer = engine.pub => engine.operator[e] = price[i].cost
       /\ engine.operator[e] # None =>
            \E i \in InForce(price) : price[i].entry = e /\ Verifies(price[i])
       /\ IF \E p \in custom : p.entry = e
          THEN [entry |-> e, cost |-> engine.custom[e]] \in custom
          ELSE engine.custom[e] = None

(* Once RevokeDiscount has answered, the discount of the owner is not      *)
(* billed, with the same provisos.                                         *)
RevokedIsNotBilled ==
  (\A r \in Requests : IsIdle(r)) =>
     \A o \in Owners : discount[o] = None => engine.discount[o] = None

Usages == [prompt : 0..2, completion : 0..1, cached : 0..1]

(* The two formulas of the engine agree: without a discount, a request     *)
(* whose baseline is the model that served it saves nothing.               *)
ServedAsBaselineSavesNothing ==
  \A o \in Owners, e \in Entries, usage \in Usages :
    (/\ GetPricing(e) # None /\ usage.cached <= usage.prompt) =>
       100 * BaselineCost(o, e, usage) = (100 - discountFor(o)) * Calculate("chat", e, usage)
=============================================================================
