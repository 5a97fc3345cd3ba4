------------------------------ MODULE MCFallback ------------------------------
(***************************************************************************)
(* Requests and their bills, in two parts that share no state:             *)
(*   "requests"  Fallback with two deployments, the first dedicated to org *)
(*               a, and two requests: one of org a and one whose key has   *)
(*               no org;                                                   *)
(*   "books"     two requests to the endpoints other than chat, on one key *)
(*               with or without a team, or on the master key (Spending);  *)
(*               in Fallback.cfg each costs 0, 60 or 120 millionths of a   *)
(*               dollar, and columns of four decimals tell 100 apart.      *)
(* A behaviour exercises one of them, chosen at the start; the variables   *)
(* of the other stay as they started.                                      *)
(***************************************************************************)
EXTENDS Fallback

CONSTANTS d1, d2, a, r1, r2, global, noOrg
CONSTANTS Keys, Teams, Amounts, Price, Unit, None, Removed     \* of Spending

Both         == {d1, d2}
FirstOfA     == [d \in Both |-> IF d = d1 THEN a ELSE global]
TwoRequests  == {r1, r2}
OnlyOrgA     == {a}
KeyOrgs      == (r1 :> a) @@ (r2 :> noOrg)

(* The alias with both deployments, with the second alone, and removed. *)
AnyCatalog   == {<<d1, d2>>, <<d2>>, <<>>}

VARIABLES part, req, duty, apiKey, tokens, expired, log, daily, object, lossless

bookVars == <<req, duty, apiKey, tokens, expired, log, daily, object, lossless>>
MCVars   == <<vars, part, bookVars>>

Books == INSTANCE Spending WITH counter <- tokens

ASSUME BooksAssumption == Books!ConstantsOK

----------------------------------------------------------------------------
(* Without fallback a request calls one deployment, and it is enough that  *)
(* one of the two providers is healthy and one is not.                     *)
MCInit ==
  \/ /\ part = "requests" /\ Init /\ (fallbackEnabled \/ up = {d1})
     /\ Books!Init /\ apiKey = [k \in Keys |-> [team |-> None, spend |-> 0]]
  \/ /\ part = "books" /\ Books!Init
     /\ Init /\ fallbackEnabled /\ up = {d1}

RequestStep == part = "requests" /\ Next /\ UNCHANGED <<part, bookVars>>
BookStep    == part = "books" /\ Books!Next /\ UNCHANGED <<part, vars>>

(* The books come to rest once both requests are settled.                  *)
Rest == part = "books" /\ UNCHANGED MCVars

MCNext == RequestStep \/ BookStep \/ Rest

MCSpec == MCInit /\ [][MCNext]_MCVars

----------------------------------------------------------------------------
(* A request keeps to its budget of attempts, a good answer is served, and *)
(* the state of both parts has its type (fallback.go).                     *)
VerdictIsEarned ==
  IF part = "requests" THEN TypeOK /\ RetryBudget /\ HealthyAnswerIsServed ELSE Books!TypeOK

(* Of Spending: with no statement failed, the log, the daily totals and    *)
(* the windows of the token counter tell of the same requests, but for     *)
(* those of the master key, which are in the log alone, and the key's      *)
(* spend is the sum of its log but for rounding (helpers.go, postgres.go). *)
BooksAgree == part = "books" => Books!BooksAgree /\ Books!SpendIsWithinRounding
=============================================================================
