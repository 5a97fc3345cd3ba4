------------------------- MODULE ChatPipelineProofs -------------------------
(***************************************************************************)
(* The stages of a chat request and its gate.  First the stages: how far   *)
(* a budget can be overspent, for any number of requests at a time, any    *)
(* budget and any prices; whose cached answers and whose values a request  *)
(* gets.  Then the gate.                                                   *)
(*                                                                         *)
(* The argument about the budget weighs what has been spent together with  *)
(* what the requests that have been let in may still cost (Pending).       *)
(* Letting one in happens below the budget, when at most every slot is     *)
(* pending; from then on the sum can only fall, for what a request is      *)
(* charged it is no longer pending.                                        *)
(***************************************************************************)
EXTENDS MCChatPipeline, InductionLemmas, SequenceTheorems, FiniteSetTheorems, TLAPS

(* What a request has at the stages that use it. *)
Staged(c) ==
  /\ c.pc # "idle" => c.input \in Inputs
  /\ c.pc \notin {"idle", "auth", "admit"} => c.alias \in Aliases
  /\ c.pc \in {"read", "forget", "finish"} => c.body \in Forms /\ c.source \in Sources

Shape == TypeOK /\ \A r \in Requests : Staged(call[r])

(* A handler's step replaces the record of its request by another one. *)
Replaces(r, c) == call' = [call EXCEPT ![r] = c]

(* One call replaced by one at a stage of its own leaves all of them so.   *)
LEMMA ReplacedCalls ==
  ASSUME Shape, NEW r \in Requests, NEW c \in Calls, Staged(c), Replaces(r, c)
  PROVE  call' \in [Requests -> Calls] /\ \A q \in Requests : Staged(call'[q])
BY DEF Shape, TypeOK, Replaces

(* Refusing a request and moving it on within the same type. *)
LEMMA FreeIsCall == Free \in Calls /\ Staged(Free)
BY BudgetAssumption DEF Free, Calls, Staged, PCs

(* A call that goes on keeps its type.                                     *)
LEMMA GotoType ==
  ASSUME Shape, NEW r \in Requests, NEW label \in PCs, Goto(r, label),
         Staged([call[r] EXCEPT !.pc = label])
  PROVE  call' \in [Requests -> Calls] /\ \A q \in Requests : Staged(call'[q])
<1>1. [call[r] EXCEPT !.pc = label] \in Calls
  BY DEF Shape, TypeOK, Calls
<1>2. Replaces(r, [call[r] EXCEPT !.pc = label])
  BY DEF Goto, Replaces
<1> HIDE DEF Goto
<1> QED  BY <1>1, <1>2, ReplacedCalls

(* So does one that is refused.                                            *)
LEMMA RefuseType ==
  ASSUME Shape, NEW r \in Requests, Refuse(r)
  PROVE  call' \in [Requests -> Calls] /\ \A q \in Requests : Staged(call'[q])
BY FreeIsCall, ReplacedCalls DEF Refuse, Replaces

----------------------------------------------------------------------------
(* The variables keep their types, whatever the requests do (chat.go).     *)
LEMMA ShapeInvariant == Spec => []Shape
<1> DEFINE CallType == call \in [Requests -> Calls] /\ \A q \in Requests : Staged(call[q])
           SharedType == /\ caching \in BOOLEAN /\ spend \in Nat
                         /\ vault \in [Traces -> Mappings \cup {None}]
                         /\ exact \subseteq Entries
                         /\ semantic \in [Pairs -> Seq(Entries)]
                         /\ \A b \in Pairs : Len(semantic[b]) <= MaxEntries
<1>0. Shape <=> CallType /\ SharedType
  BY DEF Shape, TypeOK
<1>1. Init => Shape
  <2>1. Init => call \in [Requests -> Calls] /\ \A q \in Requests : Staged(call[q])
    BY FreeIsCall DEF Init
  <2> QED  BY <2>1, MaxEntriesAssumption DEF Init, Shape, TypeOK
<1>2. Shape /\ [Next]_vars => Shape'
  <2> SUFFICES ASSUME Shape, [Next]_vars PROVE Shape'
    OBVIOUS
  <2>s. ASSUME UNCHANGED shared PROVE SharedType'
    BY <1>0, <2>s DEF shared
  <2>q. CallType' /\ SharedType' => Shape'
    BY DEF Shape, TypeOK
  <2>c. ASSUME NEW r \in Requests PROVE /\ call[r] \in Calls /\ Staged(call[r])
    BY DEF Shape, TypeOK
  <2>1. ASSUME NEW r \in Requests, Arrive(r) PROVE Shape'
    <3>1. PICK i \in Inputs : Replaces(r, [call[r] EXCEPT !.pc = "auth", !.input = i])
      BY <2>1 DEF Arrive, InputsOf, Replaces
    <3>2. [call[r] EXCEPT !.pc = "auth", !.input = i] \in Calls
      BY <2>c DEF Calls, PCs
    <3>3. Staged([call[r] EXCEPT !.pc = "auth", !.input = i])
      BY <2>c DEF Calls, Staged
    <3>4. CallType'
      BY <3>1, <3>2, <3>3, ReplacedCalls
    <3>5. SharedType'
      BY <1>0, <2>1 DEF Arrive, Traces
    <3> QED  BY <3>4, <3>5 DEF Shape, TypeOK
  <2>2. ASSUME NEW r \in Requests, Authenticate(r) PROVE Shape'
    <3>1. CASE Refuse(r)
      BY <1>0, <2>2, <2>s, <3>1, RefuseType DEF Authenticate, Shape, TypeOK
    <3>2. CASE Goto(r, "admit")
      <4>1. Staged([call[r] EXCEPT !.pc = "admit"])
        BY <2>2, <2>c DEF Authenticate, At, Staged, Calls
      <4> QED  BY <2>2, <2>s, <3>2, <4>1, GotoType DEF Authenticate, Shape, TypeOK, PCs
    <3> QED  BY <2>2, <3>1, <3>2 DEF Authenticate
  <2>3. ASSUME NEW r \in Requests, Admit(r) PROVE Shape'
    <3>1. CASE Refuse(r)
      BY <2>3, <2>s, <3>1, RefuseType DEF Admit, Shape, TypeOK
    <3>2. CASE \E a \in Aliases : Replaces(r, [call[r] EXCEPT !.pc = "redact", !.alias = a])
      <4>1. PICK a \in Aliases : Replaces(r, [call[r] EXCEPT !.pc = "redact", !.alias = a])
        BY <3>2
      <4>2. [call[r] EXCEPT !.pc = "redact", !.alias = a] \in Calls
        BY <2>c DEF Calls, PCs
      <4>3. Staged([call[r] EXCEPT !.pc = "redact", !.alias = a])
        BY <2>3, <2>c DEF Admit, At, Calls, Staged
      <4>4. CallType'
        BY <4>1, <4>2, <4>3, ReplacedCalls
      <4> QED  BY <2>3, <2>s, <4>4 DEF Admit, Shape, TypeOK
    <3> QED  BY <2>3, <3>1, <3>2 DEF Admit, Replaces
  <2>4. ASSUME NEW r \in Requests, Redact(r) PROVE Shape'
    <3> DEFINE new(q) == [call[q] EXCEPT !.pc = IF q = r THEN "gate" ELSE @,
                            !.clashed = @ \/ q \in Rivals(r) \/ (q = r /\ Rivals(r) # {})]
    <3>1. call' = [q \in Requests |-> new(q)] /\ call[r].pc = "redact"
      BY <2>4 DEF Redact, At
    <3>2. ASSUME NEW q \in Requests PROVE new(q) \in Calls
      BY <2>c, <3>2, ZenonT(60) DEF Calls, PCs
    <3>3. ASSUME NEW q \in Requests PROVE Staged(new(q))
      <4>1. /\ new(q).pc = IF q = r THEN "gate" ELSE call[q].pc
            /\ new(q).input = call[q].input /\ new(q).alias = call[q].alias
            /\ new(q).body = call[q].body /\ new(q).source = call[q].source
        BY <2>c, <3>3 DEF Calls
      <4> HIDE DEF new
      <4>2. CASE q = r
        BY <2>c, <3>1, <4>1, <4>2 DEF Staged
      <4>3. CASE q # r
        BY <2>c, <3>3, <4>1, <4>3 DEF Staged
      <4> QED  BY <4>2, <4>3
    <3>4. Prompt(r) \in Tokens /\ Input(r).value \in Values /\ Input(r).trace \in Traces
      BY <2>c, <3>1 DEF Staged, Input, Inputs, Prompt, Tokens
    <3>5. [token |-> Prompt(r), original |-> Input(r).value] \in Mappings
      BY <3>4 DEF Mappings
    <3>6. SharedType'
      BY <1>0, <2>4, <3>4, <3>5 DEF Redact
    <3> HIDE DEF new
    <3> QED  BY <3>1, <3>2, <3>3, <3>6 DEF Shape, TypeOK
  <2>5. ASSUME NEW r \in Requests, Gate(r) PROVE Shape'
    <3>1. CASE Refuse(r)
      BY <2>5, <2>s, <3>1, RefuseType DEF Gate, Shape, TypeOK
    <3>2. CASE \E label \in {"exact", "call"} : Goto(r, label)
      <4>1. PICK label \in {"exact", "call"} : Goto(r, label)
        BY <3>2
      <4>2. Staged([call[r] EXCEPT !.pc = label]) /\ label \in PCs
        BY <2>5, <2>c DEF Gate, At, Staged, Calls, PCs
      <4> QED  BY <2>5, <2>s, <4>1, <4>2, GotoType DEF Gate, Shape, TypeOK
    <3> QED  BY <2>5, <3>1, <3>2 DEF Gate
  <2>h. ASSUME NEW r \in Requests, NEW e \in Entries, NEW cache \in {"exact", "semantic"},
               Hit(r, e, cache), call[r].pc \in {"exact", "semantic"}
        PROVE  CallType'
    <3> DEFINE new == [call[r] EXCEPT !.pc = "settle", !.body = e.body,
                                      !.source = [from |-> cache, by |-> e.by]]
    <3>1. e.body \in Forms /\ [from |-> cache, by |-> e.by] \in Sources
      BY DEF Entries, Sources
    <3>2. new \in Calls
      BY <2>c, <3>1 DEF Calls, PCs
    <3>3. Staged(new)
      BY <2>c, <2>h DEF Calls, Staged
    <3>4. Replaces(r, new)
      BY <2>h DEF Hit, Replaces
    <3> QED  BY <3>2, <3>3, <3>4, ReplacedCalls
  <2>6. ASSUME NEW r \in Requests, LookupExact(r) PROVE Shape'
    <3>1. CASE \E e \in exact : Hit(r, e, "exact")
      <4>1. PICK e \in Entries : Hit(r, e, "exact")
        BY <1>0, <3>1
      <4>2. CallType'
        BY <2>6, <2>h, <4>1 DEF LookupExact, At
      <4> QED  BY <2>6, <2>q, <2>s, <4>2 DEF LookupExact
    <3>2. CASE Goto(r, "semantic")
      <4>1. Staged([call[r] EXCEPT !.pc = "semantic"])
        BY <2>6, <2>c DEF LookupExact, At, Staged, Calls
      <4> QED  BY <2>6, <2>s, <3>2, <4>1, GotoType DEF LookupExact, Shape, TypeOK, PCs
    <3> QED  BY <2>6, <3>1, <3>2 DEF LookupExact
  <2>b. ASSUME NEW r \in Requests, Staged(call[r]),
               call[r].pc \notin {"idle", "auth", "admit", "redact"}
        PROVE  Bucket(r) \in Pairs /\ Prompt(r) \in Tokens /\ Input(r).value \in Values
    BY <2>b DEF Staged, Bucket, Pairs, Orgs, Prompt, Tokens, Input, Inputs
  <2>7. ASSUME NEW r \in Requests, LookupSemantic(r) PROVE Shape'
    <3>1. CASE \E i \in DOMAIN semantic[Bucket(r)] : Hit(r, semantic[Bucket(r)][i], "semantic")
      <4>1. Bucket(r) \in Pairs
        BY <2>7, <2>b, <2>c DEF LookupSemantic, At
      <4>2. \A i \in DOMAIN semantic[Bucket(r)] : semantic[Bucket(r)][i] \in Entries
        BY <1>0, <4>1
      <4>3. PICK e \in Entries : Hit(r, e, "semantic")
        BY <3>1, <4>2
      <4>4. CallType'
        BY <2>7, <2>h, <4>3 DEF LookupSemantic, At
      <4> QED  BY <2>7, <2>q, <2>s, <4>4 DEF LookupSemantic
    <3>2. CASE Goto(r, "call")
      <4>1. Staged([call[r] EXCEPT !.pc = "call"])
        BY <2>7, <2>c DEF LookupSemantic, At, Staged, Calls
      <4> QED  BY <2>7, <2>s, <3>2, <4>1, GotoType DEF LookupSemantic, Shape, TypeOK, PCs
    <3> QED  BY <2>7, <3>1, <3>2 DEF LookupSemantic
  <2>8. ASSUME NEW r \in Requests, Call(r) PROVE Shape'
    <3> DEFINE by     == [bucket |-> Bucket(r), value |-> Input(r).value]
               new(l) == [call[r] EXCEPT !.pc = l, !.body = Prompt(r),
                                         !.source = [from |-> "upstream", by |-> by]]
    <3>1. CASE Refuse(r)
      BY <2>8, <2>s, <3>1, RefuseType DEF Call, Shape, TypeOK
    <3>2. CASE \E l \in {"stream", "read"} : Replaces(r, new(l))
      <4>1. PICK l \in {"stream", "read"} : Replaces(r, new(l))
        BY <3>2
      <4>2. Prompt(r) \in Forms /\ by \in Owners
        BY <2>8, <2>b, <2>c DEF Call, At, Forms, Owners
      <4>3. [from |-> "upstream", by |-> by] \in Sources
        BY <4>2 DEF Sources
      <4> HIDE DEF by
      <4>4. new(l) \in Calls
        BY <2>c, <4>2, <4>3 DEF Calls, PCs
      <4>5. Staged(new(l))
        BY <2>8, <2>c, <4>2, <4>3 DEF Call, At, Calls, Staged
      <4>6. CallType'
        BY <4>1, <4>4, <4>5, ReplacedCalls
      <4> QED  BY <2>8, <2>q, <2>s, <4>6 DEF Call
    <3> QED  BY <2>8, <3>1, <3>2 DEF Call, Replaces
  <2>r. ASSUME NEW r \in Requests, NEW body \in Forms \cup {None}, call[r].input \in Inputs
        PROVE  Recordings(r, body) \subseteq
                 [request : Forms, response : Forms \cup {None}] \cup {None}
    BY <2>r DEF Recordings, Input, Inputs, Forms
  <2>e. ASSUME NEW r \in Requests, NEW body \in Forms \cup {None},
               NEW rec \in Recordings(r, body), NEW c \in 0..Cost,
               call[r].pc \in {"stream", "finish"},
               Replaces(r, [call[r] EXCEPT !.pc = "settle", !.charge = c, !.recording = rec])
        PROVE  CallType'
    <3> DEFINE new == [call[r] EXCEPT !.pc = "settle", !.charge = c, !.recording = rec]
    <3>1. rec \in [request : Forms, response : Forms \cup {None}] \cup {None}
      BY <2>c, <2>e, <2>r DEF Staged
    <3>2. new \in Calls
      BY <2>c, <3>1 DEF Calls, PCs
    <3>3. Staged(new)
      BY <2>c, <2>e DEF Calls, Staged
    <3> QED  BY <2>e, <3>2, <3>3, ReplacedCalls
  <2>9. ASSUME NEW r \in Requests, Stream(r) PROVE Shape'
    <3>0. PICK c \in {0, Cost}, rec \in Recordings(r, None) :
            call' = [call EXCEPT ![r].pc = "settle", ![r].charge = c, ![r].recording = rec]
      BY <2>9 DEF Stream
    <3>1. Replaces(r, [call[r] EXCEPT !.pc = "settle", !.charge = c, !.recording = rec])
      BY <3>0 DEF Replaces
    <3>2. c \in 0..Cost
      BY BudgetAssumption
    <3>3. CallType'
      BY <2>9, <2>e, <3>1, <3>2 DEF Stream, At
    <3> QED  BY <2>9, <2>q, <2>s, <3>3 DEF Stream
  <2>10. ASSUME NEW r \in Requests, RehydrateRead(r) PROVE Shape'
    <3> DEFINE mapping == vault[Input(r).trace]
               new == [call[r] EXCEPT !.pc = "forget", !.body = Restored(@, mapping)]
    <3>1. CASE mapping = None
      <4>1. Staged([call[r] EXCEPT !.pc = "finish"]) /\ Goto(r, "finish")
        BY <2>10, <2>c, <3>1 DEF RehydrateRead, At, Staged, Calls
      <4> QED  BY <2>10, <2>s, <4>1, GotoType DEF RehydrateRead, Shape, TypeOK, PCs
    <3>2. CASE mapping # None
      <4>1. mapping \in Mappings
        BY <1>0, <2>10, <2>c, <3>2 DEF RehydrateRead, At, Staged, Input, Inputs
      <4>2. Restored(call[r].body, mapping) \in Forms
        BY <2>10, <2>c, <4>1 DEF RehydrateRead, At, Staged, Restored, Mappings, Forms
      <4>3. Replaces(r, new)
        BY <2>10, <3>2 DEF RehydrateRead, Replaces
      <4> HIDE DEF mapping
      <4>4. new \in Calls
        BY <2>c, <4>2 DEF Calls, PCs
      <4>5. Staged(new)
        BY <2>10, <2>c, <4>2 DEF RehydrateRead, At, Calls, Staged
      <4>6. CallType'
        BY <4>3, <4>4, <4>5, ReplacedCalls
      <4> QED  BY <2>10, <2>q, <2>s, <4>6 DEF RehydrateRead
    <3> QED  BY <3>1, <3>2
  <2>11. ASSUME NEW r \in Requests, RehydrateForget(r) PROVE Shape'
    <3>1. Staged([call[r] EXCEPT !.pc = "finish"])
      BY <2>11, <2>c DEF RehydrateForget, At, Staged, Calls
    <3>2. CallType'
      BY <2>11, <3>1, GotoType DEF RehydrateForget, PCs
    <3>3. SharedType'
      BY <1>0, <2>11 DEF RehydrateForget
    <3> QED  BY <3>2, <3>3 DEF Shape, TypeOK
  <2>12. ASSUME NEW r \in Requests, Finish(r) PROVE Shape'
    <3>1. PICK rec \in Recordings(r, call[r].body) :
            Replaces(r, [call[r] EXCEPT !.pc = "settle", !.charge = Cost, !.recording = rec])
      BY <2>12 DEF Finish, Replaces
    <3>2. call[r].body \in Forms /\ call[r].source \in Sources
      BY <2>12, <2>c DEF Finish, At, Staged
    <3>3. CallType'
      <4>1. Cost \in 0..Cost /\ call[r].pc = "finish" /\ call[r].body \in Forms \cup {None}
        BY <2>12, <3>2, BudgetAssumption DEF Finish, At
      <4> QED  BY <2>e, <3>1, <4>1
    <3>4. Bucket(r) \in Pairs /\ Entry(r) \in Entries
      BY <2>12, <2>b, <2>c, <3>2 DEF Finish, At, Entry, Entries, Sources
    <3>5. ASSUME NEW ring \in Seq(Entries), Len(ring) <= MaxEntries
          PROVE  Stored(ring, Entry(r)) \in Seq(Entries)
                 /\ Len(Stored(ring, Entry(r))) <= MaxEntries
      BY <3>4, <3>5, MaxEntriesAssumption DEF Stored
    <3>6. SharedType'
      <4>1. semantic[Bucket(r)] \in Seq(Entries) /\ Len(semantic[Bucket(r)]) <= MaxEntries
        BY <1>0, <3>4
      <4>2. CASE caching
        <5>1. exact' \subseteq Entries
          BY <1>0, <2>12, <3>4, <4>2 DEF Finish
        <5>2. semantic' = [semantic EXCEPT ![Bucket(r)] =
                             Stored(semantic[Bucket(r)], Entry(r))]
          BY <2>12, <4>2 DEF Finish
        <5>3. /\ semantic' \in [Pairs -> Seq(Entries)]
              /\ \A b \in Pairs : Len(semantic'[b]) <= MaxEntries
          BY <1>0, <3>4, <3>5, <4>1, <5>2
        <5> QED  BY <1>0, <2>12, <5>1, <5>3 DEF Finish
      <4>3. CASE ~caching
        BY <1>0, <2>12, <4>3 DEF Finish
      <4> QED  BY <4>2, <4>3
    <3> QED  BY <3>3, <3>6 DEF Shape, TypeOK
  <2>13. ASSUME NEW r \in Requests, Settle(r) PROVE Shape'
    <3>1. Refuse(r) /\ UNCHANGED <<caching, vault, exact, semantic>>
      BY <2>13 DEF Settle, Refuse
    <3>2. spend' \in Nat
      BY <1>0, <2>13, <2>c, BudgetAssumption DEF Settle, Calls
    <3> QED  BY <1>0, <3>1, <3>2, RefuseType DEF Shape, TypeOK
  <2>14. CASE Restart
    <3>1. call' = [r \in Requests |-> Free]
      BY <2>14 DEF Restart
    <3>2. CallType'
      BY <3>1, FreeIsCall
    <3>3. SharedType'
      BY <1>0, <2>14, MaxEntriesAssumption DEF Restart
    <3> QED  BY <3>2, <3>3 DEF Shape, TypeOK
  <2>15. CASE UNCHANGED vars
    BY <2>15 DEF vars, Shape, TypeOK
  <2> QED
    BY <2>1, <2>2, <2>3, <2>4, <2>5, <2>6, <2>7, <2>8, <2>9, <2>10, <2>11, <2>12, <2>13,
       <2>14, <2>15
    DEF Next, Handle
<1> QED  BY <1>1, <1>2, PTL DEF Spec

(* The type invariant of the pipeline, for any requests, values, aliases,  *)
(* prices and ring sizes (chat.go:63-590).                                 *)
THEOREM TypeCorrect == Spec => []TypeOK
<1>1. Shape => TypeOK
  BY DEF Shape
<1> QED  BY <1>1, ShapeInvariant, PTL

----------------------------------------------------------------------------
(* The requests that have been let in and may still be charged to the key. *)
Pending == {r \in Requests : call[r].pc \notin {"idle", "auth"} /\ Input(r).key = "limited"}

Most == Budget + Cost * Cardinality(Requests)

Bound ==
  (spend > 0 \/ Pending # {}) => spend + Cost * Cardinality(Pending) < Most

(* Products grow with their factor.                                        *)
LEMMA Times ==
  ASSUME NEW c \in Nat, NEW m \in Nat, NEW n \in Nat, m <= n
  PROVE  c * m <= c * n
<1>1. PICK d \in Nat : n = m + d
  <2>1. n - m \in Nat /\ n = m + (n - m)
    OBVIOUS
  <2> QED  BY <2>1
<1>2. c * n = c * m + c * d /\ c * d \in Nat /\ c * m \in Nat
  BY <1>1
<1> QED  BY <1>2

(* Sets of requests have a number, and more of them cost more.             *)
LEMMA PendingIsFinite ==
  /\ \A S \in SUBSET Requests : IsFiniteSet(S) /\ Cardinality(S) \in Nat
                               /\ Cost * Cardinality(S) \in Nat
                               /\ Cost * Cardinality(S) <= Cost * Cardinality(Requests)
  /\ \A S, T \in SUBSET Requests : S \subseteq T => Cost * Cardinality(S) <= Cost * Cardinality(T)
<1>1. ASSUME NEW T \in SUBSET Requests
      PROVE  IsFiniteSet(T) /\ Cardinality(T) \in Nat
  BY RequestsAssumption, FS_Subset, FS_CardinalityType
<1>2. ASSUME NEW S \in SUBSET Requests, NEW T \in SUBSET Requests, S \subseteq T
      PROVE  Cost * Cardinality(S) <= Cost * Cardinality(T)
  <2>1. Cardinality(S) <= Cardinality(T)
    BY <1>1, <1>2, FS_Subset
  <2> QED  BY <1>1, <2>1, Times, BudgetAssumption
<1>3. ASSUME NEW S \in SUBSET Requests PROVE Cost * Cardinality(S) \in Nat
  BY <1>1, BudgetAssumption
<1> QED  BY <1>1, <1>2, <1>3

(* What shrinks while nothing is charged stays bounded. *)
LEMMA ShrinkingKeepsBound ==
  ASSUME Shape, Bound, spend' = spend, Pending' \subseteq Pending
  PROVE  Bound'
<1>1. Cost * Cardinality(Pending') <= Cost * Cardinality(Pending)
  BY PendingIsFinite DEF Pending
<1>2. /\ Cost * Cardinality(Pending') \in Nat /\ Cost * Cardinality(Pending) \in Nat
      /\ Most \in Nat /\ spend \in Nat
  BY PendingIsFinite, BudgetAssumption DEF Pending, Most, Shape, TypeOK
<1>3. Most' = Most
  BY DEF Most
<1> QED  BY <1>1, <1>2, <1>3 DEF Bound

(* Every step keeps the bound on what a key spends.                        *)
LEMMA BoundStep == Shape /\ Bound /\ [Next]_vars => Bound'
<1> SUFFICES ASSUME Shape, Bound, [Next]_vars PROVE Bound'
  OBVIOUS
<1>t. /\ spend \in Nat /\ Budget \in Nat /\ Cost \in Nat
      /\ call \in [Requests -> Calls] /\ Pending \subseteq Requests
  BY BudgetAssumption DEF Shape, TypeOK, Pending
<1>c. \A r \in Requests : call[r] \in Calls
  BY <1>t
(* A request that moves on with its input is pending if it was. *)
<1>m. ASSUME NEW r \in Requests, UNCHANGED spend, call[r].pc \notin {"idle", "auth"},
             \A q \in Requests \ {r} : call'[q] = call[q],
             call'[r].input = call[r].input \/ call'[r].pc \in {"idle", "auth"}
      PROVE  Bound'
  <2>1. Pending' \subseteq Pending
    BY <1>m DEF Pending, Input
  <2> QED  BY <1>m, <2>1, ShrinkingKeepsBound
<1>f. ASSUME NEW r \in Requests, Refuse(r)
      PROVE  call'[r] = Free /\ \A q \in Requests \ {r} : call'[q] = call[q]
  BY <1>t, <1>f DEF Refuse
<1>g. ASSUME NEW r \in Requests, NEW label \in PCs, Goto(r, label)
      PROVE  call'[r].input = call[r].input /\ \A q \in Requests \ {r} : call'[q] = call[q]
  BY <1>t, <1>c, <1>g DEF Goto, Calls
<1>1. ASSUME NEW r \in Requests, Arrive(r) PROVE Bound'
  <2>1. /\ call'[r].pc = "auth" /\ UNCHANGED spend
        /\ \A q \in Requests \ {r} : call'[q] = call[q]
    BY <1>t, <1>c, <1>1 DEF Arrive, Calls
  <2>2. Pending' \subseteq Pending
    BY <2>1 DEF Pending, Input
  <2> QED  BY <2>1, <2>2, ShrinkingKeepsBound
<1>2. ASSUME NEW r \in Requests, Authenticate(r) PROVE Bound'
  <2>1. UNCHANGED spend /\ call[r].pc = "auth"
    BY <1>2 DEF Authenticate, shared, At
  <2>2. CASE Refuse(r)
    <3>1. Pending' \subseteq Pending
      BY <1>f, <2>2 DEF Pending, Input, Free
    <3> QED  BY <2>1, <3>1, ShrinkingKeepsBound
  <2>3. CASE WithinBudget(r) /\ Goto(r, "admit")
    <3>1. call'[r].input = call[r].input /\ \A q \in Requests \ {r} : call'[q] = call[q]
      BY <1>g, <2>3 DEF PCs
    <3>2. CASE Input(r).key = "limited"
      <4>1. spend < Budget
        BY <2>3, <3>2 DEF WithinBudget
      <4>2. Cost * Cardinality(Pending') \in Nat
            /\ Cost * Cardinality(Pending') <= Cost * Cardinality(Requests)
        BY PendingIsFinite DEF Pending
      <4>3. Cost * Cardinality(Requests) \in Nat
        BY PendingIsFinite
      <4> QED  BY <1>t, <2>1, <4>1, <4>2, <4>3 DEF Bound, Most
    <3>3. CASE Input(r).key # "limited"
      <4>1. Pending' \subseteq Pending
        BY <3>1, <3>3 DEF Pending, Input
      <4> QED  BY <2>1, <4>1, ShrinkingKeepsBound
    <3> QED  BY <3>2, <3>3
  <2> QED  BY <1>2, <2>2, <2>3 DEF Authenticate
<1>3. ASSUME NEW r \in Requests, Admit(r) PROVE Bound'
  <2>1. CASE Refuse(r)
    BY <1>3, <1>f, <1>m, <2>1 DEF Admit, At, shared, Free
  <2>2. ASSUME NEW a \in Aliases,
               call' = [call EXCEPT ![r].pc = "redact", ![r].alias = a]
        PROVE  Bound'
    <3>1. call'[r].input = call[r].input /\ \A q \in Requests \ {r} : call'[q] = call[q]
      BY <1>t, <1>c, <2>2 DEF Calls
    <3> QED  BY <1>3, <1>m, <3>1 DEF Admit, At, shared
  <2> QED  BY <1>3, <2>1, <2>2 DEF Admit
<1>4. ASSUME NEW r \in Requests, Redact(r) PROVE Bound'
  <2>1. \A q \in Requests : /\ call'[q].input = call[q].input
                            /\ call'[q].pc \in {call[q].pc, "gate"}
                            /\ q # r => call'[q].pc = call[q].pc
    BY <1>c, <1>4 DEF Redact, Calls
  <2>2. Pending' \subseteq Pending
    BY <1>4, <2>1 DEF Pending, Input, Redact, At
  <2> QED  BY <1>4, <2>2, ShrinkingKeepsBound DEF Redact
<1>5. ASSUME NEW r \in Requests, Gate(r) PROVE Bound'
  <2>1. CASE Refuse(r)
    BY <1>5, <1>f, <1>m, <2>1 DEF Gate, At, shared, Free
  <2>2. CASE \E label \in {"exact", "call"} : Goto(r, label)
    BY <1>5, <1>g, <1>m, <2>2 DEF Gate, At, shared, PCs
  <2> QED  BY <1>5, <2>1, <2>2 DEF Gate
<1>h. ASSUME NEW r \in Requests, NEW e, NEW cache, Hit(r, e, cache)
      PROVE  call'[r].input = call[r].input /\ \A q \in Requests \ {r} : call'[q] = call[q]
  BY <1>t, <1>c, <1>h DEF Hit, Calls
<1>6. ASSUME NEW r \in Requests, LookupExact(r) PROVE Bound'
  BY <1>6, <1>g, <1>h, <1>m DEF LookupExact, At, shared, PCs
<1>7. ASSUME NEW r \in Requests, LookupSemantic(r) PROVE Bound'
  BY <1>7, <1>g, <1>h, <1>m DEF LookupSemantic, At, shared, PCs
<1>8. ASSUME NEW r \in Requests, Call(r) PROVE Bound'
  <2>1. CASE Refuse(r)
    BY <1>8, <1>f, <1>m, <2>1 DEF Call, At, shared, Free
  <2>2. CASE ~Refuse(r)
    <3>1. call'[r].input = call[r].input /\ \A q \in Requests \ {r} : call'[q] = call[q]
      BY <1>t, <1>c, <1>8, <2>2 DEF Call, Calls
    <3> QED  BY <1>8, <1>m, <3>1 DEF Call, At, shared
  <2> QED  BY <2>1, <2>2
<1>9. ASSUME NEW r \in Requests, Stream(r) PROVE Bound'
  <2>1. call'[r].input = call[r].input /\ \A q \in Requests \ {r} : call'[q] = call[q]
    BY <1>t, <1>c, <1>9 DEF Stream, Calls
  <2> QED  BY <1>9, <1>m, <2>1 DEF Stream, At, shared
<1>10. ASSUME NEW r \in Requests, RehydrateRead(r) PROVE Bound'
  <2>1. call'[r].input = call[r].input /\ \A q \in Requests \ {r} : call'[q] = call[q]
    BY <1>t, <1>c, <1>10 DEF RehydrateRead, Goto, Calls
  <2> QED  BY <1>10, <1>m, <2>1 DEF RehydrateRead, At, shared
<1>11. ASSUME NEW r \in Requests, RehydrateForget(r) PROVE Bound'
  BY <1>11, <1>g, <1>m DEF RehydrateForget, At, PCs
<1>12. ASSUME NEW r \in Requests, Finish(r) PROVE Bound'
  <2>1. call'[r].input = call[r].input /\ \A q \in Requests \ {r} : call'[q] = call[q]
    BY <1>t, <1>c, <1>12 DEF Finish, Calls
  <2> QED  BY <1>12, <1>m, <2>1 DEF Finish, At
<1>13. ASSUME NEW r \in Requests, Settle(r) PROVE Bound'
  <2>1. /\ call[r].pc = "settle" /\ call'[r] = Free
        /\ \A q \in Requests \ {r} : call'[q] = call[q]
    BY <1>t, <1>13 DEF Settle, At
  <2>2. CASE UNCHANGED spend
    BY <1>m, <2>1, <2>2 DEF Free
  <2>3. CASE Input(r).key = "limited" /\ spend' = spend + call[r].charge
    <3>1. r \in Pending /\ Pending' = Pending \ {r}
      BY <2>1, <2>3 DEF Pending, Input, Free
    <3>2. IsFiniteSet(Pending) /\ Cardinality(Pending) \in Nat
      BY <1>t, PendingIsFinite
    <3>3. Cardinality(Pending') = Cardinality(Pending) - 1
      BY <3>1, <3>2, FS_RemoveElement
    <3>4. Cost * Cardinality(Pending') = Cost * Cardinality(Pending) - Cost
      BY <1>t, <3>2, <3>3
    <3>5. call[r].charge \in Nat /\ call[r].charge <= Cost
      BY <1>c, <1>t DEF Calls
    <3>6. spend + Cost * Cardinality(Pending) < Most
      BY <3>1 DEF Bound
    <3>7. Most \in Nat /\ Cost * Cardinality(Pending) \in Nat
      BY <1>t, PendingIsFinite DEF Most
    <3> QED  BY <1>t, <2>3, <3>4, <3>5, <3>6, <3>7 DEF Bound, Most
  <2> QED  BY <1>13, <2>2, <2>3 DEF Settle
<1>14. CASE Restart
  <2>1. Pending' \subseteq Pending /\ UNCHANGED spend
    BY <1>14 DEF Restart, Pending, Free
  <2> QED  BY <2>1, ShrinkingKeepsBound
<1>15. CASE UNCHANGED vars
  <2>1. Pending' \subseteq Pending /\ UNCHANGED spend
    BY <1>15 DEF vars, Pending, Input
  <2> QED  BY <2>1, ShrinkingKeepsBound
<1> QED
  BY <1>1, <1>2, <1>3, <1>4, <1>5, <1>6, <1>7, <1>8, <1>9, <1>10, <1>11, <1>12, <1>13,
     <1>14, <1>15
  DEF Next, Handle

(* Calls in flight overspend a budget by less than one answer for each     *)
(* slot (middleware/auth.go:99, handlers/helpers.go), for every budget,    *)
(* every price and any number of slots.                                    *)
THEOREM BudgetHolds == Spec => []OverspendIsBounded
<1>1. Init => Bound
  <2>1. ASSUME Init PROVE spend = 0 /\ Pending = {}
    BY <2>1 DEF Init, Pending, Free
  <2> QED  BY <2>1 DEF Bound
<1>2. Shape /\ Bound => OverspendIsBounded
  <2> SUFFICES ASSUME Shape, Bound, spend > 0
               PROVE  spend < Budget + Cost * Cardinality(Requests)
    BY DEF OverspendIsBounded
  <2>1. spend \in Nat /\ Most \in Nat /\ Cost * Cardinality(Pending) \in Nat
    BY BudgetAssumption, PendingIsFinite DEF Shape, TypeOK, Most, Pending
  <2> QED  BY <2>1 DEF Bound, Most
<1> QED  BY <1>1, <1>2, BoundStep, ShapeInvariant, PTL DEF Spec

----------------------------------------------------------------------------
(* What a request carries with it is its own: where it came from, what it  *)
(* was let in for and whose values it holds.  Cached entries are where     *)
(* they belong, and what the vault keeps for the only request with a trace *)
(* id is the mapping of that request.                                      *)
Home(c) == <<IF c.input.key = "limited" THEN Org ELSE NoOrg, c.alias>>

Housed(e) == e.by.bucket = e.bucket /\ e.prompt = TokenFor(e.by.value)

Answered(c) ==
  IF c.source.from = "upstream"
  THEN ~c.input.stream /\ ~c.clashed => c.body = c.input.value
  ELSE /\ c.source.by.bucket = Home(c)
       /\ Home(c) \notin Denied
       /\ c.source.from = "exact" => c.source.by.value = c.input.value

Faithful(c) ==
  /\ c.pc \in {"exact", "semantic"} => Home(c) \notin Denied
  /\ c.pc \in {"stream", "read", "forget", "finish"} =>
       /\ c.source.from = "upstream"
       /\ c.source.by.bucket = Home(c)
       /\ c.source.by.value = c.input.value
  /\ c.pc = "stream" => c.input.stream
  /\ c.pc = "read" => c.body = TokenFor(c.input.value)
  /\ c.pc \in {"forget", "finish"} => c.clashed \/ c.body = c.input.value
  /\ c.pc = "settle" => Answered(c)

Holds(c) == c.pc \in {"gate", "exact", "semantic", "call", "read", "forget"}

Own(c) == [token |-> TokenFor(c.input.value), original |-> c.input.value]

HousedRing(ring, b) == \A i \in DOMAIN ring : Housed(ring[i]) /\ ring[i].bucket = b

CachesHoused ==
  /\ \A e \in exact : Housed(e)
  /\ \A b \in Pairs : HousedRing(semantic[b], b)

VaultInv ==
  /\ \A q \in Requests : call[q].pc # "idle" => call[q].input.trace \in {q, Supplied}
  /\ \A p, q \in Requests :
       (p # q /\ Holds(call[p]) /\ Holds(call[q]) /\ call[p].input.trace = call[q].input.trace)
         => call[p].clashed
  /\ \A q \in Requests :
       Holds(call[q]) /\ ~call[q].clashed => vault[call[q].input.trace] = Own(call[q])

FaithInv == CachesHoused /\ VaultInv /\ \A q \in Requests : Faithful(call[q])

(* The successors of a request's record in the steps that leave the vault. *)
Continues(c, d) ==
  \/ d = Free
  \/ /\ d.input = c.input /\ d.clashed = c.clashed
     /\ Holds(d) => Holds(c)
     /\ c.pc # "idle"

(* A call that goes on with the vault as it is keeps its placeholders.     *)
LEMMA VaultIsLeft ==
  ASSUME Shape, VaultInv, NEW r \in Requests, NEW d, Replaces(r, d), Continues(call[r], d), vault' = vault
  PROVE  VaultInv'
<1>1. call'[r] = d /\ \A q \in Requests \ {r} : call'[q] = call[q]
  BY DEF Replaces, Shape, TypeOK
<1>2. Free.pc = "idle" /\ ~Holds(Free)
  BY DEF Free, Holds
<1>3. \A q \in Requests : \/ call'[q].pc = "idle" /\ ~Holds(call'[q])
                          \/ /\ call'[q].input = call[q].input /\ call'[q].clashed = call[q].clashed
                             /\ (Holds(call'[q]) => Holds(call[q])) /\ (call'[q].pc # "idle" => call[q].pc # "idle")
  BY <1>1, <1>2 DEF Continues
<1>4. \A q \in Requests : call'[q].pc # "idle" => call'[q].input.trace \in {q, Supplied}
  BY <1>3 DEF VaultInv
<1>5. \A q \in Requests : Holds(call'[q]) => /\ Holds(call[q]) /\ call'[q].input = call[q].input
                                             /\ call'[q].clashed = call[q].clashed
  BY <1>3
<1>6. ASSUME NEW p \in Requests, NEW q \in Requests, p # q, Holds(call'[p]), Holds(call'[q]),
             call'[p].input.trace = call'[q].input.trace
      PROVE  call'[p].clashed
  BY <1>5, <1>6 DEF VaultInv
<1>7. ASSUME NEW q \in Requests, Holds(call'[q]), ~call'[q].clashed
      PROVE  vault'[call'[q].input.trace] = Own(call'[q])
  BY <1>5, <1>7 DEF VaultInv, Own
<1> QED  BY <1>4, <1>6, <1>7 DEF VaultInv, Holds

(* A handler's step that leaves the vault and the caches.                  *)
LEMMA RecordMoves ==
  ASSUME Shape, FaithInv, NEW r \in Requests, NEW d, Replaces(r, d), Continues(call[r], d), Faithful(d),
         vault' = vault, exact' = exact, semantic' = semantic
  PROVE  FaithInv'
<1>1. VaultInv'
  BY VaultIsLeft DEF FaithInv
<1>2. \A q \in Requests : Faithful(call'[q])
  BY DEF Replaces, Shape, TypeOK, FaithInv
<1>3. CachesHoused'
  BY DEF CachesHoused, HousedRing, Housed, FaithInv
<1> QED  BY <1>1, <1>2, <1>3 DEF FaithInv

(* A free call holds nothing.                                              *)
LEMMA FreeIsFaithful == ~Holds(Free) /\ Free.pc = "idle" /\ Faithful(Free)
BY DEF Free, Holds, Faithful

(* A refused call is faithful.                                             *)
LEMMA RefusalIsFaithful ==
  ASSUME Shape, FaithInv, NEW r \in Requests, Refuse(r), UNCHANGED shared
  PROVE  FaithInv'
BY FreeIsFaithful, RecordMoves DEF Refuse, Replaces, Continues, shared

(* A call that moves on with nothing new to hold stays faithful.           *)
LEMMA MoveIsFaithful ==
  ASSUME Shape, FaithInv, NEW r \in Requests, NEW label \in PCs, Goto(r, label), UNCHANGED shared,
         call[r].pc # "idle", Faithful([call[r] EXCEPT !.pc = label]),
         Holds([call[r] EXCEPT !.pc = label]) => Holds(call[r])
  PROVE  FaithInv'
<1> DEFINE d == [call[r] EXCEPT !.pc = label]
<1>1. Replaces(r, d)
  BY DEF Goto, Replaces
<1>2. call[r] \in Calls
  BY DEF Shape, TypeOK
<1>3. d.input = call[r].input /\ d.clashed = call[r].clashed
  BY <1>2 DEF Calls
<1>4. Continues(call[r], d)
  BY <1>3 DEF Continues
<1> HIDE DEF d
<1> QED  BY <1>1, <1>4, RecordMoves DEF shared, d

(* Every step keeps the calls faithful.                                    *)
LEMMA FaithStep == Shape /\ FaithInv /\ [Next]_vars => FaithInv'
<1> SUFFICES ASSUME Shape, FaithInv, [Next]_vars PROVE FaithInv'
  OBVIOUS
<1>c. ASSUME NEW r \in Requests
      PROVE  call[r] \in Calls /\ Staged(call[r]) /\ Faithful(call[r])
  BY DEF Shape, TypeOK, FaithInv
<1>h. ASSUME NEW r \in Requests
      PROVE  /\ Home(call[r]) = Bucket(r) /\ Prompt(r) = TokenFor(call[r].input.value)
             /\ Input(r) = call[r].input
  BY DEF Home, Bucket, Prompt, Input
<1>1. ASSUME NEW r \in Requests, Arrive(r) PROVE FaithInv'
  <2>1. PICK i \in InputsOf(r) : Replaces(r, [call[r] EXCEPT !.pc = "auth", !.input = i])
    BY <1>1 DEF Arrive, Replaces
  <2> DEFINE d == [call[r] EXCEPT !.pc = "auth", !.input = i]
  <2>2. d.pc = "auth" /\ d.input = i /\ i.trace \in {r, Supplied}
    BY <1>c DEF Calls, InputsOf
  <2>3. Replaces(r, d)
    BY <2>1
  <2> HIDE DEF d
  <2>4. call'[r] = d /\ \A q \in Requests \ {r} : call'[q] = call[q]
    BY <2>3 DEF Replaces, Shape, TypeOK
  <2>5. ~Holds(d) /\ Faithful(d)
    BY <2>2 DEF Holds, Faithful
  <2>6. vault' = [vault EXCEPT ![r] = None] /\ UNCHANGED <<exact, semantic>>
    BY <1>1 DEF Arrive
  <2>7. \A q \in Requests : call'[q].pc # "idle" => call'[q].input.trace \in {q, Supplied}
    BY <2>2, <2>4 DEF FaithInv, VaultInv
  <2>8. ASSUME NEW p \in Requests, NEW q \in Requests, p # q, Holds(call'[p]), Holds(call'[q]),
               call'[p].input.trace = call'[q].input.trace
        PROVE  call'[p].clashed
    BY <2>4, <2>5, <2>8 DEF FaithInv, VaultInv
  <2>9. ASSUME NEW q \in Requests, Holds(call'[q]), ~call'[q].clashed
        PROVE  vault'[call'[q].input.trace] = Own(call'[q])
    <3>1. q # r /\ call'[q] = call[q]
      BY <2>4, <2>5, <2>9
    <3>2. vault[call[q].input.trace] = Own(call[q]) /\ call[q].pc # "idle"
      BY <2>9, <3>1 DEF FaithInv, VaultInv, Holds
    <3>3. call[q].input.trace # r
      BY <3>1, <3>2, SuppliedAssumption DEF FaithInv, VaultInv
    <3>4. vault'[call[q].input.trace] = vault[call[q].input.trace]
      BY <1>c, <2>6, <3>2, <3>3 DEF Shape, TypeOK, Staged, Inputs
    <3> QED  BY <3>1, <3>2, <3>4
  <2>10. VaultInv'
    BY <2>7, <2>8, <2>9 DEF VaultInv, Holds, Own
  <2>11. \A q \in Requests : Faithful(call'[q])
    BY <2>4, <2>5 DEF FaithInv
  <2>12. CachesHoused'
    BY <2>6 DEF FaithInv, CachesHoused, HousedRing, Housed
  <2> QED  BY <2>10, <2>11, <2>12 DEF FaithInv
<1>2. ASSUME NEW r \in Requests, Authenticate(r) PROVE FaithInv'
  <2>1. CASE Refuse(r)
    BY <1>2, <2>1, RefusalIsFaithful DEF Authenticate
  <2>2. CASE Goto(r, "admit")
    <3>1. Faithful([call[r] EXCEPT !.pc = "admit"]) /\ ~Holds([call[r] EXCEPT !.pc = "admit"])
      BY <1>c DEF Calls, Faithful, Holds
    <3> QED  BY <1>2, <2>2, <3>1, MoveIsFaithful DEF Authenticate, At, PCs
  <2> QED  BY <1>2, <2>1, <2>2 DEF Authenticate
<1>3. ASSUME NEW r \in Requests, Admit(r) PROVE FaithInv'
  <2>1. CASE Refuse(r)
    BY <1>3, <2>1, RefusalIsFaithful DEF Admit
  <2>2. ASSUME NEW a \in Aliases, Replaces(r, [call[r] EXCEPT !.pc = "redact", !.alias = a])
        PROVE  FaithInv'
    <3> DEFINE d == [call[r] EXCEPT !.pc = "redact", !.alias = a]
    <3>1. d.pc = "redact" /\ d.input = call[r].input /\ d.clashed = call[r].clashed
      BY <1>c DEF Calls
    <3>2. Replaces(r, d)
      BY <2>2
    <3> HIDE DEF d
    <3>3. Faithful(d) /\ Continues(call[r], d)
      BY <1>3, <3>1 DEF Faithful, Continues, Holds, Admit, At
    <3> QED  BY <1>3, <3>2, <3>3, RecordMoves DEF Admit, shared
  <2> QED  BY <1>3, <2>1, <2>2 DEF Admit, Replaces
<1>4. ASSUME NEW r \in Requests, Redact(r) PROVE FaithInv'
  <2> DEFINE new(q) == [call[q] EXCEPT !.pc = IF q = r THEN "gate" ELSE @,
                          !.clashed = @ \/ q \in Rivals(r) \/ (q = r /\ Rivals(r) # {})]
  <2>1. call' = [q \in Requests |-> new(q)] /\ call[r].pc = "redact"
    BY <1>4 DEF Redact, At
  <2>2. ASSUME NEW q \in Requests
        PROVE  /\ call'[q].pc = IF q = r THEN "gate" ELSE call[q].pc
               /\ call'[q].input = call[q].input /\ call'[q].alias = call[q].alias
               /\ call'[q].body = call[q].body /\ call'[q].source = call[q].source
    BY <1>c, <2>1 DEF Calls
  <2>3. ASSUME NEW q \in Requests
        PROVE  /\ call[q].clashed => call'[q].clashed
               /\ q \in Rivals(r) => call'[q].clashed
               /\ q = r /\ Rivals(r) # {} => call'[q].clashed
    <3>1. call'[q].clashed = (call[q].clashed \/ q \in Rivals(r) \/ (q = r /\ Rivals(r) # {}))
      BY <1>c, <2>1 DEF Calls
    <3>2. call[q].clashed \in BOOLEAN
      BY <1>c DEF Calls
    <3> QED  BY <3>1, <3>2
  <2> HIDE DEF new
  <2>4. vault' = [vault EXCEPT ![call[r].input.trace] = Own(call[r])] /\ UNCHANGED <<exact, semantic>>
    BY <1>4, <1>h DEF Redact, Own
  <2>5. ASSUME NEW q \in Requests PROVE Faithful(call'[q])
    <3>1. Home(call'[q]) = Home(call[q])
      BY <2>2 DEF Home
    <3>2. CASE q = r
      BY <2>2, <3>2 DEF Faithful
    <3>3. CASE q # r
      BY <1>c, <2>2, <2>3, <3>1, <3>3 DEF Faithful, Answered
    <3> QED  BY <3>2, <3>3
  <2>6. \A q \in Requests \ {r} : Holds(call'[q]) => Holds(call[q])
    BY <2>2 DEF Holds
  <2>r. \A q \in Requests \ {r} : Holds(call[q]) /\ call[q].input.trace = call[r].input.trace => q \in Rivals(r)
    BY DEF Rivals, UsesVault, Holds, Input
  <2>7. \A q \in Requests : call'[q].pc # "idle" => call'[q].input.trace \in {q, Supplied}
    BY <2>1, <2>2 DEF FaithInv, VaultInv
  <2>8. ASSUME NEW p \in Requests, NEW q \in Requests, p # q, Holds(call'[p]), Holds(call'[q]),
               call'[p].input.trace = call'[q].input.trace
        PROVE  call'[p].clashed
    <3>1. CASE p = r
      BY <2>2, <2>3, <2>6, <2>r, <2>8, <3>1
    <3>2. CASE q = r
      BY <2>2, <2>3, <2>6, <2>r, <2>8, <3>2
    <3>3. CASE p # r /\ q # r
      BY <2>2, <2>3, <2>6, <2>8, <3>3 DEF FaithInv, VaultInv
    <3> QED  BY <3>1, <3>2, <3>3
  <2>9. ASSUME NEW q \in Requests, Holds(call'[q]), ~call'[q].clashed
        PROVE  vault'[call'[q].input.trace] = Own(call'[q])
    <3>1. Own(call'[q]) = Own(call[q]) /\ call'[q].input.trace = call[q].input.trace
      BY <2>2 DEF Own
    <3>2. call[r].input.trace \in Traces
      BY <1>c, <2>1 DEF Staged, Inputs
    <3>3. CASE q = r
      BY <2>4, <3>1, <3>2, <3>3 DEF Shape, TypeOK
    <3>4. CASE q # r
      <4>1. Holds(call[q]) /\ ~call[q].clashed /\ call[q].input.trace # call[r].input.trace
        BY <2>3, <2>6, <2>9, <2>r, <3>4
      <4>2. vault[call[q].input.trace] = Own(call[q])
        BY <4>1 DEF FaithInv, VaultInv
      <4>3. call[q].input.trace \in Traces
        BY <1>c, <4>1 DEF Staged, Inputs, Holds
      <4> QED  BY <2>4, <3>1, <4>1, <4>2, <4>3 DEF Shape, TypeOK
    <3> QED  BY <3>3, <3>4
  <2>10. VaultInv'
    BY <2>7, <2>8, <2>9 DEF VaultInv, Holds, Own
  <2>11. CachesHoused'
    BY <2>4 DEF FaithInv, CachesHoused, HousedRing, Housed
  <2> QED  BY <2>5, <2>10, <2>11 DEF FaithInv
<1>5. ASSUME NEW r \in Requests, Gate(r) PROVE FaithInv'
  <2>1. CASE Refuse(r)
    BY <1>5, <2>1, RefusalIsFaithful DEF Gate
  <2>2. ASSUME NEW label \in {"exact", "call"}, PolicyAllows(r), Goto(r, label) PROVE FaithInv'
    <3> DEFINE d == [call[r] EXCEPT !.pc = label]
    <3>1. d.pc = label /\ d.input = call[r].input /\ d.alias = call[r].alias
      BY <1>c DEF Calls
    <3>2. Home(d) \notin Denied
      BY <1>h, <2>2, <3>1 DEF Home, PolicyAllows
    <3> HIDE DEF d
    <3>3. Faithful(d) /\ Holds(call[r])
      BY <1>5, <3>1, <3>2 DEF Faithful, Holds, Gate, At
    <3> QED  BY <1>5, <2>2, <3>3, MoveIsFaithful DEF Gate, At, PCs, d
  <2> QED  BY <1>5, <2>1, <2>2 DEF Gate
<1>e. ASSUME NEW r \in Requests, NEW e, NEW cache \in {"exact", "semantic"}, UNCHANGED shared,
             Hit(r, e, cache), call[r].pc = cache, e.by.bucket = Bucket(r),
             cache = "exact" => e.by.value = Input(r).value
      PROVE  FaithInv'
  <2> DEFINE d == [call[r] EXCEPT !.pc = "settle", !.body = e.body, !.source = [from |-> cache, by |-> e.by]]
  <2>1. /\ d.pc = "settle" /\ d.input = call[r].input /\ d.alias = call[r].alias /\ d.clashed = call[r].clashed
        /\ d.source.from = cache /\ d.source.by = e.by
    BY <1>c DEF Calls
  <2>2. Replaces(r, d)
    BY <1>e DEF Hit, Replaces
  <2> HIDE DEF d
  <2>3. Home(d) = Bucket(r) /\ Home(call[r]) = Bucket(r)
    BY <1>h, <2>1 DEF Home
  <2>4. Home(d) \notin Denied
    BY <1>c, <1>e, <2>3 DEF Faithful
  <2>5. Faithful(d) /\ Continues(call[r], d)
    BY <1>e, <1>h, <2>1, <2>3, <2>4 DEF Faithful, Answered, Continues, Holds
  <2> QED  BY <1>e, <2>2, <2>5, RecordMoves DEF shared
<1>6. ASSUME NEW r \in Requests, LookupExact(r) PROVE FaithInv'
  <2>1. ASSUME NEW e \in exact, ExactKey(e) = KeyOf(r), Hit(r, e, "exact") PROVE FaithInv'
    <3>1. e.bucket = Bucket(r) /\ e.prompt = TokenFor(Input(r).value)
      BY <2>1 DEF ExactKey, KeyOf, Prompt
    <3>2. e.by.bucket = Bucket(r) /\ e.prompt = TokenFor(e.by.value)
      BY <3>1 DEF FaithInv, CachesHoused, HousedRing, Housed
    <3>3. e.by.value = Input(r).value
      BY <3>1, <3>2 DEF TokenFor
    <3> QED  BY <1>6, <1>e, <2>1, <3>2, <3>3 DEF LookupExact, At
  <2>2. CASE Goto(r, "semantic")
    <3> DEFINE d == [call[r] EXCEPT !.pc = "semantic"]
    <3>1. d.pc = "semantic" /\ Home(d) = Home(call[r])
      BY <1>c DEF Calls, Home
    <3> HIDE DEF d
    <3>2. Faithful(d) /\ Holds(call[r])
      BY <1>6, <1>c, <3>1 DEF Faithful, Holds, LookupExact, At
    <3> QED  BY <1>6, <2>2, <3>2, MoveIsFaithful DEF LookupExact, At, PCs, d
  <2> QED  BY <1>6, <2>1, <2>2 DEF LookupExact
<1>7. ASSUME NEW r \in Requests, LookupSemantic(r) PROVE FaithInv'
  <2>1. ASSUME NEW i \in DOMAIN semantic[Bucket(r)], Hit(r, semantic[Bucket(r)][i], "semantic")
        PROVE  FaithInv'
    <3>1. Bucket(r) \in Pairs
      BY <1>7, <1>c DEF LookupSemantic, At, Staged, Bucket, Pairs, Orgs, Input, Inputs
    <3>2. semantic[Bucket(r)][i].by.bucket = Bucket(r)
      BY <3>1 DEF FaithInv, CachesHoused, HousedRing, HousedRing, Housed
    <3> QED  BY <1>7, <1>e, <2>1, <3>2 DEF LookupSemantic, At
  <2>2. CASE Goto(r, "call")
    <3>1. Faithful([call[r] EXCEPT !.pc = "call"])
      BY <1>c DEF Calls, Faithful
    <3>2. Holds(call[r])
      BY <1>7 DEF Holds, LookupSemantic, At
    <3> QED  BY <1>7, <2>2, <3>1, <3>2, MoveIsFaithful DEF LookupSemantic, At, PCs
  <2> QED  BY <1>7, <2>1, <2>2 DEF LookupSemantic
<1>8. ASSUME NEW r \in Requests, Call(r) PROVE FaithInv'
  <2>1. CASE Refuse(r)
    BY <1>8, <2>1, RefusalIsFaithful DEF Call
  <2> DEFINE by   == [bucket |-> Bucket(r), value |-> Input(r).value]
             next == IF Input(r).stream THEN "stream" ELSE "read"
             d    == [call[r] EXCEPT !.pc = next, !.body = Prompt(r),
                                     !.source = [from |-> "upstream", by |-> by]]
  <2>2. CASE Replaces(r, d)
    <3>1. /\ d.pc = next /\ d.input = call[r].input /\ d.alias = call[r].alias /\ d.clashed = call[r].clashed
          /\ d.body = Prompt(r) /\ d.source.from = "upstream" /\ d.source.by = by
      BY <1>c DEF Calls
    <3>2. by.bucket = Bucket(r) /\ by.value = Input(r).value
      OBVIOUS
    <3> HIDE DEF d, by
    <3>3. Home(d) = Bucket(r)
      BY <1>h, <3>1 DEF Home
    <3>4. Faithful(d) /\ Continues(call[r], d)
      BY <1>8, <1>h, <3>1, <3>2, <3>3 DEF Faithful, Continues, Holds, Call, At
    <3> QED  BY <1>8, <2>2, <3>4, RecordMoves DEF Call, shared
  <2> QED  BY <1>8, <2>1, <2>2 DEF Call, Replaces
<1>9. ASSUME NEW r \in Requests, Stream(r) PROVE FaithInv'
  <2>0. PICK c \in {0, Cost}, rec \in Recordings(r, None) :
          call' = [call EXCEPT ![r].pc = "settle", ![r].charge = c, ![r].recording = rec]
    BY <1>9 DEF Stream
  <2>1. Replaces(r, [call[r] EXCEPT !.pc = "settle", !.charge = c, !.recording = rec])
    BY <2>0 DEF Replaces
  <2> DEFINE d == [call[r] EXCEPT !.pc = "settle", !.charge = c, !.recording = rec]
  <2>2. d.pc = "settle" /\ d.input = call[r].input /\ d.clashed = call[r].clashed /\ d.source = call[r].source
    BY <1>c DEF Calls
  <2>3. Replaces(r, d)
    BY <2>1
  <2> HIDE DEF d
  <2>4. Faithful(d) /\ Continues(call[r], d)
    BY <1>9, <1>c, <2>2 DEF Faithful, Answered, Continues, Holds, Stream, At
  <2> QED  BY <1>9, <2>3, <2>4, RecordMoves DEF Stream, shared
<1>10. ASSUME NEW r \in Requests, RehydrateRead(r) PROVE FaithInv'
  <2> DEFINE mapping == vault[call[r].input.trace]
  <2>0. Holds(call[r]) /\ call[r].pc = "read"
    BY <1>10 DEF RehydrateRead, At, Holds
  <2>1. call[r].clashed \/ mapping = Own(call[r])
    BY <2>0 DEF FaithInv, VaultInv
  <2>2. CASE mapping = None
    <3>1. Own(call[r]) \in Mappings
      BY <1>c, <2>0 DEF Staged, Inputs, Own, Mappings, Tokens
    <3>2. call[r].clashed /\ Goto(r, "finish")
      BY <1>10, <1>h, <2>1, <2>2, <3>1, NoneAssumption DEF RehydrateRead
    <3> DEFINE d == [call[r] EXCEPT !.pc = "finish"]
    <3>3. /\ d.pc = "finish" /\ Home(d) = Home(call[r]) /\ d.input = call[r].input
          /\ d.clashed = call[r].clashed /\ d.source = call[r].source
      BY <1>c DEF Calls, Home
    <3> HIDE DEF d
    <3>4. Faithful(d)
      BY <1>c, <2>0, <3>2, <3>3 DEF Faithful
    <3> QED  BY <1>10, <2>0, <3>2, <3>4, MoveIsFaithful DEF RehydrateRead, PCs, d
  <2>3. CASE mapping # None
    <3> DEFINE d == [call[r] EXCEPT !.pc = "forget", !.body = Restored(@, mapping)]
    <3>1. Replaces(r, d)
      BY <1>10, <1>h, <2>3 DEF RehydrateRead, Replaces
    <3>2. /\ d.pc = "forget" /\ Home(d) = Home(call[r]) /\ d.input = call[r].input
          /\ d.clashed = call[r].clashed /\ d.source = call[r].source
          /\ d.body = Restored(call[r].body, mapping)
      BY <1>c DEF Calls, Home
    <3>3. mapping = Own(call[r]) => Restored(call[r].body, mapping) = call[r].input.value
      BY <1>c, <2>0 DEF Restored, Own, Faithful
    <3> HIDE DEF d, mapping
    <3>4. Faithful(d) /\ Continues(call[r], d)
      BY <1>c, <2>0, <2>1, <3>2, <3>3 DEF Faithful, Continues, Holds
    <3> QED  BY <1>10, <3>1, <3>4, RecordMoves DEF RehydrateRead, shared
  <2> QED  BY <2>2, <2>3
<1>11. ASSUME NEW r \in Requests, RehydrateForget(r) PROVE FaithInv'
  <2> DEFINE d == [call[r] EXCEPT !.pc = "finish"]
  <2>1. Replaces(r, d) /\ call[r].pc = "forget" /\ Holds(call[r])
    BY <1>11 DEF RehydrateForget, Goto, Replaces, At, Holds
  <2>2. /\ d.pc = "finish" /\ Home(d) = Home(call[r]) /\ d.input = call[r].input
        /\ d.clashed = call[r].clashed /\ d.source = call[r].source /\ d.body = call[r].body
    BY <1>c DEF Calls, Home
  <2> HIDE DEF d
  <2>3. call'[r] = d /\ \A q \in Requests \ {r} : call'[q] = call[q]
    BY <2>1 DEF Replaces, Shape, TypeOK
  <2>4. Faithful(d) /\ ~Holds(d)
    BY <1>c, <2>1, <2>2 DEF Faithful, Holds
  <2>5. vault' = [vault EXCEPT ![call[r].input.trace] = None] /\ UNCHANGED <<exact, semantic>>
    BY <1>11, <1>h DEF RehydrateForget
  <2>6. \A q \in Requests : call'[q].pc # "idle" => call'[q].input.trace \in {q, Supplied}
    BY <2>1, <2>2, <2>3 DEF FaithInv, VaultInv
  <2>7. ASSUME NEW p \in Requests, NEW q \in Requests, p # q, Holds(call'[p]), Holds(call'[q]),
               call'[p].input.trace = call'[q].input.trace
        PROVE  call'[p].clashed
    BY <2>3, <2>4, <2>7 DEF FaithInv, VaultInv
  <2>8. ASSUME NEW q \in Requests, Holds(call'[q]), ~call'[q].clashed
        PROVE  vault'[call'[q].input.trace] = Own(call'[q])
    <3>1. q # r /\ call'[q] = call[q]
      BY <2>3, <2>4, <2>8
    <3>2. vault[call[q].input.trace] = Own(call[q]) /\ call[q].input.trace # call[r].input.trace
      BY <2>1, <2>8, <3>1 DEF FaithInv, VaultInv
    <3>3. call[q].input.trace \in Traces
      BY <1>c, <2>8, <3>1 DEF Staged, Inputs, Holds
    <3> QED  BY <2>5, <3>1, <3>2, <3>3 DEF Shape, TypeOK
  <2>9. VaultInv'
    BY <2>6, <2>7, <2>8 DEF VaultInv, Holds, Own
  <2>10. \A q \in Requests : Faithful(call'[q])
    BY <2>3, <2>4 DEF FaithInv
  <2>11. CachesHoused'
    BY <2>5 DEF FaithInv, CachesHoused, HousedRing, Housed
  <2> QED  BY <2>9, <2>10, <2>11 DEF FaithInv
<1>12. ASSUME NEW r \in Requests, Finish(r) PROVE FaithInv'
  <2>1. PICK rec \in Recordings(r, call[r].body) :
          Replaces(r, [call[r] EXCEPT !.pc = "settle", !.charge = Cost, !.recording = rec])
    BY <1>12 DEF Finish, Replaces
  <2> DEFINE d == [call[r] EXCEPT !.pc = "settle", !.charge = Cost, !.recording = rec]
  <2>2. /\ d.pc = "settle" /\ d.input = call[r].input /\ d.clashed = call[r].clashed
        /\ d.source = call[r].source /\ d.body = call[r].body
    BY <1>c DEF Calls
  <2>3. Replaces(r, d) /\ call[r].pc = "finish"
    BY <1>12, <2>1 DEF Finish, At
  <2> HIDE DEF d
  <2>4. Faithful(d) /\ Continues(call[r], d)
    BY <1>c, <2>2, <2>3 DEF Faithful, Answered, Continues, Holds
  <2>5. VaultInv' /\ \A q \in Requests : Faithful(call'[q])
    <3>1. VaultInv'
      BY <1>12, <2>3, <2>4, VaultIsLeft DEF Finish, FaithInv
    <3> QED  BY <2>3, <2>4, <3>1 DEF Replaces, Shape, TypeOK, FaithInv
  <2>6. CachesHoused'
    <3>1. Housed(Entry(r)) /\ Entry(r).bucket = Bucket(r) /\ Bucket(r) \in Pairs
      <4>1. Bucket(r) \in Pairs
        BY <1>c, <2>3 DEF Staged, Bucket, Pairs, Orgs, Input, Inputs
      <4>2. call[r].source.by.bucket = Bucket(r) /\ call[r].source.by.value = Input(r).value
        BY <1>c, <1>h, <2>3 DEF Faithful
      <4> QED  BY <4>1, <4>2 DEF Housed, Entry, Prompt
    <3>2. CASE caching
      <4>1. \A e \in exact' : Housed(e)
        BY <1>12, <3>1, <3>2 DEF Finish, FaithInv, CachesHoused, HousedRing, Housed
      <4>2. semantic' = [semantic EXCEPT ![Bucket(r)] = Stored(semantic[Bucket(r)], Entry(r))]
        BY <1>12, <3>2 DEF Finish
      <4>3. ASSUME NEW ring \in Seq(Entries), NEW b,
                   HousedRing(ring, b), NEW e \in Entries, Housed(e), e.bucket = b
            PROVE  HousedRing(Stored(ring, e), b)
        <5>1. CASE Len(ring) < MaxEntries
          BY <4>3, <5>1 DEF Stored, HousedRing
        <5>2. CASE ~(Len(ring) < MaxEntries)
          <6>1. ring # <<>> /\ Len(ring) \in Nat
            BY <5>2, MaxEntriesAssumption
          <6>2. /\ Tail(ring) \in Seq(Entries) /\ Len(Tail(ring)) = Len(ring) - 1
                /\ \A i \in 1..Len(Tail(ring)) : Tail(ring)[i] = ring[i + 1] /\ i + 1 \in DOMAIN ring
            BY <6>1
          <6> QED  BY <4>3, <5>2, <6>1, <6>2 DEF Stored, HousedRing
        <5> QED  BY <5>1, <5>2
      <4>4. Entry(r) \in Entries
        BY <1>c, <2>3, <3>1 DEF Entry, Entries, Staged, Sources, Prompt, Tokens, Input, Inputs
      <4>5. \A b \in Pairs : HousedRing(semantic'[b], b)
        <5>1. ASSUME NEW b \in Pairs, b # Bucket(r)
              PROVE  semantic'[b] = semantic[b]
          BY <4>2, <5>1 DEF Shape, TypeOK
        <5>2. semantic'[Bucket(r)] = Stored(semantic[Bucket(r)], Entry(r))
          BY <3>1, <4>2 DEF Shape, TypeOK
        <5>3. semantic[Bucket(r)] \in Seq(Entries) /\ HousedRing(semantic[Bucket(r)], Bucket(r))
          BY <3>1 DEF Shape, TypeOK, FaithInv, CachesHoused, HousedRing, Housed
        <5>4. HousedRing(semantic'[Bucket(r)], Bucket(r))
          BY <3>1, <4>3, <4>4, <5>2, <5>3
        <5> QED  BY <5>1, <5>4 DEF FaithInv, CachesHoused, HousedRing, Housed
      <4> QED  BY <4>1, <4>5 DEF CachesHoused, HousedRing, Housed
    <3>3. CASE ~caching
      BY <1>12, <3>3 DEF Finish, FaithInv, CachesHoused, HousedRing, Housed
    <3> QED  BY <3>2, <3>3
  <2> QED  BY <2>5, <2>6 DEF FaithInv
<1>13. ASSUME NEW r \in Requests, Settle(r) PROVE FaithInv'
  BY <1>13, FreeIsFaithful, RecordMoves DEF Settle, Replaces, Continues
<1>14. CASE Restart
  <2>1. \A q \in Requests : call'[q] = Free
    BY <1>14 DEF Restart
  <2>2. VaultInv' /\ \A q \in Requests : Faithful(call'[q])
    BY <2>1, FreeIsFaithful DEF VaultInv, Holds
  <2>3. CachesHoused'
    BY <1>14 DEF Restart, FaithInv, CachesHoused, HousedRing, Housed
  <2> QED  BY <2>2, <2>3 DEF FaithInv
<1>15. CASE UNCHANGED vars
  BY <1>15 DEF vars, FaithInv, VaultInv, CachesHoused, HousedRing
<1> QED
  BY <1>1, <1>2, <1>3, <1>4, <1>5, <1>6, <1>7, <1>8, <1>9, <1>10, <1>11, <1>12, <1>13,
     <1>14, <1>15
  DEF Next, Handle

(* Calls are faithful always.                                              *)
LEMMA FaithInvariant == Spec => []FaithInv
<1>1. Init => FaithInv
  BY FreeIsFaithful DEF Init, FaithInv, VaultInv, CachesHoused, HousedRing
<1> QED  BY <1>1, FaithStep, ShapeInvariant, PTL DEF Spec

(* A cached answer stays with the org and the alias it was made for, and   *)
(* an exact one with its very prompt, for any number of requests, orgs'    *)
(* aliases, policies and ring sizes (chat.go:337-405).                     *)
THEOREM CachesKeepApart == Spec => []HitsStayHome
<1>1. FaithInv => HitsStayHome
  BY DEF FaithInv, Faithful, Answered, HitsStayHome, PolicyAllows, Home, Bucket, Input, At
<1> QED  BY <1>1, FaithInvariant, PTL

(* A request whose trace id nobody else uses meanwhile gets its own values *)
(* back, whatever the others do to the vault (chat.go:518-520).            *)
THEOREM ValuesComeBack == Spec => []OwnValuesRestored
<1>1. FaithInv => OwnValuesRestored
  BY DEF FaithInv, Faithful, Answered, OwnValuesRestored, Input, At
<1> QED  BY <1>1, FaithInvariant, PTL

----------------------------------------------------------------------------
(* The gate of a chat request, for any number of handlers and of slots,    *)
(* any rules and policies, and whatever the administrators do meanwhile:   *)
(* the slots of the challenger calls are counted exactly, what leaves for  *)
(* a provider is what the rules let through, and an alias that is off is   *)
(* served by itself, although its policy is looked up in several queries.  *)

(* Every handler is at some stage.  The fields it has besides differ.      *)
AtStages == req = [r \in Handlers |-> req[r]] /\ \A r \in Handlers : "at" \in DOMAIN req[r]

Shadowing == {r \in Handlers : Front!At(r, "shadowing")}
Counted   == {r \in Handlers : req[r].at \in {"shadowing", "refused"}}

----------------------------------------------------------------------------
(* Going to a stage changes that of no other handler.                      *)
LEMMA GoesMoves ==
  ASSUME AtStages, NEW r \in Handlers, NEW stage, Front!Goes(r, stage)
  PROVE  AtStages' /\ req'[r].at = stage /\ \A q \in Handlers \ {r} : req'[q] = req[q]
BY DEF AtStages, Front!Goes

(* A handler that is neither at its slot nor on its way back, before and   *)
(* after a step, leaves both sets as they are; and so do all.              *)
Elsewhere(stage) == stage \notin {"shadowing", "refused"}

(* Who is shadowed and who is counted depends on their stages alone.       *)
LEMMA SameSets ==
  ASSUME \A r \in Handlers : \/ req'[r].at = req[r].at
                             \/ Elsewhere(req[r].at) /\ Elsewhere(req'[r].at)
  PROVE  Shadowing' = Shadowing /\ Counted' = Counted
BY DEF Shadowing, Counted, Front!At, Elsewhere

(* No handler comes to a slot or leaves it, and nothing is counted.        *)
Quietly ==
  /\ AtStages'
  /\ UNCHANGED inflight
  /\ \A r \in Handlers : \/ req'[r].at = req[r].at
                         \/ Elsewhere(req[r].at) /\ Elsewhere(req'[r].at)

(* A request that goes to a stage elsewhere is quiet.                      *)
LEMMA GoesQuietly ==
  ASSUME AtStages, NEW r \in Handlers, NEW stage, Front!Goes(r, stage), UNCHANGED inflight,
         Elsewhere(req[r].at), Elsewhere(stage)
  PROVE  Quietly
BY GoesMoves DEF Quietly

(* A step that replaces the record of one handler by another staged one.   *)
LEMMA ReplacedQuietly ==
  ASSUME AtStages, NEW r \in Handlers, NEW c, "at" \in DOMAIN c, Elsewhere(c.at),
         req' = [req EXCEPT ![r] = c], UNCHANGED inflight, Elsewhere(req[r].at)
  PROVE  Quietly
BY DEF AtStages, Quietly

(* Receptions, lookups, the gate and answers leave the slots alone.        *)
LEMMA ReceiveQuietly ==
  ASSUME AtStages, NEW r \in Handlers, Front!Receive(r)
  PROVE  Quietly
<1>1. Elsewhere(req[r].at) /\ UNCHANGED inflight
  BY DEF Front!Receive, Front!At, Elsewhere
<1>2. PICK alias \in Aliases, org \in {Org, None}, tagged \in BOOLEAN, content \in Contents,
           signals \in Signals, limit \in Limits :
        req' = [req EXCEPT ![r] =
         IF Front!Blocks(content) THEN [at |-> "done"]
         ELSE [at |-> IF org = Org THEN "own" ELSE "global", asked |-> alias, alias |-> alias,
               org |-> org, tagged |-> tagged, content |-> Front!CheckRequest(content),
               signals |-> signals, limit |-> limit, strategy |-> "track_only",
               quiet |-> Front!Governing(policy, alias, org) \in Front!Quiet, moves |-> 0, failed |-> FALSE,
               rewritten |-> FALSE]]
  BY DEF Front!Receive
<1>3. CASE Front!Blocks(content)
  <2>1. req' = [req EXCEPT ![r] = [at |-> "done"]]
    BY <1>2, <1>3
  <2>2. "at" \in DOMAIN [at |-> "done"] /\ Elsewhere([at |-> "done"].at)
    BY DEF Elsewhere
  <2> QED  BY <1>1, <2>1, <2>2, ReplacedQuietly
<1>4. CASE ~Front!Blocks(content)
  <2> DEFINE c == [at |-> IF org = Org THEN "own" ELSE "global", asked |-> alias, alias |-> alias,
               org |-> org, tagged |-> tagged, content |-> Front!CheckRequest(content),
               signals |-> signals, limit |-> limit, strategy |-> "track_only",
               quiet |-> Front!Governing(policy, alias, org) \in Front!Quiet, moves |-> 0, failed |-> FALSE,
               rewritten |-> FALSE]
  <2>1. req' = [req EXCEPT ![r] = c]
    BY <1>2, <1>4
  <2>2. "at" \in DOMAIN c /\ Elsewhere(c.at)
    BY DEF Elsewhere
  <2> HIDE DEF c
  <2> QED  BY <1>1, <2>1, <2>2, ReplacedQuietly
<1> QED  BY <1>3, <1>4

(* A lookup is quiet.                                                      *)
LEMMA LookupQuietly ==
  ASSUME AtStages, NEW r \in Handlers, NEW stage, NEW owner, NEW next,
         Elsewhere(stage), Elsewhere(next), Front!Lookup(r, stage, owner, next)
  PROVE  Quietly
<1>1. Elsewhere(req[r].at) /\ UNCHANGED inflight
  BY DEF Front!Lookup, Front!At
<1> DEFINE row   == Front!RowIn(policy, req[r].asked, owner)
           found == [req[r] EXCEPT !.at = "decide", !.strategy = row]
           none  == [req[r] EXCEPT !.at = next]
<1>2. /\ "at" \in DOMAIN found /\ found.at = "decide"
      /\ "at" \in DOMAIN none /\ none.at = next
  BY DEF AtStages
<1>3. req' = [req EXCEPT ![r] = IF row # None THEN found ELSE none]
  BY DEF Front!Lookup
<1> HIDE DEF found, none, row
<1> QED  BY <1>1, <1>2, <1>3, ReplacedQuietly DEF Elsewhere

(* So is one that fails.                                                   *)
LEMMA LookupFailsQuietly ==
  ASSUME AtStages, NEW r \in Handlers, Front!LookupFails(r)
  PROVE  Quietly
<1> DEFINE next == IF req[r].at = "global" THEN "decide" ELSE "global"
           c    == [req[r] EXCEPT !.at = next, !.failed = TRUE]
<1>1. Elsewhere(req[r].at) /\ UNCHANGED inflight
  BY DEF Front!LookupFails, Elsewhere
<1>2. "at" \in DOMAIN c /\ c.at = next /\ Elsewhere(next)
  BY DEF AtStages, Elsewhere
<1>3. req' = [req EXCEPT ![r] = c]
  BY DEF Front!LookupFails, AtStages
<1> HIDE DEF c, next
<1> QED  BY <1>1, <1>2, <1>3, ReplacedQuietly

(* So is the gate of smart routing.                                        *)
LEMMA GateQuietly ==
  ASSUME AtStages, NEW r \in Handlers, Front!Gate(r)
  PROVE  Quietly
<1> DEFINE alias == Front!Override(r)
           d     == Front!Evaluate(Front!InputOf(r, alias))
           c     == [req[r] EXCEPT !.at = "plugins", !.alias = alias,
                                   !.limit = Front!Capped(@, d.cap), !.strategy = None, !.signals = None]
<1>1. Elsewhere(req[r].at) /\ UNCHANGED inflight
  BY DEF Front!Gate, Front!At, Elsewhere
<1>2. CASE Front!Goes(r, "done")
  BY <1>1, <1>2, GoesQuietly DEF Elsewhere
<1>3. CASE req' = [req EXCEPT ![r].at = "plugins", ![r].alias = alias,
                       ![r].limit = Front!Capped(@, d.cap), ![r].strategy = None, ![r].signals = None]
  <2> HIDE DEF alias, d
  <2>1. "at" \in DOMAIN c /\ Elsewhere(c.at)
    BY DEF AtStages, Elsewhere
  <2>2. req' = [req EXCEPT ![r] = c]
    BY <1>3 DEF AtStages
  <2> HIDE DEF c
  <2> QED  BY <1>1, <2>1, <2>2, ReplacedQuietly
<1> QED  BY <1>2, <1>3 DEF Front!Gate

(* So are the plugins, whatever they write.                                *)
LEMMA PluginsQuietly ==
  ASSUME AtStages, NEW r \in Handlers, Front!RunBeforeChat(r)
  PROVE  Quietly
<1>1. Elsewhere(req[r].at) /\ UNCHANGED inflight
  BY DEF Front!RunBeforeChat, Front!At, Elsewhere
<1>2. CASE Front!Goes(r, "done") \/ Front!Goes(r, "upstream")
  BY <1>1, <1>2, GoesQuietly DEF Elsewhere
<1>3. ASSUME NEW content, NEW limit,
             req' = [req EXCEPT ![r].at = "upstream", ![r].content = content, ![r].limit = limit,
                       ![r].rewritten = TRUE]
      PROVE  Quietly
  <2> DEFINE c == [req[r] EXCEPT !.at = "upstream", !.content = content, !.limit = limit, !.rewritten = TRUE]
  <2>1. "at" \in DOMAIN c /\ Elsewhere(c.at)
    BY DEF AtStages, Elsewhere
  <2>2. req' = [req EXCEPT ![r] = c]
    BY <1>3 DEF AtStages
  <2> HIDE DEF c
  <2> QED  BY <1>1, <2>1, <2>2, ReplacedQuietly
<1> QED  BY <1>2, <1>3 DEF Front!RunBeforeChat

(* So is an answer.                                                        *)
LEMMA AnsweredQuietly ==
  ASSUME AtStages, NEW r \in Handlers, Front!Answered(r)
  PROVE  Quietly
BY GoesQuietly DEF Front!Answered, Front!At, Elsewhere

(* An administrator's change notes itself in the requests and moves none.  *)
LEMMA ChangeQuietly ==
  ASSUME AtStages, NEW alias, NEW owner, NEW strategy, Front!Change(alias, owner, strategy), UNCHANGED inflight
  PROVE  Quietly
<1> SUFFICES ASSUME NEW r \in Handlers
             PROVE  req'[r].at = req[r].at /\ "at" \in DOMAIN req'[r]
  BY DEF Front!Change, AtStages, Quietly
<1>1. CASE ~Front!LookingUp(r) \/ req[r].asked # alias
  BY <1>1 DEF Front!Change, AtStages
<1>2. CASE ~(~Front!LookingUp(r) \/ req[r].asked # alias)
  <2>1. PICK n, b : req'[r] = [req[r] EXCEPT !.moves = n, !.quiet = b]
    BY <1>2 DEF Front!Change
  <2> QED  BY <2>1 DEF AtStages
<1> QED  BY <1>1, <1>2

(* Receptions, lookups, the gate, plugins, answers and administrators are  *)
(* quiet.                                                                  *)
LEMMA OthersQuietly ==
  ASSUME AtStages, [Front!Next]_(Front!vars),
         \A r \in Handlers : ~Front!Acquire(r) /\ ~Front!GiveBack(r) /\ ~Front!ShadowEnds(r)
  PROVE  Quietly
<1>1. ASSUME NEW r \in Handlers, Front!Receive(r) \/ Front!LookupFails(r) \/ Front!Gate(r) \/ Front!RunBeforeChat(r)
                                \/ Front!Answered(r)
      PROVE  Quietly
  BY <1>1, ReceiveQuietly, LookupFailsQuietly, GateQuietly, PluginsQuietly, AnsweredQuietly
<1>2. ASSUME NEW r \in Handlers, Front!LookupOwn(r) PROVE Quietly
  BY <1>2, LookupQuietly DEF Front!LookupOwn, Elsewhere
<1>3. ASSUME NEW r \in Handlers, Front!LookupDefault(r) PROVE Quietly
  BY <1>3, LookupQuietly DEF Front!LookupDefault, Elsewhere
<1>4. ASSUME NEW r \in Handlers, Front!LookupGlobal(r) PROVE Quietly
  BY <1>4, LookupQuietly DEF Front!LookupGlobal, Elsewhere
<1>5. CASE Front!UpsertRoutingPolicy
  BY <1>5, ChangeQuietly DEF Front!UpsertRoutingPolicy
<1>6. CASE Front!DeleteRow
  BY <1>6, ChangeQuietly DEF Front!DeleteRow
<1>7. CASE Front!DeleteRoutingPolicy \/ UNCHANGED Front!vars
  BY <1>7 DEF Front!DeleteRoutingPolicy, Front!vars, Quietly, AtStages
<1> QED
  BY <1>1, <1>2, <1>3, <1>4, <1>5, <1>6, <1>7 DEF Front!Next, Front!Serve

----------------------------------------------------------------------------
(* Taking a slot, or being too many, and giving either back.               *)

(* The handlers at a slot are among the counted, who are finitely many.    *)
LEMMA SetsAreFinite ==
  ASSUME Front!ConstantsOK
  PROVE  /\ IsFiniteSet(Shadowing) /\ IsFiniteSet(Counted)
         /\ Cardinality(Shadowing) \in Nat /\ Cardinality(Counted) \in Nat
         /\ Cardinality(Shadowing) <= Cardinality(Counted)
<1>1. Shadowing \subseteq Counted /\ Counted \subseteq Handlers
  BY DEF Shadowing, Counted, Front!At
<1>2. IsFiniteSet(Handlers)
  BY DEF Front!ConstantsOK, Front!IsFiniteSet, IsFiniteSet
<1>3. IsFiniteSet(Counted)
  BY <1>1, <1>2, FS_Subset
<1> QED  BY <1>1, <1>3, FS_Subset, FS_CardinalityType

(* Taking a slot, or being one too many, counts.                           *)
LEMMA AcquireCounts ==
  ASSUME Front!ConstantsOK, AtStages, Front!ShadowsAreBounded, NEW r \in Handlers, Front!Acquire(r)
  PROVE  AtStages' /\ Front!ShadowsAreBounded'
<1>1. r \notin Counted /\ r \notin Shadowing
  BY DEF Front!Acquire, Counted, Shadowing, Front!At
<1>2. /\ Cardinality(Counted \cup {r}) = Cardinality(Counted) + 1
      /\ Cardinality(Shadowing \cup {r}) = Cardinality(Shadowing) + 1
  BY <1>1, SetsAreFinite, FS_AddElement
<1>3. inflight = Cardinality(Counted) /\ Cardinality(Shadowing) <= MaxConcurrent /\ MaxConcurrent \in Nat
  BY DEF Front!ShadowsAreBounded, Counted, Shadowing, Front!ConstantsOK, Front!Cardinality, Cardinality
<1>4. inflight' = Cardinality(Counted \cup {r})
  BY <1>2, <1>3 DEF Front!Acquire
<1>5. CASE Front!HasRoom(inflight + 1)
  <2>1. Front!Goes(r, "shadowing")
    BY <1>5 DEF Front!Acquire
  <2>2. AtStages' /\ Counted' = Counted \cup {r} /\ Shadowing' = Shadowing \cup {r}
    BY <2>1, GoesMoves DEF Counted, Shadowing, Front!At
  <2>3. Cardinality(Shadowing \cup {r}) <= MaxConcurrent
    BY <1>2, <1>3, <1>5, SetsAreFinite DEF Front!HasRoom
  <2> QED  BY <1>4, <2>2, <2>3 DEF Front!ShadowsAreBounded, Counted, Shadowing, Front!Cardinality, Cardinality
<1>6. CASE ~Front!HasRoom(inflight + 1)
  <2>1. Front!Goes(r, "refused")
    BY <1>6 DEF Front!Acquire
  <2>2. AtStages' /\ Counted' = Counted \cup {r} /\ Shadowing' = Shadowing
    BY <1>1, <2>1, GoesMoves DEF Counted, Shadowing, Front!At
  <2> QED  BY <1>3, <1>4, <2>2 DEF Front!ShadowsAreBounded, Counted, Shadowing, Front!Cardinality, Cardinality
<1> QED  BY <1>5, <1>6

(* Giving back uncounts.                                                   *)
LEMMA GiveBackCounts ==
  ASSUME Front!ConstantsOK, AtStages, Front!ShadowsAreBounded, NEW r \in Handlers, Front!GiveBack(r) \/ Front!ShadowEnds(r)
  PROVE  AtStages' /\ Front!ShadowsAreBounded'
<1>1. r \in Counted /\ Front!Goes(r, "done") /\ inflight' = inflight - 1
  BY DEF Front!GiveBack, Front!ShadowEnds, Front!Released, Counted, Front!At
<1>2. AtStages' /\ Counted' = Counted \ {r} /\ Shadowing' = Shadowing \ {r}
  BY <1>1, GoesMoves DEF Counted, Shadowing, Front!At
<1>3. Cardinality(Counted \ {r}) = Cardinality(Counted) - 1
  BY <1>1, SetsAreFinite, FS_RemoveElement
<1>4. Cardinality(Shadowing \ {r}) <= Cardinality(Shadowing) /\ Cardinality(Shadowing \ {r}) \in Nat
  BY SetsAreFinite, FS_Subset, FS_CardinalityType
<1>5. inflight = Cardinality(Counted) /\ Cardinality(Shadowing) <= MaxConcurrent /\ MaxConcurrent \in Nat
  BY DEF Front!ShadowsAreBounded, Counted, Shadowing, Front!ConstantsOK, Front!Cardinality, Cardinality
<1>6. inflight' = Cardinality(Counted)' /\ Cardinality(Shadowing)' <= MaxConcurrent
  BY <1>1, <1>2, <1>3, <1>4, <1>5, SetsAreFinite
<1> QED  BY <1>2, <1>6 DEF Front!ShadowsAreBounded, Counted, Shadowing, Front!Cardinality, Cardinality


(* The slots and their count, as one invariant.                            *)
SlotsInv == AtStages /\ Front!ShadowsAreBounded

(* No slot is taken at the start.                                          *)
LEMMA SlotsBegin ==
  ASSUME Front!Init
  PROVE  SlotsInv
<1>1. AtStages
  BY DEF Front!Init, Front!Idle, AtStages
<1>2. Shadowing = {} /\ Counted = {}
  BY DEF Front!Init, Front!Idle, Shadowing, Counted, Front!At
<1>3. Cardinality({}) = 0
  BY FS_EmptySet
<1>4. MaxConcurrent \in Nat
  BY GateAssumption DEF Front!ConstantsOK
<1>5. inflight = Cardinality(Counted) /\ Cardinality(Shadowing) <= MaxConcurrent
  BY <1>2, <1>3, <1>4 DEF Front!Init
<1> QED
  BY <1>1, <1>5 DEF SlotsInv, Front!ShadowsAreBounded, Shadowing, Counted, Front!Cardinality, Cardinality

(* Every step keeps the count.                                             *)
LEMMA SlotsGoOn ==
  ASSUME SlotsInv, [Front!Next]_(Front!vars)
  PROVE  SlotsInv'
<1>1. AtStages /\ Front!ShadowsAreBounded /\ Front!ConstantsOK
  BY GateAssumption DEF SlotsInv
<1>2. CASE \E r \in Handlers : Front!Acquire(r)
  BY <1>1, <1>2, AcquireCounts DEF SlotsInv
<1>3. CASE \E r \in Handlers : Front!GiveBack(r) \/ Front!ShadowEnds(r)
  BY <1>1, <1>3, GiveBackCounts DEF SlotsInv
<1>4. CASE \A r \in Handlers : ~Front!Acquire(r) /\ ~Front!GiveBack(r) /\ ~Front!ShadowEnds(r)
  <2>1. Quietly
    BY <1>1, <1>4, OthersQuietly
  <2>2. Shadowing' = Shadowing /\ Counted' = Counted
    BY <2>1, SameSets DEF Quietly
  <2> QED
    BY <1>1, <2>1, <2>2
    DEF Quietly, SlotsInv, Front!ShadowsAreBounded, Shadowing, Counted, Front!Cardinality, Cardinality
<1> QED  BY <1>2, <1>3, <1>4


----------------------------------------------------------------------------
(* What the rules that match leave of a request.                           *)

Decisions == [providers : SUBSET STRING, cap : Nat]

(* A cap that is at most those of the rules up to the i-th that match.     *)
Covers(cap, list, in, i) ==
  cap \in Nat /\ \A j \in 1..i : Front!Matches(list[j], in) /\ list[j].cap > 0 => cap \in 1..list[j].cap

(* Merging takes the smaller cap.                                          *)
LEMMA MergedRules ==
  ASSUME NEW base \in Decisions, NEW rule \in Front!Rules
  PROVE  /\ Front!mergeAllow(base, rule) \in Decisions
         /\ Front!mergeAllow(base, rule).cap =
              IF rule.cap > 0 /\ (base.cap = 0 \/ rule.cap < base.cap) THEN rule.cap ELSE base.cap
<1>1. PICK p, c : p = Front!intersect(base.providers, rule.providers) /\
                  c = IF rule.cap > 0 /\ (base.cap = 0 \/ rule.cap < base.cap) THEN rule.cap ELSE base.cap
  OBVIOUS
<1>2. p \in SUBSET STRING
  BY <1>1 DEF Front!intersect, Decisions, Front!Rules
<1>3. c \in Nat
  BY <1>1 DEF Decisions, Front!Rules
<1>4. Front!mergeAllow(base, rule) = [providers |-> p, cap |-> c]
  BY <1>1 DEF Front!mergeAllow
<1> QED  BY <1>1, <1>2, <1>3, <1>4 DEF Decisions

(* The merge of the rules of a request is bounded by each that matches.    *)
LEMMA MergedCap ==
  ASSUME NEW in, Front!Listed(in) \in Seq(Front!Rules)
  PROVE  Covers(Front!Merged(in).cap, Front!Listed(in), in, Len(Front!Listed(in)))
<1> DEFINE rule == Front!Listed(in)
           n == Len(rule)
           none == [providers |-> {}, cap |-> 0]
           next(d, i) == IF Front!Matches(rule[i], in) THEN Front!mergeAllow(d, rule[i]) ELSE d
           step == [x \in Decisions \X (1..n) |-> next(x[1], x[2])]
           upTo == CHOOSE f : f = [i \in 0..n |->
                     IF i = 0 THEN none
                     ELSE IF Front!Matches(rule[i], in) THEN Front!mergeAllow(f[i - 1], rule[i]) ELSE f[i - 1]]
<1>1. n \in Nat /\ \A i \in 1..n : rule[i] \in Front!Rules
  OBVIOUS
<1>2. Front!Merged(in) = upTo[n]
  BY DEF Front!Merged
<1> HIDE DEF rule, n
<1>3. none \in Decisions
  BY DEF Decisions
<1>4. \A d \in Decisions, i \in 1..n : step[<<d, i>>] = next(d, i) /\ next(d, i) \in Decisions
  BY <1>1, MergedRules
<1>5. step \in [Decisions \X (1..n) -> Decisions]
  <2>1. \A x \in Decisions \X (1..n) : next(x[1], x[2]) \in Decisions
    BY <1>4
  <2> HIDE DEF next
  <2> QED  BY <2>1
<1> HIDE DEF step, none
<1>6. PICK f : Iterates(f, n, Decisions, none, step)
  BY <1>1, <1>3, <1>5, RecursiveFunctionExists
<1>7. \A i \in 1..n : f[i] = next(f[i - 1], i)
  <2>1. f \in [0..n -> Decisions] /\ \A i \in 1..n : i - 1 \in 0..n /\ f[i] = step[<<f[i - 1], i>>]
    BY <1>1, <1>6 DEF Iterates
  <2>2. \A i \in 1..n : f[i - 1] \in Decisions
    BY <2>1
  <2> HIDE DEF next
  <2> QED  BY <1>4, <2>1, <2>2
<1>8. f = [i \in 0..n |->
             IF i = 0 THEN none
             ELSE IF Front!Matches(rule[i], in) THEN Front!mergeAllow(f[i - 1], rule[i]) ELSE f[i - 1]]
  <2>1. \A i \in 0..n : i = 0 \/ i \in 1..n
    BY <1>1
  <2>2. \A i \in 0..n : f[i] = IF i = 0 THEN none
             ELSE IF Front!Matches(rule[i], in) THEN Front!mergeAllow(f[i - 1], rule[i]) ELSE f[i - 1]
    BY <1>6, <1>7, <2>1, Zenon DEF Iterates
  <2>3. f \in [0..n -> Decisions]
    BY <1>6 DEF Iterates
  <2> QED  BY <2>2, <2>3, Zenon
<1>9. upTo = [i \in 0..n |->
             IF i = 0 THEN none
             ELSE IF Front!Matches(rule[i], in) THEN Front!mergeAllow(upTo[i - 1], rule[i]) ELSE upTo[i - 1]]
  BY <1>8, Zenon
<1> HIDE DEF upTo
<1>10. upTo[0] = none /\ \A i \in 1..n : upTo[i] = next(upTo[i - 1], i)
  <2>1. 0 \in 0..n /\ \A i \in 1..n : i \in 0..n /\ i # 0
    BY <1>1
  <2>2. \A i \in 0..n : upTo[i] = IF i = 0 THEN none
             ELSE IF Front!Matches(rule[i], in) THEN Front!mergeAllow(upTo[i - 1], rule[i]) ELSE upTo[i - 1]
    BY <1>9, Zenon
  <2> QED  BY <2>1, <2>2, Zenon
<1> DEFINE T == {i \in 0..n : upTo[i] \in Decisions /\ Covers(upTo[i].cap, rule, in, i)}
<1>11. 0 \in T
  BY <1>1, <1>3, <1>10 DEF Covers, none
<1>12. ASSUME NEW i \in 1..n, i - 1 \in T PROVE i \in T
  <2>1. PICK d, e : d = upTo[i - 1] /\ e = upTo[i]
    OBVIOUS
  <2>2. d \in Decisions /\ Covers(d.cap, rule, in, i - 1) /\ e = next(d, i) /\ rule[i] \in Front!Rules
    BY <1>1, <1>10, <1>12, <2>1
  <2>3. rule[i].cap \in Nat /\ d.cap \in Nat /\ \A j \in 1..i : j \in 1..(i - 1) \/ j = i
    BY <2>2 DEF Front!Rules, Decisions
  <2>4. CASE Front!Matches(rule[i], in)
    <3>1. e = Front!mergeAllow(d, rule[i])
      BY <2>2, <2>4
    <3>2. /\ e \in Decisions
          /\ e.cap = IF rule[i].cap > 0 /\ (d.cap = 0 \/ rule[i].cap < d.cap) THEN rule[i].cap ELSE d.cap
      BY <2>2, <3>1, MergedRules
    <3>3. ASSUME NEW j \in 1..i, Front!Matches(rule[j], in), rule[j].cap > 0 PROVE e.cap \in 1..rule[j].cap
      <4>1. CASE j = i
        BY <2>3, <3>2, <3>3, <4>1
      <4>2. CASE j \in 1..(i - 1)
        <5>1. d.cap \in 1..rule[j].cap /\ rule[j].cap \in Nat
          BY <1>1, <2>2, <3>3, <4>2 DEF Covers, Front!Rules
        <5> QED  BY <2>3, <3>2, <5>1
      <4> QED  BY <2>3, <4>1, <4>2
    <3>4. e.cap \in Nat
      BY <2>3, <3>2
    <3>5. Covers(e.cap, rule, in, i)
      BY <3>3, <3>4 DEF Covers
    <3> QED  BY <2>1, <3>2, <3>5
  <2>5. CASE ~Front!Matches(rule[i], in)
    <3>1. e = d
      BY <2>2, <2>5
    <3>2. Covers(d.cap, rule, in, i)
      BY <2>2, <2>3, <2>5 DEF Covers
    <3>3. e \in Decisions /\ Covers(e.cap, rule, in, i)
      BY <2>2, <3>1, <3>2
    <3> QED  BY <2>1, <3>3
  <2> QED  BY <2>4, <2>5
<1> HIDE DEF T
<1>13. 0..n \subseteq T
  BY <1>1, <1>11, <1>12, UpTo
<1>14. n \in T
  BY <1>1, <1>13
<1> QED  BY <1>2, <1>14 DEF T, n, rule


----------------------------------------------------------------------------
(* What is known of a request on its way through the gate.                 *)

Undecided == {"own", "default", "global", "decide"}
Decided   == {"plugins", "upstream", "acquire", "refused", "shadowing"}
Fields    == {"at", "asked", "alias", "org", "tagged", "content", "signals", "limit", "strategy",
              "quiet", "moves", "failed", "rewritten"}

(* Its fields, and that nothing personal is left in it, nor put there      *)
(* before the plugins.                                                     *)
Fits(c) ==
  /\ "at" \in DOMAIN c
  /\ c.at \in Undecided \cup Decided =>
       /\ c = [f \in Fields |-> c[f]]
       /\ c.moves \in 0..2 /\ c.quiet \in BOOLEAN /\ c.failed \in BOOLEAN
       /\ ~c.rewritten => c.content \cap {"pattern", "injection", "personal"} = {}
  /\ c.at \in Undecided => c.limit \in Limits /\ ~c.rewritten
  /\ c.at \in {"own", "default"} => c.org = Org

(* It obeys the rules of an owner. *)
ObeysRules(list, c) ==
  \A i \in DOMAIN list :
    Front!Matches(list[i], [alias |-> c.alias, org |-> c.org, tagged |-> c.tagged]) =>
      /\ ~list[i].deny
      /\ list[i].cap > 0 /\ ~c.rewritten => c.limit # None /\ c.limit <= list[i].cap

Obeys(lists, c) ==
  c.at \in Decided => ObeysRules(lists[NoOrg], c) /\ (c.org = Org => ObeysRules(lists[Org], c))

(* What is quiet stays quiet through one change.  Between the queries the  *)
(* row of nobody is quiet, for the org had none when it was asked, and has *)
(* got one since only by the change that then left the other alone.        *)
Binding(c) == c.quiet /\ c.moves < 2 /\ ~c.failed

IsQuiet(strategy) == strategy \in Front!Quiet

StaysQuiet(table, c) ==
  /\ c.at = "own" /\ c.quiet => IsQuiet(Front!Governing(table, c.asked, Org))
  /\ c.at = "default" /\ Binding(c) =>
       /\ IsQuiet(Front!RowIn(table, c.asked, NoOrg))
       /\ c.moves = 0 => Front!RowIn(table, c.asked, Org) = None
  /\ c.at = "global" /\ Binding(c) => c.org # Org /\ IsQuiet(Front!RowIn(table, c.asked, NoOrg))
  /\ c.at = "decide" /\ Binding(c) => IsQuiet(c.strategy)
  /\ c.at \in Decided /\ Binding(c) => c.alias = c.asked

Sound(table, lists, c) == Fits(c) /\ Obeys(lists, c) /\ StaysQuiet(table, c)

Owned == Governed \X {Org, NoOrg}

GateInv ==
  /\ rules \in [{Org, NoOrg} -> RuleLists]
  /\ policy \in [Owned -> Strategies \cup {None}]
  /\ deleting \in Owned \cup {None}
  /\ AtStages /\ \A r \in Handlers : Sound(policy, rules, req[r])


(* What e takes over from c. *)
Keeps(e, c, changed) == e = [f \in Fields |-> e[f]] /\ \A f \in Fields \ changed : e[f] = c[f]

(* A step that replaces the record of one handler.                         *)
LEMMA ReplacedSoundly ==
  ASSUME GateInv, NEW r \in Handlers, NEW c, Sound(policy, rules, c), "at" \in DOMAIN c,
         req' = [req EXCEPT ![r] = c], UNCHANGED <<rules, policy, deleting>>
  PROVE  GateInv'
<1>1. AtStages'
  BY DEF GateInv, AtStages
<1>2. \A q \in Handlers : Sound(policy, rules, req'[q])
  BY DEF GateInv, AtStages
<1> QED  BY <1>1, <1>2 DEF GateInv

(* A request arrives without a value the guardrails take out.              *)
LEMMA ArrivalIsSound ==
  ASSUME GateInv, NEW r \in Handlers, Front!Receive(r)
  PROVE  GateInv'
<1>1. PICK alias \in Aliases, org \in {Org, None}, tagged \in BOOLEAN, content \in Contents,
           signals \in Signals, limit \in Limits :
        req' = [req EXCEPT ![r] =
         IF Front!Blocks(content) THEN [at |-> "done"]
         ELSE [at |-> IF org = Org THEN "own" ELSE "global", asked |-> alias, alias |-> alias,
               org |-> org, tagged |-> tagged, content |-> Front!CheckRequest(content),
               signals |-> signals, limit |-> limit, strategy |-> "track_only",
               quiet |-> Front!Governing(policy, alias, org) \in Front!Quiet, moves |-> 0, failed |-> FALSE,
               rewritten |-> FALSE]]
  BY DEF Front!Receive
<1>2. UNCHANGED <<rules, policy, deleting>>
  BY DEF Front!Receive
<1>3. CASE Front!Blocks(content)
  <2>1. PICK c : c = [at |-> "done"]
    OBVIOUS
  <2>2. req' = [req EXCEPT ![r] = c]
    BY <1>1, <1>3, <2>1
  <2>3. "at" \in DOMAIN c /\ c.at = "done"
    BY <2>1
  <2>4. Sound(policy, rules, c)
    BY <2>3 DEF Sound, Fits, Obeys, StaysQuiet, Undecided, Decided
  <2> QED  BY <1>2, <2>2, <2>3, <2>4, ReplacedSoundly
<1>4. CASE ~Front!Blocks(content)
  <2>1. PICK stage, rest, quiet, failed, rewritten :
                                  /\ failed = FALSE /\ rewritten = FALSE
                                  /\ stage = IF org = Org THEN "own" ELSE "global"
                                  /\ rest = Front!CheckRequest(content)
                                  /\ quiet = (Front!Governing(policy, alias, org) \in Front!Quiet)
    OBVIOUS
  <2>2. PICK c : c = [at |-> stage, asked |-> alias, alias |-> alias,
               org |-> org, tagged |-> tagged, content |-> rest,
               signals |-> signals, limit |-> limit, strategy |-> "track_only",
               quiet |-> quiet, moves |-> 0, failed |-> failed, rewritten |-> rewritten]
    OBVIOUS
  <2>3. req' = [req EXCEPT ![r] = c]
    BY <1>1, <1>4, <2>1, <2>2
  <2>4. rest \cap {"pattern", "injection", "personal"} = {}
    BY <1>4, <2>1 DEF Front!Blocks, Front!CheckRequest
  <2>5. /\ c.at = stage /\ c.asked = alias /\ c.org = org /\ c.content = rest /\ c.limit = limit
        /\ c.quiet = quiet /\ c.moves = 0 /\ c.failed = failed /\ c.rewritten = rewritten
        /\ DOMAIN c = Fields /\ c = [f \in Fields |-> c[f]]
    BY <2>2 DEF Fields
  <2>6. quiet \in BOOLEAN /\ failed \in BOOLEAN /\ ~rewritten
    <3>1. failed \in BOOLEAN
      BY <2>1, Zenon
    <3>2. quiet \in BOOLEAN
      BY <2>1
    <3>3. ~rewritten
      BY <2>1, Zenon
    <3> QED  BY <3>1, <3>2, <3>3
  <2>7. stage \in {"own", "global"} /\ (stage = "own" <=> org = Org)
    BY <2>1
  <2>8. "at" \in DOMAIN c
    BY <2>5 DEF Fields
  <2>9. Fits(c)
    BY <2>4, <2>5, <2>6, <2>7, <2>8 DEF Fits, Undecided, Decided
  <2>10. Obeys(rules, c)
    BY <2>5, <2>7 DEF Obeys, Decided
  <2>11. quiet => IsQuiet(Front!Governing(policy, alias, org))
    BY <2>1 DEF IsQuiet
  <2>12. org # Org => Front!Governing(policy, alias, org) = Front!RowIn(policy, alias, NoOrg)
    BY DEF Front!Governing
  <2>13. StaysQuiet(policy, c)
    BY <2>5, <2>7, <2>11, <2>12 DEF StaysQuiet, Decided, Binding
  <2> QED  BY <1>2, <2>3, <2>9, <2>10, <2>13, <2>8, ReplacedSoundly DEF Sound
<1> QED  BY <1>3, <1>4

(* A query that finds the row of its owner, and one that finds none.       *)
LEMMA LookupIsSound ==
  ASSUME GateInv, NEW r \in Handlers, NEW stage \in {"own", "default", "global"}, NEW owner, NEW next,
         Front!Lookup(r, stage, owner, next),
         NEW row, row = Front!RowIn(policy, req[r].asked, owner),
         next \in {"default", "global", "decide"}, next = "default" => stage = "own",
         row # None /\ Binding(req[r]) => IsQuiet(row),
         ASSUME row = None, Binding(req[r])
         PROVE  next = "default" /\ IsQuiet(Front!RowIn(policy, req[r].asked, NoOrg))
                  /\ Front!RowIn(policy, req[r].asked, Org) = None
  PROVE  GateInv'
<1>1. /\ req[r].at = stage /\ UNCHANGED <<rules, policy, deleting>>
      /\ req' = [req EXCEPT ![r] = IF row # None THEN [req[r] EXCEPT !.at = "decide", !.strategy = row]
                                   ELSE [req[r] EXCEPT !.at = next]]
  BY DEF Front!Lookup, Front!At
<1>2. PICK c : c = req[r]
  OBVIOUS
<1>3. Fits(c) /\ c.at = stage /\ DOMAIN c = Fields
  BY <1>1, <1>2 DEF GateInv, Sound, Fits, Undecided
<1>4. CASE row # None
  <2>1. PICK e : e = [c EXCEPT !.at = "decide", !.strategy = row]
    OBVIOUS
  <2>2. /\ e = [f \in Fields |-> e[f]] /\ DOMAIN e = Fields /\ e.at = "decide" /\ e.strategy = row
        /\ e.quiet = c.quiet /\ e.moves = c.moves /\ e.failed = c.failed /\ e.content = c.content
        /\ e.limit = c.limit /\ e.rewritten = c.rewritten
    BY <1>3, <2>1 DEF Fields
  <2>3. Fits(e) /\ "at" \in DOMAIN e
    BY <1>3, <2>2 DEF Fits, Undecided, Decided, Fields
  <2>4. StaysQuiet(policy, e)
    BY <1>2, <1>4, <2>2 DEF StaysQuiet, Decided, Binding
  <2>5. Obeys(rules, e)
    BY <2>2 DEF Obeys, Decided
  <2>6. req' = [req EXCEPT ![r] = e]
    BY <1>1, <1>2, <1>4, <2>1
  <2> QED  BY <1>1, <2>3, <2>4, <2>5, <2>6, ReplacedSoundly DEF Sound
<1>5. CASE row = None
  <2>1. PICK e : e = [c EXCEPT !.at = next]
    OBVIOUS
  <2>2. /\ e = [f \in Fields |-> e[f]] /\ DOMAIN e = Fields /\ e.at = next /\ e.asked = c.asked
        /\ e.quiet = c.quiet /\ e.moves = c.moves /\ e.failed = c.failed /\ e.content = c.content
        /\ e.limit = c.limit /\ e.org = c.org /\ e.rewritten = c.rewritten
    BY <1>3, <2>1 DEF Fields
  <2>3. Fits(e) /\ "at" \in DOMAIN e
    BY <1>3, <2>2 DEF Fits, Undecided, Decided, Fields
  <2>4. StaysQuiet(policy, e)
    BY <1>2, <1>5, <2>2 DEF StaysQuiet, Decided, Binding
  <2>5. Obeys(rules, e)
    BY <2>2 DEF Obeys, Decided
  <2>6. req' = [req EXCEPT ![r] = e]
    BY <1>1, <1>2, <1>5, <2>1
  <2> QED  BY <1>1, <2>3, <2>4, <2>5, <2>6, ReplacedSoundly DEF Sound
<1> QED  BY <1>4, <1>5


(* The lookups in the handler's order.                                     *)
LEMMA LookupsAreSound ==
  ASSUME GateInv, NEW r \in Handlers,
         Front!LookupOwn(r) \/ Front!LookupDefault(r) \/ Front!LookupGlobal(r)
  PROVE  GateInv'
<1>1. PICK c, none, own : /\ c = req[r] /\ none = Front!RowIn(policy, c.asked, NoOrg)
                          /\ own = Front!RowIn(policy, c.asked, Org)
  OBVIOUS
<1>2. Fits(c) /\ StaysQuiet(policy, c)
  BY <1>1 DEF GateInv, Sound
<1>3. ~IsQuiet(None)
  BY GateAssumption DEF Front!ConstantsOK, IsQuiet
<1>4. NoOrg # Org
  BY GateAssumption DEF Front!ConstantsOK
<1>5. CASE Front!LookupOwn(r)
  <2>1. Front!Lookup(r, "own", Org, "default") /\ c.at = "own"
    BY <1>1, <1>5 DEF Front!LookupOwn, Front!Lookup, Front!At
  <2>2. own # None /\ Binding(c) => IsQuiet(own)
    BY <1>1, <1>2, <2>1 DEF StaysQuiet, Binding, Front!Governing
  <2>3. own = None /\ Binding(c) => IsQuiet(none)
    BY <1>1, <1>2, <2>1 DEF StaysQuiet, Binding, Front!Governing
  <2> QED  BY <1>1, <2>1, <2>2, <2>3, LookupIsSound
<1>6. CASE Front!LookupDefault(r)
  <2>1. Front!Lookup(r, "default", NoOrg, "global") /\ c.at = "default"
    BY <1>1, <1>6 DEF Front!LookupDefault, Front!Lookup, Front!At
  <2>2. Binding(c) => IsQuiet(none)
    BY <1>1, <1>2, <2>1 DEF StaysQuiet
  <2> QED  BY <1>1, <1>3, <2>1, <2>2, LookupIsSound
<1>7. CASE Front!LookupGlobal(r)
  <2>1. Front!Lookup(r, "global", NoOrg, "decide") /\ c.at = "global"
    BY <1>1, <1>7 DEF Front!LookupGlobal, Front!Lookup, Front!At
  <2>2. Binding(c) => IsQuiet(none)
    BY <1>1, <1>2, <2>1 DEF StaysQuiet
  <2> QED  BY <1>1, <1>3, <2>1, <2>2, LookupIsSound
<1> QED  BY <1>5, <1>6, <1>7

(* A query that fails binds no longer.                                     *)
LEMMA FailureIsSound ==
  ASSUME GateInv, NEW r \in Handlers, Front!LookupFails(r)
  PROVE  GateInv'
<1>1. PICK c, next, failed : c = req[r] /\ failed = TRUE /\ next = IF c.at = "global" THEN "decide" ELSE "global"
  OBVIOUS
<1>2. /\ Fits(c) /\ c.at \in {"own", "default", "global"} /\ DOMAIN c = Fields
      /\ next \in {"global", "decide"}
  BY <1>1 DEF GateInv, Sound, Fits, Undecided, Front!LookupFails
<1>3. PICK e : e = [c EXCEPT !.at = next, !.failed = failed]
  OBVIOUS
<1>4. /\ e = [f \in Fields |-> e[f]] /\ DOMAIN e = Fields /\ e.at = next /\ e.failed = failed
      /\ e.quiet = c.quiet /\ e.moves = c.moves /\ e.content = c.content /\ e.limit = c.limit
      /\ e.rewritten = c.rewritten
  BY <1>2, <1>3 DEF Fields
<1>5. req' = [req EXCEPT ![r] = e] /\ UNCHANGED <<rules, policy, deleting>>
  <2>1. req' = [req EXCEPT ![r].at = next, ![r].failed = failed]
    BY <1>1 DEF Front!LookupFails
  <2> QED  BY <1>1, <1>2, <1>3, <2>1 DEF Front!LookupFails, GateInv, AtStages, Fields
<1>6. failed \in BOOLEAN /\ failed
  BY <1>1
<1>7. "at" \in DOMAIN e
  BY <1>4 DEF Fields
<1>8. Fits(e)
  BY <1>2, <1>4, <1>6, <1>7 DEF Fits, Undecided, Decided
<1>9. StaysQuiet(policy, e)
  BY <1>2, <1>4, <1>6 DEF StaysQuiet, Binding, Decided
<1>10. Obeys(rules, e)
  BY <1>2, <1>4 DEF Obeys, Decided
<1> QED  BY <1>5, <1>7, <1>8, <1>9, <1>10, ReplacedSoundly DEF Sound

(* Once decided, a handler only moves on.                                  *)
LEMMA GoesSoundly ==
  ASSUME GateInv, NEW r \in Handlers, req[r].at \in Decided, NEW stage \in Decided \cup {"done"},
         Front!Goes(r, stage), UNCHANGED <<rules, policy, deleting>>
  PROVE  GateInv'
<1>1. PICK c : c = req[r]
  OBVIOUS
<1>2. PICK e : e = [c EXCEPT !.at = stage]
  OBVIOUS
<1>3. Fits(c) /\ Obeys(rules, c) /\ StaysQuiet(policy, c) /\ c.at \in Decided /\ DOMAIN c = Fields
  BY <1>1 DEF GateInv, Sound, Fits
<1>4. /\ e = [f \in Fields |-> e[f]] /\ DOMAIN e = Fields /\ e.at = stage /\ e.failed = c.failed
      /\ e.quiet = c.quiet /\ e.moves = c.moves /\ e.content = c.content /\ e.limit = c.limit
      /\ e.alias = c.alias /\ e.asked = c.asked /\ e.org = c.org /\ e.tagged = c.tagged
      /\ e.rewritten = c.rewritten
  BY <1>2, <1>3 DEF Fields
<1>5. req' = [req EXCEPT ![r] = e]
  BY <1>1, <1>2 DEF Front!Goes
<1>6. "at" \in DOMAIN e
  BY <1>4 DEF Fields
<1>7. Fits(e)
  BY <1>3, <1>4, <1>6 DEF Fits, Undecided, Decided
<1>8. StaysQuiet(policy, e)
  BY <1>3, <1>4 DEF StaysQuiet, Binding, Decided
<1>9. Obeys(rules, e)
  <2>1. \A owner \in {NoOrg, Org} : ObeysRules(rules[owner], c) => ObeysRules(rules[owner], e)
    BY <1>4 DEF ObeysRules
  <2> QED  BY <1>3, <1>4, <2>1 DEF Obeys
<1> QED  BY <1>5, <1>6, <1>7, <1>8, <1>9, ReplacedSoundly DEF Sound

(* Leaving from any stage.                                                 *)
LEMMA DoneSoundly ==
  ASSUME GateInv, NEW r \in Handlers, Front!Goes(r, "done"), UNCHANGED <<rules, policy, deleting>>
  PROVE  GateInv'
<1>1. PICK e : e = [req[r] EXCEPT !.at = "done"]
  OBVIOUS
<1>2. "at" \in DOMAIN e /\ e.at = "done"
  BY <1>1 DEF GateInv, AtStages
<1>3. Sound(policy, rules, e)
  BY <1>2 DEF Sound, Fits, Obeys, StaysQuiet, Undecided, Decided
<1>4. req' = [req EXCEPT ![r] = e]
  BY <1>1 DEF Front!Goes
<1> QED  BY <1>2, <1>3, <1>4, ReplacedSoundly


(* All of some rules are on a list.                                        *)
Within(some, list) == \A i \in DOMAIN some : \E j \in DOMAIN list : list[j] = some[i]

(* The rules of a request are those of everybody, and of its org.          *)
LEMMA AllAreListed ==
  ASSUME GateInv, NEW in
  PROVE  /\ Front!Listed(in) \in Seq(Front!Rules)
         /\ Within(rules[NoOrg], Front!Listed(in))
         /\ in.org = Org => Within(rules[Org], Front!Listed(in))
<1>1. PICK a, b : a = rules[NoOrg] /\ b = rules[IF in.org = Org THEN Org ELSE NoOrg]
  OBVIOUS
<1>2. a \in Seq(Front!Rules) /\ b \in Seq(Front!Rules)
  <2>1. a \in RuleLists /\ b \in RuleLists
    BY <1>1 DEF GateInv
  <2> QED  BY <2>1, GateAssumption DEF Front!ConstantsOK
<1>3. PICK s : s = a \o b
  OBVIOUS
<1>4. Front!Listed(in) = s
  BY <1>1, <1>3 DEF Front!Listed
<1>5. /\ s \in Seq(Front!Rules) /\ Len(s) = Len(a) + Len(b)
      /\ \A i \in 1..Len(a) : s[i] = a[i]
      /\ \A i \in 1..Len(b) : s[Len(a) + i] = b[i]
  BY <1>2, <1>3
<1>6. Within(a, s)
  <2> SUFFICES ASSUME NEW i \in DOMAIN a PROVE \E j \in DOMAIN s : s[j] = a[i]
    BY DEF Within
  <2>1. i \in DOMAIN s /\ s[i] = a[i]
    BY <1>2, <1>5
  <2> QED  BY <2>1
<1>7. Within(b, s)
  <2> SUFFICES ASSUME NEW i \in DOMAIN b PROVE \E j \in DOMAIN s : s[j] = b[i]
    BY DEF Within
  <2>1. Len(a) + i \in DOMAIN s /\ s[Len(a) + i] = b[i]
    BY <1>2, <1>5, SMTT(20)
  <2> QED  BY <2>1
<1> QED  BY <1>1, <1>4, <1>5, <1>6, <1>7

(* Whoever obeys the rules of a list obeys some of them.                   *)
LEMMA FewerRules ==
  ASSUME NEW list, NEW some, NEW e, ObeysRules(list, e), Within(some, list)
  PROVE  ObeysRules(some, e)
<1> SUFFICES ASSUME NEW i \in DOMAIN some,
                    Front!Matches(some[i], [alias |-> e.alias, org |-> e.org, tagged |-> e.tagged])
             PROVE  /\ ~some[i].deny
                    /\ some[i].cap > 0 /\ ~e.rewritten => e.limit # None /\ e.limit <= some[i].cap
  BY DEF ObeysRules
<1>1. PICK j \in DOMAIN list : list[j] = some[i]
  BY DEF Within
<1> QED  BY <1>1 DEF ObeysRules

(* The decision of the rules, as the handler applies it.                   *)
LEMMA AllowedObeys ==
  ASSUME GateInv, NEW c, NEW e, NEW in, in = [alias |-> e.alias, org |-> e.org, tagged |-> e.tagged],
         NEW d, d = Front!Evaluate(in), d.allow, c.limit \in Limits,
         e.limit = Front!Capped(c.limit, d.cap)
  PROVE  Obeys(rules, e)
<1>1. PICK list, cap : list = Front!Listed(in) /\ cap = Front!Merged(in).cap
  OBVIOUS
<1>2. d.cap = cap /\ \A j \in DOMAIN list : Front!Matches(list[j], in) => ~list[j].deny
  BY <1>1 DEF Front!Evaluate
<1>3. list \in Seq(Front!Rules) /\ DOMAIN list = 1..Len(list)
  BY <1>1, AllAreListed
<1>4. Covers(cap, list, in, Len(list))
  BY <1>1, <1>3, MergedCap
<1>5. c.limit \in Nat \cup {None} /\ None \notin Nat
  BY GateAssumption DEF Front!ConstantsOK
<1>6. \A j \in DOMAIN list : Front!Matches(list[j], in) =>
        /\ ~list[j].deny
        /\ list[j].cap > 0 => e.limit # None /\ e.limit <= list[j].cap
  <2> SUFFICES ASSUME NEW j \in DOMAIN list, Front!Matches(list[j], in), list[j].cap > 0
               PROVE  e.limit # None /\ e.limit <= list[j].cap
    BY <1>2
  <2>1. cap \in 1..list[j].cap /\ list[j].cap \in Nat
    <3>1. j \in 1..Len(list) /\ list[j] \in Front!Rules
      BY <1>3
    <3>2. list[j].cap \in Nat
      BY <3>1 DEF Front!Rules
    <3> QED  BY <1>4, <3>1, <3>2 DEF Covers
  <2>2. e.limit \in 1..cap \/ (e.limit \in Nat /\ e.limit <= cap)
    BY <1>2, <1>5, <2>1 DEF Front!Capped
  <2> QED  BY <1>5, <2>1, <2>2
<1>7. ObeysRules(list, e)
  BY <1>6 DEF ObeysRules
<1>8. in.org = e.org
  OBVIOUS
<1>9. ObeysRules(rules[NoOrg], e) /\ (e.org = Org => ObeysRules(rules[Org], e))
  <2>1. Within(rules[NoOrg], list) /\ (in.org = Org => Within(rules[Org], list))
    BY <1>1, AllAreListed
  <2> QED  BY <1>7, <1>8, <2>1, FewerRules
<1> QED  BY <1>9 DEF Obeys

(* The gate lets through what the rules and the policy leave.              *)
LEMMA GateIsSound ==
  ASSUME GateInv, NEW r \in Handlers, Front!Gate(r)
  PROVE  GateInv'
<1>1. PICK c, alias : c = req[r] /\ alias = Front!Override(r)
  OBVIOUS
<1>2. PICK in, d : in = Front!InputOf(r, alias) /\ d = Front!Evaluate(in)
  OBVIOUS
<1>3. /\ c.at = "decide" /\ UNCHANGED <<rules, policy, deleting>>
      /\ \/ /\ d.allow
            /\ req' = [req EXCEPT ![r].at = "plugins", ![r].alias = alias,
                          ![r].limit = Front!Capped(@, d.cap), ![r].strategy = None, ![r].signals = None]
         \/ Front!Goes(r, "done")
  BY <1>1, <1>2 DEF Front!Gate, Front!At
<1>4. Fits(c) /\ StaysQuiet(policy, c) /\ DOMAIN c = Fields
  BY <1>1, <1>3 DEF GateInv, Sound, Fits, Undecided
<1>5. CASE Front!Goes(r, "done")
  BY <1>3, <1>5, DoneSoundly
<1>6. CASE ~Front!Goes(r, "done")
  <2>1. PICK limit : limit = Front!Capped(c.limit, d.cap)
    OBVIOUS
  <2>2. PICK e : e = [c EXCEPT !.at = "plugins", !.alias = alias, !.limit = limit, !.strategy = None,
                               !.signals = None]
    OBVIOUS
  <2>3. req' = [req EXCEPT ![r] = e]
    <3>1. req' = [req EXCEPT ![r] = [c EXCEPT !.at = "plugins", !.alias = alias,
                          !.limit = Front!Capped(c.limit, d.cap), !.strategy = None, !.signals = None]]
      BY <1>1, <1>3, <1>4, <1>6 DEF GateInv, AtStages, Fields
    <3> QED  BY <2>1, <2>2, <3>1
  <2>4. /\ e = [f \in Fields |-> e[f]] /\ DOMAIN e = Fields /\ e.at = "plugins" /\ e.failed = c.failed
        /\ e.quiet = c.quiet /\ e.moves = c.moves /\ e.content = c.content /\ e.limit = limit
        /\ e.alias = alias /\ e.asked = c.asked /\ e.org = c.org /\ e.tagged = c.tagged
        /\ e.rewritten = c.rewritten
    BY <1>4, <2>2 DEF Fields
  <2>5. "at" \in DOMAIN e
    BY <2>4 DEF Fields
  <2>6. Fits(e)
    BY <1>3, <1>4, <2>4, <2>5 DEF Fits, Undecided, Decided
  <2>7. StaysQuiet(policy, e)
    BY <1>1, <1>3, <1>4, <2>4 DEF StaysQuiet, Binding, Decided, Front!Override, IsQuiet
  <2>8. Obeys(rules, e)
    <3>1. in = [alias |-> e.alias, org |-> e.org, tagged |-> e.tagged]
      BY <1>1, <1>2, <2>4 DEF Front!InputOf
    <3>2. d.allow /\ c.limit \in Limits
      BY <1>3, <1>4, <1>6 DEF Fits, Undecided
    <3>3. e.limit = Front!Capped(c.limit, d.cap)
      BY <2>1, <2>4
    <3> QED  BY <1>2, <3>1, <3>2, <3>3, AllowedObeys
  <2> QED  BY <1>3, <2>3, <2>5, <2>6, <2>7, <2>8, ReplacedSoundly DEF Sound
<1> QED  BY <1>5, <1>6

(* What a plugin rewrites keeps its alias, and so what rules deny it.      *)
LEMMA PluginsAreSound ==
  ASSUME GateInv, NEW r \in Handlers, Front!RunBeforeChat(r)
  PROVE  GateInv'
<1>1. PICK c : c = req[r]
  OBVIOUS
<1>2. c.at = "plugins" /\ UNCHANGED <<rules, policy, deleting>>
  BY <1>1 DEF Front!RunBeforeChat, Front!At
<1>3. Fits(c) /\ Obeys(rules, c) /\ StaysQuiet(policy, c) /\ c.at \in Decided /\ DOMAIN c = Fields
  BY <1>1, <1>2 DEF GateInv, Sound, Fits, Decided
<1>4. CASE Front!Goes(r, "done") \/ Front!Goes(r, "upstream")
  <2>1. PICK stage \in Decided \cup {"done"} : Front!Goes(r, stage)
    BY <1>4 DEF Decided
  <2> QED  BY <1>1, <1>2, <1>3, <2>1, GoesSoundly
<1>5. ASSUME NEW content, NEW limit,
             req' = [req EXCEPT ![r].at = "upstream", ![r].content = content, ![r].limit = limit,
                       ![r].rewritten = TRUE]
      PROVE  GateInv'
  <2>1. PICK rewritten : rewritten = TRUE
    OBVIOUS
  <2>2. PICK e : e = [c EXCEPT !.at = "upstream", !.content = content, !.limit = limit, !.rewritten = rewritten]
    OBVIOUS
  <2>3. req' = [req EXCEPT ![r] = e]
    <3>1. req' = [req EXCEPT ![r].at = "upstream", ![r].content = content, ![r].limit = limit,
                    ![r].rewritten = rewritten]
      BY <1>5, <2>1
    <3> HIDE <2>1
    <3> QED  BY <1>1, <1>3, <2>2, <3>1 DEF GateInv, AtStages, Fields
  <2>4. /\ e = [f \in Fields |-> e[f]] /\ DOMAIN e = Fields /\ e.at = "upstream" /\ e.failed = c.failed
        /\ e.quiet = c.quiet /\ e.moves = c.moves /\ e.rewritten = rewritten
        /\ e.alias = c.alias /\ e.asked = c.asked /\ e.org = c.org /\ e.tagged = c.tagged
    BY <1>3, <2>2 DEF Fields
  <2>5. rewritten
    BY <2>1, Zenon
  <2>6. "at" \in DOMAIN e
    BY <2>4 DEF Fields
  <2>7. Fits(e)
    BY <1>3, <2>4, <2>5, <2>6 DEF Fits, Undecided, Decided
  <2>8. StaysQuiet(policy, e)
    BY <1>3, <2>4 DEF StaysQuiet, Binding, Decided
  <2>9. Obeys(rules, e)
    <3>1. \A owner \in {NoOrg, Org} : ObeysRules(rules[owner], c) => ObeysRules(rules[owner], e)
      BY <2>4, <2>5 DEF ObeysRules
    <3> QED  BY <1>3, <2>4, <3>1 DEF Obeys
  <2> QED  BY <1>2, <2>3, <2>6, <2>7, <2>8, <2>9, ReplacedSoundly DEF Sound
<1> QED  BY <1>4, <1>5 DEF Front!RunBeforeChat


(* A change counts, and what is quiet after it was so before.              *)
LEMMA CountsTo ==
  ASSUME NEW n \in 0..2
  PROVE  Front!Min({2, n + 1}) \in 1..2 /\ (Front!Min({2, n + 1}) < 2 => n = 0)
<1>1. \E x \in {2, n + 1} : \A y \in {2, n + 1} : x <= y
  <2>1. CASE n = 2
    BY <2>1
  <2>2. CASE n \in 0..1
    BY <2>2
  <2> QED  BY <2>1, <2>2
<1>2. PICK m : m = Front!Min({2, n + 1})
  OBVIOUS
<1>3. m \in {2, n + 1} /\ \A y \in {2, n + 1} : m <= y
  BY <1>1, <1>2 DEF Front!Min
<1> QED  BY <1>2, <1>3

(* An administrator's change of a row.                                     *)
LEMMA ChangeIsSound ==
  ASSUME GateInv, NEW alias \in Governed, NEW owner \in {Org, NoOrg}, NEW strategy \in Strategies \cup {None},
         Front!Change(alias, owner, strategy), UNCHANGED rules, deleting' \in Owned \cup {None}
  PROVE  GateInv'
<1>1. PICK table : table = policy'
  OBVIOUS
<1>2. /\ table \in [Owned -> Strategies \cup {None}]
      /\ \A a \in Governed, o \in {Org, NoOrg} :
           table[<<a, o>>] = IF a = alias /\ o = owner THEN strategy ELSE policy[<<a, o>>]
  BY <1>1 DEF Front!Change, GateInv, Owned
<1>3. NoOrg # Org /\ ~IsQuiet(None)
  BY GateAssumption DEF Front!ConstantsOK, IsQuiet
<1>4. ASSUME NEW a, NEW o \in {Org, NoOrg}, a # alias \/ o # owner
      PROVE  Front!RowIn(table, a, o) = Front!RowIn(policy, a, o)
  BY <1>2, <1>4 DEF Front!RowIn
<1>5. AtStages'
  BY DEF Front!Change, GateInv, AtStages
<1>6. ASSUME NEW r \in Handlers PROVE Sound(table, rules, req'[r])
  <2>1. PICK c, e : c = req[r] /\ e = req'[r]
    OBVIOUS
  <2>2. Fits(c) /\ Obeys(rules, c) /\ StaysQuiet(policy, c)
    BY <2>1 DEF GateInv, Sound
  <2>3. CASE c.at \notin Undecided \/ c.asked # alias
    <3>1. e = c
      BY <2>1, <2>3 DEF Front!Change, Front!LookingUp, Undecided
    <3>2. CASE c.at \notin Undecided
      BY <2>1, <2>2, <3>1, <3>2 DEF Sound, StaysQuiet, Undecided
    <3>3. CASE c.asked # alias
      <4>1. /\ Front!RowIn(table, c.asked, Org) = Front!RowIn(policy, c.asked, Org)
            /\ Front!RowIn(table, c.asked, NoOrg) = Front!RowIn(policy, c.asked, NoOrg)
        BY <1>4, <3>3
      <4> QED  BY <2>1, <2>2, <3>1, <4>1 DEF Sound, StaysQuiet, Front!Governing
    <3> QED  BY <2>3, <3>2, <3>3
  <2>4. CASE c.at \in Undecided /\ c.asked = alias
    <3>1. PICK n, still : n = Front!Min({2, c.moves + 1}) /\
                          still = (c.quiet /\ Front!Governing(table, alias, c.org) \in Front!Quiet)
      OBVIOUS
    <3>2. DOMAIN c = Fields /\ c.moves \in 0..2 /\ c.quiet \in BOOLEAN
      BY <2>2, <2>4 DEF Fits
    <3>3. e = [c EXCEPT !.moves = n, !.quiet = still]
      <4>1. e = [c EXCEPT !.moves = Front!Min({2, c.moves + 1}),
                          !.quiet = c.quiet /\ Front!Governing(table, alias, c.org) \in Front!Quiet]
        BY <1>1, <2>1, <2>4, <3>2 DEF Front!Change, Front!LookingUp, Undecided, Fields
      <4> QED  BY <3>1, <4>1
    <3>4. /\ e = [f \in Fields |-> e[f]] /\ DOMAIN e = Fields /\ e.at = c.at /\ e.failed = c.failed
          /\ e.quiet = still /\ e.moves = n /\ e.content = c.content /\ e.limit = c.limit
          /\ e.asked = c.asked /\ e.org = c.org /\ e.strategy = c.strategy
          /\ e.rewritten = c.rewritten
      BY <3>2, <3>3 DEF Fields
    <3>5. n \in 1..2 /\ (n < 2 => c.moves = 0)
      BY <3>1, <3>2, CountsTo
    <3>6. still \in BOOLEAN
      BY <3>1
    <3>7. still => c.quiet /\ IsQuiet(Front!Governing(table, alias, c.org))
      BY <3>1 DEF IsQuiet
    <3>8. Fits(e) /\ Obeys(rules, e)
      BY <2>2, <2>4, <3>4, <3>5, <3>6 DEF Fits, Obeys, Undecided, Decided, Fields
    <3>9. Binding(e) => Binding(c) /\ c.moves = 0 /\ IsQuiet(Front!Governing(table, alias, c.org))
      BY <3>4, <3>5, <3>7 DEF Binding
    <3>10. PICK none, own : none = Front!RowIn(table, alias, NoOrg) /\ own = Front!RowIn(table, alias, Org)
      OBVIOUS
    <3>11. CASE c.at = "own"
      <4>1. c.org = Org
        BY <2>2, <3>11 DEF Fits
      <4> QED  BY <2>1, <2>4, <3>4, <3>7, <3>8, <3>11, <4>1 DEF Sound, StaysQuiet, Decided
    <3>12. CASE c.at = "default"
      <4>1. c.org = Org
        BY <2>2, <3>12 DEF Fits
      <4>2. ASSUME Binding(e) PROVE IsQuiet(none)
        <5>1. IsQuiet(Front!RowIn(policy, alias, NoOrg)) /\ Front!RowIn(policy, alias, Org) = None
          BY <2>2, <2>4, <3>9, <3>12, <4>2 DEF StaysQuiet
        <5>2. CASE owner = Org
          BY <1>3, <1>4, <3>10, <5>1, <5>2
        <5>3. CASE owner = NoOrg
          <6>1. Front!RowIn(table, alias, Org) = None
            BY <1>3, <1>4, <5>1, <5>3
          <6> QED  BY <3>9, <3>10, <4>1, <4>2, <6>1 DEF Front!Governing
        <5> QED  BY <5>2, <5>3
      <4> QED  BY <2>1, <2>4, <3>4, <3>5, <3>8, <3>10, <3>12, <4>2 DEF Sound, StaysQuiet, Decided
    <3>13. CASE c.at = "global"
      <4>1. Binding(e) => c.org # Org /\ Front!Governing(table, alias, c.org) = none
        BY <2>2, <3>9, <3>10, <3>13 DEF StaysQuiet, Front!Governing
      <4> QED  BY <2>1, <2>4, <3>4, <3>8, <3>9, <3>10, <3>13, <4>1 DEF Sound, StaysQuiet, Decided
    <3>14. CASE c.at = "decide"
      BY <2>1, <2>2, <3>4, <3>8, <3>9, <3>14 DEF Sound, StaysQuiet, Decided
    <3> QED  BY <2>4, <3>11, <3>12, <3>13, <3>14 DEF Undecided
  <2> QED  BY <2>3, <2>4
<1> QED  BY <1>1, <1>2, <1>5, <1>6 DEF GateInv


(* Every step of the gate keeps the invariant.                             *)
LEMMA GateGoesOn ==
  ASSUME GateInv, [Front!Next]_(Front!vars)
  PROVE  GateInv'
<1>1. ASSUME NEW r \in Handlers, Front!Receive(r) PROVE GateInv'
  BY <1>1, ArrivalIsSound
<1>2. ASSUME NEW r \in Handlers, Front!LookupOwn(r) \/ Front!LookupDefault(r) \/ Front!LookupGlobal(r) PROVE GateInv'
  BY <1>2, LookupsAreSound
<1>3. ASSUME NEW r \in Handlers, Front!LookupFails(r) PROVE GateInv'
  BY <1>3, FailureIsSound
<1>4. ASSUME NEW r \in Handlers, Front!Gate(r) PROVE GateInv'
  BY <1>4, GateIsSound
<1>10. ASSUME NEW r \in Handlers, Front!RunBeforeChat(r) PROVE GateInv'
  BY <1>10, PluginsAreSound
<1>5. ASSUME NEW r \in Handlers,
             Front!Answered(r) \/ Front!Acquire(r) \/ Front!GiveBack(r) \/ Front!ShadowEnds(r)
      PROVE  GateInv'
  <2>1. PICK stage \in Decided \cup {"done"} : Front!Goes(r, stage)
    BY <1>5 DEF Front!Answered, Front!Acquire, Front!GiveBack, Front!ShadowEnds, Decided
  <2>2. req[r].at \in Decided /\ UNCHANGED <<rules, policy, deleting>>
    BY <1>5 DEF Front!Answered, Front!Acquire, Front!GiveBack, Front!ShadowEnds, Front!At, Decided
  <2> QED  BY <2>1, <2>2, GoesSoundly
<1>6. CASE Front!UpsertRoutingPolicy
  <2>1. PICK alias \in Governed, owner \in {Org, NoOrg}, s \in Strategies : Front!Change(alias, owner, s)
    BY <1>6 DEF Front!UpsertRoutingPolicy
  <2>2. UNCHANGED <<rules, deleting>>
    BY <1>6 DEF Front!UpsertRoutingPolicy
  <2> QED  BY <2>1, <2>2, ChangeIsSound DEF GateInv
<1>7. CASE Front!DeleteRoutingPolicy
  <2>1. deleting' \in Owned /\ UNCHANGED <<rules, policy, req>>
    BY <1>7 DEF Front!DeleteRoutingPolicy, Owned
  <2> QED  BY <2>1 DEF GateInv, AtStages
<1>8. CASE Front!DeleteRow
  <2>1. deleting \in Owned
    BY <1>8 DEF Front!DeleteRow, GateInv
  <2>2. deleting[1] \in Governed /\ deleting[2] \in {Org, NoOrg}
    BY <2>1 DEF Owned
  <2>3. Front!Change(deleting[1], deleting[2], None) /\ deleting' = None /\ UNCHANGED rules
    BY <1>8 DEF Front!DeleteRow
  <2>4. PICK alias, owner : alias = deleting[1] /\ owner = deleting[2]
    OBVIOUS
  <2> QED  BY <2>2, <2>3, <2>4, ChangeIsSound
<1>9. CASE UNCHANGED Front!vars
  BY <1>9 DEF Front!vars, GateInv, AtStages
<1> QED  BY <1>1, <1>2, <1>3, <1>4, <1>5, <1>6, <1>7, <1>8, <1>9, <1>10 DEF Front!Next, Front!Serve

(* It holds while every handler is idle.                                   *)
LEMMA GateBegins ==
  ASSUME Front!Init
  PROVE  GateInv
<1>1. \A r \in Handlers : req[r].at = "idle" /\ "at" \in DOMAIN req[r]
  BY DEF Front!Init, Front!Idle
<1>2. AtStages
  BY DEF Front!Init, Front!Idle, AtStages
<1>3. \A r \in Handlers : Sound(policy, rules, req[r])
  BY <1>1 DEF Sound, Fits, Obeys, StaysQuiet, Undecided, Decided
<1> QED  BY <1>2, <1>3 DEF Front!Init, GateInv, Owned

(* What the invariant says of the requests that left.                      *)
LEMMA SoundMeansObeyed ==
  ASSUME GateInv
  PROVE  Front!EgressIsAllowed /\ Front!OffIsRespected
<1>1. ASSUME NEW r \in Front!Left, NEW owner \in {NoOrg} \cup ({Org} \cap {req[r].org}), NEW i \in DOMAIN rules[owner]
      PROVE  LET rule == rules[owner][i]
             IN  Front!Matches(rule, [alias |-> req[r].alias, org |-> req[r].org, tagged |-> req[r].tagged]) =>
                   /\ ~rule.deny
                   /\ rule.cap > 0 /\ ~req[r].rewritten => req[r].limit # None /\ req[r].limit <= rule.cap
  <2>1. PICK c : c = req[r]
    OBVIOUS
  <2>2. c.at \in Decided /\ Obeys(rules, c)
    BY <2>1 DEF Front!Left, GateInv, Sound, Decided
  <2>3. ObeysRules(rules[owner], c)
    BY <2>1, <2>2 DEF Obeys
  <2> QED  BY <2>1, <2>3 DEF ObeysRules
<1>2. ASSUME NEW r \in Front!Left
      PROVE  /\ ~req[r].rewritten => req[r].content \cap {"pattern", "injection", "personal"} = {}
             /\ req[r].quiet /\ req[r].moves < 2 /\ ~req[r].failed => req[r].alias = req[r].asked
  <2>1. PICK c : c = req[r]
    OBVIOUS
  <2>2. c.at \in Decided /\ Fits(c) /\ StaysQuiet(policy, c)
    BY <2>1 DEF Front!Left, GateInv, Sound, Decided
  <2> QED  BY <2>1, <2>2 DEF Fits, StaysQuiet, Binding
<1>3. Front!EgressIsAllowed
  BY <1>1, <1>2 DEF Front!EgressIsAllowed
<1>4. Front!OffIsRespected
  BY <1>2 DEF Front!OffIsRespected
<1> QED  BY <1>3, <1>4


----------------------------------------------------------------------------
(* However many handlers there are, and however their counts and           *)
(* retractions interleave, no more challengers than MaxConcurrent run, and *)
(* the count is exact: a handler that gives back what was too much is      *)
(* counted until it has (shadow.go:49-86).                                 *)
THEOREM ShadowsBounded == Front!Spec => []Front!ShadowsAreBounded
<1>1. Front!Init => SlotsInv
  BY SlotsBegin
<1>2. SlotsInv /\ [Front!Next]_(Front!vars) => SlotsInv'
  BY SlotsGoOn
<1>3. SlotsInv => Front!ShadowsAreBounded
  BY DEF SlotsInv
<1> QED  BY <1>1, <1>2, <1>3, PTL DEF Front!Spec

(* For any files of rules and any requests, none is sent to an alias that  *)
(* a rule denies it, whatever the plugins write; what they have not        *)
(* rewritten is under every cap and holds nothing the guardrails take out; *)
(* and an alias that is off is served by itself unless its policy changed  *)
(* twice between the queries, or one of them failed (chat.go:166-325,      *)
(* chat_savings.go).                                                       *)
THEOREM RequestsObey == Front!Spec => [](Front!EgressIsAllowed /\ Front!OffIsRespected)
<1>1. Front!Init => GateInv
  BY GateBegins
<1>2. GateInv /\ [Front!Next]_(Front!vars) => GateInv'
  BY GateGoesOn
<1>3. GateInv => Front!EgressIsAllowed /\ Front!OffIsRespected
  BY SoundMeansObeyed
<1> QED  BY <1>1, <1>2, <1>3, PTL DEF Front!Spec

(* The same of the parts that the runs choose from.                        *)
PartsInv == (part = "gate" => GateInv) /\ (part = "shadow" => SlotsInv)

(* They start so.                                                          *)
LEMMA PartsBegin ==
  ASSUME MCInit
  PROVE  PartsInv
BY GateBegins, SlotsBegin DEF MCInit, PartsInv

(* Each step is one of the gate or leaves it alone.                        *)
LEMMA PartsGoOn ==
  ASSUME PartsInv, [MCNext]_MCVars
  PROVE  PartsInv'
<1>1. part' = part /\ (part \in {"gate", "shadow"} => [Front!Next]_(Front!vars))
  BY DEF MCNext, CallStep, TalkStep, GateStep, ShadowStep, Rest, MCVars, gateVars, Front!vars
<1> QED  BY <1>1, GateGoesOn, SlotsGoOn DEF PartsInv

(* The invariant of the parts holds throughout.                            *)
LEMMA PartsInvariant == MCSpec => []PartsInv
<1>1. MCInit => PartsInv
  BY PartsBegin
<1>2. PartsInv /\ [MCNext]_MCVars => PartsInv'
  BY PartsGoOn
<1> QED  BY <1>1, <1>2, PTL DEF MCSpec

(* No request gets past the rules, the guardrails and an alias that is not *)
(* to be overridden (chat.go:150-325), in the specification of the runs.   *)
THEOREM RulesObeyed == MCSpec => []RulesAreObeyed
<1>1. PartsInv => RulesAreObeyed
  BY SoundMeansObeyed DEF PartsInv, RulesAreObeyed
<1> QED  BY <1>1, PartsInvariant, PTL

(* The challenger calls of it are within their slots (shadow.go:49-86).    *)
THEOREM SlotsHold == MCSpec => []ShadowsAreBounded
<1>1. PartsInv => ShadowsAreBounded
  BY DEF PartsInv, SlotsInv, ShadowsAreBounded
<1> QED  BY <1>1, PartsInvariant, PTL

=============================================================================
