---------------------------- MODULE RoutingProofs ----------------------------
(***************************************************************************)
(* What holds between a client and a provider in every behaviour, however  *)
(* long, of the parts of MCRouting: one speculative race, one streamed     *)
(* answer, the limits of an API key, the registration limiter, the order   *)
(* of an alias's deployments, and the types of them all.                   *)
(*                                                                         *)
(* A part's invariant says nothing while another part is exercised.        *)
(***************************************************************************)
EXTENDS MCRouting, InductionLemmas, FiniteSetTheorems

----------------------------------------------------------------------------
(* Speculative.  A branch has published its result or not, and the channel *)
(* holds what was published, in order; the loop has received a beginning   *)
(* of it, and what it received settles the winner and the losers.          *)

Ok(i) == results[i][2]
Of(i) == results[i][1]

(* What the loop knows after none, one and both of the results.            *)
NothingIn == winner = "none" /\ losers = {}
OneIn ==
  /\ 1 \in DOMAIN results
  /\ \/ Ok(1) /\ winner = Of(1) /\ losers = {}
     \/ ~Ok(1) /\ winner = "none" /\ losers = {Of(1)}
BothIn ==
  /\ {1, 2} \subseteq DOMAIN results
  /\ \/ Ok(1) /\ winner = Of(1) /\ losers = {Of(2)}
     \/ ~Ok(1) /\ Ok(2) /\ winner = Of(2) /\ losers = {Of(1)}
     \/ ~Ok(1) /\ ~Ok(2) /\ winner = "none" /\ losers = Race!Branches

Bodies ==
  \A b \in Race!Branches :
    /\ branch[b] \in {"grace", "running", "failed"} => response[b] = "none"
    /\ branch[b] = "answered" => response[b] = "open"
    /\ response[b] = "closed" => main = "returned" /\ b \in losers

Published ==
  /\ \A i \in DOMAIN results : branch[Of(i)] = "sent" /\ (Ok(i) <=> response[Of(i)] # "none")
  /\ \A i, j \in DOMAIN results : Of(i) = Of(j) => i = j
  /\ \A b \in Race!Branches : branch[b] = "sent" => \E i \in DOMAIN results : Of(i) = b

AfterReturn ==
  main = "returned" => BothIn /\ \A b \in losers : response[b] # "open"

RaceInv ==
  /\ Race!TypeOK /\ Bodies /\ Published
  /\ NothingIn \/ OneIn \/ BothIn
  /\ AfterReturn

(* Each result in the channel is a branch and whether it succeeded.        *)
LEMMA ResultsType ==
  ASSUME RaceInv
  PROVE  /\ results \in Seq(Race!Branches \X BOOLEAN) /\ Len(results) \in 0..2
         /\ \A i \in DOMAIN results : /\ Of(i) \in Race!Branches /\ Of(i) # "none" /\ Ok(i) \in BOOLEAN
                                     /\ results[i] = <<Of(i), Ok(i)>>
<1>1. results \in Seq(Race!Branches \X BOOLEAN) /\ Len(results) <= 2
  BY DEF RaceInv, Race!TypeOK
<1>2. \A i \in DOMAIN results : results[i] \in Race!Branches \X BOOLEAN
  BY <1>1
<1>3. \A p \in Race!Branches \X BOOLEAN : p[1] \in Race!Branches /\ p[2] \in BOOLEAN /\ p = <<p[1], p[2]>>
  OBVIOUS
<1>4. \A i \in DOMAIN results : Of(i) \in Race!Branches /\ Ok(i) \in BOOLEAN /\ results[i] = <<Of(i), Ok(i)>>
  BY <1>2, <1>3 DEF Of, Ok
<1>5. "none" \notin Race!Branches
  BY DEF Race!Branches
<1>6. Len(results) \in 0..2
  <2>1. Len(results) \in Nat
    BY <1>1
  <2>2. \A n \in Nat : n <= 2 => n \in 0..2
    OBVIOUS
  <2> QED  BY <1>1, <2>1, <2>2
<1>7. \A i \in DOMAIN results : Of(i) # "none"
  BY <1>4, <1>5
<1> QED  BY <1>1, <1>4, <1>6, <1>7

(* Once both results are received, both branches have published.           *)
LEMMA BothHaveSent ==
  ASSUME RaceInv, BothIn
  PROVE  /\ Of(1) # Of(2) /\ Race!Branches = {Of(1), Of(2)}
         /\ \A b \in Race!Branches : branch[b] = "sent"
<1>1. 1 \in DOMAIN results /\ 2 \in DOMAIN results
  BY DEF BothIn
<1>2. Of(1) # Of(2) /\ branch[Of(1)] = "sent" /\ branch[Of(2)] = "sent"
  BY <1>1 DEF RaceInv, Published
<1>3. Of(1) \in Race!Branches /\ Of(2) \in Race!Branches
  BY <1>1, ResultsType
<1> QED  BY <1>2, <1>3 DEF Race!Branches

(* Two elements are two.                                                   *)
LEMMA TwoElements ==
  ASSUME NEW a, NEW b, a # b
  PROVE  Cardinality({a, b}) = 2
<1>1. IsFiniteSet({a}) /\ Cardinality({a}) = 1 /\ b \notin {a}
  BY FS_Singleton
<1>2. Cardinality({a} \cup {b}) = Cardinality({a}) + 1
  BY <1>1, FS_AddElement
<1>3. {a} \cup {b} = {a, b}
  OBVIOUS
<1> QED  BY <1>1, <1>2, <1>3

(* What the loop has received, as it counts it.                            *)
LEMMA ReceivedCounts ==
  ASSUME RaceInv
  PROVE  /\ NothingIn => Race!Received = 0
         /\ OneIn => Race!Received = 1
         /\ BothIn => Race!Received = 2
<1> DEFINE one == IF winner = "none" THEN 0 ELSE 1
<1>1. Race!Received = Cardinality(losers) + one
  <2>1. Race!Cardinality(losers) = Cardinality(losers)
    BY DEF Race!Cardinality, Cardinality
  <2> QED  BY <2>1 DEF Race!Received
<1>2. \A b : Cardinality({b}) = 1
  BY FS_Singleton
<1>3. Cardinality({}) = 0
  BY FS_EmptySet
<1>4. Cardinality(Race!Branches) = 2
  BY TwoElements DEF Race!Branches
<1>5. \A i \in DOMAIN results : Of(i) # "none"
  BY ResultsType
<1>6. ASSUME NothingIn PROVE Race!Received = 0
  BY <1>1, <1>3, <1>6 DEF NothingIn
<1>7. ASSUME OneIn PROVE Race!Received = 1
  <2>1. \/ one = 1 /\ Cardinality(losers) = 0
        \/ one = 0 /\ Cardinality(losers) = 1
    BY <1>2, <1>3, <1>5, <1>7 DEF OneIn
  <2> QED  BY <1>1, <2>1
<1>8. ASSUME BothIn PROVE Race!Received = 2
  <2>1. \/ one = 1 /\ Cardinality(losers) = 1
        \/ one = 0 /\ Cardinality(losers) = 2
    BY <1>2, <1>4, <1>5, <1>8 DEF BothIn
  <2> QED  BY <1>1, <2>1
<1> QED  BY <1>6, <1>7, <1>8

(* A step of a branch that publishes nothing.                              *)
LEMMA BranchSteps ==
  ASSUME RaceInv, NEW b \in Race!Branches,
         Race!GraceOver(b) \/ Race!GraceCancelled(b) \/ Race!Answer(b) \/ Race!Fail(b)
  PROVE  RaceInv'
<1>1. Race!TypeOK'
  BY DEF RaceInv, Race!TypeOK, Race!GraceOver, Race!GraceCancelled, Race!Answer, Race!Fail
<1>2. UNCHANGED <<results, main, winner, losers>>
  BY DEF Race!GraceOver, Race!GraceCancelled, Race!Answer, Race!Fail
<1>3. branch[b] # "sent" /\ branch' = [branch EXCEPT ![b] = branch'[b]] /\ branch'[b] # "sent"
  BY DEF RaceInv, Race!TypeOK, Race!GraceOver, Race!GraceCancelled, Race!Answer, Race!Fail
<1>4. \A i \in DOMAIN results : Of(i) \in Race!Branches /\ Of(i) # b
  BY <1>3, ResultsType DEF RaceInv, Published
<1>5. \A c \in Race!Branches \ {b} : response'[c] = response[c]
  BY DEF RaceInv, Race!TypeOK, Race!GraceOver, Race!GraceCancelled, Race!Answer, Race!Fail
<1>6. Published'
  BY <1>2, <1>3, <1>4, <1>5 DEF RaceInv, Race!TypeOK, Published, Of, Ok
<1>7. Bodies'
  BY DEF RaceInv, Race!TypeOK, Bodies, Race!GraceOver, Race!GraceCancelled, Race!Answer, Race!Fail
<1>8. NothingIn' <=> NothingIn
  BY <1>2 DEF NothingIn
<1>9. (OneIn' <=> OneIn) /\ (BothIn' <=> BothIn)
  BY <1>2 DEF OneIn, BothIn, Ok, Of
<1>10. AfterReturn'
  <2>1. ~BothIn
    BY <1>3, BothHaveSent
  <2> QED  BY <1>2, <2>1 DEF AfterReturn, RaceInv
<1> QED  BY <1>1, <1>6, <1>7, <1>8, <1>9, <1>10 DEF RaceInv

(* The channel never fills: each branch publishes once.                    *)
LEMMA PublishSteps ==
  ASSUME RaceInv, NEW b \in Race!Branches, Race!Publish(b)
  PROVE  RaceInv'
<1> DEFINE ok == branch[b] = "answered"
<1>1. /\ results' = Append(results, <<b, ok>>) /\ branch' = [branch EXCEPT ![b] = "sent"]
      /\ UNCHANGED <<clientGone, cancelled, response, main, winner, losers>>
      /\ branch[b] \in {"answered", "failed"}
  BY DEF Race!Publish
<1>2. results \in Seq(Race!Branches \X BOOLEAN) /\ Len(results) \in 0..2
  BY ResultsType
<1>3. \A i \in DOMAIN results : Of(i) \in Race!Branches /\ Of(i) # b
  BY <1>1, ResultsType DEF RaceInv, Published
<1>4. Len(results) \in 0..1
  <2>1. ASSUME Len(results) = 2 PROVE FALSE
    <3>1. 1 \in DOMAIN results /\ 2 \in DOMAIN results
      BY <1>2, <2>1
    <3>2. Of(1) # Of(2)
      BY <3>1 DEF RaceInv, Published
    <3> QED  BY <1>3, <3>1, <3>2 DEF Race!Branches
  <2> QED  BY <1>2, <2>1
<1>5. ok \in BOOLEAN /\ <<b, ok>> \in Race!Branches \X BOOLEAN
  OBVIOUS
<1> HIDE DEF ok
<1>6. /\ results' \in Seq(Race!Branches \X BOOLEAN) /\ Len(results') = Len(results) + 1
      /\ DOMAIN results' = DOMAIN results \cup {Len(results) + 1}
      /\ results'[Len(results) + 1] = <<b, ok>>
      /\ \A i \in DOMAIN results : results'[i] = results[i]
  BY <1>1, <1>2, <1>5
<1>7. Race!TypeOK'
  BY <1>1, <1>4, <1>6 DEF RaceInv, Race!TypeOK
<1>8. Bodies'
  BY <1>1 DEF RaceInv, Race!TypeOK, Bodies
<1>9. ok <=> response[b] # "none"
  BY <1>1 DEF ok, RaceInv, Bodies
<1>10. Published'
  <2>8. PICK last : last = Len(results) + 1
    OBVIOUS
  <2>1. \A i \in DOMAIN results : Of(i)' = Of(i) /\ Ok(i)' = Ok(i)
    BY <1>6 DEF Of, Ok
  <2>0. DOMAIN results' = DOMAIN results \cup {last} /\ results'[last] = <<b, ok>>
    BY <1>6, <2>8
  <2>2. results'[last][1] = b /\ results'[last][2] = ok
    BY <2>0
  <2>7. \A i : Of(i)' = results'[i][1] /\ Ok(i)' = results'[i][2]
    BY DEF Of, Ok
  <2>3. ASSUME NEW i \in DOMAIN results'
        PROVE  branch'[Of(i)'] = "sent" /\ (Ok(i)' <=> response[Of(i)'] # "none")
    <3>1. branch'[b] = "sent" /\ \A c \in Race!Branches \ {b} : branch'[c] = branch[c]
      BY <1>1 DEF RaceInv, Race!TypeOK
    <3>2. CASE i = last
      <4>1. Of(i)' = b /\ Ok(i)' = ok
        BY <2>2, <2>7, <3>2
      <4> QED  BY <1>9, <3>1, <4>1
    <3>3. CASE i \in DOMAIN results
      BY <1>3, <2>1, <3>1, <3>3 DEF RaceInv, Published
    <3> QED  BY <2>0, <3>2, <3>3
  <2>4. ASSUME NEW i \in DOMAIN results', NEW j \in DOMAIN results', Of(i)' = Of(j)'
        PROVE  i = j
    <3>1. CASE i \in DOMAIN results /\ j \in DOMAIN results
      BY <2>1, <2>4, <3>1 DEF RaceInv, Published
    <3>2. ASSUME NEW k \in DOMAIN results PROVE Of(k)' # b
      BY <1>3, <2>1
    <3>3. Of(last)' = b
      BY <2>2, <2>7
    <3> QED  BY <2>0, <2>4, <3>1, <3>2, <3>3
  <2>5. ASSUME NEW c \in Race!Branches, branch'[c] = "sent"
        PROVE  \E i \in DOMAIN results' : Of(i)' = c
    <3>1. CASE c = b
      BY <2>0, <2>2, <2>7, <3>1
    <3>2. CASE c # b
      <4>1. branch[c] = "sent"
        BY <1>1, <2>5, <3>2 DEF RaceInv, Race!TypeOK
      <4> QED  BY <2>0, <2>1, <4>1 DEF RaceInv, Published
    <3> QED  BY <3>1, <3>2
  <2>6. UNCHANGED response
    BY <1>1
  <2> QED  BY <2>3, <2>4, <2>5, <2>6 DEF Published
<1>11. NothingIn => NothingIn'
  BY <1>1 DEF NothingIn
<1>12. (OneIn => OneIn') /\ (BothIn => BothIn')
  BY <1>1, <1>6 DEF OneIn, BothIn, Ok, Of
<1>13. AfterReturn'
  BY <1>1, <1>12 DEF RaceInv, AfterReturn
<1> QED  BY <1>7, <1>8, <1>10, <1>11, <1>12, <1>13 DEF RaceInv

(* The collector keeps the invariant of a race.                            *)
LEMMA CollectSteps ==
  ASSUME RaceInv, Race!Collect
  PROVE  RaceInv'
<1> DEFINE n == Race!Received + 1
<1>1. /\ main = "collecting" /\ Race!Received < 2 /\ Len(results) > Race!Received
      /\ IF results[n][2] /\ winner = "none"
         THEN winner' = results[n][1] /\ cancelled' = TRUE /\ UNCHANGED losers
         ELSE losers' = losers \cup {results[n][1]} /\ UNCHANGED <<winner, cancelled>>
      /\ UNCHANGED <<clientGone, branch, response, results, main>>
  BY DEF Race!Collect
<1>2. results \in Seq(Race!Branches \X BOOLEAN) /\ Len(results) \in 0..2
  BY ResultsType
<1>3. ~BothIn
  BY <1>1, ReceivedCounts
<1>4. CASE NothingIn
  <2>1. n = 1 /\ 1 \in DOMAIN results
    BY <1>1, <1>2, <1>4, ReceivedCounts
  <2>2. Of(1) \in Race!Branches /\ Ok(1) \in BOOLEAN
    BY <2>1, ResultsType
  <2>3. OneIn'
    <3>1. CASE Ok(1)
      BY <1>1, <1>4, <2>1, <3>1 DEF NothingIn, OneIn, Of, Ok
    <3>2. CASE ~Ok(1)
      BY <1>1, <1>4, <2>1, <3>2 DEF NothingIn, OneIn, Of, Ok
    <3> QED  BY <3>1, <3>2
  <2>4. Race!TypeOK'
    BY <1>1, <1>2, <2>1, <2>2 DEF Of, RaceInv, Race!TypeOK
  <2> QED  BY <1>1, <2>3, <2>4 DEF RaceInv, Bodies, Published, AfterReturn, Of, Ok
<1>5. CASE OneIn
  <2>1. n = 2 /\ 2 \in DOMAIN results /\ 1 \in DOMAIN results
    BY <1>1, <1>2, <1>5, ReceivedCounts
  <2>2. Of(1) \in Race!Branches /\ Of(2) \in Race!Branches /\ Of(1) # Of(2) /\ Of(1) # "none"
    <3>1. Of(1) \in Race!Branches /\ Of(2) \in Race!Branches
      BY <2>1, ResultsType
    <3>2. Of(1) # Of(2)
      BY <2>1 DEF RaceInv, Published
    <3> QED  BY <2>1, <3>1, <3>2, ResultsType
  <2>3. Ok(1) \in BOOLEAN /\ Ok(2) \in BOOLEAN /\ Ok(1)' = Ok(1) /\ Ok(2)' = Ok(2) /\ Of(1)' = Of(1) /\ Of(2)' = Of(2)
    <3>1. Ok(1) \in BOOLEAN /\ Ok(2) \in BOOLEAN
      BY <2>1, ResultsType
    <3> QED  BY <1>1, <3>1 DEF Ok, Of
  <2>4. IF Ok(2) /\ winner = "none"
        THEN winner' = Of(2) /\ losers' = losers
        ELSE losers' = losers \cup {Of(2)} /\ winner' = winner
    BY <1>1, <2>1 DEF Ok, Of
  <2>5. \/ Ok(1) /\ winner = Of(1) /\ losers = {}
        \/ ~Ok(1) /\ winner = "none" /\ losers = {Of(1)}
    BY <1>5 DEF OneIn
  <2>6. BothIn'
    <3>1. {Of(1)} \cup {Of(2)} = Race!Branches
      BY <2>2 DEF Race!Branches
    <3>2. {1, 2} \subseteq DOMAIN results'
      BY <1>1, <2>1
    <3>3. \/ Ok(1) /\ winner' = Of(1) /\ losers' = {Of(2)}
          \/ ~Ok(1) /\ Ok(2) /\ winner' = Of(2) /\ losers' = {Of(1)}
          \/ ~Ok(1) /\ ~Ok(2) /\ winner' = "none" /\ losers' = Race!Branches
      BY <2>2, <2>4, <2>5, <3>1
    <3> QED  BY <2>3, <3>2, <3>3 DEF BothIn
  <2>7. Race!TypeOK'
    <3>1. UNCHANGED <<clientGone, branch, response, results, main>> /\ cancelled' \in BOOLEAN
      BY <1>1 DEF RaceInv, Race!TypeOK
    <3>2. winner' \in Race!Branches \cup {"none"} /\ losers' \subseteq Race!Branches
      BY <2>2, <2>4 DEF RaceInv, Race!TypeOK
    <3> QED  BY <3>1, <3>2 DEF RaceInv, Race!TypeOK
  <2> QED  BY <1>1, <2>6, <2>7 DEF RaceInv, Bodies, Published, AfterReturn, Of, Ok
<1> QED  BY <1>3, <1>4, <1>5 DEF RaceInv

(* So does its return.                                                     *)
LEMMA ReturnSteps ==
  ASSUME RaceInv, Race!Return
  PROVE  RaceInv'
<1>1. /\ main = "collecting" /\ Race!Received = 2
      /\ response' = [b \in Race!Branches |-> IF b \in losers /\ response[b] = "open" THEN "closed" ELSE response[b]]
      /\ cancelled' = TRUE /\ main' = "returned"
      /\ UNCHANGED <<clientGone, branch, results, winner, losers>>
  BY DEF Race!Return
<1>2. BothIn
  BY <1>1, ReceivedCounts DEF RaceInv
<1>3. BothIn'
  BY <1>1, <1>2 DEF BothIn, Of, Ok
<1>4. Race!TypeOK'
  BY <1>1 DEF RaceInv, Race!TypeOK
<1>5. \A b \in Race!Branches : (response'[b] = "none" <=> response[b] = "none") /\ (b \in losers => response'[b] # "open")
  BY <1>1 DEF RaceInv, Race!TypeOK
<1>6. losers \subseteq Race!Branches /\ \A i \in DOMAIN results : Of(i) \in Race!Branches
  <2>1. losers \subseteq Race!Branches
    BY DEF RaceInv, Race!TypeOK
  <2> QED  BY <2>1, ResultsType
<1>7. Published'
  <2>1. \A i \in DOMAIN results : Of(i)' = Of(i) /\ Ok(i)' = Ok(i)
    BY <1>1 DEF Of, Ok
  <2> QED  BY <1>1, <1>5, <1>6, <2>1 DEF RaceInv, Published
<1>8. \A b \in Race!Branches : branch[b] = "sent"
  BY <1>2, BothHaveSent
<1>9. Bodies'
  BY <1>1, <1>4, <1>8 DEF RaceInv, Race!TypeOK, Bodies
<1>10. AfterReturn'
  BY <1>1, <1>3, <1>5, <1>6 DEF AfterReturn
<1> QED  BY <1>3, <1>4, <1>7, <1>9, <1>10 DEF RaceInv

(* So does every step.                                                     *)
LEMMA RaceStepsKeep ==
  ASSUME RaceInv, [Race!Next]_raceVars
  PROVE  RaceInv'
<1>1. ASSUME NEW b \in Race!Branches, Race!Branch(b) PROVE RaceInv'
  BY <1>1, BranchSteps, PublishSteps DEF Race!Branch
<1>2. CASE Race!HangUp \/ UNCHANGED raceVars
  <2>1. UNCHANGED <<cancelled, branch, response, results, main, winner, losers>> /\ clientGone' \in BOOLEAN
    BY <1>2 DEF Race!HangUp, raceVars, RaceInv, Race!TypeOK
  <2>2. Race!TypeOK'
    BY <2>1 DEF RaceInv, Race!TypeOK
  <2>3. Bodies' /\ Published' /\ (NothingIn' <=> NothingIn) /\ (OneIn' <=> OneIn) /\ (BothIn' <=> BothIn)
    BY <2>1 DEF RaceInv, Bodies, Published, NothingIn, OneIn, BothIn, Of, Ok
  <2> QED  BY <2>1, <2>2, <2>3 DEF RaceInv, AfterReturn
<1> QED  BY <1>1, <1>2, CollectSteps, ReturnSteps DEF Race!Next

(* It holds when a race begins.                                            *)
LEMMA RaceBegins ==
  ASSUME Race!Init
  PROVE  RaceInv
<1>1. Race!TypeOK
  <2>1. results = <<>> /\ <<>> \in Seq(Race!Branches \X BOOLEAN) /\ Len(<<>>) = 0
    BY DEF Race!Init
  <2>2. branch \in [Race!Branches -> {"grace", "running", "answered", "failed", "sent"}]
    BY DEF Race!Init
  <2>3. {} \subseteq Race!Branches /\ "none" \in Race!Branches \cup {"none"}
    OBVIOUS
  <2>4. results \in Seq(Race!Branches \X BOOLEAN) /\ Len(results) <= 2
    BY <2>1
  <2>5. response \in [Race!Branches -> {"none", "open", "closed"}]
    BY DEF Race!Init
  <2> QED  BY <2>2, <2>3, <2>4, <2>5 DEF Race!Init, Race!TypeOK
<1>2. DOMAIN results = {}
  BY DEF Race!Init
<1>3. NothingIn
  BY DEF Race!Init, NothingIn
<1> QED  BY <1>1, <1>2, <1>3 DEF Race!Init, RaceInv, Bodies, Published, AfterReturn, Race!Branches

(* Of a race that has it, nothing leaks and the first success wins.        *)
LEMMA RaceInvIsEnough ==
  ASSUME RaceInv
  PROVE  Race!NothingLeaks /\ Race!FirstSuccessWins
<1> SUFFICES ASSUME main = "returned" PROVE Race!NothingLeaks /\ Race!FirstSuccessWins
  BY DEF Race!NothingLeaks, Race!FirstSuccessWins
<1>1. BothIn /\ \A b \in losers : response[b] # "open"
  BY DEF RaceInv, AfterReturn
<1>2. DOMAIN results = {1, 2} /\ results \in Seq(Race!Branches \X BOOLEAN)
  BY <1>1 DEF BothIn, RaceInv, Race!TypeOK
<1>3. Of(1) # Of(2) /\ \A i \in {1, 2} : /\ branch[Of(i)] = "sent" /\ (Ok(i) <=> response[Of(i)] # "none")
                                         /\ Of(i) \in Race!Branches /\ Of(i) # "none" /\ results[i] = <<Of(i), Ok(i)>> /\ Ok(i) \in BOOLEAN
  <2>1. \A i \in {1, 2} : Of(i) \in Race!Branches /\ results[i] = <<Of(i), Ok(i)>> /\ Ok(i) \in BOOLEAN
    BY <1>2, ResultsType
  <2>2. Of(1) # Of(2) /\ \A i \in {1, 2} : branch[Of(i)] = "sent" /\ (Ok(i) <=> response[Of(i)] # "none")
    BY <1>2 DEF RaceInv, Published
  <2> QED  BY <2>1, <2>2 DEF Race!Branches
<1>4. \A b \in Race!Branches : (b = Of(1) \/ b = Of(2)) /\ response[b] \in {"none", "open", "closed"}
  BY <1>1, BothHaveSent DEF RaceInv, Race!TypeOK
<1>6. \/ Ok(1) /\ winner = Of(1) /\ losers = {Of(2)}
      \/ ~Ok(1) /\ Ok(2) /\ winner = Of(2) /\ losers = {Of(1)}
      \/ ~Ok(1) /\ ~Ok(2) /\ winner = "none" /\ losers = Race!Branches
  BY <1>1 DEF BothIn
<1>5. ASSUME NEW b \in losers PROVE response[b] \in {"none", "closed"} /\ b \in Race!Branches
  BY <1>1, <1>4 DEF RaceInv, Race!TypeOK
<1>0. ASSUME NEW i \in {1, 2}, Ok(i), Of(i) \notin losers PROVE response[Of(i)] = "open"
  <2>1. response[Of(i)] # "none" /\ Of(i) \in Race!Branches
    BY <1>0, <1>3
  <2>2. response[Of(i)] # "closed"
    BY <1>0, <2>1 DEF RaceInv, Bodies
  <2> QED  BY <1>4, <2>1, <2>2
<1>7. \A b \in Race!Branches : response[b] = "open" <=> b = winner
  BY <1>0, <1>1, <1>3, <1>4, <1>5, <1>6
<1>8. Race!NothingLeaks
  BY <1>3, <1>4, <1>7 DEF Race!NothingLeaks
<1>9. Race!FirstSuccessWins
  <2>1. CASE Ok(1)
    <3>1. results[1] = <<winner, TRUE>>
      BY <1>3, <1>6, <2>1
    <3>2. 1 \in DOMAIN results /\ \A j \in 1..(1 - 1) : ~results[j][2]
      BY <1>2
    <3> QED  BY <3>1, <3>2 DEF Race!FirstSuccessWins
  <2>2. CASE ~Ok(1) /\ Ok(2)
    <3>1. results[2] = <<winner, TRUE>> /\ ~results[1][2]
      BY <1>3, <1>6, <2>2 DEF Ok
    <3>2. \A j \in 1..(2 - 1) : j = 1
      OBVIOUS
    <3> QED  BY <1>2, <3>1, <3>2 DEF Race!FirstSuccessWins
  <2>3. CASE ~Ok(1) /\ ~Ok(2)
    BY <1>2, <1>6, <2>3 DEF Race!FirstSuccessWins, Ok
  <2> QED  BY <2>1, <2>2, <2>3
<1> QED  BY <1>8, <1>9

(* In every behaviour of MCSpec, a call of ExecuteSpeculative that has     *)
(* returned has left no goroutine and no body behind but the one it        *)
(* returned, and that is the first success that was published              *)
(* (speculative.go).                                                       *)
THEOREM RaceEndsClean == MCSpec => []RaceIsClean
<1> DEFINE Inv == IF part = "race" THEN RaceInv ELSE main = Idle
<1>1. MCInit => Inv
  BY RaceBegins DEF MCInit, RaceIdle
<1>2. Inv /\ [MCNext]_MCVars => Inv'
  <2> SUFFICES ASSUME Inv, [MCNext]_MCVars PROVE Inv'
    OBVIOUS
  <2>1. CASE part = "race"
    <3>1. part' = "race" /\ [Race!Next]_raceVars
      BY <2>1 DEF MCNext, MCVars, OrderStep, RaceStep, LoneStep, StreamStep, KeyStep, RegisterStep, Rest
    <3> QED  BY <2>1, <3>1, RaceStepsKeep
  <2>2. CASE part # "race"
    <3>1. part' = part /\ UNCHANGED main
      BY <2>2 DEF MCNext, MCVars, raceVars, OrderStep, RaceStep, LoneStep, StreamStep, KeyStep, RegisterStep, Rest
    <3> QED  BY <2>2, <3>1
  <2> QED  BY <2>1, <2>2
<1>3. Inv => RaceIsClean
  <2>1. CASE part = "race"
    BY <2>1, RaceInvIsEnough DEF RaceIsClean
  <2>2. CASE part # "race"
    BY <2>2 DEF RaceIsClean, Race!NothingLeaks, Race!FirstSuccessWins, Idle
  <2> QED  BY <2>1, <2>2
<1> QED  BY <1>1, <1>2, <1>3, PTL DEF MCSpec

----------------------------------------------------------------------------
(* RateLimit.  In each store the counter of requests is at least the       *)
(* number that were let through since it began: what is rejected is        *)
(* counted too, and what expires takes its admissions with it.             *)

Items == [value : 0..MaxCount, left : 0..KeyWindow]

CounterType == counted \in [Key!Stores -> [Key!Kinds -> Items]]

AdmissionsAreCounted ==
  \A s \in Key!Stores : /\ admitted[s] \in 0..RpmLimit
                        /\ admitted[s] <= counted[s]["rpm"].value

(* A local counter that has expired starts again from nothing.             *)
LocalExpires == counted["local"]["rpm"].left = 0 => counted["local"]["rpm"].value = 0

KeyInv ==
  /\ CounterType /\ admitted = [s \in Key!Stores |-> admitted[s]]
  /\ AdmissionsAreCounted /\ LocalExpires

(* One increment is what happened to a counter.                            *)
Increases(old, new, n) == new.value = Key!AtMost(old.value + n)

(* Every way to increment a counter leaves a counter; those of Redis add,  *)
(* and so does the local one, but for what has expired.                    *)
LEMMA Increments ==
  ASSUME NEW item \in Items, NEW n \in Nat
  PROVE  /\ Key!RedisIncrement(item, n) \in Items /\ Increases(item, Key!RedisIncrement(item, n), n)
         /\ Key!RedisUnexpired(item, n) \in Items /\ Increases(item, Key!RedisUnexpired(item, n), n)
         /\ Key!LocalIncrement(item, n) \in Items /\ Key!LocalIncrement(item, n).left # 0
         /\ (item.left = 0 => item.value = 0) => Increases(item, Key!LocalIncrement(item, n), n)
<1>1. MaxCount \in Nat /\ KeyWindow \in Nat \ {0}
  BY KeyAssumption DEF Key!ConstantsOK
<1>2. \A m \in Nat : Key!AtMost(m) \in 0..MaxCount
  BY <1>1 DEF Key!AtMost
<1>3. item.value + n \in Nat /\ item.left \in 0..KeyWindow /\ 0 + n = n
  BY <1>1 DEF Items
<1> DEFINE v == Key!AtMost(item.value + n)
           new == [value |-> v, left |-> KeyWindow]
           same == [item EXCEPT !.value = v]
<1>4. v \in 0..MaxCount /\ Key!AtMost(n) \in 0..MaxCount
  BY <1>2, <1>3
<1> HIDE DEF v
<1>5. /\ new \in Items /\ new.value = v /\ new.left # 0
      /\ same \in Items /\ same.value = v /\ same.left = item.left
  BY <1>1, <1>4 DEF Items
<1>6. Key!RedisIncrement(item, n) = new /\ Key!RedisUnexpired(item, n) = same
  BY DEF v, Key!RedisIncrement, Key!RedisUnexpired
<1>7. CASE item.left = 0
  <2>1. Key!LocalIncrement(item, n) = [value |-> Key!AtMost(n), left |-> KeyWindow]
    BY <1>7 DEF Key!LocalIncrement
  <2>2. item.value = 0 => Key!AtMost(n) = v
    BY <1>3 DEF v
  <2>3. [value |-> Key!AtMost(n), left |-> KeyWindow] \in Items
    BY <1>1, <1>4 DEF Items
  <2> QED  BY <1>1, <1>5, <1>6, <1>7, <2>1, <2>2, <2>3 DEF Increases, v
<1>8. CASE item.left # 0
  <2>1. Key!LocalIncrement(item, n) = same
    BY <1>8 DEF Key!LocalIncrement, v
  <2> QED  BY <1>5, <1>6, <1>8, <2>1 DEF Increases, v
<1> QED  BY <1>7, <1>8

(* What IncrementByWindow leaves: each counter of requests as it was, or   *)
(* increased once, which the one of the store that answers is.             *)
Incremented(after, store, kind, n) ==
  /\ store \in Key!Stores
  /\ after \in [Key!Stores -> [Key!Kinds -> Items]]
  /\ kind = "rpm" => Increases(counted[store]["rpm"], after[store]["rpm"], n)
  /\ \A s \in Key!Stores : \/ after[s]["rpm"] = counted[s]["rpm"]
                           \/ kind = "rpm" /\ Increases(counted[s]["rpm"], after[s]["rpm"], n)
  /\ after["local"]["rpm"].left = 0 => after["local"]["rpm"].value = 0

(* An increment counts in its window, at the store it reached.             *)
LEMMA OneIsIncremented ==
  ASSUME KeyInv, NEW kind \in Key!Kinds, NEW n \in Nat, NEW x \in Key!IncrementByWindow(kind, n)
  PROVE  Incremented(x[1], x[2], kind, n)
<1> DEFINE remote == [counted EXCEPT !["redis"][kind] = Key!RedisIncrement(@, n)]
           half   == [counted EXCEPT !["redis"][kind] = Key!RedisUnexpired(@, n)]
           local(from) == [from EXCEPT !["local"][kind] = Key!LocalIncrement(@, n)]
<1>1. \/ x = <<remote, "redis">>
      \/ \E from \in {counted, half, remote} : x = <<local(from), "local">>
  BY DEF Key!IncrementByWindow
<1>2. /\ counted \in [Key!Stores -> [Key!Kinds -> Items]]
      /\ "redis" \in Key!Stores /\ "local" \in Key!Stores /\ "rpm" \in Key!Kinds
      /\ \A s \in Key!Stores : s \in {"redis", "local"}
  BY DEF KeyInv, CounterType, Key!Stores, Key!Kinds
<1>3. counted["redis"][kind] \in Items /\ counted["local"][kind] \in Items
  BY <1>2
<1> DEFINE Good(c) == /\ c \in [Key!Stores -> [Key!Kinds -> Items]]
                      /\ c["local"] = counted["local"]
                      /\ \/ c["redis"]["rpm"] = counted["redis"]["rpm"]
                         \/ kind = "rpm" /\ Increases(counted["redis"]["rpm"], c["redis"]["rpm"], n)
<1>4. ASSUME NEW item \in Items, kind = "rpm" => Increases(counted["redis"]["rpm"], item, n),
             NEW c, c = [counted EXCEPT !["redis"][kind] = item]
      PROVE  Good(c)
  BY <1>2, <1>4 DEF Key!Stores, Key!Kinds
<1>5. Good(counted)
  BY <1>2
<1>6. Good(remote) /\ Good(half)
  <2>1. Key!RedisIncrement(counted["redis"][kind], n) \in Items
        /\ Increases(counted["redis"][kind], Key!RedisIncrement(counted["redis"][kind], n), n)
    BY <1>3, Increments
  <2>2. Key!RedisUnexpired(counted["redis"][kind], n) \in Items
        /\ Increases(counted["redis"][kind], Key!RedisUnexpired(counted["redis"][kind], n), n)
    BY <1>3, Increments
  <2>3. remote = [counted EXCEPT !["redis"][kind] = Key!RedisIncrement(counted["redis"][kind], n)]
    BY <1>2
  <2>4. half = [counted EXCEPT !["redis"][kind] = Key!RedisUnexpired(counted["redis"][kind], n)]
    BY <1>2
  <2> HIDE DEF Good, remote, half
  <2> QED  BY <1>4, <2>1, <2>2, <2>3, <2>4
<1>7. CASE x = <<remote, "redis">>
  <2>1. x[1] = remote /\ x[2] = "redis"
    BY <1>7
  <2>2. kind = "rpm" => Increases(counted["redis"]["rpm"], remote["redis"]["rpm"], n)
    <3>1. ASSUME kind = "rpm" PROVE remote["redis"]["rpm"] = Key!RedisIncrement(counted["redis"]["rpm"], n)
      BY <1>2, <3>1
    <3> QED  BY <1>3, <3>1, Increments
  <2>3. remote["local"]["rpm"] = counted["local"]["rpm"]
    BY <1>6
  <2> HIDE DEF remote
  <2> QED  BY <1>2, <1>6, <2>1, <2>2, <2>3 DEF Incremented, KeyInv, LocalExpires
<1>8. ASSUME NEW from, Good(from), x = <<local(from), "local">>
      PROVE  Incremented(x[1], x[2], kind, n)
  <2>1. x[1] = local(from) /\ x[2] = "local"
    BY <1>8
  <2> DEFINE item == Key!LocalIncrement(counted["local"][kind], n)
  <2>2. item \in Items /\ item.left # 0
        /\ (kind = "rpm" => Increases(counted["local"]["rpm"], item, n))
    BY <1>3, Increments DEF KeyInv, LocalExpires
  <2>3. local(from) = [from EXCEPT !["local"][kind] = item]
    BY <1>2, <1>8
  <2> HIDE DEF item, local
  <2>4. /\ local(from) \in [Key!Stores -> [Key!Kinds -> Items]]
        /\ local(from)["redis"] = from["redis"]
        /\ local(from)["local"]["rpm"] = IF kind = "rpm" THEN item ELSE counted["local"]["rpm"]
    BY <1>2, <1>8, <2>2, <2>3 DEF Key!Stores, Key!Kinds
  <2> QED  BY <1>2, <1>8, <2>1, <2>2, <2>4 DEF Incremented, KeyInv, LocalExpires
<1> HIDE DEF Good, remote, half, local
<1> QED  BY <1>1, <1>5, <1>6, <1>7, <1>8

(* A check of the rate keeps the invariant of the limits.                  *)
LEMMA CheckRpmSteps ==
  ASSUME KeyInv, NEW c, Key!CheckRpm(c)
  PROVE  KeyInv'
<1>1. PICK x \in Key!IncrementByWindow("rpm", 1) :
        /\ counted' = x[1]
        /\ admitted' = IF Key!OverRpmLimit(x[1][x[2]]["rpm"].value) THEN admitted
                       ELSE [admitted EXCEPT ![x[2]] = Key!AtMost(@ + 1)]
  BY DEF Key!CheckRpm
<1>2. Incremented(x[1], x[2], "rpm", 1)
  BY OneIsIncremented DEF Key!Kinds
<1>3. RpmLimit \in Nat /\ MaxCount \in Nat /\ MaxCount > RpmLimit
  BY KeyAssumption DEF Key!ConstantsOK
<1>4. CounterType' /\ LocalExpires'
  BY <1>1, <1>2 DEF Incremented, CounterType, LocalExpires
<1>5. ASSUME NEW s \in Key!Stores
      PROVE  counted[s]["rpm"].value \in 0..MaxCount /\ admitted[s] \in 0..RpmLimit /\ admitted[s] <= counted[s]["rpm"].value
  BY DEF KeyInv, CounterType, AdmissionsAreCounted, Key!Kinds, Items
<1>6. ASSUME NEW s \in Key!Stores
      PROVE  admitted[s] <= counted'[s]["rpm"].value
  <2>1. counted'[s]["rpm"].value \in {counted[s]["rpm"].value, Key!AtMost(counted[s]["rpm"].value + 1)}
    BY <1>1, <1>2 DEF Incremented, Increases
  <2> QED  BY <1>3, <1>5, <2>1 DEF Key!AtMost
<1>7. CASE Key!OverRpmLimit(x[1][x[2]]["rpm"].value)
  BY <1>1, <1>4, <1>5, <1>6, <1>7 DEF KeyInv, AdmissionsAreCounted
<1>8. CASE ~Key!OverRpmLimit(x[1][x[2]]["rpm"].value)
  <2>1. PICK s \in Key!Stores : s = x[2]
    BY <1>2 DEF Incremented
  <2>2. admitted' = [admitted EXCEPT ![s] = Key!AtMost(@ + 1)]
    BY <1>1, <1>8, <2>1
  <2>3. counted'[s]["rpm"].value = Key!AtMost(counted[s]["rpm"].value + 1) /\ ~(counted'[s]["rpm"].value > RpmLimit)
    BY <1>1, <1>2, <1>8, <2>1 DEF Incremented, Increases, Key!OverRpmLimit
  <2>4. Key!AtMost(admitted[s] + 1) \in 0..RpmLimit /\ Key!AtMost(admitted[s] + 1) <= counted'[s]["rpm"].value
    BY <1>3, <1>5, <2>3 DEF Key!AtMost
  <2>5. admitted = [t \in Key!Stores |-> admitted[t]]
    BY DEF KeyInv
  <2>6. AdmissionsAreCounted'
    <3> SUFFICES ASSUME NEW t \in Key!Stores
                 PROVE  admitted'[t] \in 0..RpmLimit /\ admitted'[t] <= counted'[t]["rpm"].value
      BY DEF AdmissionsAreCounted
    <3>1. CASE t = s
      BY <2>2, <2>4, <2>5, <3>1
    <3>2. CASE t # s
      BY <1>5, <1>6, <2>2, <2>5, <3>2
    <3> QED  BY <3>1, <3>2
  <2> QED  BY <1>4, <2>2, <2>5, <2>6 DEF KeyInv
<1> QED  BY <1>7, <1>8

(* So does the count of tokens.                                            *)
LEMMA ConsumeSteps ==
  ASSUME KeyInv, Key!ConsumeTokens
  PROVE  KeyInv'
<1>1. PICK n \in Tokens : \E x \in Key!IncrementByWindow("tpm", n) : counted' = x[1]
  BY DEF Key!ConsumeTokens
<1>2. PICK x \in Key!IncrementByWindow("tpm", n) : counted' = x[1]
  BY <1>1
<1>3. n \in Nat /\ UNCHANGED admitted
  BY KeyAssumption DEF Key!ConstantsOK, Key!ConsumeTokens
<1>4. Incremented(x[1], x[2], "tpm", n)
  BY <1>3, OneIsIncremented DEF Key!Kinds
<1>5. CounterType' /\ LocalExpires' /\ \A s \in Key!Stores : counted'[s]["rpm"] = counted[s]["rpm"]
  BY <1>2, <1>4 DEF Incremented, CounterType, LocalExpires
<1> QED  BY <1>3, <1>5 DEF KeyInv, AdmissionsAreCounted

(* So does time.                                                           *)
LEMMA KeyTickSteps ==
  ASSUME KeyInv, Key!Tick
  PROVE  KeyInv'
<1>1. /\ counted' = [s \in Key!Stores |-> [k \in Key!Kinds |-> Key!Passed(counted[s][k])]]
      /\ admitted' = [s \in Key!Stores |-> IF counted'[s]["rpm"].value = 0 THEN 0 ELSE admitted[s]]
  BY DEF Key!Tick
<1>2. ASSUME NEW item \in Items
      PROVE  /\ Key!Passed(item) \in Items
             /\ Key!Passed(item).value \in {0, item.value}
             /\ (item.left = 0 => item.value = 0) => (Key!Passed(item).left = 0 => Key!Passed(item).value = 0)
  <2>1. MaxCount \in Nat /\ KeyWindow \in Nat \ {0} /\ item.left \in 0..KeyWindow
    BY KeyAssumption DEF Key!ConstantsOK, Items
  <2>2. CASE item.left = 0
    BY <2>2 DEF Key!Passed
  <2>3. CASE item.left = 1
    BY <2>1, <2>3 DEF Key!Passed, Items
  <2>4. CASE item.left > 1
    <3>1. Key!Passed(item) = [item EXCEPT !.left = item.left - 1]
      BY <2>4 DEF Key!Passed
    <3>2. item.left - 1 \in 0..KeyWindow /\ item.left - 1 # 0
      BY <2>1, <2>4
    <3> QED  BY <3>1, <3>2 DEF Items
  <2> QED  BY <2>1, <2>2, <2>3, <2>4
<1>3. \A s \in Key!Stores, k \in Key!Kinds : counted[s][k] \in Items
  BY DEF KeyInv, CounterType
<1>4. CounterType'
  BY <1>1, <1>2, <1>3 DEF CounterType
<1>5. "rpm" \in Key!Kinds /\ "local" \in Key!Stores
  BY DEF Key!Kinds, Key!Stores
<1>6. \A s \in Key!Stores : counted'[s]["rpm"] = Key!Passed(counted[s]["rpm"])
  BY <1>1, <1>5
<1>7. LocalExpires'
  BY <1>2, <1>3, <1>5, <1>6 DEF KeyInv, LocalExpires
<1>8. ASSUME NEW s \in Key!Stores PROVE admitted'[s] \in 0..RpmLimit /\ admitted'[s] <= counted'[s]["rpm"].value
  <2>1. RpmLimit \in Nat /\ MaxCount \in Nat
    BY KeyAssumption DEF Key!ConstantsOK
  <2>2. counted'[s]["rpm"].value \in {0, counted[s]["rpm"].value}
    BY <1>2, <1>3, <1>5, <1>6
  <2>3. admitted[s] \in 0..RpmLimit /\ admitted[s] <= counted[s]["rpm"].value
    BY DEF KeyInv, AdmissionsAreCounted
  <2> QED  BY <1>1, <2>1, <2>2, <2>3
<1> QED  BY <1>1, <1>4, <1>7, <1>8 DEF KeyInv, AdmissionsAreCounted

(* So does every step.                                                     *)
LEMMA KeyStepsKeep ==
  ASSUME KeyInv, [Key!Next]_keyVars
  PROVE  KeyInv'
<1>1. ASSUME NEW c \in Clients, Key!Request(c) PROVE KeyInv'
  <2>1. CASE Key!CheckRpm(c)
    BY <2>1, CheckRpmSteps
  <2>2. CASE ~Key!CheckRpm(c)
    <3>1. UNCHANGED <<counted, admitted>>
      BY <1>1, <2>2 DEF Key!Request, Key!CheckTpm, Key!UpstreamFails, Key!Respond
    <3> QED  BY <3>1 DEF KeyInv, CounterType, AdmissionsAreCounted, LocalExpires
  <2> QED  BY <2>1, <2>2
<1>2. CASE UNCHANGED keyVars
  BY <1>2 DEF keyVars, KeyInv, CounterType, AdmissionsAreCounted, LocalExpires
<1> QED  BY <1>1, <1>2, ConsumeSteps, KeyTickSteps DEF Key!Next

(* It holds at first.                                                      *)
LEMMA KeyBegins ==
  ASSUME Key!Init
  PROVE  KeyInv
<1>1. MaxCount \in Nat /\ KeyWindow \in Nat /\ RpmLimit \in Nat
  BY KeyAssumption DEF Key!ConstantsOK
<1>2. [value |-> 0, left |-> 0] \in Items
  BY <1>1 DEF Items
<1>3. "rpm" \in Key!Kinds /\ "local" \in Key!Stores
  BY DEF Key!Kinds, Key!Stores
<1>4. \A s \in Key!Stores : counted[s]["rpm"] = [value |-> 0, left |-> 0] /\ admitted[s] = 0
  BY <1>3 DEF Key!Init
<1>5. CounterType
  BY <1>2 DEF Key!Init, CounterType
<1>6. AdmissionsAreCounted /\ LocalExpires
  BY <1>1, <1>3, <1>4 DEF AdmissionsAreCounted, LocalExpires
<1> QED  BY <1>5, <1>6 DEF Key!Init, KeyInv

(* No store lets more requests of a key through in a window than its limit *)
(* says, whatever Redis does and whichever clients ask at once             *)
(* (ratelimit.go, redis.go).                                               *)
THEOREM RequestsAreLimited == MCSpec => [](part = "key" => Key!RpmIsBounded)
<1> DEFINE Inv == part = "key" => KeyInv
<1>1. MCInit => Inv
  BY KeyBegins DEF MCInit
<1>2. Inv /\ [MCNext]_MCVars => Inv'
  <2> SUFFICES ASSUME Inv, [MCNext]_MCVars, part' = "key" PROVE KeyInv'
    OBVIOUS
  <2>1. part = "key" /\ [Key!Next]_keyVars
    BY DEF MCNext, MCVars, OrderStep, RaceStep, LoneStep, StreamStep, KeyStep, RegisterStep, Rest
  <2> QED  BY <2>1, KeyStepsKeep
<1>3. Inv => (part = "key" => Key!RpmIsBounded)
  BY DEF KeyInv, AdmissionsAreCounted, Key!RpmIsBounded
<1> QED  BY <1>1, <1>2, <1>3, PTL DEF MCSpec

----------------------------------------------------------------------------
(* RegisterLimiter.  What an address is remembered for: s are its hits,    *)
(* oldest first; a counts the ones let through, by their age, and s has    *)
(* as many of each age that still counts, and not too many.                *)
OldestFirst(s) == \A i, j \in 1..Len(s) : i < j => s[i] >= s[j]
Counts(s, a)   == \A age \in Register!Recent : a[age] = Cardinality({i \in 1..Len(s) : s[i] = age})
Fits(s)        == Cardinality({i \in 1..Len(s) : s[i] \in Register!Recent}) <= RegisterLimit

Remembered(s, a) ==
  /\ s \in Seq(Register!Ages) /\ a \in [Register!Recent -> Nat]
  /\ OldestFirst(s) /\ Counts(s, a) /\ Fits(s)

RegisterInv ==
  /\ hits = [ip \in Ips |-> hits[ip]] /\ registered = [ip \in Ips |-> registered[ip]]
  /\ \A ip \in Ips : Remembered(hits[ip], registered[ip])

(* An address of which nothing is remembered has no admission that counts. *)
LEMMA NothingRemembered ==
  ASSUME NEW a \in [Register!Recent -> Nat], \A age \in Register!Recent : a[age] = 0
  PROVE  Remembered(<<>>, a)
<1>1. Len(<<>>) = 0 /\ 1..0 = {} /\ <<>> \in Seq(Register!Ages)
  OBVIOUS
<1>2. Cardinality({}) = 0 /\ RegisterLimit \in Nat
  BY FS_EmptySet, RegisterAssumption DEF Register!ConstantsOK
<1>3. OldestFirst(<<>>)
  BY <1>1 DEF OldestFirst
<1>4. Counts(<<>>, a)
  <2>1. \A age : {i \in 1..Len(<<>>) : <<>>[i] = age} = {}
    BY <1>1
  <2> QED  BY <1>2, <2>1 DEF Counts
<1>5. Fits(<<>>)
  <2>1. {i \in 1..Len(<<>>) : <<>>[i] \in Register!Recent} = {}
    BY <1>1
  <2> QED  BY <1>2, <2>1 DEF Fits
<1> QED  BY <1>1, <1>3, <1>4, <1>5 DEF Remembered

(* The filter keeps every hit that still counts, in order.                 *)
LEMMA KeptIsRemembered ==
  ASSUME NEW ip \in Ips, NEW a, Remembered(hits[ip], a)
  PROVE  Remembered(Register!Kept(ip), a)
<1> DEFINE h == hits[ip]
           n == Len(h)
           keep == [i \in 1..n |-> h[i] < RegisterWindow]
           val == [i \in 1..n |-> h[i]]
           upTo == CHOOSE f : f = [i \in 0..n |->
                     IF i = 0 THEN <<>>
                     ELSE IF h[i] < RegisterWindow THEN Append(f[i - 1], h[i]) ELSE f[i - 1]]
           s == Register!Kept(ip)
<1>1. /\ h \in Seq(Register!Ages) /\ a \in [Register!Recent -> Nat]
      /\ OldestFirst(h) /\ Counts(h, a) /\ Fits(h)
  BY DEF Remembered
<1>2. n \in Nat /\ \A i \in 1..n : h[i] \in Register!Ages
  BY <1>1
<1>3. RegisterWindow \in Nat \ {0} /\ RegisterLimit \in Nat
  BY RegisterAssumption DEF Register!ConstantsOK
<1>4. val \in [1..n -> Register!Ages]
  BY <1>2
<1>5. upTo = CHOOSE f : Filtered(f, n, keep, val)
  <2>1. \A f : [i \in 0..n |->
                  IF i = 0 THEN <<>>
                  ELSE IF h[i] < RegisterWindow THEN Append(f[i - 1], h[i]) ELSE f[i - 1]]
             = [i \in 0..n |-> IF i = 0 THEN <<>>
                               ELSE IF keep[i] THEN Append(f[i - 1], val[i]) ELSE f[i - 1]]
    <3>1. \A i \in 0..n : i # 0 => keep[i] = (h[i] < RegisterWindow) /\ val[i] = h[i]
      BY <1>2
    <3> HIDE DEF n, keep, val
    <3> QED  BY <3>1, Zenon
  <2> HIDE DEF n, keep, val
  <2> QED  BY <2>1, Zenon DEF Filtered
<1>6. s = upTo[n]
  BY DEF Register!Kept
<1>7. /\ \A i \in 1..n : keep[i] <=> h[i] < RegisterWindow
      /\ \A i \in 1..n : val[i] = h[i]
  OBVIOUS
<1> HIDE DEF n, keep, val, upTo, s, h
<1>8. Filtered(upTo, n, keep, val)
  BY <1>2, <1>4, <1>5, FilterExists
<1>9. s \in Seq(Register!Ages) /\ \E p : KeptAt(s, p, n, keep, val)
  BY <1>2, <1>4, <1>6, <1>8, FilterTraces
<1>10. PICK p : KeptAt(s, p, n, keep, val)
  BY <1>9
<1>11. Len(s) \in Nat
  BY <1>9
<1>12. /\ \A j \in 1..Len(s) : s[j] = h[p[j]] /\ p[j] \in 1..n
       /\ \A j, k \in 1..Len(s) : j < k => p[j] < p[k]
  BY <1>7, <1>10 DEF KeptAt
<1>13. OldestFirst(s)
  BY <1>1, <1>12 DEF OldestFirst, n
<1>14. \A A : A \subseteq Register!Recent =>
         Cardinality({j \in 1..Len(s) : s[j] \in A}) = Cardinality({i \in 1..n : h[i] \in A})
  <2> TAKE A
  <2> HAVE A \subseteq Register!Recent
  <2>0. AsMany(s, n, keep, val, A)
    BY <1>2, <1>10, <1>11, FilterCounts
  <2>1. Cardinality({j \in 1..Len(s) : s[j] \in A}) = Cardinality({m \in 1..n : keep[m] /\ val[m] \in A})
    BY <2>0 DEF AsMany
  <2>2. \A x \in A : x < RegisterWindow
    BY <1>3 DEF Register!Recent
  <2>3. {m \in 1..n : keep[m] /\ val[m] \in A} = {i \in 1..n : h[i] \in A}
    BY <1>7, <2>2
  <2> QED  BY <2>1, <2>3
<1>15. Fits(s)
  BY <1>1, <1>14 DEF Fits, n
<1>16. Counts(s, a)
  <2> SUFFICES ASSUME NEW age \in Register!Recent
               PROVE  a[age] = Cardinality({j \in 1..Len(s) : s[j] = age})
    BY DEF Counts
  <2>1. {j \in 1..Len(s) : s[j] \in {age}} = {j \in 1..Len(s) : s[j] = age}
    OBVIOUS
  <2>2. {i \in 1..n : h[i] \in {age}} = {i \in 1..n : h[i] = age}
    OBVIOUS
  <2>3. a[age] = Cardinality({i \in 1..n : h[i] = age})
    BY <1>1 DEF Counts, n
  <2>4. {age} \subseteq Register!Recent
    OBVIOUS
  <2> QED  BY <1>14, <2>1, <2>2, <2>3, <2>4
<1> QED  BY <1>1, <1>9, <1>13, <1>15, <1>16 DEF Remembered, s

(* One more hit, where there is room for it.                               *)
LEMMA OneMoreIsRemembered ==
  ASSUME NEW s, NEW a, Remembered(s, a), Len(s) < RegisterLimit
  PROVE  Remembered(Append(s, 0), [a EXCEPT ![0] = @ + 1])
<1> DEFINE t == Append(s, 0)
           b == [a EXCEPT ![0] = @ + 1]
<1>1. /\ s \in Seq(Register!Ages) /\ a \in [Register!Recent -> Nat] /\ Len(s) \in Nat
      /\ OldestFirst(s) /\ Counts(s, a) /\ Fits(s)
  BY DEF Remembered
<1>2. RegisterWindow \in Nat \ {0} /\ RegisterLimit \in Nat
  BY RegisterAssumption DEF Register!ConstantsOK
<1>3. 0 \in Register!Ages /\ 0 \in Register!Recent
  BY <1>2 DEF Register!Ages, Register!Recent
<1>4. /\ t \in Seq(Register!Ages) /\ Len(t) = Len(s) + 1 /\ t[Len(s) + 1] = 0
      /\ \A i \in 1..Len(s) : t[i] = s[i] /\ s[i] \in Register!Ages
  BY <1>1, <1>3
<1>5. /\ b \in [Register!Recent -> Nat] /\ b[0] = a[0] + 1
      /\ \A age \in Register!Recent \ {0} : b[age] = a[age]
  BY <1>1, <1>3
<1> HIDE DEF t, b
<1>6. OldestFirst(t)
  <2> SUFFICES ASSUME NEW i \in 1..Len(t), NEW j \in 1..Len(t), i < j PROVE t[i] >= t[j]
    BY DEF OldestFirst
  <2>1. i \in 1..Len(s) /\ t[i] = s[i] /\ s[i] \in Nat
    BY <1>1, <1>2, <1>4 DEF Register!Ages
  <2>2. CASE j = Len(s) + 1
    BY <1>4, <2>1, <2>2
  <2>3. CASE j \in 1..Len(s)
    BY <1>1, <1>4, <2>1, <2>3 DEF OldestFirst
  <2> QED  BY <1>1, <1>4, <2>2, <2>3
<1>7. IsFiniteSet(1..Len(s)) /\ IsFiniteSet(1..Len(t)) /\ Cardinality(1..Len(t)) = Len(s) + 1
  BY <1>1, <1>4, FS_Interval
<1>8. Counts(t, b)
  <2> SUFFICES ASSUME NEW age \in Register!Recent
               PROVE  b[age] = Cardinality({i \in 1..Len(t) : t[i] = age})
    BY DEF Counts
  <2> DEFINE those == {i \in 1..Len(s) : s[i] = age}
  <2>1. a[age] = Cardinality(those) /\ a[age] \in Nat
    BY <1>1 DEF Counts
  <2>2. IsFiniteSet(those)
    BY <1>7, FS_Subset
  <2>3. CASE age # 0
    <3>1. {i \in 1..Len(t) : t[i] = age} = those
      BY <1>1, <1>4, <2>3
    <3> QED  BY <1>5, <2>1, <2>3, <3>1
  <2>4. CASE age = 0
    <3>1. {i \in 1..Len(t) : t[i] = age} = those \cup {Len(s) + 1} /\ Len(s) + 1 \notin those
      BY <1>1, <1>4, <2>4
    <3> HIDE DEF those
    <3>2. Cardinality(those \cup {Len(s) + 1}) = Cardinality(those) + 1
      BY <2>2, <3>1, FS_AddElement
    <3> QED  BY <1>5, <2>1, <2>4, <3>1, <3>2
  <2> QED  BY <2>3, <2>4
<1>9. Fits(t)
  <2> DEFINE those == {i \in 1..Len(t) : t[i] \in Register!Recent}
  <2>1. those \subseteq 1..Len(t)
    OBVIOUS
  <2> HIDE DEF those
  <2>2. Cardinality(those) <= Len(s) + 1 /\ Cardinality(those) \in Nat
    BY <1>7, <2>1, FS_Subset, FS_CardinalityType
  <2>3. Cardinality(those) <= RegisterLimit
    BY <1>1, <1>2, <2>2
  <2> QED  BY <2>3 DEF Fits, those
<1> QED  BY <1>4, <1>5, <1>6, <1>8, <1>9 DEF Remembered, t, b

(* What the prune drops has no hit that counts.                            *)
LEMMA StaleIsForgotten ==
  ASSUME NEW s, NEW a, Remembered(s, a), Register!Stale(s)
  PROVE  Remembered(<<>>, a)
<1>1. /\ s \in Seq(Register!Ages) /\ a \in [Register!Recent -> Nat] /\ Len(s) \in Nat
      /\ OldestFirst(s) /\ Counts(s, a)
  BY DEF Remembered
<1>2. RegisterWindow \in Nat \ {0}
  BY RegisterAssumption DEF Register!ConstantsOK
<1>3. Len(s) \in 1..Len(s) /\ s[Len(s)] > RegisterWindow
  BY <1>1 DEF Register!Stale
<1>4. ASSUME NEW i \in 1..Len(s) PROVE s[i] > RegisterWindow
  <2>1. s[i] \in Int /\ s[Len(s)] \in Int
    BY <1>1, <1>2, <1>3 DEF Register!Ages
  <2>2. i = Len(s) \/ i < Len(s)
    BY <1>1
  <2>3. s[i] >= s[Len(s)]
    BY <1>1, <1>3, <2>1, <2>2 DEF OldestFirst
  <2> QED  BY <1>2, <1>3, <2>1, <2>3
<1>5. ASSUME NEW age \in Register!Recent PROVE a[age] = 0
  <2>1. \A i \in 1..Len(s) : s[i] # age
    BY <1>2, <1>4 DEF Register!Recent
  <2>2. {i \in 1..Len(s) : s[i] = age} = {}
    BY <2>1
  <2> QED  BY <1>1, <2>2, FS_EmptySet DEF Counts
<1> QED  BY <1>1, <1>5, NothingRemembered

(* The hits grow older together.                                           *)
LEMMA OlderIsRemembered ==
  ASSUME NEW s, NEW a, Remembered(s, a)
  PROVE  Remembered([i \in DOMAIN s |-> Register!Older(s[i])],
                    [age \in Register!Recent |-> IF age = 0 THEN 0 ELSE a[age - 1]])
<1> DEFINE t == [i \in DOMAIN s |-> Register!Older(s[i])]
           b == [age \in Register!Recent |-> IF age = 0 THEN 0 ELSE a[age - 1]]
<1>1. /\ s \in Seq(Register!Ages) /\ a \in [Register!Recent -> Nat] /\ Len(s) \in Nat
      /\ OldestFirst(s) /\ Counts(s, a) /\ Fits(s)
  BY DEF Remembered
<1>2. RegisterWindow \in Nat \ {0} /\ RegisterLimit \in Nat
  BY RegisterAssumption DEF Register!ConstantsOK
<1>3. \A i \in 1..Len(s) : s[i] \in 0..(RegisterWindow + 1)
  <2>1. \A i \in 1..Len(s) : s[i] \in Register!Ages
    BY <1>1
  <2> QED  BY <2>1 DEF Register!Ages
<1>4. \A x \in 0..(RegisterWindow + 1) :
        /\ Register!Older(x) \in 1..(RegisterWindow + 1)
        /\ \A y \in 0..(RegisterWindow + 1) : x >= y => Register!Older(x) >= Register!Older(y)
        /\ \A age \in 1..(RegisterWindow - 1) : Register!Older(x) = age <=> x = age - 1
        /\ Register!Older(x) < RegisterWindow => x < RegisterWindow
  <2>1. ASSUME NEW x \in 0..(RegisterWindow + 1)
        PROVE  /\ Register!Older(x) \in 1..(RegisterWindow + 1)
               /\ Register!Older(x) < RegisterWindow => x < RegisterWindow
    BY <1>2, <2>1 DEF Register!Older
  <2>2. ASSUME NEW x \in 0..(RegisterWindow + 1), NEW y \in 0..(RegisterWindow + 1), x >= y
        PROVE  Register!Older(x) >= Register!Older(y)
    BY <1>2, <2>2 DEF Register!Older
  <2>3. ASSUME NEW x \in 0..(RegisterWindow + 1), NEW age \in 1..(RegisterWindow - 1)
        PROVE  Register!Older(x) = age <=> x = age - 1
    BY <1>2, <2>3 DEF Register!Older
  <2> QED  BY <2>1, <2>2, <2>3
<1>5. DOMAIN s = 1..Len(s)
  BY <1>1
<1>6. t \in Seq(Register!Ages) /\ Len(t) = Len(s) /\ \A i \in 1..Len(s) : t[i] = Register!Older(s[i])
  <2>1. ASSUME NEW i \in 1..Len(s) PROVE Register!Older(s[i]) \in Register!Ages
    <3>1. Register!Older(s[i]) \in 1..(RegisterWindow + 1)
      BY <1>3, <1>4
    <3> QED  BY <1>2, <3>1 DEF Register!Ages
  <2>2. t \in [1..Len(s) -> Register!Ages]
    BY <1>5, <2>1
  <2> HIDE DEF t
  <2>3. t \in Seq(Register!Ages) /\ Len(t) = Len(s)
    BY <1>1, <2>2
  <2> QED  BY <1>5, <2>3 DEF t
<1>7. b \in [Register!Recent -> Nat]
  <2>1. \A age \in Register!Recent : age # 0 => age - 1 \in Register!Recent
    BY <1>2 DEF Register!Recent
  <2>2. \A age \in Register!Recent : b[age] \in Nat
    <3> TAKE age \in Register!Recent
    <3>1. CASE age = 0
      BY <3>1
    <3>2. CASE age # 0
      BY <1>1, <2>1, <3>2
    <3> QED  BY <3>1, <3>2
  <2> QED  BY <2>2
<1>8. OldestFirst(t)
  <2>1. \A i, j \in 1..Len(s) : i < j => s[i] >= s[j]
    BY <1>1 DEF OldestFirst
  <2> HIDE DEF t
  <2> QED  BY <1>3, <1>4, <1>6, <2>1 DEF OldestFirst
<1>9. Counts(t, b)
  <2> SUFFICES ASSUME NEW age \in Register!Recent
               PROVE  b[age] = Cardinality({i \in 1..Len(t) : t[i] = age})
    BY DEF Counts
  <2>1. CASE age = 0
    <3>1. {i \in 1..Len(t) : t[i] = age} = {}
      <4> HIDE DEF t
      <4>1. ASSUME NEW i \in 1..Len(t) PROVE t[i] # age
        <5>1. i \in 1..Len(s) /\ s[i] \in 0..(RegisterWindow + 1) /\ t[i] = Register!Older(s[i])
          BY <1>3, <1>6
        <5>2. Register!Older(s[i]) \in 1..(RegisterWindow + 1)
          BY <1>4, <5>1
        <5> QED  BY <2>1, <5>1, <5>2
      <4> QED  BY <4>1
    <3> HIDE DEF t
    <3> QED  BY <2>1, <3>1, FS_EmptySet
  <2>2. CASE age # 0
    <3>1. age \in 1..(RegisterWindow - 1) /\ age - 1 \in Register!Recent /\ b[age] = a[age - 1]
      BY <1>2, <2>2 DEF Register!Recent
    <3> HIDE DEF t, b
    <3>2. {i \in 1..Len(t) : t[i] = age} = {i \in 1..Len(s) : s[i] = age - 1}
      <4>1. ASSUME NEW i \in 1..Len(s) PROVE t[i] = age <=> s[i] = age - 1
        <5>1. s[i] \in 0..(RegisterWindow + 1) /\ t[i] = Register!Older(s[i])
          BY <1>3, <1>6
        <5> QED  BY <1>4, <3>1, <5>1
      <4>2. Len(t) = Len(s)
        BY <1>6
      <4> QED  BY <4>1, <4>2
    <3>3. a[age - 1] = Cardinality({i \in 1..Len(s) : s[i] = age - 1})
      BY <1>1, <3>1 DEF Counts
    <3> QED  BY <3>1, <3>2, <3>3
  <2> QED  BY <2>1, <2>2
<1> HIDE DEF t, b
<1>10. Fits(t)
  <2> DEFINE new == {i \in 1..Len(t) : t[i] \in Register!Recent}
             old == {i \in 1..Len(s) : s[i] \in Register!Recent}
  <2>1. \A i \in 1..Len(s) : t[i] \in Register!Recent => s[i] \in Register!Recent
    <3>1. ASSUME NEW i \in 1..Len(s), t[i] \in Register!Recent PROVE s[i] \in Register!Recent
      <4>1. s[i] \in 0..(RegisterWindow + 1) /\ t[i] = Register!Older(s[i])
        BY <1>3, <1>6
      <4>2. t[i] < RegisterWindow
        BY <1>2, <3>1 DEF Register!Recent
      <4>3. s[i] < RegisterWindow
        BY <1>4, <4>1, <4>2
      <4> QED  BY <1>2, <4>1, <4>3 DEF Register!Recent
    <3> QED  BY <3>1
  <2>2. new \subseteq old
    BY <1>6, <2>1
  <2>3. IsFiniteSet(old)
    <3>1. IsFiniteSet(1..Len(s))
      BY <1>1, FS_Interval
    <3> QED  BY <3>1, FS_Subset
  <2>4. Cardinality(old) <= RegisterLimit
    BY <1>1 DEF Fits
  <2> HIDE DEF new, old
  <2>5. Cardinality(new) <= Cardinality(old) /\ Cardinality(new) \in Nat /\ Cardinality(old) \in Nat
    BY <2>2, <2>3, FS_Subset, FS_CardinalityType
  <2>6. Cardinality(new) <= RegisterLimit
    BY <1>2, <2>4, <2>5
  <2> QED  BY <2>6 DEF Fits, new
<1> QED  BY <1>6, <1>7, <1>8, <1>9, <1>10 DEF Remembered, t, b

(* The limiter begins with nothing remembered.                             *)
LEMMA RegisterBegins ==
  ASSUME Register!Init
  PROVE  RegisterInv
<1>1. hits = [ip \in Ips |-> <<>>] /\ registered = [ip \in Ips |-> [age \in Register!Recent |-> 0]]
  BY DEF Register!Init
<1>2. \A ip \in Ips : Remembered(<<>>, registered[ip])
  <2> TAKE ip \in Ips
  <2>1. registered[ip] \in [Register!Recent -> Nat] /\ \A age \in Register!Recent : registered[ip][age] = 0
    BY <1>1
  <2> QED  BY <2>1, NothingRemembered
<1> QED  BY <1>1, <1>2 DEF RegisterInv

(* One step of the limiter: a hit rejected, a hit let through and pruned   *)
(* after, or time.                                                         *)
LEMMA RegisterSteps ==
  ASSUME RegisterInv, [Register!Next]_(Register!vars)
  PROVE  RegisterInv'
<1>0. /\ hits = [ip \in Ips |-> hits[ip]] /\ registered = [ip \in Ips |-> registered[ip]]
      /\ \A ip \in Ips : Remembered(hits[ip], registered[ip])
  BY DEF RegisterInv
<1> SUFFICES /\ hits' = [ip \in Ips |-> hits'[ip]] /\ registered' = [ip \in Ips |-> registered'[ip]]
             /\ \A ip \in Ips : Remembered(hits'[ip], registered'[ip])
  BY DEF RegisterInv, Remembered, OldestFirst, Counts, Fits, Register!Ages, Register!Recent
<1>1. ASSUME NEW ip \in Ips, Register!Reject(ip)
      PROVE  /\ hits' = [p \in Ips |-> hits'[p]] /\ registered' = [p \in Ips |-> registered'[p]]
             /\ \A p \in Ips : Remembered(hits'[p], registered'[p])
  <2>1. hits' = [hits EXCEPT ![ip] = Register!Kept(ip)] /\ registered' = registered
    BY <1>1 DEF Register!Reject
  <2>2. Remembered(Register!Kept(ip), registered[ip])
    BY <1>0, KeptIsRemembered
  <2>3. hits'[ip] = Register!Kept(ip) /\ \A p \in Ips \ {ip} : hits'[p] = hits[p]
    BY <1>0, <2>1
  <2>4. hits' = [p \in Ips |-> hits'[p]]
    BY <1>0, <2>1
  <2> QED  BY <1>0, <2>1, <2>2, <2>3, <2>4
<1>2. ASSUME NEW ip \in Ips, Register!Admit(ip)
      PROVE  /\ hits' = [p \in Ips |-> hits'[p]] /\ registered' = [p \in Ips |-> registered'[p]]
             /\ \A p \in Ips : Remembered(hits'[p], registered'[p])
  <2> DEFINE b == [registered[ip] EXCEPT ![0] = @ + 1]
  <2>1. PICK h : h = [hits EXCEPT ![ip] = Append(Register!Kept(ip), 0)]
    OBVIOUS
  <2>2. /\ Len(Register!Kept(ip)) < RegisterLimit /\ hits' = Register!Pruned(h)
        /\ registered' = [registered EXCEPT ![ip][0] = @ + 1]
    BY <1>2, <2>1 DEF Register!Admit
  <2>3. Remembered(Register!Kept(ip), registered[ip])
    BY <1>0, KeptIsRemembered
  <2>4. Remembered(Append(Register!Kept(ip), 0), b)
    BY <2>2, <2>3, OneMoreIsRemembered
  <2>5. h = [p \in Ips |-> h[p]] /\ h[ip] = Append(Register!Kept(ip), 0) /\ \A p \in Ips \ {ip} : h[p] = hits[p]
    BY <1>0, <2>1
  <2>6. /\ registered' = [p \in Ips |-> registered'[p]] /\ registered'[ip] = b
        /\ \A p \in Ips \ {ip} : registered'[p] = registered[p]
    BY <1>0, <2>2
  <2> HIDE DEF b
  <2>7. \A p \in Ips : Remembered(h[p], registered'[p])
    BY <1>0, <2>4, <2>5, <2>6
  <2>8. CASE hits' = h
    BY <2>5, <2>6, <2>7, <2>8
  <2>9. CASE hits' = [p \in Ips |-> IF Register!Stale(h[p]) THEN <<>> ELSE h[p]]
    <3>1. \A p \in Ips : Register!Stale(h[p]) => Remembered(<<>>, registered'[p])
      BY <2>7, StaleIsForgotten
    <3>2. \A p \in Ips : hits'[p] = IF Register!Stale(h[p]) THEN <<>> ELSE h[p]
      BY <2>9
    <3>3. hits' = [p \in Ips |-> hits'[p]]
      BY <2>9
    <3> QED  BY <2>6, <2>7, <3>1, <3>2, <3>3
  <2> QED  BY <2>2, <2>8, <2>9 DEF Register!Pruned
<1>3. CASE Register!Tick
  <2>1. /\ hits' = [ip \in Ips |-> [i \in DOMAIN hits[ip] |-> Register!Older(hits[ip][i])]]
        /\ registered' = [ip \in Ips |->
             [age \in Register!Recent |-> IF age = 0 THEN 0 ELSE registered[ip][age - 1]]]
    BY <1>3 DEF Register!Tick
  <2>2. \A ip \in Ips : Remembered(hits'[ip], registered'[ip])
    <3> TAKE ip \in Ips
    <3>1. Remembered([i \in DOMAIN hits[ip] |-> Register!Older(hits[ip][i])],
                     [age \in Register!Recent |-> IF age = 0 THEN 0 ELSE registered[ip][age - 1]])
      BY <1>0, OlderIsRemembered
    <3> QED  BY <2>1, <3>1
  <2> QED  BY <2>1, <2>2
<1>4. CASE UNCHANGED Register!vars
  BY <1>0, <1>4 DEF Register!vars
<1> QED  BY <1>1, <1>2, <1>3, <1>4 DEF Register!Next, Register!Allow

(* The invariant is what the run checks.                                   *)
LEMMA RegisterInvIsEnough ==
  ASSUME RegisterInv
  PROVE  Register!RemembersTheWindow /\ Register!AtMostLimitPerWindow
<1>1. \A S : Register!Cardinality(S) = Cardinality(S)
  BY DEF Register!Cardinality, Cardinality
<1>2. \A f : Register!SumFunction(f) = Total(f, DOMAIN f)
  BY Zenon DEF Register!SumFunction, Register!SumFunctionOnSet, Register!FoldFunctionOnSet,
               Register!MapThenFoldSet, Total, Totals, Pick
<1>3. RegisterWindow \in Nat \ {0}
  BY RegisterAssumption DEF Register!ConstantsOK
<1>4. ASSUME NEW ip \in Ips
      PROVE  /\ \A age \in Register!Recent :
                  Register!Cardinality({i \in DOMAIN hits[ip] : hits[ip][i] = age}) = registered[ip][age]
             /\ Register!SumFunction(registered[ip]) <= RegisterLimit
  <2>1. PICK s, a : s = hits[ip] /\ a = registered[ip]
    OBVIOUS
  <2>2. /\ s \in Seq(Register!Ages) /\ a \in [Register!Recent -> Nat]
        /\ Counts(s, a) /\ Fits(s)
    BY <2>1 DEF RegisterInv, Remembered
  <2>3. DOMAIN s = 1..Len(s) /\ Len(s) \in Nat /\ DOMAIN a = Register!Recent
    BY <2>2
  <2>4. \A age \in Register!Recent : Register!Cardinality({i \in DOMAIN s : s[i] = age}) = a[age]
    BY <1>1, <2>2, <2>3 DEF Counts
  <2>5. IsFiniteSet(1..Len(s)) /\ IsFiniteSet(Register!Recent)
    BY <1>3, <2>3, FS_Interval DEF Register!Recent
  <2>6. Total(a, Register!Recent) = Cardinality({i \in 1..Len(s) : s[i] \in Register!Recent})
    <3>1. CountsEach(a, 1..Len(s), s, Register!Recent)
      BY <2>2 DEF Counts, CountsEach
    <3> QED  BY <2>5, <3>1, CountedByValue
  <2>7. Register!SumFunction(a) <= RegisterLimit
    BY <1>2, <2>2, <2>3, <2>6 DEF Fits
  <2> QED  BY <2>1, <2>4, <2>7
<1> QED  BY <1>4 DEF Register!RemembersTheWindow, Register!AtMostLimitPerWindow

(* No more requests of a key or registrations of an address are admitted   *)
(* in a window than its limit says, however the counters are incremented,  *)
(* whatever Redis forgets and whatever is pruned (ratelimit.go, redis.go,  *)
(* register_ratelimit.go): the property of the run Routing.                *)
THEOREM LimitsHold == MCSpec => []NoLimitIsExceeded
<1>1. MCInit => (part = "register" => RegisterInv)
  <2>1. MCInit /\ part = "register" => Register!Init
    BY DEF MCInit
  <2> QED  BY <2>1, RegisterBegins
<1>2. (part = "register" => RegisterInv) /\ [MCNext]_MCVars => (part = "register" => RegisterInv)'
  <2> SUFFICES ASSUME part = "register" => RegisterInv, [MCNext]_MCVars, part' = "register"
               PROVE  RegisterInv'
    OBVIOUS
  <2>1. part' = part
    BY DEF MCNext, MCVars, OrderStep, RaceStep, LoneStep, StreamStep, KeyStep, RegisterStep, Rest
  <2>2. part = "register" => [Register!Next]_(Register!vars)
    BY DEF MCNext, MCVars, OrderStep, RaceStep, LoneStep, StreamStep, KeyStep, RegisterStep, Rest,
           Register!vars, hitVars
  <2> QED  BY <2>1, <2>2, RegisterSteps
<1>3. (part = "register" => RegisterInv) /\ (part = "key" => Key!RpmIsBounded) => NoLimitIsExceeded
  BY RegisterInvIsEnough DEF NoLimitIsExceeded
<1> QED  BY <1>1, <1>2, <1>3, RequestsAreLimited, PTL DEF MCSpec

----------------------------------------------------------------------------
(* ChatStream.  An event goes from the scanner's outbox through its         *)
(* channel, the bridge's outbox and its channel to what the handler wrote;  *)
(* nothing is behind a [DONE], and all the text on its way, in order, is    *)
(* what the model said.                                                     *)

(* What goes through the channels.  Only a chunk has text, a finish reason *)
(* or tokens.                                                              *)
Kinds  == {"data", "created", "completed", "done", "error"}
Events == {e \in [kind : Kinds, text : Seq(Letters), finish : BOOLEAN, usage : BOOLEAN] :
             e.kind # "data" => e.text = <<>> /\ ~e.finish /\ ~e.usage}
Spoken == {e \in Events : e.kind \in {"data", "done", "error"}}

(* The text of a list of events, and what the translator makes of it.      *)
Adds    == [p \in Seq(Letters) \X Events |-> p[1] \o p[2].text]
Text(w) == Folded(w, Seq(Letters), <<>>, Adds)

States        == [text : Seq(Letters), started : BOOLEAN, done : BOOLEAN, stopped : BOOLEAN]
Unopened      == [text |-> <<>>, started |-> FALSE, done |-> FALSE, stopped |-> FALSE]
Feeds         == [p \in States \X Events |-> Stream!Fed(p[1], p[2])]
Translated(w) == Folded(w, States, Unopened, Feeds)

(* Events have the fields of events. *)
LEMMA EventFields ==
  ASSUME NEW e \in Events
  PROVE  /\ e.kind \in Kinds /\ e.text \in Seq(Letters) /\ e.finish \in BOOLEAN /\ e.usage \in BOOLEAN
         /\ e.kind # "data" => e.text = <<>> /\ e.finish = FALSE /\ e.usage = FALSE
BY DEF Events

(* The text grows with each event.                                         *)
LEMMA TextLaws ==
  /\ Text(<<>>) = <<>>
  /\ \A w \in Seq(Events) : Text(w) \in Seq(Letters)
  /\ \A w \in Seq(Events), e \in Events : Text(Append(w, e)) = Text(w) \o e.text
<1>1. <<>> \in Seq(Letters)
  OBVIOUS
<1>2. Adds \in [Seq(Letters) \X Events -> Seq(Letters)]
  <2>1. ASSUME NEW p \in Seq(Letters) \X Events PROVE p[1] \o p[2].text \in Seq(Letters)
    <3>1. p[1] \in Seq(Letters) /\ p[2] \in Events
      OBVIOUS
    <3>2. p[2].text \in Seq(Letters)
      BY <3>1, EventFields
    <3> QED  BY <3>1, <3>2
  <2> QED  BY <2>1 DEF Adds
<1>3. \A t \in Seq(Letters), e \in Events : Adds[<<t, e>>] = t \o e.text
  BY DEF Adds
<1> HIDE DEF Adds
<1>4. PICK S : S = Seq(Letters)
  OBVIOUS
<1>5. LoopLaws(Events, S, <<>>, Adds)
  <2>1. <<>> \in S /\ Steps(Adds, S, Events)
    BY <1>1, <1>2, <1>4 DEF Steps
  <2> QED  BY <2>1, FoldedLaws
<1>6. \A w : Text(w) = Folded(w, S, <<>>, Adds)
  BY <1>4, Zenon DEF Text
<1>7. Text(<<>>) = <<>> /\ \A w \in Seq(Events) : Text(w) \in Seq(Letters)
  BY <1>4, <1>5, <1>6 DEF LoopLaws
<1>8. \A w \in Seq(Events), e \in Events : Text(Append(w, e)) = Adds[<<Text(w), e>>]
  BY <1>5, <1>6 DEF LoopLaws
<1> QED  BY <1>3, <1>7, <1>8

(* The translator goes from states to states.                              *)
LEMMA FeedsType == Unopened \in States /\ Feeds \in [States \X Events -> States]
<1>1. Unopened \in States
  BY DEF Unopened, States
<1>2. Feeds \in [States \X Events -> States]
  <2>1. ASSUME NEW p \in States \X Events PROVE Stream!Fed(p[1], p[2]) \in States
    <3>1. PICK st, e : st = p[1] /\ e = p[2] /\ st \in States /\ e \in Events
      OBVIOUS
    <3>2. st.text \o e.text \in Seq(Letters)
      <4>1. st.text \in Seq(Letters) /\ e.text \in Seq(Letters)
        BY <3>1, EventFields DEF States
      <4> QED  BY <4>1
    <3>3. CASE e.kind = "data"
      BY <3>1, <3>2, <3>3, EventFields DEF Stream!Fed, States
    <3>4. CASE e.kind = "done"
      BY <3>1, <3>4 DEF Stream!Fed, States
    <3>5. CASE e.kind # "data" /\ e.kind # "done"
      BY <3>1, <3>5 DEF Stream!Fed
    <3> QED  BY <3>1, <3>3, <3>4, <3>5
  <2> QED  BY <2>1 DEF Feeds
<1> QED  BY <1>1, <1>2

(* The translator's state changes with each event.                         *)
LEMMA TranslatedLaws ==
  /\ Translated(<<>>) = Unopened
  /\ \A w \in Seq(Events) : Translated(w) \in States
  /\ \A w \in Seq(Events), e \in Events : Translated(Append(w, e)) = Stream!Fed(Translated(w), e)
<1>1. Unopened \in States /\ Feeds \in [States \X Events -> States]
  BY FeedsType
<1>3. \A t \in States, e \in Events : Feeds[<<t, e>>] = Stream!Fed(t, e)
  BY DEF Feeds
<1> HIDE DEF Feeds
<1>4. LoopLaws(Events, States, Unopened, Feeds)
  <2>1. PICK S, u : S = States /\ u = Unopened
    OBVIOUS
  <2>2. u \in S /\ Steps(Feeds, S, Events)
    BY <1>1, <2>1 DEF Steps
  <2>3. LoopLaws(Events, S, u, Feeds)
    BY <2>2, FoldedLaws
  <2> QED  BY <2>1, <2>3
<1>5. \A w : Translated(w) = Folded(w, States, Unopened, Feeds)
  BY Zenon DEF Translated
<1> QED  BY <1>3, <1>4, <1>5 DEF LoopLaws

(* The text that the client is given is that of what was written.          *)
LEMMA WrittenIsText ==
  ASSUME written \in Seq(Events)
  PROVE  Stream!TextWritten = Text(written)
<1> DEFINE Says(g) == g = [s \in SUBSET (DOMAIN written) |->
                             IF s = {} THEN <<>>
                             ELSE g[s \ {Greatest(s)}] \o written[Greatest(s)].text]
<1>1. Stream!TextWritten = (CHOOSE g : Says(g))[DOMAIN written]
  BY Zenon DEF Stream!TextWritten, Stream!FoldLeft, Stream!MapThenFoldSet, Stream!Max, Greatest
<1>2. <<>> \in Seq(Letters) /\ Adds \in [Seq(Letters) \X Events -> Seq(Letters)]
  <2>1. ASSUME NEW p \in Seq(Letters) \X Events PROVE p[1] \o p[2].text \in Seq(Letters)
    <3>1. p[1] \in Seq(Letters) /\ p[2] \in Events
      OBVIOUS
    <3>2. p[2].text \in Seq(Letters)
      BY <3>1, EventFields
    <3> QED  BY <3>1, <3>2
  <2> QED  BY <2>1 DEF Adds
<1>3. \A t \in Seq(Letters), e \in Events : Adds[<<t, e>>] = t \o e.text
  BY DEF Adds
<1> HIDE DEF Adds
<1>4. PICK g \in [SUBSET (DOMAIN written) -> Seq(Letters)] : FoldsBack(g, written, Seq(Letters), <<>>, Adds)
  BY <1>2, FoldExists
<1>5. \A s \in SUBSET (DOMAIN written) : s # {} => Greatest(s) \in s
  BY HasGreatest
<1>6. Says(g)
  <2>1. ASSUME NEW s \in SUBSET (DOMAIN written)
        PROVE  g[s] = IF s = {} THEN <<>> ELSE g[s \ {Greatest(s)}] \o written[Greatest(s)].text
    <3>1. CASE s = {}
      BY <1>4, <3>1 DEF FoldsBack
    <3>2. CASE s # {}
      <4>1. PICK x : x = Greatest(s)
        OBVIOUS
      <4>2. x \in DOMAIN written /\ s \ {x} \in SUBSET (DOMAIN written)
        BY <1>5, <3>2, <4>1
      <4>3. g[s \ {x}] \in Seq(Letters) /\ written[x] \in Events
        BY <1>4, <4>2
      <4>4. g[s] = Adds[<<g[s \ {x}], written[x]>>]
        BY <1>4, <3>2, <4>1, <4>3 DEF FoldsBack
      <4> QED  BY <1>3, <3>2, <4>1, <4>3, <4>4
    <3> QED  BY <3>1, <3>2
  <2>2. g = [s \in SUBSET (DOMAIN written) |-> g[s]]
    BY <1>4
  <2> QED  BY <2>1, <2>2, Zenon
<1>7. PICK c : c = CHOOSE h : Says(h)
  OBVIOUS
<1>8. Says(c)
  <2> HIDE DEF Says
  <2> QED  BY <1>6, <1>7, Zenon
<1>9. FoldsBack(c, written, Seq(Letters), <<>>, Adds)
  <2>1. c[{}] = <<>>
    BY <1>8
  <2>2. ASSUME NEW s \in SUBSET (DOMAIN written), s # {}, c[s \ {Greatest(s)}] \in Seq(Letters)
        PROVE  c[s] = Adds[<<c[s \ {Greatest(s)}], written[Greatest(s)]>>]
    <3>1. PICK x : x = Greatest(s)
      OBVIOUS
    <3>2. x \in DOMAIN written /\ written[x] \in Events
      BY <1>5, <2>2, <3>1
    <3>3. c[s] = c[s \ {x}] \o written[x].text
      BY <1>8, <2>2, <3>1
    <3> HIDE DEF Says
    <3> QED  BY <1>3, <2>2, <3>1, <3>2, <3>3
  <2> QED  BY <2>1, <2>2 DEF FoldsBack
<1> HIDE DEF Says
<1>10. c[DOMAIN written] = Folded(written, Seq(Letters), <<>>, Adds)
  <2>1. PICK S : S = Seq(Letters)
    OBVIOUS
  <2>2. <<>> \in S /\ Steps(Adds, S, Events) /\ FoldsBack(c, written, S, <<>>, Adds)
    BY <1>2, <1>9, <2>1 DEF Steps
  <2>3. c[DOMAIN written] = Folded(written, S, <<>>, Adds)
    BY <2>2, FoldIsLoop
  <2> QED  BY <2>1, <2>3
<1> QED  BY <1>1, <1>7, <1>10 DEF Text
(* And so is what the ingress makes of it for Anthropic's clients.         *)
LEMMA WrittenIsTranslated ==
  ASSUME written \in Seq(Events)
  PROVE  Stream!TranslateStream(written) = Translated(written)
<1> DEFINE Says(g) == g = [s \in SUBSET (DOMAIN written) |->
                             IF s = {} THEN Unopened
                             ELSE Stream!Fed(g[s \ {Greatest(s)}], written[Greatest(s)])]
<1>1. Stream!TranslateStream(written) = (CHOOSE g : Says(g))[DOMAIN written]
  BY Zenon DEF Stream!TranslateStream, Unopened, Stream!FoldLeft, Stream!MapThenFoldSet, Stream!Max, Greatest
<1>2. Unopened \in States /\ Feeds \in [States \X Events -> States]
  BY FeedsType
<1>3. \A st \in States, e \in Events : Feeds[<<st, e>>] = Stream!Fed(st, e)
  BY DEF Feeds
<1> HIDE DEF Feeds
<1>4. PICK g \in [SUBSET (DOMAIN written) -> States] : FoldsBack(g, written, States, Unopened, Feeds)
  BY <1>2, FoldExists
<1>5. \A s \in SUBSET (DOMAIN written) : s # {} => Greatest(s) \in s
  BY HasGreatest
<1>6. Says(g)
  <2>1. ASSUME NEW s \in SUBSET (DOMAIN written)
        PROVE  g[s] = IF s = {} THEN Unopened ELSE Stream!Fed(g[s \ {Greatest(s)}], written[Greatest(s)])
    <3>1. CASE s = {}
      BY <1>4, <3>1 DEF FoldsBack
    <3>2. CASE s # {}
      <4>1. PICK x : x = Greatest(s)
        OBVIOUS
      <4>2. x \in DOMAIN written /\ s \ {x} \in SUBSET (DOMAIN written)
        BY <1>5, <3>2, <4>1
      <4>3. g[s \ {x}] \in States /\ written[x] \in Events
        BY <1>4, <4>2
      <4>4. g[s] = Feeds[<<g[s \ {x}], written[x]>>]
        BY <1>4, <3>2, <4>1, <4>3 DEF FoldsBack
      <4> QED  BY <1>3, <3>2, <4>1, <4>3, <4>4
    <3> QED  BY <3>1, <3>2
  <2>2. g = [s \in SUBSET (DOMAIN written) |-> g[s]]
    BY <1>4
  <2> QED  BY <2>1, <2>2, Zenon
<1>7. PICK c : c = CHOOSE h : Says(h)
  OBVIOUS
<1>8. Says(c)
  <2> HIDE DEF Says
  <2> QED  BY <1>6, <1>7, Zenon
<1>9. FoldsBack(c, written, States, Unopened, Feeds)
  <2>1. c[{}] = Unopened
    BY <1>8
  <2>2. ASSUME NEW s \in SUBSET (DOMAIN written), s # {}, c[s \ {Greatest(s)}] \in States
        PROVE  c[s] = Feeds[<<c[s \ {Greatest(s)}], written[Greatest(s)]>>]
    <3>1. PICK x : x = Greatest(s)
      OBVIOUS
    <3>2. x \in DOMAIN written /\ written[x] \in Events
      BY <1>5, <2>2, <3>1
    <3>3. c[s] = Stream!Fed(c[s \ {x}], written[x])
      BY <1>8, <2>2, <3>1
    <3> HIDE DEF Says
    <3> QED  BY <1>3, <2>2, <3>1, <3>2, <3>3
  <2> QED  BY <2>1, <2>2 DEF FoldsBack
<1> HIDE DEF Says
<1>10. c[DOMAIN written] = Folded(written, States, Unopened, Feeds)
  <2>1. PICK S : S = States
    OBVIOUS
  <2>2. Unopened \in S /\ Steps(Feeds, S, Events) /\ FoldsBack(c, written, S, Unopened, Feeds)
    BY <1>2, <1>9, <2>1 DEF Steps
  <2>3. c[DOMAIN written] = Folded(written, S, Unopened, Feeds)
    BY <2>2, FoldIsLoop
  <2> QED  BY <2>1, <2>3
<1> QED  BY <1>1, <1>7, <1>10 DEF Translated

(* Texts may be grouped as one likes.                                      *)
LEMMA Regrouped ==
  ASSUME NEW u \in Seq(Letters), NEW v \in Seq(Letters), NEW x \in Seq(Letters)
  PROVE  (u \o v) \o x = u \o (v \o x)
BY ConcatAssociative

(* The text of two lists, one after the other.                             *)
LEMMA TextOfBoth ==
  ASSUME NEW a \in Seq(Events), NEW b \in Seq(Events)
  PROVE  Text(a \o b) = Text(a) \o Text(b)
<1> DEFINE T == {n \in 0..Len(b) : \A c \in Seq(Events) : Len(c) = n => Text(a \o c) = Text(a) \o Text(c)}
<1>1. Len(b) \in Nat
  OBVIOUS
<1>2. 0 \in T
  <2>1. ASSUME NEW c \in Seq(Events), Len(c) = 0 PROVE Text(a \o c) = Text(a) \o Text(c)
    <3>1. c = <<>>
      BY <2>1, EmptySeq
    <3>2. a \o <<>> = a /\ Text(a) \o <<>> = Text(a)
      BY TextLaws, ConcatEmptySeq
    <3> QED  BY <3>1, <3>2, TextLaws
  <2> QED  BY <1>1, <2>1
<1>3. ASSUME NEW n \in 1..Len(b), n - 1 \in T PROVE n \in T
  <2>1. ASSUME NEW c \in Seq(Events), Len(c) = n PROVE Text(a \o c) = Text(a) \o Text(c)
    <3>1. c # <<>>
      BY <1>1, <2>1
    <3>2. PICK d \in Seq(Events), e \in Events : c = Append(d, e)
      BY <3>1, SequenceEmptyOrAppend
    <3>3. Len(d) = n - 1
      BY <1>1, <2>1, <3>2
    <3>4. Text(a \o d) = Text(a) \o Text(d)
      BY <1>3, <3>3
    <3>5. a \o c = Append(a \o d, e) /\ a \o d \in Seq(Events)
      BY <3>2
    <3>6. PICK u, v, x : u = Text(a) /\ v = Text(d) /\ x = e.text
      OBVIOUS
    <3>7. u \in Seq(Letters) /\ v \in Seq(Letters) /\ x \in Seq(Letters)
      BY <3>6, TextLaws, EventFields
    <3>8. (u \o v) \o x = u \o (v \o x)
      BY <3>7, Regrouped
    <3>9. Text(a \o c) = (u \o v) \o x /\ Text(c) = v \o x
      BY <3>2, <3>4, <3>5, <3>6, TextLaws
    <3> QED  BY <3>6, <3>8, <3>9
  <2> QED  BY <1>1, <2>1
<1> HIDE DEF T
<1>4. 0..Len(b) \subseteq T
  BY <1>1, <1>2, <1>3, UpTo
<1>5. Len(b) \in T
  BY <1>1, <1>4
<1> QED  BY <1>5 DEF T

(* The text of a short list.                                               *)
LEMMA ShortTexts ==
  /\ \A e \in Events : <<e>> \in Seq(Events) /\ Text(<<e>>) = e.text
  /\ \A e, f \in Events : <<e, f>> \in Seq(Events) /\ Text(<<e, f>>) = e.text \o f.text
<1>1. ASSUME NEW e \in Events PROVE <<e>> \in Seq(Events) /\ Text(<<e>>) = e.text
  <2>1. <<e>> = Append(<<>>, e) /\ <<>> \in Seq(Events)
    OBVIOUS
  <2>2. <<>> \o e.text = e.text
    BY EventFields, ConcatEmptySeq
  <2>3. Text(Append(<<>>, e)) = Text(<<>>) \o e.text
    BY <2>1, TextLaws, Zenon
  <2>4. Text(<<e>>) = <<>> \o e.text
    BY <2>1, <2>3, TextLaws, Zenon
  <2> QED  BY <2>1, <2>2, <2>4
<1>2. ASSUME NEW e \in Events, NEW f \in Events
      PROVE  <<e, f>> \in Seq(Events) /\ Text(<<e, f>>) = e.text \o f.text
  <2>1. <<e, f>> = Append(<<e>>, f) /\ <<e>> \in Seq(Events)
    OBVIOUS
  <2>2. Text(Append(<<e>>, f)) = Text(<<e>>) \o f.text
    BY <2>1, TextLaws, Zenon
  <2>3. Text(<<e>>) = e.text
    BY <1>1
  <2>4. Text(<<e, f>>) = e.text \o f.text
    BY <2>1, <2>2, <2>3, Zenon
  <2>5. <<e, f>> \in Seq(Events)
    OBVIOUS
  <2> QED  BY <2>4, <2>5, Zenon
<1> QED  BY <1>1, <1>2

(* A list is its first event and the others.                               *)
LEMMA HeadAndTail ==
  ASSUME NEW w \in Seq(Events), w # <<>>
  PROVE  /\ Head(w) \in Events /\ Tail(w) \in Seq(Events) /\ w = <<Head(w)>> \o Tail(w)
         /\ Text(w) = Head(w).text \o Text(Tail(w))
<1>1. Head(w) \in Events /\ Tail(w) \in Seq(Events) /\ w = <<Head(w)>> \o Tail(w)
  OBVIOUS
<1>2. <<Head(w)>> \in Seq(Events) /\ Text(<<Head(w)>>) = Head(w).text
  BY <1>1, ShortTexts
<1>3. Text(<<Head(w)>> \o Tail(w)) = Text(<<Head(w)>>) \o Text(Tail(w))
  BY <1>1, <1>2, TextOfBoth
<1> QED  BY <1>1, <1>2, <1>3

----------------------------------------------------------------------------
(* Some event of a list is among those of m; only the last one is [DONE].  *)
Marked(w, m) == \E i \in DOMAIN w : w[i] \in m
Dones        == {e \in Events : e.kind = "done"}
Finishes     == {e \in Events : e.finish = TRUE}
Usages       == {e \in Events : e.usage = TRUE}
DoneLast(w)  == \A i \in DOMAIN w : w[i] \in Dones => i = Len(w)

(* What is marked in lists put together. *)
LEMMA MarkedLaws ==
  ASSUME NEW m
  PROVE  /\ ~Marked(<<>>, m)
         /\ \A e \in Events : Marked(<<e>>, m) <=> e \in m
         /\ \A e, f \in Events : Marked(<<e, f>>, m) <=> e \in m \/ f \in m
         /\ \A a, b \in Seq(Events) : Marked(a \o b, m) <=> Marked(a, m) \/ Marked(b, m)
<1>1. ~Marked(<<>>, m)
  BY DEF Marked
<1>2. ASSUME NEW e \in Events PROVE Marked(<<e>>, m) <=> e \in m
  <2>1. DOMAIN <<e>> = {1} /\ <<e>>[1] = e
    OBVIOUS
  <2> QED  BY <2>1 DEF Marked
<1>3. ASSUME NEW e \in Events, NEW f \in Events PROVE Marked(<<e, f>>, m) <=> e \in m \/ f \in m
  <2>1. DOMAIN <<e, f>> = {1, 2} /\ <<e, f>>[1] = e /\ <<e, f>>[2] = f
    OBVIOUS
  <2> QED  BY <2>1 DEF Marked
<1>4. ASSUME NEW a \in Seq(Events), NEW b \in Seq(Events)
      PROVE  Marked(a \o b, m) <=> Marked(a, m) \/ Marked(b, m)
  <2>1. PICK c : c = a \o b
    OBVIOUS
  <2>2. /\ DOMAIN a = 1..Len(a) /\ DOMAIN b = 1..Len(b) /\ DOMAIN c = 1..(Len(a) + Len(b))
        /\ Len(a) \in Nat /\ Len(b) \in Nat
        /\ \A i \in 1..Len(a) : c[i] = a[i]
        /\ \A i \in 1..Len(b) : c[Len(a) + i] = b[i]
    BY <2>1
  <2>3. \A i \in 1..(Len(a) + Len(b)) : i \in 1..Len(a) \/ (i - Len(a) \in 1..Len(b) /\ i = Len(a) + (i - Len(a)))
    BY <2>2
  <2>4. Marked(c, m) => Marked(a, m) \/ Marked(b, m)
    <3>1. ASSUME NEW i \in DOMAIN c, c[i] \in m PROVE Marked(a, m) \/ Marked(b, m)
      <4>1. CASE i \in 1..Len(a)
        BY <2>2, <3>1, <4>1 DEF Marked
      <4>2. CASE i - Len(a) \in 1..Len(b)
        <5>1. PICK j \in 1..Len(b) : i = Len(a) + j
          BY <2>2, <2>3, <3>1, <4>2
        <5> QED  BY <2>2, <3>1, <5>1 DEF Marked
      <4> QED  BY <2>2, <2>3, <3>1, <4>1, <4>2
    <3> QED  BY <3>1 DEF Marked
  <2>5. Marked(a, m) => Marked(c, m)
    <3>1. \A i \in DOMAIN a : i \in DOMAIN c /\ c[i] = a[i]
      BY <2>2
    <3> QED  BY <3>1 DEF Marked
  <2>6. Marked(b, m) => Marked(c, m)
    <3>1. \A i \in DOMAIN b : Len(a) + i \in DOMAIN c /\ c[Len(a) + i] = b[i]
      BY <2>2
    <3> QED  BY <3>1 DEF Marked
  <2> QED  BY <2>1, <2>4, <2>5, <2>6
<1> QED  BY <1>1, <1>2, <1>3, <1>4

(* Where the end stands in lists put together. *)
LEMMA DoneLastLaws ==
  /\ DoneLast(<<>>)
  /\ \A e \in Events : DoneLast(<<e>>)
  /\ \A e, f \in Events : e \notin Dones => DoneLast(<<e, f>>)
  /\ \A a, b \in Seq(Events) : ~Marked(a, Dones) /\ DoneLast(b) => DoneLast(a \o b)
  /\ \A w \in Seq(Events) : w # <<>> /\ DoneLast(w) =>
       DoneLast(Tail(w)) /\ (Head(w) \in Dones => Tail(w) = <<>>)
<1>1. DoneLast(<<>>)
  BY DEF DoneLast
<1>2. ASSUME NEW e \in Events PROVE DoneLast(<<e>>)
  BY DEF DoneLast
<1>3. ASSUME NEW e \in Events, NEW f \in Events, e \notin Dones PROVE DoneLast(<<e, f>>)
  <2>1. DOMAIN <<e, f>> = {1, 2} /\ <<e, f>>[1] = e /\ <<e, f>>[2] = f /\ Len(<<e, f>>) = 2
    OBVIOUS
  <2> QED  BY <1>3, <2>1 DEF DoneLast
<1>4. ASSUME NEW a \in Seq(Events), NEW b \in Seq(Events), ~Marked(a, Dones), DoneLast(b)
      PROVE  DoneLast(a \o b)
  <2>1. PICK c : c = a \o b
    OBVIOUS
  <2>2. /\ DOMAIN a = 1..Len(a) /\ DOMAIN b = 1..Len(b) /\ DOMAIN c = 1..Len(c) /\ Len(c) = Len(a) + Len(b)
        /\ Len(a) \in Nat /\ Len(b) \in Nat
        /\ \A i \in 1..Len(a) : c[i] = a[i]
        /\ \A i \in 1..Len(b) : c[Len(a) + i] = b[i]
    BY <2>1
  <2>3. ASSUME NEW i \in 1..Len(c), c[i] \in Dones PROVE i = Len(c)
    <3>1. i \notin 1..Len(a)
      BY <1>4, <2>2, <2>3 DEF Marked
    <3>2. PICK j \in 1..Len(b) : i = Len(a) + j
      <4>1. i - Len(a) \in 1..Len(b) /\ i = Len(a) + (i - Len(a))
        BY <2>2, <3>1
      <4> QED  BY <4>1
    <3>3. j = Len(b)
      BY <1>4, <2>2, <2>3, <3>2 DEF DoneLast
    <3> QED  BY <2>2, <3>2, <3>3
  <2> QED  BY <2>1, <2>2, <2>3 DEF DoneLast
<1>5. ASSUME NEW w \in Seq(Events), w # <<>>, DoneLast(w)
      PROVE  DoneLast(Tail(w)) /\ (Head(w) \in Dones => Tail(w) = <<>>)
  <2>1. PICK t, n : t = Tail(w) /\ n = Len(w)
    OBVIOUS
  <2>2. /\ n \in Nat /\ n >= 1 /\ DOMAIN w = 1..n /\ t \in Seq(Events) /\ Len(t) = n - 1 /\ DOMAIN t = 1..(n - 1)
        /\ Head(w) = w[1] /\ \A i \in 1..(n - 1) : t[i] = w[i + 1]
    BY <1>5, <2>1
  <2>3. ASSUME NEW i \in 1..(n - 1), t[i] \in Dones PROVE i = n - 1
    <3>1. i + 1 \in 1..n /\ w[i + 1] \in Dones
      BY <2>2, <2>3
    <3>2. i + 1 = n
      BY <1>5, <2>1, <2>2, <3>1 DEF DoneLast
    <3> QED  BY <2>2, <3>2
  <2>4. Head(w) \in Dones => t = <<>>
    <3>1. Head(w) \in Dones => n = 1
      BY <1>5, <2>1, <2>2 DEF DoneLast
    <3>2. n = 1 => t = <<>>
      BY <2>2, EmptySeq
    <3> QED  BY <3>1, <3>2
  <2> QED  BY <2>1, <2>2, <2>3, <2>4 DEF DoneLast
<1> QED  BY <1>1, <1>2, <1>3, <1>4, <1>5

(* The events on their way, from the scanner to the client: the place of   *)
(* one only grows.                                                         *)
Queues == <<outbox["scanner"], chan["scanner"], outbox["bridge"], chan["bridge"], written>>

(* All the text that is on its way or written, in order.                   *)
TextOfAll(Q) == (((Text(Q[5]) \o Text(Q[4])) \o Text(Q[3])) \o Text(Q[2])) \o Text(Q[1])

(* An event among those of m is somewhere.                                 *)
Anywhere(Q, m) == \E p \in 1..5 : Marked(Q[p], m)

(* Nothing is behind a [DONE].                                             *)
DoneEnds(Q) ==
  \A p \in 1..5 : /\ p < 5 => DoneLast(Q[p])
                  /\ Marked(Q[p], Dones) => \A q \in 1..5 : q < p => Q[q] = <<>>

(* What is made of an event on its way has its text, and is the end or the *)
(* finish only if the event was.                                           *)
Carries(es, e) ==
  /\ es \in Seq(Events) /\ Text(es) = e.text /\ DoneLast(es)
  /\ Marked(es, Dones) => e \in Dones
  /\ Marked(es, Finishes) => e \in Finishes

(* The first event at place p goes on to q, past empty places.             *)
Moves(Q, R, p, q, es) ==
  /\ Q[p] # <<>> /\ R[p] = Tail(Q[p])
  /\ R[q] = Q[q] \o es /\ Carries(es, Head(Q[p]))
  /\ \A o \in 1..5 : /\ o # p /\ o # q => R[o] = Q[o]
                     /\ p < o /\ o < q => Q[o] = <<>>

(* All the text from a place on, for each place.                           *)
TextFrom(Q) ==
  LET t(o) == Text(Q[o])
  IN  <<TextOfAll(Q), ((t(5) \o t(4)) \o t(3)) \o t(2), (t(5) \o t(4)) \o t(3), t(5) \o t(4), t(5)>>

(* Each place adds its own text. *)
LEMMA TextFromPlaces ==
  ASSUME NEW Q \in [1..5 -> Seq(Events)]
  PROVE  /\ TextFrom(Q) \in [1..5 -> Seq(Letters)] /\ TextFrom(Q)[1] = TextOfAll(Q)
         /\ TextFrom(Q)[5] = Text(Q[5])
         /\ \A o \in 1..4 : TextFrom(Q)[o] = TextFrom(Q)[o + 1] \o Text(Q[o])
<1>1. PICK t1, t2, t3, t4, t5 : t1 = Text(Q[1]) /\ t2 = Text(Q[2]) /\ t3 = Text(Q[3]) /\ t4 = Text(Q[4]) /\ t5 = Text(Q[5])
  OBVIOUS
<1>2. 1 \in 1..5 /\ 2 \in 1..5 /\ 3 \in 1..5 /\ 4 \in 1..5 /\ 5 \in 1..5
  OBVIOUS
<1>3. t1 \in Seq(Letters) /\ t2 \in Seq(Letters) /\ t3 \in Seq(Letters) /\ t4 \in Seq(Letters) /\ t5 \in Seq(Letters)
  BY <1>1, <1>2, TextLaws
<1>4. PICK a4 : a4 = t5 \o t4
  OBVIOUS
<1>5. PICK a3 : a3 = a4 \o t3
  OBVIOUS
<1>6. PICK a2 : a2 = a3 \o t2
  OBVIOUS
<1>7. PICK a1 : a1 = a2 \o t1
  OBVIOUS
<1>8. a4 \in Seq(Letters) /\ a3 \in Seq(Letters) /\ a2 \in Seq(Letters) /\ a1 \in Seq(Letters)
  BY <1>3, <1>4, <1>5, <1>6, <1>7
<1>9. TextOfAll(Q) = a1
  BY <1>1, <1>4, <1>5, <1>6, <1>7, Zenon DEF TextOfAll
<1>10. TextFrom(Q) = <<a1, a2, a3, a4, t5>>
  BY <1>1, <1>4, <1>5, <1>6, <1>9, Zenon DEF TextFrom
<1>11. PICK a : a = <<a1, a2, a3, a4, t5>>
  OBVIOUS
<1>12. /\ a \in [1..5 -> Seq(Letters)] /\ a[1] = a1 /\ a[2] = a2 /\ a[3] = a3 /\ a[4] = a4 /\ a[5] = t5
  BY <1>3, <1>8, <1>11
<1>13. ASSUME NEW o \in 1..4 PROVE a[o] = a[o + 1] \o Text(Q[o])
  <2>1. o = 1 \/ o = 2 \/ o = 3 \/ o = 4
    OBVIOUS
  <2>2. a[4] = a[5] \o Text(Q[4]) /\ a[3] = a[4] \o Text(Q[3]) /\ a[2] = a[3] \o Text(Q[2]) /\ a[1] = a[2] \o Text(Q[1])
    BY <1>1, <1>4, <1>5, <1>6, <1>7, <1>12
  <2>3. 4 + 1 = 5 /\ 3 + 1 = 4 /\ 2 + 1 = 3 /\ 1 + 1 = 2
    OBVIOUS
  <2> QED  BY <2>1, <2>2, <2>3
<1> QED  BY <1>1, <1>2, <1>9, <1>10, <1>11, <1>12, <1>13

(* Text that goes on stays in its place.                                   *)
LEMMA MovesKeepText ==
  ASSUME NEW Q \in [1..5 -> Seq(Events)], NEW R \in [1..5 -> Seq(Events)],
         NEW p \in 1..5, NEW q \in 1..5, p < q, NEW es, Moves(Q, R, p, q, es)
  PROVE  TextOfAll(R) = TextOfAll(Q)
<1>1. PICK x, y : x = Head(Q[p]).text /\ y = Text(Tail(Q[p]))
  OBVIOUS
<1>2. \A o \in 1..5 : Q[o] \in Seq(Events) /\ R[o] \in Seq(Events)
  OBVIOUS
<1>3. x \in Seq(Letters) /\ y \in Seq(Letters) /\ Text(Q[p]) = x \o y /\ Text(R[p]) = y
  <2>1. Q[p] \in Seq(Events) /\ Q[p] # <<>> /\ R[p] = Tail(Q[p])
    BY <1>2 DEF Moves
  <2> QED  BY <1>1, <2>1, HeadAndTail, TextLaws, EventFields
<1>4. Text(R[q]) = Text(Q[q]) \o x
  <2>1. Q[q] \in Seq(Events) /\ es \in Seq(Events) /\ Text(es) = x /\ R[q] = Q[q] \o es
    BY <1>1, <1>2 DEF Moves, Carries
  <2> QED  BY <2>1, TextOfBoth
<1>5. ASSUME NEW o \in 1..5
      PROVE  /\ Text(Q[o]) \in Seq(Letters) /\ (o # p /\ o # q => Text(R[o]) = Text(Q[o]))
             /\ p < o /\ o < q => Text(Q[o]) = <<>>
  <2>1. /\ o # p /\ o # q => R[o] = Q[o]
        /\ p < o /\ o < q => Q[o] = <<>>
    BY DEF Moves
  <2> QED  BY <1>2, <2>1, TextLaws
<1>6. PICK a, b : a = TextFrom(Q) /\ b = TextFrom(R)
  OBVIOUS
<1>7. /\ a \in [1..5 -> Seq(Letters)] /\ a[1] = TextOfAll(Q) /\ a[5] = Text(Q[5])
      /\ b \in [1..5 -> Seq(Letters)] /\ b[1] = TextOfAll(R) /\ b[5] = Text(R[5])
      /\ \A o \in 1..4 : a[o] = a[o + 1] \o Text(Q[o]) /\ b[o] = b[o + 1] \o Text(R[o])
  BY <1>6, TextFromPlaces
<1> DEFINE C(o) == /\ o > q \/ o <= p => b[o] = a[o]
                   /\ p < o /\ o <= q => b[o] = a[o] \o x
<1>8. p \in 1..4 /\ q \in 2..5
  OBVIOUS
<1>9. C(5)
  <2>1. a[5] = Text(Q[5]) /\ b[5] = Text(R[5])
    BY <1>7
  <2>2. 5 \in 1..5 /\ 5 # p
    BY <1>8
  <2>3. 5 # q => Text(R[5]) = Text(Q[5])
    BY <1>5, <2>2
  <2>4. 5 = q => Text(R[5]) = Text(Q[5]) \o x
    BY <1>4
  <2>5. (5 # q => b[5] = a[5]) /\ (5 = q => b[5] = a[5] \o x)
    BY <2>1, <2>3, <2>4
  <2>6. (5 > q => 5 # q) /\ ~(5 <= p) /\ (5 <= q => 5 = q)
    BY <1>8
  <2> QED  BY <2>5, <2>6
<1>10. ASSUME NEW o \in 1..4,
              o + 1 > q \/ o + 1 <= p => b[o + 1] = a[o + 1],
              p < o + 1 /\ o + 1 <= q => b[o + 1] = a[o + 1] \o x
       PROVE  C(o)
  <2>1. PICK u, v, r, s : u = a[o + 1] /\ v = Text(Q[o]) /\ r = b[o + 1] /\ s = Text(R[o])
    OBVIOUS
  <2>2. /\ o \in 1..5 /\ o + 1 \in 1..5 /\ u \in Seq(Letters) /\ v \in Seq(Letters)
        /\ a[o] = u \o v /\ b[o] = r \o s
    <3>1. o \in 1..5 /\ o + 1 \in 1..5
      OBVIOUS
    <3>2. a[o + 1] \in Seq(Letters) /\ a[o] = a[o + 1] \o Text(Q[o]) /\ b[o] = b[o + 1] \o Text(R[o])
      BY <1>7, <3>1
    <3>3. Text(Q[o]) \in Seq(Letters)
      BY <1>5, <3>1
    <3> QED  BY <2>1, <3>1, <3>2, <3>3
  <2>3. /\ u \o <<>> = u /\ (u \o x) \o <<>> = u \o x
        /\ (u \o v) \o x = u \o (v \o x) /\ (u \o x) \o y = u \o (x \o y)
    <3>1. u \in Seq(Letters) /\ v \in Seq(Letters) /\ x \in Seq(Letters) /\ y \in Seq(Letters)
      BY <1>3, <2>2
    <3>2. (u \o v) \o x = u \o (v \o x)
      BY <3>1, Regrouped, Zenon
    <3>3. (u \o x) \o y = u \o (x \o y)
      BY <3>1, Regrouped, Zenon
    <3>4. u \o <<>> = u
      BY <3>1, ConcatEmptySeq
    <3>5. PICK z : z = u \o x
      OBVIOUS
    <3>6. z \in Seq(Letters)
      BY <3>1, <3>5
    <3>7. z \o <<>> = z
      BY <3>6, ConcatEmptySeq
    <3> QED  BY <3>2, <3>3, <3>4, <3>5, <3>7
  <2>9. /\ v \in Seq(Letters) /\ (o # p /\ o # q => s = v)
        /\ p < o /\ o < q => v = <<>>
    BY <1>5, <2>1, <2>2
  <2>10. /\ o + 1 > q \/ o + 1 <= p => r = u
         /\ p < o + 1 /\ o + 1 <= q => r = u \o x
    BY <1>10, <2>1
  <2>11. /\ o = q => s = v \o x
         /\ o = p => s = y /\ v = x \o y
    BY <1>3, <1>4, <2>1
  <2>12. /\ o \in Int /\ p \in Int /\ q \in Int /\ (o > q => o # p /\ o + 1 > q)
         /\ o = q => o + 1 > q /\ o > p
         /\ p < o /\ o < q => o # p /\ o # q /\ p < o + 1 /\ o + 1 <= q
         /\ o = p => p < o + 1 /\ o + 1 <= q
         /\ o < p => o + 1 <= p /\ o < q /\ o # q
         /\ o > q \/ o = q \/ (p < o /\ o < q) \/ o = p \/ o < p
    OBVIOUS
  <2>4. CASE o > q
    <3>1. r = u /\ s = v
      BY <2>4, <2>9, <2>10, <2>12
    <3>2. b[o] = a[o]
      BY <2>2, <3>1
    <3>3. ~(p < o /\ o <= q)
      BY <2>4, <2>12
    <3> QED  BY <3>2, <3>3
  <2>5. CASE o = q
    <3>1. r = u /\ s = v \o x
      BY <2>5, <2>10, <2>11, <2>12
    <3>2. b[o] = a[o] \o x
      BY <2>2, <2>3, <3>1
    <3>3. ~(o > q \/ o <= p)
      BY <2>5, <2>12
    <3> QED  BY <3>2, <3>3
  <2>6. CASE p < o /\ o < q
    <3>1. r = u \o x /\ s = <<>> /\ v = <<>>
      BY <2>6, <2>9, <2>10, <2>12
    <3>2. b[o] = a[o] \o x
      BY <2>2, <2>3, <3>1
    <3>3. ~(o > q \/ o <= p)
      BY <2>6, <2>12
    <3> QED  BY <3>2, <3>3
  <2>7. CASE o = p
    <3>1. r = u \o x /\ s = y /\ v = x \o y
      BY <2>7, <2>10, <2>11, <2>12
    <3>2. b[o] = a[o]
      BY <2>2, <2>3, <3>1
    <3>3. ~(p < o /\ o <= q)
      BY <2>7, <2>12
    <3> QED  BY <3>2, <3>3
  <2>8. CASE o < p
    <3>1. r = u /\ s = v
      BY <2>8, <2>9, <2>10, <2>12
    <3>2. b[o] = a[o]
      BY <2>2, <3>1
    <3>3. ~(p < o /\ o <= q)
      BY <2>8, <2>12
    <3> QED  BY <3>2, <3>3
  <2> QED  BY <2>4, <2>5, <2>6, <2>7, <2>8, <2>12
<1>11. C(1)
  <2>1. \A o \in 1..4 : C(o + 1) => C(o)
    BY <1>10
  <2>2. 4 + 1 = 5 /\ 3 + 1 = 4 /\ 2 + 1 = 3 /\ 1 + 1 = 2
    OBVIOUS
  <2> HIDE DEF C
  <2>3. C(4)
    BY <1>9, <2>1, <2>2
  <2>4. C(3)
    BY <2>1, <2>2, <2>3
  <2>5. C(2)
    BY <2>1, <2>2, <2>4
  <2> QED  BY <2>1, <2>2, <2>5
<1>12. b[1] = a[1]
  <2>1. 1 <= p
    BY <1>8
  <2> QED  BY <1>11, <2>1
<1> QED  BY <1>7, <1>12

(* What goes on leaves nothing behind a [DONE], and is the same.           *)
LEMMA MovesKeepMarks ==
  ASSUME NEW Q \in [1..5 -> Seq(Events)], NEW R \in [1..5 -> Seq(Events)],
         NEW p \in 1..5, NEW q \in 1..5, p < q, NEW es, Moves(Q, R, p, q, es), DoneEnds(Q)
  PROVE  /\ DoneEnds(R)
         /\ Anywhere(R, Dones) => Anywhere(Q, Dones)
         /\ Anywhere(R, Finishes) => Anywhere(Q, Finishes)
<1>1. PICK e, s : e = Head(Q[p]) /\ s = Tail(Q[p])
  BY Zenon
<1>2. /\ \A o \in 1..5 : Q[o] \in Seq(Events) /\ R[o] \in Seq(Events)
      /\ Q[p] # <<>> /\ R[p] = s /\ R[q] = Q[q] \o es /\ p \in 1..4
      /\ \A o \in 1..5 : (o # p /\ o # q => R[o] = Q[o]) /\ (p < o /\ o < q => Q[o] = <<>>)
  <2>0. p \in 1..4
    OBVIOUS
  <2>1. Q[p] # <<>> /\ R[p] = s /\ R[q] = Q[q] \o es
    BY <1>1, Zenon DEF Moves
  <2>2. \A o \in 1..5 : (o # p /\ o # q => R[o] = Q[o]) /\ (p < o /\ o < q => Q[o] = <<>>)
    BY Zenon DEF Moves
  <2> QED  BY <2>0, <2>1, <2>2
<1>3. /\ es \in Seq(Events) /\ DoneLast(es) /\ (Marked(es, Dones) => e \in Dones)
      /\ Marked(es, Finishes) => e \in Finishes
  BY <1>1 DEF Moves, Carries
<1>4. /\ e \in Events /\ s \in Seq(Events)
      /\ \A m : Marked(Q[p], m) <=> e \in m \/ Marked(s, m)
  <2>1. e \in Events /\ s \in Seq(Events) /\ Q[p] = <<e>> \o s /\ <<e>> \in Seq(Events)
    <3>1. PICK w : w = Q[p]
      OBVIOUS
    <3>2. w \in Seq(Events) /\ w # <<>>
      BY <1>2, <3>1
    <3>3. Head(w) \in Events /\ Tail(w) \in Seq(Events) /\ w = <<Head(w)>> \o Tail(w)
      BY <3>2, HeadAndTail
    <3>4. <<Head(w)>> \in Seq(Events)
      BY <3>3
    <3> QED  BY <1>1, <3>1, <3>3, <3>4
  <2>2. ASSUME NEW m PROVE Marked(Q[p], m) <=> e \in m \/ Marked(s, m)
    <3>1. Marked(<<e>> \o s, m) <=> Marked(<<e>>, m) \/ Marked(s, m)
      BY <2>1, MarkedLaws
    <3>2. Marked(<<e>>, m) <=> e \in m
      BY <2>1, MarkedLaws
    <3> QED  BY <2>1, <3>1, <3>2
  <2> QED  BY <2>1, <2>2
<1>5. \A m : Marked(R[q], m) <=> Marked(Q[q], m) \/ Marked(es, m)
  <2>1. PICK w : w = Q[q]
    OBVIOUS
  <2>2. w \in Seq(Events) /\ es \in Seq(Events) /\ R[q] = w \o es
    BY <1>2, <1>3, <2>1
  <2>3. \A m : Marked(w \o es, m) <=> Marked(w, m) \/ Marked(es, m)
    BY <2>2, MarkedLaws
  <2> QED  BY <2>1, <2>2, <2>3
<1>6. DoneLast(s) /\ (e \in Dones => s = <<>>)
  <2>1. PICK w : w = Q[p]
    OBVIOUS
  <2>2. w \in Seq(Events) /\ w # <<>> /\ p < 5
    BY <1>2, <2>1
  <2>3. DoneLast(w)
    BY <2>1, <2>2 DEF DoneEnds
  <2> QED  BY <1>1, <2>1, <2>2, <2>3, DoneLastLaws
<1>7. ~Marked(Q[q], Dones)
  BY <1>2 DEF DoneEnds
<1>8. \A m : ~Marked(<<>>, m)
  BY MarkedLaws
<1>9. Marked(es, Dones) => \A o \in 1..5 : o < q => R[o] = <<>>
  <2> SUFFICES ASSUME Marked(es, Dones), NEW o \in 1..5, o < q PROVE R[o] = <<>>
    OBVIOUS
  <2>1. e \in Dones /\ s = <<>> /\ Marked(Q[p], Dones)
    BY <1>3, <1>4, <1>6
  <2>2. o < p => Q[o] = <<>>
    BY <2>1 DEF DoneEnds
  <2>3. o = p => R[o] = <<>>
    BY <1>2, <2>1
  <2>4. o < p => o # p /\ o # q
    OBVIOUS
  <2>5. o # p /\ o # q => R[o] = Q[o] /\ (p < o => Q[o] = <<>>)
    BY <1>2
  <2>6. o < p \/ o = p \/ (p < o /\ o # p /\ o # q)
    OBVIOUS
  <2> QED  BY <2>2, <2>3, <2>4, <2>5, <2>6
<1>10. DoneEnds(R)
  <2>1. ASSUME NEW o \in 1..5, o < 5 PROVE DoneLast(R[o])
    <3>1. DoneLast(Q[o])
      BY <2>1 DEF DoneEnds
    <3>2. o = q => DoneLast(R[o])
      BY <1>2, <1>3, <1>7, DoneLastLaws
    <3> QED  BY <1>2, <1>6, <3>1, <3>2
  <2>2. ASSUME NEW o \in 1..5, Marked(R[o], Dones), NEW l \in 1..5, l < o PROVE R[l] = <<>>
    <3>1. CASE o = q
      <4>1. Marked(es, Dones)
        BY <1>5, <1>7, <2>2, <3>1
      <4> QED  BY <1>9, <2>2, <3>1, <4>1
    <3>2. CASE o = p
      <4>1. Marked(Q[p], Dones)
        BY <1>2, <1>4, <2>2, <3>2
      <4>2. Q[l] = <<>>
        BY <2>2, <3>2, <4>1 DEF DoneEnds
      <4>3. l # p /\ l # q
        BY <2>2, <3>2
      <4> QED  BY <1>2, <4>2, <4>3
    <3>3. CASE o # p /\ o # q
      <4>1. Marked(Q[o], Dones)
        BY <1>2, <2>2, <3>3
      <4>2. \A k \in 1..5 : k < o => Q[k] = <<>>
        BY <4>1 DEF DoneEnds
      <4>3. ~(p < o)
        BY <1>2, <4>2
      <4>4. l # p /\ l # q
        BY <2>2, <4>3
      <4> QED  BY <1>2, <2>2, <4>2, <4>4
    <3> QED  BY <3>1, <3>2, <3>3
  <2> QED  BY <2>1, <2>2 DEF DoneEnds
<1>11. ASSUME NEW m, Marked(es, m) => e \in m, Anywhere(R, m) PROVE Anywhere(Q, m)
  <2>1. PICK o \in 1..5 : Marked(R[o], m)
    BY <1>11 DEF Anywhere
  <2>2. Marked(Q[o], m) \/ Marked(Q[p], m)
    BY <1>2, <1>4, <1>5, <1>11, <2>1
  <2> QED  BY <2>2 DEF Anywhere
<1> QED  BY <1>3, <1>10, <1>11

StreamTyped ==
  /\ provider \in {"openai", "anthropic", "gemini"} /\ client \in {"openai", "anthropic", "responses"}
  /\ cumulative \in BOOLEAN /\ includeUsage \in BOOLEAN /\ said \in Seq(Letters) /\ prevText \in Seq(Letters)
  /\ upstream \in {"speaking", "finished", "cut"} /\ ctx \in {"live", "left", "returned"}
  /\ scanner \in {"scanning", "ending", "leaving", "gone"} /\ spoiled \in BOOLEAN
  /\ bridge \in {"running", "leaving", "gone"} /\ handler \in {"running", "leaving", "gone"}
  /\ outbox \in [Stream!Goroutines -> Seq(Events)] /\ outbox["scanner"] \in Seq(Spoken)
  /\ chan \in [Stream!Goroutines -> Seq(Events)] /\ chan["scanner"] \in Seq(Spoken)
  /\ written \in Seq(Events) /\ usage \in BOOLEAN
  /\ ~Stream!Bridged => bridge = "gone" /\ outbox["bridge"] = <<>> /\ chan["bridge"] = <<>>

(* What the end and the finish, wherever they are, say of the stream.      *)
Closing ==
  /\ DoneEnds(Queues)
  /\ Anywhere(Queues, Dones) => scanner # "scanning" /\ (provider = "openai" => upstream = "finished")
  /\ Anywhere(Queues, Finishes) => upstream = "finished"
  /\ ctx = "returned" => handler = "gone"

(* The tokens of a finished answer are on their way or counted, if the     *)
(* stream tells of them and no bridge keeps them.                          *)
Tells == ~Stream!Bridged /\ Stream!UsageTold
Told ==
  Tells /\ upstream = "finished" =>
    /\ ctx = "live" => usage \/ Marked(Queues[1], Usages) \/ Marked(Queues[2], Usages)
    /\ ctx = "returned" /\ Marked(written, Dones) => usage

(* What is on its way and written begins what was said, and is all of it   *)
(* as long as the context has not ended.                                   *)
Complete ==
  ~Stream!Repeats =>
    /\ \E rest \in Seq(Letters) : said = TextOfAll(Queues) \o rest /\ (ctx = "live" => rest = <<>>)
    /\ provider = "gemini" => prevText = said
    /\ ctx = "returned" /\ Marked(written, Dones) => Text(written) = said

(* The translator has the text, and is done and stopped only after the     *)
(* finish and the end.                                                     *)
TranslatesAll ==
  /\ Translated(written).text = Text(written)
  /\ Translated(written).done => Marked(written, Finishes)
  /\ Translated(written).stopped => Marked(written, Dones) /\ Marked(written, Finishes)

StreamInv == StreamTyped /\ Closing /\ Told /\ Complete /\ TranslatesAll

(* The five places of a stream that is well typed. *)
LEMMA QueuesType ==
  ASSUME StreamTyped
  PROVE  /\ Queues \in [1..5 -> Seq(Events)]
         /\ Queues[1] = outbox["scanner"] /\ Queues[2] = chan["scanner"] /\ Queues[3] = outbox["bridge"]
         /\ Queues[4] = chan["bridge"] /\ Queues[5] = written
<1>1. PICK a, b, c, d, e : /\ a = outbox["scanner"] /\ b = chan["scanner"] /\ c = outbox["bridge"]
                           /\ d = chan["bridge"] /\ e = written
  OBVIOUS
<1>2. a \in Seq(Events) /\ b \in Seq(Events) /\ c \in Seq(Events) /\ d \in Seq(Events) /\ e \in Seq(Events)
  BY <1>1 DEF StreamTyped, Stream!Goroutines
<1>3. PICK q : q = <<a, b, c, d, e>>
  OBVIOUS
<1>4. q \in [1..5 -> Seq(Events)] /\ q[1] = a /\ q[2] = b /\ q[3] = c /\ q[4] = d /\ q[5] = e
  BY <1>2, <1>3
<1>5. Queues = q
  BY <1>1, <1>3, Zenon DEF Queues
<1> QED  BY <1>1, <1>4, <1>5

(* Text on its way is text. *)
LEMMA TextOfAllType ==
  ASSUME NEW Q \in [1..5 -> Seq(Events)]
  PROVE  TextOfAll(Q) \in Seq(Letters)
<1>1. PICK a : a = TextFrom(Q)
  OBVIOUS
<1>2. a \in [1..5 -> Seq(Letters)] /\ a[1] = TextOfAll(Q)
  BY <1>1, TextFromPlaces
<1> QED  BY <1>2

(* What the scanner puts into its empty outbox, and what it takes out.     *)
LEMMA Produced ==
  ASSUME NEW Q \in [1..5 -> Seq(Events)], NEW R \in [1..5 -> Seq(Events)],
         \A o \in 2..5 : R[o] = Q[o], Q[1] = <<>>, DoneEnds(Q), ~Anywhere(Q, Dones), DoneLast(R[1])
  PROVE  /\ DoneEnds(R) /\ TextOfAll(R) = TextOfAll(Q) \o Text(R[1])
         /\ \A m : Anywhere(R, m) => Anywhere(Q, m) \/ Marked(R[1], m)
<1>1. \A o \in 1..5 : o = 1 \/ o \in 2..5
  OBVIOUS
<1>2. DoneEnds(R)
  <2>1. ASSUME NEW o \in 1..5, o < 5 PROVE DoneLast(R[o])
    <3>1. o \in 2..5 => DoneLast(Q[o]) /\ R[o] = Q[o]
      BY <2>1 DEF DoneEnds
    <3> QED  BY <1>1, <3>1
  <2>2. ASSUME NEW o \in 1..5, Marked(R[o], Dones) PROVE o = 1
    <3>1. o \in 2..5 => Marked(Q[o], Dones)
      BY <2>2
    <3>2. o \in 2..5 => Anywhere(Q, Dones)
      BY <3>1 DEF Anywhere
    <3> QED  BY <1>1, <3>2
  <2>3. ASSUME NEW o \in 1..5, Marked(R[o], Dones), NEW l \in 1..5, l < o PROVE R[l] = <<>>
    <3>1. o = 1
      BY <2>2, <2>3
    <3> QED  BY <2>3, <3>1
  <2> QED  BY <2>1, <2>3 DEF DoneEnds
<1>3. TextOfAll(R) = TextOfAll(Q) \o Text(R[1])
  <2>1. R[2] = Q[2] /\ R[3] = Q[3] /\ R[4] = Q[4] /\ R[5] = Q[5] /\ Q[1] \in Seq(Events) /\ R[1] \in Seq(Events)
    OBVIOUS
  <2>2. PICK a : a = ((Text(Q[5]) \o Text(Q[4])) \o Text(Q[3])) \o Text(Q[2])
    OBVIOUS
  <2>3. TextOfAll(Q) = a \o Text(Q[1]) /\ TextOfAll(R) = a \o Text(R[1])
    BY <2>1, <2>2, Zenon DEF TextOfAll
  <2>4. PICK f : f = TextFrom(Q)
    OBVIOUS
  <2>5. a = f[2] /\ f[2] \in Seq(Letters)
    <3>1. f \in [1..5 -> Seq(Letters)]
      BY <2>4, TextFromPlaces
    <3>2. f[2] = a
      BY <2>2, <2>4 DEF TextFrom
    <3> QED  BY <3>1, <3>2
  <2>6. TextOfAll(Q) = a
    <3>1. Text(Q[1]) = <<>>
      BY TextLaws
    <3>2. a \o <<>> = a
      BY <2>5, ConcatEmptySeq
    <3> QED  BY <2>3, <3>1, <3>2
  <2> QED  BY <2>3, <2>6
<1>4. ASSUME NEW m, Anywhere(R, m) PROVE Anywhere(Q, m) \/ Marked(R[1], m)
  <2>1. PICK o \in 1..5 : Marked(R[o], m)
    BY <1>4 DEF Anywhere
  <2>2. o \in 2..5 => Marked(Q[o], m)
    BY <2>1
  <2> QED  BY <1>1, <2>1, <2>2 DEF Anywhere
<1> QED  BY <1>2, <1>3, <1>4

(* What becomes of the text and the marks when the scanner gives up.     *)
LEMMA Dropped ==
  ASSUME NEW Q \in [1..5 -> Seq(Events)], NEW R \in [1..5 -> Seq(Events)],
         \A o \in 2..5 : R[o] = Q[o], R[1] = <<>>, DoneEnds(Q)
  PROVE  /\ DoneEnds(R) /\ TextOfAll(Q) = TextOfAll(R) \o Text(Q[1])
         /\ \A m : Anywhere(R, m) => Anywhere(Q, m)
<1>1. \A o \in 1..5 : o = 1 \/ o \in 2..5
  OBVIOUS
<1>2. ~Marked(R[1], Dones) /\ \A m : ~Marked(R[1], m)
  BY MarkedLaws
<1>3. DoneEnds(R)
  <2>1. ASSUME NEW o \in 1..5, o < 5 PROVE DoneLast(R[o])
    <3>1. o \in 2..5 => DoneLast(Q[o]) /\ R[o] = Q[o]
      BY <2>1 DEF DoneEnds
    <3>2. DoneLast(R[1])
      BY DoneLastLaws
    <3> QED  BY <1>1, <3>1, <3>2
  <2>2. ASSUME NEW o \in 1..5, Marked(R[o], Dones), NEW l \in 1..5, l < o PROVE R[l] = <<>>
    <3>1. o \in 2..5 /\ Marked(Q[o], Dones)
      BY <1>1, <1>2, <2>2
    <3>2. Q[l] = <<>>
      BY <2>2, <3>1 DEF DoneEnds
    <3>3. l \in 2..5 => R[l] = Q[l]
      OBVIOUS
    <3> QED  BY <1>1, <3>2, <3>3
  <2> QED  BY <2>1, <2>2 DEF DoneEnds
<1>4. TextOfAll(Q) = TextOfAll(R) \o Text(Q[1])
  <2>1. R[2] = Q[2] /\ R[3] = Q[3] /\ R[4] = Q[4] /\ R[5] = Q[5] /\ Q[1] \in Seq(Events)
    OBVIOUS
  <2>2. PICK a : a = ((Text(Q[5]) \o Text(Q[4])) \o Text(Q[3])) \o Text(Q[2])
    OBVIOUS
  <2>3. TextOfAll(Q) = a \o Text(Q[1]) /\ TextOfAll(R) = a \o Text(R[1])
    BY <2>1, <2>2, Zenon DEF TextOfAll
  <2>4. PICK f : f = TextFrom(Q)
    OBVIOUS
  <2>5. a \in Seq(Letters)
    <3>1. f \in [1..5 -> Seq(Letters)]
      BY <2>4, TextFromPlaces
    <3>2. f[2] = a
      BY <2>2, <2>4 DEF TextFrom
    <3> QED  BY <3>1, <3>2
  <2>6. TextOfAll(R) = a
    <3>1. Text(R[1]) = <<>>
      BY TextLaws
    <3>2. a \o <<>> = a
      BY <2>5, ConcatEmptySeq
    <3> QED  BY <2>3, <3>1, <3>2
  <2> QED  BY <2>3, <2>6
<1>5. ASSUME NEW m, Anywhere(R, m) PROVE Anywhere(Q, m)
  <2>1. PICK o \in 1..5 : Marked(R[o], m)
    BY <1>5 DEF Anywhere
  <2>2. o \in 2..5 /\ Marked(Q[o], m)
    BY <1>1, <1>2, <2>1
  <2> QED  BY <2>2 DEF Anywhere
<1> QED  BY <1>3, <1>4, <1>5

(* The events the goroutines make.                                         *)
LEMMA ChunkType ==
  ASSUME NEW t \in Seq(Letters), NEW f \in BOOLEAN, NEW u \in BOOLEAN
  PROVE  /\ Stream!Chunk(t, f, u) \in Spoken /\ Stream!Chunk(t, f, u).text = t
         /\ Stream!Chunk(t, f, u) \notin Dones
         /\ (Stream!Chunk(t, f, u) \in Finishes <=> f) /\ (Stream!Chunk(t, f, u) \in Usages <=> u)
BY DEF Stream!Chunk, Spoken, Events, Kinds, Dones, Finishes, Usages

(* And of an event that is no chunk. *)
LEMMA EventType ==
  ASSUME NEW k \in Kinds, k # "data"
  PROVE  /\ Stream!Event(k) \in Events /\ (k \in {"done", "error"} => Stream!Event(k) \in Spoken)
         /\ Stream!Event(k).text = <<>> /\ (Stream!Event(k) \in Dones <=> k = "done")
         /\ Stream!Event(k) \notin Finishes /\ Stream!Event(k) \notin Usages
<1>1. PICK e : e = Stream!Event(k)
  OBVIOUS
<1>2. e = [kind |-> k, text |-> <<>>, finish |-> FALSE, usage |-> FALSE] /\ <<>> \in Seq(Letters)
  BY <1>1 DEF Stream!Event
<1>3. e \in Events /\ e.kind = k /\ e.text = <<>> /\ e.finish = FALSE /\ e.usage = FALSE
  BY <1>2 DEF Events
<1> QED  BY <1>1, <1>3 DEF Spoken, Dones, Finishes, Usages

(* The scanner hands over es, and what it does with it.                    *)
Scans(es) ==
  /\ scanner = "scanning" /\ outbox["scanner"] = <<>>
  /\ es \in Seq(Spoken) /\ DoneLast(es)
  /\ outbox' = [outbox EXCEPT !["scanner"] = es]
  /\ UNCHANGED <<provider, client, includeUsage, cumulative, bridge, chan, handler, written, usage, ctx>>
  /\ said' \in Seq(Letters) /\ prevText' \in Seq(Letters) /\ spoiled' \in BOOLEAN
  /\ upstream' \in {"speaking", "finished", "cut"} /\ scanner' \in {"scanning", "ending", "leaving"}
Honestly(es) ==
  /\ Marked(es, Dones) => scanner' # "scanning" /\ (provider = "openai" => upstream' = "finished")
  /\ Marked(es, Finishes) => upstream' = "finished"
  /\ upstream = "finished" => upstream' = "finished"
  /\ upstream' = "finished" => upstream = "finished" \/ (ctx = "live" /\ (Tells => Marked(es, Usages)))
Saying(es) ==
  /\ ~Stream!Repeats' => /\ ~Stream!Repeats /\ said' = said \o Text(es)
                         /\ provider = "gemini" => prevText' = said'
  /\ ctx # "live" => Text(es) = <<>>

(* The scanner touches only its own place. *)
LEMMA ScansType ==
  ASSUME StreamTyped, NEW es, Scans(es)
  PROVE  /\ StreamTyped' /\ es \in Seq(Events) /\ Queues'[1] = es
         /\ \A o \in 2..5 : Queues'[o] = Queues[o]
<1>1. Spoken \subseteq Events
  BY DEF Spoken
<1>2. es \in Seq(Spoken) /\ es \in Seq(Events)
  BY <1>1, SeqMonotonic DEF Scans
<1>3. outbox \in [Stream!Goroutines -> Seq(Events)] /\ outbox' = [outbox EXCEPT !["scanner"] = es]
  BY DEF StreamTyped, Scans
<1>4. /\ outbox' \in [Stream!Goroutines -> Seq(Events)]
      /\ outbox'["scanner"] = es /\ outbox'["bridge"] = outbox["bridge"]
  BY <1>2, <1>3 DEF Stream!Goroutines
<1>5. /\ UNCHANGED <<provider, client, includeUsage, cumulative, bridge, chan, handler, written, usage, ctx>>
      /\ said' \in Seq(Letters) /\ prevText' \in Seq(Letters) /\ spoiled' \in BOOLEAN
      /\ upstream' \in {"speaking", "finished", "cut"} /\ scanner' \in {"scanning", "ending", "leaving"}
  BY DEF Scans
<1>6. Stream!Bridged' = Stream!Bridged
  BY <1>5 DEF Stream!Bridged
<1>7. StreamTyped'
  BY <1>2, <1>4, <1>5, <1>6 DEF StreamTyped
<1>8. (Queues[2] = chan["scanner"] /\ Queues[3] = outbox["bridge"] /\ Queues[4] = chan["bridge"] /\ Queues[5] = written)
  BY QueuesType
<1>9. /\ Queues'[1] = outbox'["scanner"] /\ Queues'[2] = chan'["scanner"] /\ Queues'[3] = outbox'["bridge"]
      /\ Queues'[4] = chan'["bridge"] /\ Queues'[5] = written'
  BY DEF Queues
<1>10. \A o \in 2..5 : o = 2 \/ o = 3 \/ o = 4 \/ o = 5
  OBVIOUS
<1> QED  BY <1>2, <1>4, <1>5, <1>7, <1>8, <1>9, <1>10

(* A scanner that is honest and says what the model said keeps the invariant. *)
LEMMA ScansKeep ==
  ASSUME StreamInv, NEW es, Scans(es), Honestly(es), Saying(es)
  PROVE  StreamInv'
<1>1. /\ StreamTyped /\ Closing /\ Told /\ Complete /\ TranslatesAll
  BY DEF StreamInv
<1>2. /\ StreamTyped' /\ es \in Seq(Events) /\ Queues'[1] = es
      /\ \A o \in 2..5 : Queues'[o] = Queues[o]
  BY <1>1, ScansType
<1>3. PICK Q, R : Q = Queues /\ R = Queues'
  OBVIOUS
<1>4. Q \in [1..5 -> Seq(Events)] /\ Q[1] = <<>> /\ R \in [1..5 -> Seq(Events)]
  <2>1. Q \in [1..5 -> Seq(Events)] /\ Q[1] = <<>>
    BY <1>1, <1>3, QueuesType DEF Scans
  <2>2. Queues' \in [1..5 -> Seq(Events)]
    <3>1. PICK a, b, c, d : a = outbox'["scanner"] /\ b = chan'["scanner"] /\ c = outbox'["bridge"] /\ d = chan'["bridge"]
      OBVIOUS
    <3>2. a \in Seq(Events) /\ b \in Seq(Events) /\ c \in Seq(Events) /\ d \in Seq(Events) /\ written' \in Seq(Events)
      BY <1>2, <3>1 DEF StreamTyped, Stream!Goroutines
    <3> QED  BY <3>1, <3>2 DEF Queues
  <2> QED  BY <1>3, <2>1, <2>2
<1>5. DoneEnds(Q) /\ ~Anywhere(Q, Dones) /\ DoneLast(es)
  BY <1>1, <1>3 DEF Closing, Scans
<1>6. /\ DoneEnds(R) /\ TextOfAll(R) = TextOfAll(Q) \o Text(es)
      /\ \A m : Anywhere(R, m) => Anywhere(Q, m) \/ Marked(es, m)
  <2>1. R[1] = es /\ \A o \in 2..5 : R[o] = Q[o]
    BY <1>2, <1>3
  <2> QED  BY <1>4, <1>5, <2>1, Produced
<1>7. /\ UNCHANGED <<provider, client, includeUsage, cumulative, bridge, chan, handler, written, usage, ctx>>
      /\ scanner = "scanning"
  BY DEF Scans
<1>8. Closing'
  <2>1. DoneEnds(Queues)'
    BY <1>3, <1>6, Zenon DEF DoneEnds
  <2>2. Anywhere(R, Dones) => scanner' # "scanning" /\ (provider' = "openai" => upstream' = "finished")
    BY <1>5, <1>6, <1>7 DEF Honestly
  <2>3. Anywhere(R, Finishes) => upstream' = "finished"
    <3>1. Anywhere(Q, Finishes) => upstream = "finished"
      BY <1>1, <1>3 DEF Closing
    <3> QED  BY <1>6, <3>1 DEF Honestly
  <2>4. ctx' = "returned" => handler' = "gone"
    BY <1>1, <1>7 DEF Closing
  <2>5. R = Queues' /\ Anywhere(Queues, Dones)' = Anywhere(R, Dones) /\ Anywhere(Queues, Finishes)' = Anywhere(R, Finishes)
    BY <1>3
  <2> QED  BY <2>1, <2>2, <2>3, <2>4, <2>5 DEF Closing
<1>9. Told'
  <2>1. Tells' = Tells
    BY <1>7 DEF Tells, Stream!Bridged, Stream!UsageTold
  <2>2. ASSUME Tells, upstream' = "finished", ctx = "live"
        PROVE  usage \/ Marked(R[1], Usages) \/ Marked(R[2], Usages)
    <3>1. upstream = "finished" => usage \/ Marked(Q[1], Usages) \/ Marked(Q[2], Usages)
      BY <1>1, <1>3, <2>2 DEF Told
    <3>2. ~Marked(Q[1], Usages) /\ R[2] = Q[2] /\ R[1] = es
      BY <1>2, <1>3, <1>4, MarkedLaws
    <3> QED  BY <2>2, <3>1, <3>2 DEF Honestly
  <2>3. ASSUME Tells, upstream' = "finished", ctx = "returned", Marked(written, Dones)
        PROVE  usage
    <3>1. upstream = "finished"
      BY <2>3 DEF Honestly
    <3> QED  BY <1>1, <2>3, <3>1 DEF Told
  <2>4. Marked(R[1], Usages) = Marked(Queues[1], Usages)' /\ Marked(R[2], Usages) = Marked(Queues[2], Usages)'
    BY <1>3
  <2> QED  BY <1>3, <1>7, <2>1, <2>2, <2>3, <2>4 DEF Told
<1>10. Complete'
  <2> SUFFICES ASSUME ~Stream!Repeats'
               PROVE  /\ \E rest \in Seq(Letters) : said' = TextOfAll(R) \o rest /\ (ctx' = "live" => rest = <<>>)
                      /\ provider' = "gemini" => prevText' = said'
                      /\ ctx' = "returned" /\ Marked(written', Dones) => Text(written') = said'
    BY <1>3 DEF Complete
  <2>1. /\ ~Stream!Repeats /\ said' = said \o Text(es) /\ (provider = "gemini" => prevText' = said')
        /\ ctx # "live" => Text(es) = <<>>
    BY DEF Saying
  <2>2. PICK rest \in Seq(Letters) : said = TextOfAll(Q) \o rest /\ (ctx = "live" => rest = <<>>)
    BY <1>1, <1>3, <2>1 DEF Complete
  <2>3. PICK a, t : a = TextOfAll(Q) /\ t = Text(es)
    OBVIOUS
  <2>4. a \in Seq(Letters) /\ t \in Seq(Letters) /\ TextOfAll(R) = a \o t
    BY <1>2, <1>4, <1>6, <2>3, TextOfAllType, TextLaws
  <2>5. a \o <<>> = a /\ (a \o t) \o <<>> = a \o t /\ (a \o rest) \o <<>> = a \o rest /\ <<>> \in Seq(Letters)
    <3>1. a \o t \in Seq(Letters) /\ a \o rest \in Seq(Letters)
      BY <2>2, <2>4
    <3> QED  BY <2>4, <3>1, ConcatEmptySeq
  <2>6. \E r \in Seq(Letters) : said' = TextOfAll(R) \o r /\ (ctx' = "live" => r = <<>>)
    <3>1. CASE ctx = "live"
      <4>1. said' = TextOfAll(R) \o <<>>
        BY <2>1, <2>2, <2>3, <2>4, <2>5, <3>1
      <4> QED  BY <2>5, <4>1
    <3>2. CASE ctx # "live"
      <4>1. said' = TextOfAll(R) \o rest
        BY <2>1, <2>2, <2>3, <2>4, <2>5, <3>2
      <4> QED  BY <1>7, <2>2, <3>2, <4>1
    <3> QED  BY <3>1, <3>2
  <2>7. ctx' = "returned" /\ Marked(written', Dones) => Text(written') = said'
    <3>1. ctx = "returned" /\ Marked(written, Dones) => Text(written) = said
      BY <1>1, <2>1 DEF Complete
    <3>2. ctx = "returned" => said' = said
      BY <2>1, <2>2, <2>3, <2>5
    <3> QED  BY <1>7, <3>1, <3>2
  <2> QED  BY <1>7, <2>1, <2>6, <2>7
<1>11. TranslatesAll'
  BY <1>1, <1>7 DEF TranslatesAll
<1> QED  BY <1>2, <1>8, <1>9, <1>10, <1>11 DEF StreamInv

(* An answer that repeats keeps on doing so.                               *)
LEMMA RepeatsStay ==
  ASSUME StreamTyped, NEW l \in Letters, UNCHANGED <<provider, cumulative>>,
         said' = said \/ said' = Append(said, l), ~Stream!Repeats'
  PROVE  ~Stream!Repeats
<1> SUFFICES ASSUME Stream!Repeats PROVE Stream!Repeats'
  OBVIOUS
<1>1. said \in Seq(Letters) /\ Len(said) > 1 /\ said[1] = said[2]
  BY DEF StreamTyped, Stream!Repeats
<1>2. Len(said') > 1 /\ said'[1] = said[1] /\ said'[2] = said[2]
  BY <1>1
<1> QED  BY <1>1, <1>2 DEF Stream!Repeats

(* Events without text say nothing. *)
LEMMA SilentlySaying ==
  ASSUME StreamTyped, Complete, NEW es \in Seq(Events), Text(es) = <<>>,
         UNCHANGED <<provider, cumulative, said, prevText>>
  PROVE  Saying(es)
<1>1. Stream!Repeats' = Stream!Repeats
  BY DEF Stream!Repeats
<1>2. said \o <<>> = said
  BY ConcatEmptySeq DEF StreamTyped
<1>3. ~Stream!Repeats /\ provider = "gemini" => prevText = said
  BY DEF Complete
<1> QED  BY <1>1, <1>2, <1>3 DEF Saying

(* The rest of a list, once it begins with all but the last.               *)
LEMMA LastOnly ==
  ASSUME NEW full \in Seq(Letters), NEW l \in Letters, NEW n \in Nat, Len(full) = n + 1, full[n + 1] = l
  PROVE  SubSeq(full, n + 1, Len(full)) = <<l>>
<1>1. \A i \in (n + 1)..(n + 1) : full[i] \in Letters
  BY Len(full) = n + 1
<1>2. PICK t : t = SubSeq(full, n + 1, n + 1)
  OBVIOUS
<1>3. t \in Seq(Letters) /\ Len(t) = 1 /\ t[1] = l
  <2>1. n + 1 \in Int /\ (n + 1) - (n + 1) + 1 = 1 /\ n + 1 + 1 - 1 = n + 1
    OBVIOUS
  <2> QED  BY <1>1, <1>2, <2>1, SubSeqProperties
<1>4. <<l>> \in Seq(Letters) /\ Len(<<l>>) = 1 /\ <<l>>[1] = l
  OBVIOUS
<1>5. t = <<l>>
  BY <1>3, <1>4, SeqEqual
<1> QED  BY <1>2, <1>5

(* What the adapter makes of a letter is that letter, unless the answer    *)
(* repeats; and Gemini's remembers all that was said.                      *)
LEMMA LetterSaid ==
  ASSUME StreamTyped, Complete, NEW l \in Letters, UNCHANGED <<provider, cumulative>>,
         said' = Append(said, l), ~Stream!Repeats',
         prevText' = IF provider = "gemini"
                     THEN Stream!streamingAdvancePrev(prevText, IF cumulative THEN Append(said, l) ELSE <<l>>,
                                                      Stream!TextOf(l))
                     ELSE <<>>
  PROVE  Stream!TextOf(l) = <<l>> /\ (provider = "gemini" => prevText' = said')
<1>1. said \in Seq(Letters) /\ prevText \in Seq(Letters) /\ cumulative \in BOOLEAN
  BY DEF StreamTyped
<1>2. CASE provider # "gemini"
  BY <1>2 DEF Stream!TextOf
<1>3. CASE provider = "gemini"
  <2>1. prevText = said
    BY <1>3, RepeatsStay DEF Complete
  <2>2. CASE cumulative
    <3>1. PICK full : full = Append(said, l)
      OBVIOUS
    <3>2. Len(said) <= Len(full) /\ SubSeq(said, 1, Len(said)) = SubSeq(full, 1, Len(said)) /\ Len(full) = Len(said) + 1
      BY <1>1, <3>1
    <3>3. Stream!IsPrefix(said, full)
      BY <3>2 DEF Stream!IsPrefix
    <3>4. SubSeq(full, Len(said) + 1, Len(full)) = <<l>>
      <4>1. full \in Seq(Letters) /\ Len(said) \in Nat /\ full[Len(said) + 1] = l
        BY <1>1, <3>1
      <4> QED  BY <3>2, <4>1, LastOnly
    <3>5. Stream!TextOf(l) = <<l>>
      BY <1>3, <2>1, <2>2, <3>1, <3>3, <3>4 DEF Stream!TextOf, Stream!streamingTextDelta
    <3>6. prevText' = full
      BY <1>3, <2>1, <2>2, <3>1, <3>3 DEF Stream!streamingAdvancePrev
    <3> QED  BY <3>1, <3>5, <3>6
  <2>3. CASE ~cumulative
    <3>1. PICK full : full = <<l>>
      OBVIOUS
    <3>2. Len(full) = 1 /\ full[1] = l /\ full \in Seq(Letters)
      BY <3>1
    <3>3. CASE said = <<>>
      <4>1. Stream!IsPrefix(said, full)
        BY <3>2, <3>3 DEF Stream!IsPrefix
      <4>2. SubSeq(full, Len(said) + 1, Len(full)) = <<l>>
        <5>1. Len(said) = 0 /\ 0 \in Nat /\ 0 + 1 = 1
          BY <3>3
        <5> QED  BY <3>2, <5>1, LastOnly
      <4>3. Stream!TextOf(l) = <<l>>
        BY <1>3, <2>1, <2>3, <3>1, <4>1, <4>2 DEF Stream!TextOf, Stream!streamingTextDelta
      <4>4. prevText' = full
        BY <1>3, <2>1, <2>3, <3>1, <4>1 DEF Stream!streamingAdvancePrev
      <4>5. said' = <<l>>
        BY <3>3
      <4> QED  BY <3>1, <4>3, <4>4, <4>5
    <3>4. CASE said # <<>>
      <4>1. ~Stream!IsPrefix(said, full)
        <5> SUFFICES ASSUME Stream!IsPrefix(said, full) PROVE FALSE
          OBVIOUS
        <5>1. Len(said) = 1 /\ SubSeq(said, 1, 1) = SubSeq(full, 1, 1)
          BY <1>1, <3>2, <3>4 DEF Stream!IsPrefix
        <5>2. said[1] = l
          <6>1. SubSeq(said, 1, 1)[1] = said[1] /\ SubSeq(full, 1, 1)[1] = full[1]
            BY <1>1, <3>2, <5>1
          <6> QED  BY <3>2, <5>1, <6>1
        <5>3. Len(said') = 2 /\ said'[1] = l /\ said'[2] = l
          <6>1. PICK s : s = Append(said, l)
            OBVIOUS
          <6>2. Len(s) = Len(said) + 1 /\ (\A i \in 1..Len(said) : s[i] = said[i]) /\ s[Len(said) + 1] = l
            BY <1>1, <6>1, AppendProperties
          <6>3. Len(s) = 2 /\ s[1] = l /\ s[2] = l
            BY <5>1, <5>2, <6>2
          <6> QED  BY <6>1, <6>3
        <5> QED  BY <1>3, <2>3, <5>3 DEF Stream!Repeats
      <4>2. Stream!TextOf(l) = <<l>>
        BY <1>3, <2>1, <2>3, <3>1, <4>1 DEF Stream!TextOf, Stream!streamingTextDelta
      <4>3. prevText' = said \o <<l>>
        BY <1>3, <2>1, <2>3, <3>1, <4>1, <4>2 DEF Stream!streamingAdvancePrev
      <4>4. said' = said \o <<l>>
        BY <1>1
      <4> QED  BY <4>2, <4>3, <4>4
    <3> QED  BY <3>3, <3>4
  <2> QED  BY <1>1, <2>2, <2>3
<1> QED  BY <1>2, <1>3

(* What the adapters compute is text. *)
LEMMA TextTypes ==
  ASSUME StreamTyped, NEW l \in Letters
  PROVE  /\ Stream!TextOf(l) \in Seq(Letters)
         /\ \A full \in Seq(Letters) :
              Stream!streamingAdvancePrev(prevText, full, Stream!TextOf(l)) \in Seq(Letters)
<1>1. said \in Seq(Letters) /\ prevText \in Seq(Letters) /\ Append(said, l) \in Seq(Letters) /\ <<l>> \in Seq(Letters)
  BY DEF StreamTyped
<1>2. \A prev, full \in Seq(Letters) : Stream!streamingTextDelta(prev, full) \in Seq(Letters)
  <2>1. ASSUME NEW prev \in Seq(Letters), NEW full \in Seq(Letters)
        PROVE  SubSeq(full, Len(prev) + 1, Len(full)) \in Seq(Letters)
    OBVIOUS
  <2> QED  BY <2>1 DEF Stream!streamingTextDelta
<1>3. Stream!TextOf(l) \in Seq(Letters)
  BY <1>1, <1>2 DEF Stream!TextOf
<1> QED  BY <1>1, <1>3 DEF Stream!streamingAdvancePrev

(* The scanner reads a letter. *)
LEMMA ScanTextSteps == ASSUME StreamInv, Stream!ScanText PROVE StreamInv'
<1>1. /\ StreamTyped /\ Complete
  BY DEF StreamInv
<1>2. PICK l \in Letters :
        LET text == Stream!TextOf(l)
            full == IF cumulative THEN Append(said, l) ELSE <<l>>
        IN  /\ said' = Append(said, l)
            /\ prevText' = IF provider = "gemini" THEN Stream!streamingAdvancePrev(prevText, full, text) ELSE <<>>
            /\ Stream!HandOver(IF text = <<>> THEN <<>> ELSE <<Stream!Chunk(text, FALSE, FALSE)>>, scanner)
  BY DEF Stream!ScanText
<1>3. PICK text, es : text = Stream!TextOf(l) /\ es = IF text = <<>> THEN <<>> ELSE <<Stream!Chunk(text, FALSE, FALSE)>>
  OBVIOUS
<1>4. /\ scanner = "scanning" /\ outbox["scanner"] = <<>> /\ ctx = "live" /\ upstream = "speaking"
      /\ UNCHANGED <<upstream, spoiled, provider, client, includeUsage, cumulative, bridge, chan, handler, written, usage, ctx>>
  BY DEF Stream!ScanText, Stream!Scanning, Stream!Idle
<1>5. outbox' = [outbox EXCEPT !["scanner"] = es] /\ scanner' = scanner /\ said' = Append(said, l)
  BY <1>2, <1>3 DEF Stream!HandOver
<1>6. text \in Seq(Letters) /\ prevText' \in Seq(Letters)
  <2>1. PICK full : full = IF cumulative THEN Append(said, l) ELSE <<l>>
    OBVIOUS
  <2>2. full \in Seq(Letters)
    BY <1>1, <2>1 DEF StreamTyped
  <2>3. /\ text \in Seq(Letters)
        /\ \A f \in Seq(Letters) : Stream!streamingAdvancePrev(prevText, f, text) \in Seq(Letters)
    BY <1>1, <1>3, TextTypes
  <2>4. prevText' = IF provider = "gemini" THEN Stream!streamingAdvancePrev(prevText, full, text) ELSE <<>>
    BY <1>2, <1>3, <2>1
  <2>5. <<>> \in Seq(Letters)
    OBVIOUS
  <2> QED  BY <2>2, <2>3, <2>4, <2>5
<1>7. /\ es \in Seq(Spoken) /\ es \in Seq(Events) /\ Text(es) = text /\ DoneLast(es)
      /\ ~Marked(es, Dones) /\ ~Marked(es, Finishes)
  <2>1. CASE text = <<>>
    <3>1. es = <<>>
      BY <1>3, <2>1
    <3> QED  BY <2>1, <3>1, TextLaws, MarkedLaws, DoneLastLaws
  <2>2. CASE text # <<>>
    <3>1. PICK e : e = Stream!Chunk(text, FALSE, FALSE)
      OBVIOUS
    <3>2. e \in Spoken /\ e.text = text /\ e \notin Dones /\ e \notin Finishes
      BY <1>6, <3>1, ChunkType
    <3>3. e \in Events /\ es = <<e>>
      BY <1>3, <2>2, <3>1, <3>2 DEF Spoken
    <3>4. Text(<<e>>) = text /\ <<e>> \in Seq(Events) /\ <<e>> \in Seq(Spoken)
      BY <3>2, <3>3, ShortTexts
    <3>5. DoneLast(<<e>>)
      BY <3>3, DoneLastLaws
    <3>6. ~Marked(<<e>>, Dones) /\ ~Marked(<<e>>, Finishes)
      BY <3>2, <3>3, MarkedLaws
    <3> QED  BY <3>3, <3>4, <3>5, <3>6
  <2> QED  BY <2>1, <2>2
<1>8. Scans(es)
  <2>1. said' \in Seq(Letters) /\ spoiled \in BOOLEAN
    BY <1>1, <1>5 DEF StreamTyped
  <2> QED  BY <1>4, <1>5, <1>6, <1>7, <2>1 DEF Scans
<1>9. Honestly(es)
  BY <1>4, <1>7 DEF Honestly
<1>10. Saying(es)
  <2>1. ASSUME ~Stream!Repeats' PROVE text = <<l>> /\ (provider = "gemini" => prevText' = said') /\ ~Stream!Repeats
    <3>1. prevText' = IF provider = "gemini"
                      THEN Stream!streamingAdvancePrev(prevText, IF cumulative THEN Append(said, l) ELSE <<l>>,
                                                       Stream!TextOf(l))
                      ELSE <<>>
      BY <1>2
    <3>2. UNCHANGED <<provider, cumulative>>
      BY <1>4
    <3> QED  BY <1>1, <1>3, <1>5, <2>1, <3>1, <3>2, LetterSaid, RepeatsStay
  <2>2. said' = said \o <<l>>
    BY <1>1, <1>5 DEF StreamTyped
  <2> QED  BY <1>4, <1>7, <2>1, <2>2 DEF Saying
<1> QED  BY <1>8, <1>9, <1>10, ScansKeep

(* The scanner reads the finish. *)
LEMMA ScanFinishSteps == ASSUME StreamInv, Stream!ScanFinish PROVE StreamInv'
<1>1. /\ StreamTyped /\ Complete /\ provider \in {"openai", "anthropic", "gemini"}
  BY DEF StreamInv, StreamTyped
<1>2. /\ scanner = "scanning" /\ outbox["scanner"] = <<>> /\ ctx = "live" /\ upstream = "speaking" /\ upstream' = "finished"
      /\ UNCHANGED <<said, spoiled, prevText, provider, client, includeUsage, cumulative, bridge, chan, handler, written, usage, ctx>>
  BY DEF Stream!ScanFinish, Stream!Scanning, Stream!Idle
<1>3. PICK es : es = Stream!FinishChunks
  OBVIOUS
<1>4. outbox' = [outbox EXCEPT !["scanner"] = es] /\ scanner' = scanner
  BY <1>3 DEF Stream!HandOver, Stream!ScanFinish
<1>5. PICK f, u, b : f = Stream!Chunk(<<>>, TRUE, FALSE) /\ u = Stream!Chunk(<<>>, FALSE, TRUE) /\ b = Stream!Chunk(<<>>, TRUE, TRUE)
  OBVIOUS
<1>6. es = <<f, u>> \/ es = <<u, f>> \/ es = <<b>> \/ (es = <<f>> /\ ~Tells)
  BY <1>1, <1>3, <1>5 DEF Stream!FinishChunks, Tells
<1>7. /\ f \in Spoken /\ u \in Spoken /\ b \in Spoken /\ f.text = <<>> /\ u.text = <<>> /\ b.text = <<>>
      /\ f \notin Dones /\ u \notin Dones /\ b \notin Dones /\ u \in Usages /\ b \in Usages
  <2>1. <<>> \in Seq(Letters)
    OBVIOUS
  <2> QED  BY <1>5, <2>1, ChunkType
<1>8. f \in Events /\ u \in Events /\ b \in Events
  BY <1>7 DEF Spoken
<1>9. /\ es \in Seq(Spoken) /\ es \in Seq(Events) /\ Text(es) = <<>> /\ DoneLast(es)
      /\ ~Marked(es, Dones) /\ (Tells => Marked(es, Usages))
  <2>0. <<>> \o <<>> = <<>>
    OBVIOUS
  <2>1. ASSUME NEW x \in Spoken, NEW y \in Spoken, x.text = <<>>, y.text = <<>>, x \notin Dones, y \notin Dones,
               x \in Usages \/ y \in Usages, es = <<x, y>>
        PROVE  /\ es \in Seq(Spoken) /\ es \in Seq(Events) /\ Text(es) = <<>> /\ DoneLast(es)
               /\ ~Marked(es, Dones) /\ Marked(es, Usages)
    <3>1. x \in Events /\ y \in Events
      BY DEF Spoken
    <3>2. <<x, y>> \in Seq(Spoken)
      OBVIOUS
    <3>3. <<x, y>> \in Seq(Events) /\ Text(<<x, y>>) = <<>>
      BY <2>0, <2>1, <3>1, ShortTexts
    <3>4. DoneLast(<<x, y>>) /\ ~Marked(<<x, y>>, Dones) /\ Marked(<<x, y>>, Usages)
      BY <2>1, <3>1, DoneLastLaws, MarkedLaws
    <3> QED  BY <2>1, <3>2, <3>3, <3>4
  <2>5. ASSUME NEW x \in Spoken, x.text = <<>>, x \notin Dones, es = <<x>>
        PROVE  /\ es \in Seq(Spoken) /\ es \in Seq(Events) /\ Text(es) = <<>> /\ DoneLast(es)
               /\ ~Marked(es, Dones) /\ (x \in Usages => Marked(es, Usages))
    <3>1. x \in Events /\ <<x>> \in Seq(Spoken)
      BY DEF Spoken
    <3>2. <<x>> \in Seq(Events) /\ Text(<<x>>) = <<>>
      BY <2>5, <3>1, ShortTexts
    <3>3. DoneLast(<<x>>) /\ ~Marked(<<x>>, Dones) /\ (x \in Usages => Marked(<<x>>, Usages))
      BY <2>5, <3>1, DoneLastLaws, MarkedLaws
    <3> QED  BY <2>5, <3>1, <3>2, <3>3
  <2>2. CASE es = <<b>>
    BY <1>7, <2>2, <2>5
  <2>6. CASE es = <<f>> /\ ~Tells
    BY <1>7, <2>5, <2>6
  <2>3. CASE es = <<f, u>>
    BY <1>7, <2>1, <2>3
  <2>4. CASE es = <<u, f>>
    BY <1>7, <2>1, <2>4
  <2> QED  BY <1>6, <2>2, <2>3, <2>4, <2>6
<1>10. Scans(es)
  <2>1. said \in Seq(Letters) /\ prevText \in Seq(Letters) /\ spoiled \in BOOLEAN
    BY <1>1 DEF StreamTyped
  <2> QED  BY <1>2, <1>4, <1>9, <2>1 DEF Scans
<1>11. Honestly(es)
  BY <1>2, <1>9 DEF Honestly
<1>12. Saying(es)
  BY <1>1, <1>2, <1>9, SilentlySaying
<1> QED  BY <1>10, <1>11, <1>12, ScansKeep

(* A last event, or none.                                                  *)
LEMMA LastEvents ==
  ASSUME NEW es, NEW k \in {"done", "error"}, es = <<>> \/ es = <<Stream!Event(k)>>
  PROVE  /\ es \in Seq(Spoken) /\ es \in Seq(Events) /\ Text(es) = <<>> /\ DoneLast(es)
         /\ Marked(es, Dones) => k = "done" /\ es = <<Stream!Event(k)>>
         /\ ~Marked(es, Finishes) /\ ~Marked(es, Usages)
<1>1. CASE es = <<>>
  BY <1>1, TextLaws, MarkedLaws, DoneLastLaws
<1>2. CASE es = <<Stream!Event(k)>>
  <2>1. PICK e : e = Stream!Event(k)
    OBVIOUS
  <2>2. k \in Kinds /\ k # "data"
    BY DEF Kinds
  <2>3. e \in Events /\ e \in Spoken /\ e.text = <<>> /\ (e \in Dones <=> k = "done") /\ e \notin Finishes /\ e \notin Usages
    BY <2>1, <2>2, EventType
  <2>4. <<e>> \in Seq(Spoken)
    BY <2>3
  <2>5. <<e>> \in Seq(Events) /\ Text(<<e>>) = <<>>
    BY <2>3, ShortTexts
  <2>6. DoneLast(<<e>>) /\ (Marked(<<e>>, Dones) => k = "done") /\ ~Marked(<<e>>, Finishes) /\ ~Marked(<<e>>, Usages)
    BY <2>3, DoneLastLaws, MarkedLaws
  <2> QED  BY <1>2, <2>1, <2>4, <2>5, <2>6
<1> QED  BY <1>1, <1>2

(* The scanner hands over an end, an error or nothing. *)
LEMMA ScanLastSteps ==
  ASSUME StreamInv, scanner = "scanning", outbox["scanner"] = <<>>,
         NEW es, NEW k \in {"done", "error"}, es = <<>> \/ es = <<Stream!Event(k)>>,
         outbox' = [outbox EXCEPT !["scanner"] = es],
         scanner' \in {"scanning", "ending", "leaving"}, es = <<Stream!Event("done")>> => scanner' # "scanning",
         upstream' \in {"speaking", "finished", "cut"}, upstream' = "finished" <=> upstream = "finished",
         es = <<Stream!Event("done")>> /\ provider = "openai" => upstream = "finished",
         spoiled' \in BOOLEAN,
         UNCHANGED <<said, prevText, provider, client, includeUsage, cumulative, bridge, chan, handler, written, usage, ctx>>
  PROVE  StreamInv'
<1>1. StreamTyped /\ Complete
  BY DEF StreamInv
<1>2. /\ es \in Seq(Spoken) /\ es \in Seq(Events) /\ Text(es) = <<>> /\ DoneLast(es)
      /\ Marked(es, Dones) => k = "done" /\ es = <<Stream!Event(k)>>
      /\ ~Marked(es, Finishes) /\ ~Marked(es, Usages)
  BY LastEvents
<1>3. Scans(es)
  <2>1. said \in Seq(Letters) /\ prevText \in Seq(Letters)
    BY <1>1 DEF StreamTyped
  <2> QED  BY <1>2, <2>1 DEF Scans
<1>4. Honestly(es)
  BY <1>2 DEF Honestly
<1>5. Saying(es)
  BY <1>1, <1>2, SilentlySaying
<1> QED  BY <1>3, <1>4, <1>5, ScansKeep

(* The scanner meets garbage, the end of the body or a context that ended. *)
LEMMA ScanEndSteps ==
  ASSUME StreamInv, Stream!ScanGarbage \/ Stream!ScanEnd \/ Stream!ScanCancelled \/ Stream!ScanRest
  PROVE  StreamInv'
<1>1. spoiled \in BOOLEAN /\ upstream \in {"speaking", "finished", "cut"}
  BY DEF StreamInv, StreamTyped
<1>2. CASE Stream!ScanGarbage
  <2>1. PICK es : es = <<Stream!Event("error")>>
    OBVIOUS
  <2>2. /\ scanner = "scanning" /\ outbox["scanner"] = <<>> /\ outbox' = [outbox EXCEPT !["scanner"] = es]
        /\ scanner' \in {"scanning", "leaving"} /\ upstream' = upstream /\ spoiled' \in BOOLEAN
        /\ UNCHANGED <<said, prevText, provider, client, includeUsage, cumulative, bridge, chan, handler, written, usage, ctx>>
    BY <1>2, <2>1 DEF Stream!ScanGarbage, Stream!Scanning, Stream!Idle, Stream!HandOver
  <2>3. es # <<Stream!Event("done")>>
    BY <2>1 DEF Stream!Event
  <2> QED  BY <1>1, <2>1, <2>2, <2>3, ScanLastSteps
<1>3. CASE Stream!ScanEnd
  <2>1. /\ scanner = "scanning" /\ outbox["scanner"] = <<>> /\ scanner' = "ending"
        /\ upstream' = IF upstream = "speaking" THEN "cut" ELSE upstream
        /\ UNCHANGED <<said, spoiled, prevText, provider, client, includeUsage, cumulative, bridge, chan, handler, written, usage, ctx>>
    BY <1>3 DEF Stream!ScanEnd, Stream!Scanning, Stream!Idle, Stream!HandOver
  <2>2. PICK es, k : /\ k \in {"done", "error"} /\ (es = <<>> \/ es = <<Stream!Event(k)>>)
                     /\ outbox' = [outbox EXCEPT !["scanner"] = es]
                     /\ es = <<Stream!Event("done")>> /\ provider = "openai" => upstream = "finished"
    <3>1. PICK x, d : x = <<Stream!Event("error")>> /\ d = <<Stream!Event("done")>>
      OBVIOUS
    <3>2. x # d /\ <<>> # d
      BY <3>1 DEF Stream!Event
    <3>3. \/ outbox' = [outbox EXCEPT !["scanner"] = x]
          \/ outbox' = [outbox EXCEPT !["scanner"] = <<>>]
          \/ (provider = "openai" => upstream = "finished") /\ outbox' = [outbox EXCEPT !["scanner"] = d]
      BY <1>3, <3>1 DEF Stream!ScanEnd, Stream!HandOver
    <3>4. "done" \in {"done", "error"} /\ "error" \in {"done", "error"}
      OBVIOUS
    <3> QED  BY <3>1, <3>2, <3>3, <3>4, Zenon
  <2>3. upstream' \in {"speaking", "finished", "cut"} /\ (upstream' = "finished" <=> upstream = "finished") /\ spoiled' \in BOOLEAN
    BY <1>1, <2>1
  <2> QED  BY <2>1, <2>2, <2>3, ScanLastSteps
<1>4. CASE Stream!ScanCancelled
  <2>1. PICK es : es = <<Stream!Event("error")>>
    OBVIOUS
  <2>2. /\ scanner = "scanning" /\ outbox["scanner"] = <<>> /\ outbox' = [outbox EXCEPT !["scanner"] = es]
        /\ scanner' = "leaving" /\ upstream' = upstream /\ spoiled' = spoiled
        /\ UNCHANGED <<said, prevText, provider, client, includeUsage, cumulative, bridge, chan, handler, written, usage, ctx>>
    BY <1>4, <2>1 DEF Stream!ScanCancelled, Stream!Scanning, Stream!Idle, Stream!HandOver
  <2>3. es # <<Stream!Event("done")>>
    BY <2>1 DEF Stream!Event
  <2> QED  BY <1>1, <2>1, <2>2, <2>3, ScanLastSteps
<1>5. CASE Stream!ScanRest
  <2>1. PICK k \in {"error", "done"} :
          Stream!HandOver(IF provider = "openai" /\ k = "done" THEN <<>> ELSE <<Stream!Event(k)>>,
                          IF provider = "anthropic" THEN "ending" ELSE "leaving")
    BY <1>5 DEF Stream!ScanRest
  <2>2. PICK es : es = IF provider = "openai" /\ k = "done" THEN <<>> ELSE <<Stream!Event(k)>>
    OBVIOUS
  <2>3. /\ scanner = "scanning" /\ outbox["scanner"] = <<>> /\ outbox' = [outbox EXCEPT !["scanner"] = es]
        /\ scanner' \in {"ending", "leaving"} /\ upstream' = upstream /\ spoiled' = spoiled
        /\ UNCHANGED <<said, prevText, provider, client, includeUsage, cumulative, bridge, chan, handler, written, usage, ctx>>
    BY <1>5, <2>1, <2>2 DEF Stream!ScanRest, Stream!Scanning, Stream!Idle, Stream!HandOver
  <2>4. es = <<Stream!Event("done")>> => provider # "openai"
    <3>1. <<>> # <<Stream!Event("done")>> /\ <<Stream!Event("error")>> # <<Stream!Event("done")>>
      BY DEF Stream!Event
    <3> QED  BY <2>2, <3>1
  <2> QED  BY <1>1, <2>2, <2>3, <2>4, ScanLastSteps
<1> QED  BY <1>2, <1>3, <1>4, <1>5

(* And after a step. *)
LEMMA QueuesTypeNext ==
  ASSUME StreamTyped'
  PROVE  /\ Queues' \in [1..5 -> Seq(Events)]
         /\ Queues'[1] = outbox'["scanner"] /\ Queues'[2] = chan'["scanner"] /\ Queues'[3] = outbox'["bridge"]
         /\ Queues'[4] = chan'["bridge"] /\ Queues'[5] = written'
<1>1. PICK a, b, c, d, e : /\ a = outbox'["scanner"] /\ b = chan'["scanner"] /\ c = outbox'["bridge"]
                           /\ d = chan'["bridge"] /\ e = written'
  OBVIOUS
<1>2. a \in Seq(Events) /\ b \in Seq(Events) /\ c \in Seq(Events) /\ d \in Seq(Events) /\ e \in Seq(Events)
  BY <1>1 DEF StreamTyped, Stream!Goroutines
<1>3. PICK q : q = <<a, b, c, d, e>>
  OBVIOUS
<1>4. q \in [1..5 -> Seq(Events)] /\ q[1] = a /\ q[2] = b /\ q[3] = c /\ q[4] = d /\ q[5] = e
  BY <1>2, <1>3
<1>5. Queues' = q
  BY <1>1, <1>3, Zenon DEF Queues
<1> QED  BY <1>1, <1>4, <1>5

(* An event that goes on, whatever is made of it.                          *)
LEMMA GoesOn ==
  ASSUME StreamInv, StreamTyped', NEW p \in 1..5, NEW q \in 1..5, p < q, NEW es,
         Moves(Queues, Queues', p, q, es),
         UNCHANGED <<provider, client, includeUsage, cumulative, said, upstream, prevText, ctx, scanner>>,
         ctx = "returned" => written' = written /\ handler' = "gone",
         Told', TranslatesAll'
  PROVE  StreamInv'
<1>1. StreamTyped /\ Closing /\ Complete
  BY DEF StreamInv
<1>2. PICK Q, R : Q = Queues /\ R = Queues'
  OBVIOUS
<1>3. Q \in [1..5 -> Seq(Events)] /\ R \in [1..5 -> Seq(Events)] /\ Moves(Q, R, p, q, es) /\ DoneEnds(Q)
  BY <1>1, <1>2, QueuesType, QueuesTypeNext DEF Closing
<1>4. /\ DoneEnds(R) /\ (Anywhere(R, Dones) => Anywhere(Q, Dones)) /\ (Anywhere(R, Finishes) => Anywhere(Q, Finishes))
      /\ TextOfAll(R) = TextOfAll(Q)
  BY <1>3, MovesKeepMarks, MovesKeepText
<1>5. Closing'
  <2>1. DoneEnds(Queues)'
    BY <1>2, <1>4, Zenon DEF DoneEnds
  <2>2. /\ Anywhere(Q, Dones) => scanner # "scanning" /\ (provider = "openai" => upstream = "finished")
        /\ Anywhere(Q, Finishes) => upstream = "finished"
    BY <1>1, <1>2 DEF Closing
  <2>3. Anywhere(Queues, Dones)' = Anywhere(R, Dones) /\ Anywhere(Queues, Finishes)' = Anywhere(R, Finishes)
    BY <1>2
  <2> QED  BY <1>4, <2>1, <2>2, <2>3 DEF Closing
<1>6. Complete'
  <2> SUFFICES ASSUME ~Stream!Repeats'
               PROVE  /\ \E rest \in Seq(Letters) : said' = TextOfAll(R) \o rest /\ (ctx' = "live" => rest = <<>>)
                      /\ provider' = "gemini" => prevText' = said'
                      /\ ctx' = "returned" /\ Marked(written', Dones) => Text(written') = said'
    BY <1>2 DEF Complete
  <2>1. ~Stream!Repeats
    BY DEF Stream!Repeats
  <2>2. PICK rest \in Seq(Letters) : said = TextOfAll(Q) \o rest /\ (ctx = "live" => rest = <<>>)
    BY <1>1, <1>2, <2>1 DEF Complete
  <2>3. said' = TextOfAll(R) \o rest /\ (ctx' = "live" => rest = <<>>)
    BY <1>4, <2>2
  <2>4. /\ provider = "gemini" => prevText = said
        /\ ctx = "returned" /\ Marked(written, Dones) => Text(written) = said
    BY <1>1, <2>1 DEF Complete
  <2> QED  BY <2>2, <2>3, <2>4
<1> QED  BY <1>5, <1>6 DEF StreamInv

(* Steps that leave every event where it is.  When the handler returns      *)
(* having written the end, nothing is left behind it.                       *)
LEMMA NothingMoves ==
  ASSUME StreamInv, StreamTyped', UNCHANGED <<outbox, chan, written>>,
         UNCHANGED <<provider, client, includeUsage, cumulative, said, upstream, prevText, usage>>,
         scanner' = scanner \/ scanner' # "scanning",
         ctx' = ctx \/ (ctx = "live" /\ ctx' # "live"),
         ctx' = "returned" => handler' = "gone"
  PROVE  StreamInv'
<1>1. StreamTyped /\ Closing /\ Told /\ Complete /\ TranslatesAll
  BY DEF StreamInv
<1>2. PICK Q : Q = Queues
  OBVIOUS
<1>3. Q = Queues' /\ Q \in [1..5 -> Seq(Events)] /\ Q[5] = written
  BY <1>1, <1>2, QueuesType DEF Queues
<1>4. Anywhere(Queues, Dones)' = Anywhere(Q, Dones) /\ Anywhere(Queues, Finishes)' = Anywhere(Q, Finishes)
  BY <1>3
<1>5. Closing'
  <2>1. DoneEnds(Queues)'
    BY <1>1, <1>2, <1>3, Zenon DEF DoneEnds, Closing
  <2>2. /\ Anywhere(Q, Dones) => scanner # "scanning" /\ (provider = "openai" => upstream = "finished")
        /\ Anywhere(Q, Finishes) => upstream = "finished"
    BY <1>1, <1>2 DEF Closing
  <2> QED  BY <1>4, <2>1, <2>2 DEF Closing
<1>6. Marked(written, Dones) => Q[1] = <<>> /\ Q[2] = <<>> /\ Q[3] = <<>> /\ Q[4] = <<>>
  BY <1>1, <1>2, <1>3 DEF Closing, DoneEnds
<1>7. Told'
  <2>1. Tells' = Tells
    BY DEF Tells, Stream!Bridged, Stream!UsageTold
  <2>2. ASSUME Tells, upstream = "finished"
        PROVE  /\ ctx' = "live" => usage \/ Marked(Q[1], Usages) \/ Marked(Q[2], Usages)
               /\ ctx' = "returned" /\ Marked(written, Dones) => usage
    <3>1. /\ ctx = "live" => usage \/ Marked(Q[1], Usages) \/ Marked(Q[2], Usages)
          /\ ctx = "returned" /\ Marked(written, Dones) => usage
      BY <1>1, <1>2, <2>2 DEF Told
    <3>2. Marked(written, Dones) => ~Marked(Q[1], Usages) /\ ~Marked(Q[2], Usages)
      BY <1>6, MarkedLaws
    <3> QED  BY <3>1, <3>2
  <2>3. Marked(Q[1], Usages) = Marked(Queues[1], Usages)' /\ Marked(Q[2], Usages) = Marked(Queues[2], Usages)'
    BY <1>3
  <2> QED  BY <2>1, <2>2, <2>3 DEF Told
<1>8. Complete'
  <2> SUFFICES ASSUME ~Stream!Repeats'
               PROVE  /\ \E rest \in Seq(Letters) : said' = TextOfAll(Q) \o rest /\ (ctx' = "live" => rest = <<>>)
                      /\ provider' = "gemini" => prevText' = said'
                      /\ ctx' = "returned" /\ Marked(written', Dones) => Text(written') = said'
    BY <1>3 DEF Complete
  <2>1. ~Stream!Repeats
    BY DEF Stream!Repeats
  <2>2. PICK rest \in Seq(Letters) : said = TextOfAll(Q) \o rest /\ (ctx = "live" => rest = <<>>)
    BY <1>1, <1>2, <2>1 DEF Complete
  <2>3. /\ provider = "gemini" => prevText = said
        /\ ctx = "returned" /\ Marked(written, Dones) => Text(written) = said
    BY <1>1, <2>1 DEF Complete
  <2>4. ASSUME ctx = "live", Marked(written, Dones) PROVE Text(written) = said
    <3>1. PICK t : t = Text(written)
      OBVIOUS
    <3>2. t \in Seq(Letters)
      BY <1>1, <3>1, TextLaws DEF StreamTyped
    <3>3. t \o <<>> = t
      BY <3>2, ConcatEmptySeq
    <3>4. TextOfAll(Q) = (((t \o <<>>) \o <<>>) \o <<>>) \o <<>>
      BY <1>3, <1>6, <2>4, <3>1, TextLaws, Zenon DEF TextOfAll
    <3> QED  BY <2>2, <2>4, <3>1, <3>3, <3>4
  <2>5. said' = TextOfAll(Q) \o rest /\ (ctx' = "live" => rest = <<>>)
    BY <2>2
  <2>6. ctx' = "returned" /\ Marked(written', Dones) => Text(written') = said'
    BY <2>3, <2>4
  <2> QED  BY <2>2, <2>3, <2>5, <2>6
<1>9. TranslatesAll'
  BY <1>1 DEF TranslatesAll
<1> QED  BY <1>5, <1>7, <1>8, <1>9 DEF StreamInv

(* Anthropic's scanner gives up what nobody will receive. *)
LEMMA GiveUpSteps == ASSUME StreamInv, Stream!GiveUp PROVE StreamInv'
<1>1. StreamTyped /\ Closing /\ Told /\ Complete /\ TranslatesAll
  BY DEF StreamInv
<1>2. /\ ctx # "live" /\ outbox' = [outbox EXCEPT !["scanner"] = <<>>] /\ scanner' = scanner
      /\ UNCHANGED <<provider, client, includeUsage, cumulative, bridge, chan, handler, written, usage, ctx>>
      /\ UNCHANGED <<said, upstream, spoiled, prevText>>
  BY DEF Stream!GiveUp, Stream!HandOver, Stream!Idle
<1>3. /\ outbox' \in [Stream!Goroutines -> Seq(Events)]
      /\ outbox'["scanner"] = <<>> /\ outbox'["bridge"] = outbox["bridge"]
  <2>1. <<>> \in Seq(Events)
    OBVIOUS
  <2> QED  BY <1>1, <1>2, <2>1 DEF StreamTyped, Stream!Goroutines
<1>4. Stream!Bridged' = Stream!Bridged
  BY <1>2 DEF Stream!Bridged
<1>5. StreamTyped'
  <2>1. <<>> \in Seq(Spoken)
    OBVIOUS
  <2> QED  BY <1>1, <1>2, <1>3, <1>4, <2>1 DEF StreamTyped
<1>6. PICK Q, R : Q = Queues /\ R = Queues'
  OBVIOUS
<1>7. /\ Q \in [1..5 -> Seq(Events)] /\ R \in [1..5 -> Seq(Events)] /\ R[1] = <<>>
      /\ R[2] = Q[2] /\ R[3] = Q[3] /\ R[4] = Q[4] /\ R[5] = Q[5]
  BY <1>1, <1>2, <1>3, <1>5, <1>6, QueuesType, QueuesTypeNext
<1>8. /\ DoneEnds(R) /\ TextOfAll(Q) = TextOfAll(R) \o Text(Q[1])
      /\ \A m : Anywhere(R, m) => Anywhere(Q, m)
  <2>1. \A o \in 2..5 : o = 2 \/ o = 3 \/ o = 4 \/ o = 5
    OBVIOUS
  <2>2. \A o \in 2..5 : R[o] = Q[o]
    BY <1>7, <2>1
  <2>3. DoneEnds(Q)
    BY <1>1, <1>6 DEF Closing
  <2> QED  BY <1>7, <2>2, <2>3, Dropped
<1>9. Closing'
  <2>1. DoneEnds(Queues)'
    BY <1>6, <1>8, Zenon DEF DoneEnds
  <2>2. /\ Anywhere(Q, Dones) => scanner # "scanning" /\ (provider = "openai" => upstream = "finished")
        /\ Anywhere(Q, Finishes) => upstream = "finished" 
        /\ ctx = "returned" => handler = "gone"
    BY <1>1, <1>6 DEF Closing
  <2>3. Anywhere(Queues, Dones)' = Anywhere(R, Dones) /\ Anywhere(Queues, Finishes)' = Anywhere(R, Finishes)
    BY <1>6
  <2> QED  BY <1>2, <1>8, <2>1, <2>2, <2>3 DEF Closing
<1>10. Told'
  <2>1. Tells' = Tells
    BY <1>2 DEF Tells, Stream!Bridged, Stream!UsageTold
  <2> QED  BY <1>1, <1>2, <1>4, <2>1 DEF Told
<1>11. Complete'
  <2> SUFFICES ASSUME ~Stream!Repeats'
               PROVE  /\ \E rest \in Seq(Letters) : said' = TextOfAll(R) \o rest /\ (ctx' = "live" => rest = <<>>)
                      /\ provider' = "gemini" => prevText' = said'
                      /\ ctx' = "returned" /\ Marked(written', Dones) => Text(written') = said'
    BY <1>6 DEF Complete
  <2>1. ~Stream!Repeats
    BY <1>2 DEF Stream!Repeats
  <2>2. PICK rest \in Seq(Letters) : said = TextOfAll(Q) \o rest
    BY <1>1, <1>6, <2>1 DEF Complete
  <2>3. PICK a, t : a = TextOfAll(R) /\ t = Text(Q[1])
    OBVIOUS
  <2>4. a \in Seq(Letters) /\ t \in Seq(Letters)
    BY <1>7, <2>3, TextOfAllType, TextLaws
  <2>5. (a \o t) \o rest = a \o (t \o rest) /\ t \o rest \in Seq(Letters)
    <3>1. t \o rest \in Seq(Letters)
      BY <2>2, <2>4
    <3>2. (a \o t) \o rest = a \o (t \o rest)
      BY <2>2, <2>4, Regrouped, Zenon
    <3> QED  BY <3>1, <3>2
  <2>6. said' = a \o (t \o rest)
    BY <1>2, <1>8, <2>2, <2>3, <2>5
  <2>7. /\ provider = "gemini" => prevText = said
        /\ ctx = "returned" /\ Marked(written, Dones) => Text(written) = said
    BY <1>1, <2>1 DEF Complete
  <2> QED  BY <1>2, <2>3, <2>5, <2>6, <2>7
<1>12. TranslatesAll'
  BY <1>1, <1>2 DEF TranslatesAll
<1> QED  BY <1>5, <1>9, <1>10, <1>11, <1>12 DEF StreamInv

(* Lists that lose their first or get one more.                            *)
LEMMA ListLaws ==
  ASSUME NEW S, NEW w \in Seq(S)
  PROVE  /\ w # <<>> => Head(w) \in S /\ Tail(w) \in Seq(S)
         /\ \A e \in S : Append(w, e) \in Seq(S) /\ Append(w, e) = w \o <<e>>
OBVIOUS

(* What is waiting for a receiver is behind an empty buffer or in it.       *)
LEMMA FirstWaiting ==
  ASSUME NEW b \in Seq(Events), NEW o \in Seq(Events), b \o o # <<>>
  PROVE  /\ b # <<>> => Head(b \o o) = Head(b)
         /\ b = <<>> => o # <<>> /\ Head(b \o o) = Head(o)
<1>1. b = <<>> => b \o o = o
  OBVIOUS
<1>2. b # <<>> => Head(b \o o) = Head(b)
  OBVIOUS
<1> QED  BY <1>1, <1>2

(* An event that goes on as it is.                                         *)
LEMMA CarriesItself ==
  ASSUME NEW e \in Events
  PROVE  Carries(<<e>>, e)
BY ShortTexts, MarkedLaws, DoneLastLaws DEF Carries

(* An error is not written. *)
LEMMA CarriesNothing ==
  ASSUME NEW e \in Events, e.kind = "error"
  PROVE  Carries(<<>>, e)
<1>1. <<>> \in Seq(Events)
  OBVIOUS
<1>2. "error" # "data"
  OBVIOUS
<1>3. e.text = <<>>
  BY <1>2, EventFields
<1> QED  BY <1>1, <1>3, TextLaws, MarkedLaws, DoneLastLaws DEF Carries

(* What the bridge makes of an event.                                      *)
LEMMA BridgingCarries ==
  ASSUME NEW e \in Spoken
  PROVE  Carries(Stream!Bridging(e), e)
<1>1. e \in Events /\ e.kind \in {"data", "done", "error"} /\ e.text \in Seq(Letters)
      /\ (e.kind # "data" => e.text = <<>>)
  BY EventFields DEF Spoken
<1>2. PICK es : es = Stream!Bridging(e)
  OBVIOUS
<1>3. CASE e.kind = "error"
  <2>1. es = <<e>>
    BY <1>2, <1>3 DEF Stream!Bridging
  <2> QED  BY <1>1, <1>2, <2>1, CarriesItself
<1>4. CASE e.kind = "done"
  <2>1. PICK c : c = Stream!Event("completed")
    OBVIOUS
  <2>2. es = <<c, e>>
    BY <1>2, <1>4, <2>1 DEF Stream!Bridging
  <2>3. c \in Events /\ c.text = <<>> /\ c \notin Dones /\ c \notin Finishes
    <3>1. "completed" \in Kinds /\ "completed" # "data" /\ "completed" # "done"
      BY DEF Kinds
    <3> QED  BY <2>1, <3>1, EventType
  <2>4. <<c, e>> \in Seq(Events) /\ Text(<<c, e>>) = c.text \o e.text
    BY <1>1, <2>3, ShortTexts
  <2>5. c.text \o e.text = e.text
    BY <1>1, <1>4, <2>3
  <2>6. DoneLast(<<c, e>>) /\ (Marked(<<c, e>>, Dones) => e \in Dones) /\ (Marked(<<c, e>>, Finishes) => e \in Finishes)
    BY <1>1, <2>3, DoneLastLaws, MarkedLaws
  <2> QED  BY <1>2, <2>2, <2>4, <2>5, <2>6 DEF Carries
<1>5. CASE e.kind = "data" /\ e.text = <<>>
  <2>1. es = <<>> /\ <<>> \in Seq(Events)
    BY <1>2, <1>5 DEF Stream!Bridging
  <2>2. Text(<<>>) = <<>> /\ DoneLast(<<>>) /\ ~Marked(<<>>, Dones) /\ ~Marked(<<>>, Finishes)
    BY TextLaws, MarkedLaws, DoneLastLaws
  <2> QED  BY <1>2, <1>5, <2>1, <2>2 DEF Carries
<1>6. CASE e.kind = "data" /\ e.text # <<>>
  <2>1. PICK c : c = Stream!Chunk(e.text, FALSE, FALSE)
    OBVIOUS
  <2>2. es = <<c>>
    BY <1>2, <1>6, <2>1 DEF Stream!Bridging
  <2>3. c \in Spoken /\ c.text = e.text /\ c \notin Dones /\ c \notin Finishes
    BY <1>1, <2>1, ChunkType
  <2>4. c \in Events
    BY <2>3 DEF Spoken
  <2>5. <<c>> \in Seq(Events) /\ Text(<<c>>) = e.text /\ DoneLast(<<c>>) /\ ~Marked(<<c>>, Dones) /\ ~Marked(<<c>>, Finishes)
    BY <2>3, <2>4, ShortTexts, MarkedLaws, DoneLastLaws
  <2> QED  BY <1>2, <2>2, <2>5 DEF Carries
<1> QED  BY <1>1, <1>3, <1>4, <1>5, <1>6

(* The handler's writing of an event, and the translator's reading of it.   *)
LEMMA WritingTranslates ==
  ASSUME TranslatesAll, NEW e \in Spoken \cup Events, written \in Seq(Events),
         NEW w, w = written \/ w = Append(written, e)
  PROVE  /\ Translated(w).text = Text(w)
         /\ Translated(w).done => Marked(w, Finishes)
         /\ Translated(w).stopped => Marked(w, Dones) /\ Marked(w, Finishes)
<1>0. e \in Events
  BY DEF Spoken
<1>1. CASE w = written
  BY <1>1 DEF TranslatesAll
<1>2. CASE w = Append(written, e)
  <2>1. PICK t, u, s : t = Translated(written) /\ u = Translated(w) /\ s = written
    OBVIOUS
  <2>2. t \in States /\ u = Stream!Fed(t, e) /\ Text(w) = Text(s) \o e.text
    BY <1>0, <1>2, <2>1, TranslatedLaws, TextLaws
  <2>3. w = s \o <<e>> /\ <<e>> \in Seq(Events) /\ s \in Seq(Events)
    BY <1>0, <1>2, <2>1, ListLaws, ShortTexts
  <2>4. \A m : Marked(w, m) <=> Marked(s, m) \/ e \in m
    BY <1>0, <2>3, MarkedLaws
  <2>5. t.text = Text(s) /\ (t.done => Marked(s, Finishes)) /\ (t.stopped => Marked(s, Dones) /\ Marked(s, Finishes))
    BY <2>1 DEF TranslatesAll
  <2>6. Text(s) \o <<>> = Text(s) /\ Text(s) \in Seq(Letters)
    <3>1. PICK x : x = Text(s)
      OBVIOUS
    <3>2. x \in Seq(Letters)
      BY <2>3, <3>1, TextLaws
    <3> QED  BY <3>1, <3>2, ConcatEmptySeq
  <2>7. CASE e.kind = "data"
    <3>1. u = [text |-> t.text \o e.text, started |-> TRUE, done |-> t.done \/ e.finish, stopped |-> t.stopped]
      BY <2>2, <2>7 DEF Stream!Fed
    <3>2. u.text = t.text \o e.text /\ (u.done <=> t.done \/ e.finish) /\ (u.stopped <=> t.stopped)
      BY <3>1, Zenon
    <3>3. e.finish => e \in Finishes
      BY <1>0 DEF Finishes
    <3> QED  BY <2>1, <2>2, <2>4, <2>5, <3>2, <3>3
  <2>8. CASE e.kind = "done"
    <3>1. u = [t EXCEPT !.stopped = t.done] /\ e.text = <<>>
      BY <1>0, <2>2, <2>8, EventFields DEF Stream!Fed
    <3>2. u.text = t.text /\ u.done = t.done /\ u.stopped = t.done
      BY <2>2, <3>1 DEF States
    <3>3. e \in Dones
      BY <1>0, <2>8 DEF Dones
    <3> QED  BY <2>1, <2>2, <2>4, <2>5, <2>6, <3>1, <3>2, <3>3
  <2>9. CASE e.kind # "data" /\ e.kind # "done"
    <3>1. u = t /\ e.text = <<>>
      BY <1>0, <2>2, <2>9, EventFields DEF Stream!Fed
    <3> QED  BY <2>1, <2>2, <2>4, <2>5, <2>6, <3>1
  <2> QED  BY <2>7, <2>8, <2>9
<1> QED  BY <1>1, <1>2

(* An event enters the buffer of its channel. *)
LEMMA SendSteps == ASSUME StreamInv, NEW g \in Stream!Goroutines, Stream!Send(g) PROVE StreamInv'
<1>1. StreamTyped /\ Closing /\ Told /\ TranslatesAll
  BY DEF StreamInv
<1>2. PICK o, c, e : o = outbox[g] /\ c = chan[g] /\ e = Head(o)
  OBVIOUS
<1>3. /\ o # <<>> /\ chan' = [chan EXCEPT ![g] = Append(c, e)] /\ outbox' = [outbox EXCEPT ![g] = Tail(o)]
      /\ UNCHANGED <<provider, client, includeUsage, cumulative, said, upstream, scanner, spoiled, bridge,
                     prevText, handler, written, usage, ctx>>
  BY <1>2 DEF Stream!Send
<1>4. /\ o \in Seq(Events) /\ c \in Seq(Events) /\ (g = "scanner" => o \in Seq(Spoken) /\ c \in Seq(Spoken))
      /\ outbox \in [Stream!Goroutines -> Seq(Events)] /\ chan \in [Stream!Goroutines -> Seq(Events)]
  BY <1>1, <1>2 DEF StreamTyped
<1>5. /\ e \in Events /\ Tail(o) \in Seq(Events) /\ Append(c, e) \in Seq(Events) /\ Append(c, e) = c \o <<e>>
      /\ g = "scanner" => e \in Spoken /\ Tail(o) \in Seq(Spoken) /\ Append(c, e) \in Seq(Spoken)
  BY <1>2, <1>3, <1>4, ListLaws
<1>6. /\ outbox' \in [Stream!Goroutines -> Seq(Events)] /\ chan' \in [Stream!Goroutines -> Seq(Events)]
      /\ outbox'[g] = Tail(o) /\ chan'[g] = c \o <<e>>
      /\ \A h \in Stream!Goroutines : h # g => outbox'[h] = outbox[h] /\ chan'[h] = chan[h]
  BY <1>3, <1>4, <1>5
<1>7. g \in {"scanner", "bridge"} /\ "scanner" \in Stream!Goroutines /\ "bridge" \in Stream!Goroutines
  BY DEF Stream!Goroutines
<1>8. Stream!Bridged' = Stream!Bridged /\ (g = "bridge" => Stream!Bridged)
  <2>1. g = "bridge" => Stream!Bridged
    BY <1>1, <1>2, <1>3 DEF StreamTyped
  <2> QED  BY <1>3, <2>1 DEF Stream!Bridged
<1>9. StreamTyped'
  <2>1. /\ provider' \in {"openai", "anthropic", "gemini"} /\ client' \in {"openai", "anthropic", "responses"}
        /\ cumulative' \in BOOLEAN /\ includeUsage' \in BOOLEAN /\ said' \in Seq(Letters) /\ prevText' \in Seq(Letters)
        /\ upstream' \in {"speaking", "finished", "cut"} /\ ctx' \in {"live", "left", "returned"}
        /\ scanner' \in {"scanning", "ending", "leaving", "gone"} /\ spoiled' \in BOOLEAN
        /\ bridge' \in {"running", "leaving", "gone"} /\ handler' \in {"running", "leaving", "gone"}
        /\ written' \in Seq(Events) /\ usage' \in BOOLEAN
    BY <1>1, <1>3 DEF StreamTyped
  <2>2. outbox["scanner"] \in Seq(Spoken) /\ chan["scanner"] \in Seq(Spoken)
    BY <1>1 DEF StreamTyped
  <2>3. outbox'["scanner"] \in Seq(Spoken) /\ chan'["scanner"] \in Seq(Spoken)
    BY <1>5, <1>6, <1>7, <2>2
  <2>4. ~Stream!Bridged => bridge' = "gone" /\ outbox'["bridge"] = <<>> /\ chan'["bridge"] = <<>>
    <3>1. ~Stream!Bridged => bridge = "gone" /\ outbox["bridge"] = <<>> /\ chan["bridge"] = <<>>
      BY <1>1 DEF StreamTyped
    <3> QED  BY <1>3, <1>6, <1>7, <1>8, <3>1
  <2> QED  BY <1>6, <1>8, <2>1, <2>3, <2>4 DEF StreamTyped
<1>10. PICK Q, R : Q = Queues /\ R = Queues'
  OBVIOUS
<1>11. /\ Q[1] = outbox["scanner"] /\ Q[2] = chan["scanner"] /\ Q[3] = outbox["bridge"] /\ Q[4] = chan["bridge"]
       /\ Q[5] = written
       /\ R[1] = outbox'["scanner"] /\ R[2] = chan'["scanner"] /\ R[3] = outbox'["bridge"] /\ R[4] = chan'["bridge"]
       /\ R[5] = written'
  BY <1>1, <1>9, <1>10, QueuesType, QueuesTypeNext
<1>12. Carries(<<e>>, e)
  BY <1>5, CarriesItself
<1>13. TranslatesAll'
  BY <1>1, <1>3 DEF TranslatesAll
<1>14. ctx = "returned" => written' = written /\ handler' = "gone"
  BY <1>1, <1>3 DEF Closing
<1>15. CASE g = "scanner"
  <2>1. Moves(Q, R, 1, 2, <<e>>)
    <3>1. Q[1] # <<>> /\ R[1] = Tail(Q[1]) /\ R[2] = Q[2] \o <<e>> /\ Head(Q[1]) = e
      BY <1>2, <1>3, <1>6, <1>11, <1>15
    <3>2. R[3] = Q[3] /\ R[4] = Q[4] /\ R[5] = Q[5]
      BY <1>3, <1>6, <1>7, <1>11, <1>15
    <3>3. ASSUME NEW p \in 1..5 PROVE (p = 1 \/ p = 2 \/ p = 3 \/ p = 4 \/ p = 5) /\ ~(1 < p /\ p < 2)
      OBVIOUS
    <3> QED  BY <1>12, <3>1, <3>2, <3>3 DEF Moves
  <2>2. Told'
    <3>0. Tells' = Tells
      BY <1>3 DEF Tells, Stream!Bridged, Stream!UsageTold
    <3>1. ASSUME Tells, upstream = "finished"
          PROVE  /\ ctx = "live" => usage \/ Marked(R[1], Usages) \/ Marked(R[2], Usages)
                 /\ ctx = "returned" /\ Marked(written, Dones) => usage
      <4>1. /\ ctx = "live" => usage \/ Marked(Q[1], Usages) \/ Marked(Q[2], Usages)
            /\ ctx = "returned" /\ Marked(written, Dones) => usage
        BY <1>1, <1>10, <3>1 DEF Told
      <4>2. Marked(Q[1], Usages) => e \in Usages \/ Marked(R[1], Usages)
        <5>1. o = <<e>> \o Tail(o) /\ <<e>> \in Seq(Events)
          BY <1>2, <1>3, <1>4, <1>5, HeadAndTail, ShortTexts
        <5>2. Marked(<<e>> \o Tail(o), Usages) => Marked(<<e>>, Usages) \/ Marked(Tail(o), Usages)
          BY <1>5, <5>1, MarkedLaws
        <5>3. Marked(<<e>>, Usages) => e \in Usages
          BY <1>5, MarkedLaws
        <5>4. Q[1] = o /\ R[1] = Tail(o)
          BY <1>2, <1>6, <1>11, <1>15
        <5> QED  BY <5>1, <5>2, <5>3, <5>4
      <4>3. Marked(Q[2], Usages) \/ e \in Usages => Marked(R[2], Usages)
        <5>1. <<e>> \in Seq(Events)
          BY <1>5, ShortTexts
        <5>2. Marked(c \o <<e>>, Usages) <=> Marked(c, Usages) \/ Marked(<<e>>, Usages)
          BY <1>4, <5>1, MarkedLaws
        <5>3. Marked(<<e>>, Usages) <=> e \in Usages
          BY <1>5, MarkedLaws
        <5>4. Q[2] = c /\ R[2] = c \o <<e>>
          BY <1>2, <1>6, <1>11, <1>15
        <5> QED  BY <5>2, <5>3, <5>4
      <4> QED  BY <4>1, <4>2, <4>3
    <3>2. Marked(R[1], Usages) = Marked(Queues[1], Usages)' /\ Marked(R[2], Usages) = Marked(Queues[2], Usages)'
      BY <1>10
    <3> QED  BY <1>3, <3>0, <3>1, <3>2 DEF Told
  <2>3. 1 \in 1..5 /\ 2 \in 1..5 /\ 1 < 2
    OBVIOUS
  <2>4. Moves(Queues, Queues', 1, 2, <<e>>)
    BY <1>10, <2>1
  <2> QED  BY <1>3, <1>9, <1>13, <1>14, <2>2, <2>3, <2>4, GoesOn
<1>16. CASE g = "bridge"
  <2>1. Moves(Q, R, 3, 4, <<e>>)
    <3>1. Q[3] # <<>> /\ R[3] = Tail(Q[3]) /\ R[4] = Q[4] \o <<e>> /\ Head(Q[3]) = e
      BY <1>2, <1>3, <1>6, <1>11, <1>16
    <3>2. R[1] = Q[1] /\ R[2] = Q[2] /\ R[5] = Q[5]
      BY <1>3, <1>6, <1>7, <1>11, <1>16
    <3>3. ASSUME NEW p \in 1..5 PROVE (p = 1 \/ p = 2 \/ p = 3 \/ p = 4 \/ p = 5) /\ ~(3 < p /\ p < 4)
      OBVIOUS
    <3> QED  BY <1>12, <3>1, <3>2, <3>3 DEF Moves
  <2>2. Told'
    BY <1>8, <1>16 DEF Told, Tells
  <2>3. 3 \in 1..5 /\ 4 \in 1..5 /\ 3 < 4
    OBVIOUS
  <2>4. Moves(Queues, Queues', 3, 4, <<e>>)
    BY <1>10, <2>1
  <2> QED  BY <1>3, <1>9, <1>13, <1>14, <2>2, <2>3, <2>4, GoesOn
<1> QED  BY <1>7, <1>15, <1>16

(* The bridge receives an event, or finds its channel closed. *)
LEMMA BridgeSteps == ASSUME StreamInv, Stream!Bridge PROVE StreamInv'
<1>1. StreamTyped /\ Closing /\ Told /\ TranslatesAll
  BY DEF StreamInv
<1>2. PICK c, o : c = chan["scanner"] /\ o = outbox["scanner"]
  OBVIOUS
<1>3. PICK e : e = Head(c \o o)
  OBVIOUS
<1>4. PICK es : es = Stream!Bridging(e)
  OBVIOUS
<1>5. /\ bridge = "running" /\ outbox["bridge"] = <<>>
      /\ UNCHANGED <<provider, client, includeUsage, cumulative, said, upstream, scanner, spoiled, prevText,
                     handler, written, usage, ctx>>
      /\ \/ bridge' = "leaving" /\ UNCHANGED <<chan, outbox>>
         \/ /\ c \o o # <<>> /\ bridge' \in {"running", "leaving"}
            /\ IF c # <<>>
                 THEN chan' = [chan EXCEPT !["scanner"] = Tail(c)] /\ outbox' = [outbox EXCEPT !["bridge"] = es]
                 ELSE chan' = chan /\ outbox' = [[outbox EXCEPT !["bridge"] = es] EXCEPT !["scanner"] = Tail(@)]
  BY <1>2, <1>3, <1>4 DEF Stream!Bridge, Stream!Waiting
<1>6. /\ o \in Seq(Events) /\ c \in Seq(Events) /\ o \in Seq(Spoken) /\ c \in Seq(Spoken)
      /\ outbox \in [Stream!Goroutines -> Seq(Events)] /\ chan \in [Stream!Goroutines -> Seq(Events)]
      /\ "scanner" \in Stream!Goroutines /\ "bridge" \in Stream!Goroutines
  BY <1>1, <1>2 DEF StreamTyped, Stream!Goroutines
<1>7. Stream!Bridged /\ Stream!Bridged'
  <2>1. Stream!Bridged
    BY <1>1, <1>5 DEF StreamTyped
  <2> QED  BY <1>5, <2>1 DEF Stream!Bridged
<1>8. /\ provider' \in {"openai", "anthropic", "gemini"} /\ client' \in {"openai", "anthropic", "responses"}
      /\ cumulative' \in BOOLEAN /\ includeUsage' \in BOOLEAN /\ said' \in Seq(Letters) /\ prevText' \in Seq(Letters)
      /\ upstream' \in {"speaking", "finished", "cut"} /\ ctx' \in {"live", "left", "returned"}
      /\ scanner' \in {"scanning", "ending", "leaving", "gone"} /\ spoiled' \in BOOLEAN
      /\ bridge' \in {"running", "leaving", "gone"} /\ handler' \in {"running", "leaving", "gone"}
      /\ written' \in Seq(Events) /\ usage' \in BOOLEAN
  BY <1>1, <1>5 DEF StreamTyped
<1>9. CASE UNCHANGED <<chan, outbox>>
  <2>1. StreamTyped'
    BY <1>1, <1>6, <1>7, <1>8, <1>9 DEF StreamTyped
  <2>2. ctx' = "returned" => handler' = "gone"
    BY <1>1, <1>5 DEF Closing
  <2> QED  BY <1>5, <1>9, <2>1, <2>2, NothingMoves
<1>10. CASE /\ c \o o # <<>>
            /\ IF c # <<>>
                 THEN chan' = [chan EXCEPT !["scanner"] = Tail(c)] /\ outbox' = [outbox EXCEPT !["bridge"] = es]
                 ELSE chan' = chan /\ outbox' = [[outbox EXCEPT !["bridge"] = es] EXCEPT !["scanner"] = Tail(@)]
  <2>1. /\ c # <<>> => e = Head(c) /\ e \in Spoken /\ Tail(c) \in Seq(Spoken) /\ Tail(c) \in Seq(Events)
        /\ c = <<>> => o # <<>> /\ e = Head(o) /\ e \in Spoken /\ Tail(o) \in Seq(Spoken) /\ Tail(o) \in Seq(Events)
    BY <1>3, <1>6, <1>10, FirstWaiting, ListLaws
  <2>2. Carries(es, e) /\ es \in Seq(Events)
    BY <1>4, <2>1, BridgingCarries DEF Carries
  <2>3. /\ outbox' \in [Stream!Goroutines -> Seq(Events)] /\ chan' \in [Stream!Goroutines -> Seq(Events)]
        /\ outbox'["bridge"] = es /\ chan'["bridge"] = chan["bridge"]
        /\ c # <<>> => chan'["scanner"] = Tail(c) /\ outbox'["scanner"] = o
        /\ c = <<>> => chan'["scanner"] = c /\ outbox'["scanner"] = Tail(o)
    <3>1. CASE c # <<>>
      BY <1>2, <1>6, <1>10, <2>1, <2>2, <3>1
    <3>2. CASE c = <<>>
      <4>1. PICK w : w = [outbox EXCEPT !["bridge"] = es]
        OBVIOUS
      <4>2. w \in [Stream!Goroutines -> Seq(Events)] /\ w["scanner"] = o /\ w["bridge"] = es
        BY <1>2, <1>6, <2>2, <4>1
      <4>3. outbox' = [w EXCEPT !["scanner"] = Tail(o)] /\ chan' = chan
        BY <1>10, <3>2, <4>1, <4>2
      <4>4. outbox' \in [Stream!Goroutines -> Seq(Events)] /\ outbox'["scanner"] = Tail(o) /\ outbox'["bridge"] = es
        BY <1>6, <2>1, <3>2, <4>2, <4>3
      <4> QED  BY <1>2, <1>6, <3>2, <4>3, <4>4
    <3> QED  BY <3>1, <3>2
  <2>4. StreamTyped'
    <3>1. outbox'["scanner"] \in Seq(Spoken) /\ chan'["scanner"] \in Seq(Spoken)
      BY <1>6, <2>1, <2>3
    <3> QED  BY <1>7, <1>8, <2>3, <3>1 DEF StreamTyped
  <2>5. PICK Q, R : Q = Queues /\ R = Queues'
    OBVIOUS
  <2>6. /\ Q[1] = o /\ Q[2] = c /\ Q[3] = <<>> /\ Q[4] = chan["bridge"] /\ Q[5] = written
        /\ R[1] = outbox'["scanner"] /\ R[2] = chan'["scanner"] /\ R[3] = es /\ R[4] = chan'["bridge"]
        /\ R[5] = written'
    BY <1>1, <1>2, <1>5, <2>3, <2>4, <2>5, QueuesType, QueuesTypeNext
  <2>7. R[3] = Q[3] \o es /\ R[4] = Q[4] /\ R[5] = Q[5]
    BY <1>5, <2>2, <2>3, <2>6
  <2>8. TranslatesAll' /\ Told'
    BY <1>1, <1>5, <1>7 DEF TranslatesAll, Told, Tells
  <2>9. ctx = "returned" => written' = written /\ handler' = "gone"
    BY <1>1, <1>5 DEF Closing
  <2>10. CASE c # <<>>
    <3>1. Moves(Q, R, 2, 3, es)
      <4>1. Q[2] # <<>> /\ R[2] = Tail(Q[2]) /\ Head(Q[2]) = e /\ R[1] = Q[1]
        BY <2>1, <2>3, <2>6, <2>10
      <4>2. ASSUME NEW p \in 1..5 PROVE (p = 1 \/ p = 2 \/ p = 3 \/ p = 4 \/ p = 5) /\ ~(2 < p /\ p < 3)
        OBVIOUS
      <4> QED  BY <2>2, <2>7, <4>1, <4>2 DEF Moves
    <3>2. 2 \in 1..5 /\ 3 \in 1..5 /\ 2 < 3
      OBVIOUS
    <3>3. Moves(Queues, Queues', 2, 3, es)
      BY <2>5, <3>1
    <3> QED  BY <1>5, <2>4, <2>8, <2>9, <3>2, <3>3, GoesOn
  <2>11. CASE c = <<>>
    <3>1. Moves(Q, R, 1, 3, es)
      <4>1. Q[1] # <<>> /\ R[1] = Tail(Q[1]) /\ Head(Q[1]) = e /\ R[2] = Q[2] /\ Q[2] = <<>>
        BY <2>1, <2>3, <2>6, <2>11
      <4>2. ASSUME NEW p \in 1..5
            PROVE  (p = 1 \/ p = 2 \/ p = 3 \/ p = 4 \/ p = 5) /\ (1 < p /\ p < 3 => p = 2)
        OBVIOUS
      <4> QED  BY <2>2, <2>7, <4>1, <4>2 DEF Moves
    <3>2. 1 \in 1..5 /\ 3 \in 1..5 /\ 1 < 3
      OBVIOUS
    <3>3. Moves(Queues, Queues', 1, 3, es)
      BY <2>5, <3>1
    <3> QED  BY <1>5, <2>4, <2>8, <2>9, <3>2, <3>3, GoesOn
  <2> QED  BY <2>10, <2>11
<1> QED  BY <1>5, <1>9, <1>10

(* The handler receives an event, or finds its channel closed. *)
LEMMA ForwardSteps == ASSUME StreamInv, Stream!Forward PROVE StreamInv'
<1>1. StreamTyped /\ Closing /\ Told /\ TranslatesAll
  BY DEF StreamInv
<1>2. PICK g : g = Stream!Source
  OBVIOUS
<1>3. PICK c, o : c = chan[g] /\ o = outbox[g]
  OBVIOUS
<1>4. PICK e : e = Head(c \o o)
  OBVIOUS
<1>5. /\ handler = "running" /\ handler' \in {"running", "leaving"}
      /\ UNCHANGED <<provider, client, includeUsage, cumulative, said, upstream, scanner, spoiled, bridge, prevText, ctx>>
      /\ \/ UNCHANGED <<chan, outbox, written, usage>>
         \/ /\ c \o o # <<>>
            /\ written' = IF e.kind = "error" THEN written ELSE Append(written, e)
            /\ usage' = (usage \/ e.usage)
            /\ IF c # <<>>
                 THEN chan' = [chan EXCEPT ![g] = Tail(c)] /\ outbox' = outbox
                 ELSE chan' = chan /\ outbox' = [outbox EXCEPT ![g] = Tail(o)]
  <2>1. handler' \in {"running", "leaving"}
    BY DEF Stream!Forward
  <2> QED  BY <1>2, <1>3, <1>4, <2>1, Zenon DEF Stream!Forward, Stream!Waiting, Stream!Take
<1>6. /\ g \in {"scanner", "bridge"} /\ (g = "bridge" <=> Stream!Bridged)
      /\ outbox \in [Stream!Goroutines -> Seq(Events)] /\ chan \in [Stream!Goroutines -> Seq(Events)]
      /\ "scanner" \in Stream!Goroutines /\ "bridge" \in Stream!Goroutines /\ g \in Stream!Goroutines
      /\ o \in Seq(Events) /\ c \in Seq(Events) /\ (g = "scanner" => o \in Seq(Spoken) /\ c \in Seq(Spoken))
  <2>1. g \in {"scanner", "bridge"} /\ (g = "bridge" <=> Stream!Bridged) /\ g \in Stream!Goroutines
    BY <1>2 DEF Stream!Source, Stream!Goroutines
  <2> QED  BY <1>1, <1>3, <2>1 DEF StreamTyped, Stream!Goroutines
<1>7. Stream!Bridged' = Stream!Bridged
  BY <1>5 DEF Stream!Bridged
<1>8. ctx # "returned" /\ ctx' = ctx
  BY <1>1, <1>5 DEF Closing
<1>9. /\ provider' \in {"openai", "anthropic", "gemini"} /\ client' \in {"openai", "anthropic", "responses"}
      /\ cumulative' \in BOOLEAN /\ includeUsage' \in BOOLEAN /\ said' \in Seq(Letters) /\ prevText' \in Seq(Letters)
      /\ upstream' \in {"speaking", "finished", "cut"} /\ ctx' \in {"live", "left", "returned"}
      /\ scanner' \in {"scanning", "ending", "leaving", "gone"} /\ spoiled' \in BOOLEAN
      /\ bridge' \in {"running", "leaving", "gone"} /\ handler' \in {"running", "leaving", "gone"}
      /\ outbox["scanner"] \in Seq(Spoken) /\ chan["scanner"] \in Seq(Spoken)
      /\ ~Stream!Bridged => bridge' = "gone" /\ outbox["bridge"] = <<>> /\ chan["bridge"] = <<>>
  BY <1>1, <1>5 DEF StreamTyped
<1>10. CASE UNCHANGED <<chan, outbox, written, usage>>
  <2>1. StreamTyped'
    <3>1. written \in Seq(Events) /\ usage \in BOOLEAN
      BY <1>1 DEF StreamTyped
    <3> QED  BY <1>6, <1>7, <1>9, <1>10, <3>1 DEF StreamTyped
  <2> QED  BY <1>5, <1>8, <1>10, <2>1, NothingMoves
<1>11. CASE /\ c \o o # <<>>
            /\ written' = IF e.kind = "error" THEN written ELSE Append(written, e)
            /\ usage' = (usage \/ e.usage)
            /\ IF c # <<>>
                 THEN chan' = [chan EXCEPT ![g] = Tail(c)] /\ outbox' = outbox
                 ELSE chan' = chan /\ outbox' = [outbox EXCEPT ![g] = Tail(o)]
  <2>1. /\ c # <<>> => e = Head(c) /\ e \in Events /\ Tail(c) \in Seq(Events)
        /\ c = <<>> => o # <<>> /\ e = Head(o) /\ e \in Events /\ Tail(o) \in Seq(Events)
        /\ g = "scanner" => /\ c # <<>> => Tail(c) \in Seq(Spoken)
                            /\ c = <<>> => Tail(o) \in Seq(Spoken)
    BY <1>4, <1>6, <1>11, FirstWaiting, ListLaws
  <2>2. e \in Events /\ written \in Seq(Events) /\ usage \in BOOLEAN
    BY <1>1, <2>1 DEF StreamTyped
  <2>3. PICK es : es = IF e.kind = "error" THEN <<>> ELSE <<e>>
    OBVIOUS
  <2>4. Carries(es, e) /\ es \in Seq(Events)
    BY <2>2, <2>3, CarriesItself, CarriesNothing DEF Carries
  <2>5. written' = written \o es /\ written' \in Seq(Events) /\ (written' = written \/ written' = Append(written, e))
    <3>1. PICK w : w = written
      OBVIOUS
    <3>2. w \o <<>> = w /\ Append(w, e) = w \o <<e>> /\ Append(w, e) \in Seq(Events)
      BY <2>2, <3>1, ConcatEmptySeq, ListLaws
    <3> QED  BY <1>11, <2>2, <2>3, <3>1, <3>2
  <2>6. usage' \in BOOLEAN /\ (usage' <=> usage \/ e.usage)
    BY <1>11, <2>2, EventFields
  <2>7. /\ outbox' \in [Stream!Goroutines -> Seq(Events)] /\ chan' \in [Stream!Goroutines -> Seq(Events)]
        /\ \A h \in Stream!Goroutines : h # g => outbox'[h] = outbox[h] /\ chan'[h] = chan[h]
        /\ c # <<>> => chan'[g] = Tail(c) /\ outbox'[g] = o
        /\ c = <<>> => chan'[g] = c /\ outbox'[g] = Tail(o)
    BY <1>3, <1>6, <1>11, <2>1
  <2>8. StreamTyped'
    <3>1. outbox'["scanner"] \in Seq(Spoken) /\ chan'["scanner"] \in Seq(Spoken)
      BY <1>6, <1>9, <2>1, <2>7
    <3>2. ~Stream!Bridged => outbox'["bridge"] = <<>> /\ chan'["bridge"] = <<>>
      BY <1>6, <1>9, <2>7
    <3> QED  BY <1>7, <1>9, <2>5, <2>6, <2>7, <3>1, <3>2 DEF StreamTyped
  <2>9. TranslatesAll'
    BY <1>1, <2>2, <2>5, WritingTranslates DEF TranslatesAll
  <2>10. PICK Q, R : Q = Queues /\ R = Queues'
    OBVIOUS
  <2>11. /\ Q[1] = outbox["scanner"] /\ Q[2] = chan["scanner"] /\ Q[3] = outbox["bridge"] /\ Q[4] = chan["bridge"]
         /\ Q[5] = written
         /\ R[1] = outbox'["scanner"] /\ R[2] = chan'["scanner"] /\ R[3] = outbox'["bridge"] /\ R[4] = chan'["bridge"]
         /\ R[5] = written'
    BY <1>1, <2>8, <2>10, QueuesType, QueuesTypeNext
  <2>12. R[5] = Q[5] \o es
    BY <2>5, <2>11
  <2>13. \A p \in 1..5 : p = 1 \/ p = 2 \/ p = 3 \/ p = 4 \/ p = 5
    OBVIOUS
  <2>14. Told'
    <3>0. Tells' = Tells
      BY <1>5 DEF Tells, Stream!Bridged, Stream!UsageTold
    <3> SUFFICES ASSUME Tells, upstream = "finished", ctx = "live"
                 PROVE  usage' \/ Marked(R[1], Usages) \/ Marked(R[2], Usages)
      <4>1. Marked(R[1], Usages) = Marked(Queues[1], Usages)' /\ Marked(R[2], Usages) = Marked(Queues[2], Usages)'
        BY <2>10
      <4> QED  BY <1>5, <1>7, <1>8, <3>0, <4>1 DEF Told
    <3>1. g = "scanner"
      BY <1>6 DEF Tells
    <3>2. usage \/ Marked(Q[1], Usages) \/ Marked(Q[2], Usages)
      BY <1>1, <2>10 DEF Told
    <3>3. e \in Usages => e.usage
      BY DEF Usages
    <3>4. ASSUME NEW w \in Seq(Events), w # <<>> PROVE Marked(w, Usages) => Head(w) \in Usages \/ Marked(Tail(w), Usages)
      <4>1. w = <<Head(w)>> \o Tail(w) /\ Head(w) \in Events /\ Tail(w) \in Seq(Events)
        BY <3>4, HeadAndTail
      <4>2. PICK x, y : x = Head(w) /\ y = Tail(w)
        OBVIOUS
      <4>3. <<x>> \in Seq(Events) /\ (Marked(<<x>>, Usages) <=> x \in Usages)
        BY <4>1, <4>2, ShortTexts, MarkedLaws
      <4>4. Marked(<<x>> \o y, Usages) <=> Marked(<<x>>, Usages) \/ Marked(y, Usages)
        BY <4>1, <4>2, <4>3, MarkedLaws
      <4> QED  BY <4>1, <4>2, <4>3, <4>4
    <3>5. CASE c # <<>>
      <4>1. Q[1] = o /\ R[1] = o /\ Q[2] = c /\ R[2] = Tail(c) /\ Head(c) = e
        BY <1>3, <2>1, <2>7, <2>11, <3>1, <3>5
      <4>2. Marked(c, Usages) => Head(c) \in Usages \/ Marked(Tail(c), Usages)
        BY <1>6, <3>4, <3>5
      <4> QED  BY <2>6, <3>2, <3>3, <4>1, <4>2
    <3>6. CASE c = <<>>
      <4>1. Q[1] = o /\ R[1] = Tail(o) /\ Q[2] = c /\ R[2] = c /\ Head(o) = e /\ o # <<>>
        BY <1>3, <2>1, <2>7, <2>11, <3>1, <3>6
      <4>2. Marked(o, Usages) => Head(o) \in Usages \/ Marked(Tail(o), Usages)
        BY <1>6, <3>4, <4>1
      <4> QED  BY <2>6, <3>2, <3>3, <4>1, <4>2
    <3> QED  BY <3>5, <3>6
  <2>15. ASSUME NEW p \in 1..4, Moves(Q, R, p, 5, es) PROVE StreamInv'
    <3>1. p \in 1..5 /\ 5 \in 1..5 /\ p < 5
      OBVIOUS
    <3>2. Moves(Queues, Queues', p, 5, es)
      BY <2>10, <2>15
    <3>3. ctx = "returned" => written' = written /\ handler' = "gone"
      BY <1>8
    <3> QED  BY <1>5, <2>8, <2>9, <2>14, <3>1, <3>2, <3>3, GoesOn
  <2>16. 1 \in 1..4 /\ 2 \in 1..4 /\ 3 \in 1..4 /\ 4 \in 1..4
    OBVIOUS
  <2>17. CASE g = "scanner" /\ c # <<>>
    <3>1. Q[2] # <<>> /\ R[2] = Tail(Q[2]) /\ Head(Q[2]) = e /\ R[1] = Q[1]
      BY <1>3, <2>1, <2>7, <2>11, <2>17
    <3>2. R[3] = Q[3] /\ R[4] = Q[4] /\ Q[3] = <<>> /\ Q[4] = <<>>
      BY <1>6, <1>9, <2>7, <2>11, <2>17
    <3>3. ~(2 < 1) /\ ~(2 < 2) /\ ~(5 < 5)
      OBVIOUS
    <3>4. Moves(Q, R, 2, 5, es)
      BY <2>4, <2>12, <2>13, <3>1, <3>2, <3>3 DEF Moves
    <3> QED  BY <2>15, <2>16, <3>4
  <2>18. CASE g = "scanner" /\ c = <<>>
    <3>1. Q[1] # <<>> /\ R[1] = Tail(Q[1]) /\ Head(Q[1]) = e /\ R[2] = Q[2] /\ Q[2] = <<>>
      BY <1>3, <2>1, <2>7, <2>11, <2>18
    <3>2. R[3] = Q[3] /\ R[4] = Q[4] /\ Q[3] = <<>> /\ Q[4] = <<>>
      BY <1>6, <1>9, <2>7, <2>11, <2>18
    <3>3. ~(1 < 1) /\ ~(5 < 5)
      OBVIOUS
    <3>4. Moves(Q, R, 1, 5, es)
      BY <2>4, <2>12, <2>13, <3>1, <3>2, <3>3 DEF Moves
    <3> QED  BY <2>15, <2>16, <3>4
  <2>19. CASE g = "bridge" /\ c # <<>>
    <3>1. Q[4] # <<>> /\ R[4] = Tail(Q[4]) /\ Head(Q[4]) = e /\ R[3] = Q[3]
      BY <1>3, <2>1, <2>7, <2>11, <2>19
    <3>2. R[1] = Q[1] /\ R[2] = Q[2]
      BY <1>6, <2>7, <2>11, <2>19
    <3>3. ~(4 < 1) /\ ~(4 < 2) /\ ~(4 < 3) /\ ~(4 < 4) /\ ~(5 < 5)
      OBVIOUS
    <3>4. Moves(Q, R, 4, 5, es)
      BY <2>4, <2>12, <2>13, <3>1, <3>2, <3>3 DEF Moves
    <3> QED  BY <2>15, <2>16, <3>4
  <2>20. CASE g = "bridge" /\ c = <<>>
    <3>1. Q[3] # <<>> /\ R[3] = Tail(Q[3]) /\ Head(Q[3]) = e /\ R[4] = Q[4] /\ Q[4] = <<>>
      BY <1>3, <2>1, <2>7, <2>11, <2>20
    <3>2. R[1] = Q[1] /\ R[2] = Q[2]
      BY <1>6, <2>7, <2>11, <2>20
    <3>3. ~(3 < 1) /\ ~(3 < 2) /\ ~(3 < 3) /\ ~(5 < 5)
      OBVIOUS
    <3>4. Moves(Q, R, 3, 5, es)
      BY <2>4, <2>12, <2>13, <3>1, <3>2, <3>3 DEF Moves
    <3> QED  BY <2>15, <2>16, <3>4
  <2> QED  BY <1>6, <2>17, <2>18, <2>19, <2>20
<1> QED  BY <1>5, <1>10, <1>11

(* The request of a handler that returned is over.                         *)
ReturnEnds == handler = "gone" => ctx # "live"

(* The invariant holds at first. *)
LEMMA StreamBegins == ASSUME Stream!Init PROVE StreamInv /\ ReturnEnds
<1>1. PICK c : c = <<Stream!Event("created")>>
  OBVIOUS
<1>2. c \in Seq(Events) /\ Text(c) = <<>> /\ ~Marked(c, Dones) /\ ~Marked(c, Finishes) /\ DoneLast(c)
  <2>1. PICK e : e = Stream!Event("created")
    OBVIOUS
  <2>2. e \in Events /\ e.text = <<>> /\ e \notin Dones /\ e \notin Finishes
    <3>1. "created" \in Kinds /\ "created" # "data" /\ "created" # "done"
      BY DEF Kinds
    <3> QED  BY <2>1, <3>1, EventType
  <2>3. <<e>> \in Seq(Events) /\ Text(<<e>>) = e.text /\ DoneLast(<<e>>) /\ ~Marked(<<e>>, Dones) /\ ~Marked(<<e>>, Finishes)
    BY <2>2, ShortTexts, MarkedLaws, DoneLastLaws
  <2> QED  BY <1>1, <2>1, <2>2, <2>3
<1>3. PICK b : b = IF Stream!Bridged THEN c ELSE <<>>
  OBVIOUS
<1>4. /\ outbox = [scanner |-> <<>>, bridge |-> b] /\ chan = [scanner |-> <<>>, bridge |-> <<>>]
      /\ said = <<>> /\ upstream = "speaking" /\ scanner = "scanning" /\ spoiled = FALSE /\ prevText = <<>>
      /\ handler = "running" /\ written = <<>> /\ usage = FALSE /\ ctx = "live"
      /\ provider \in {"openai", "anthropic", "gemini"} /\ client \in {"openai", "anthropic", "responses"}
      /\ cumulative \in BOOLEAN /\ includeUsage \in BOOLEAN /\ bridge \in {"running", "gone"} /\ (~Stream!Bridged => bridge = "gone")
  BY <1>1, <1>3 DEF Stream!Init
<1>5. /\ b \in Seq(Events) /\ Text(b) = <<>> /\ ~Marked(b, Dones) /\ ~Marked(b, Finishes) /\ DoneLast(b)
      /\ Text(<<>>) = <<>> /\ (\A m : ~Marked(<<>>, m)) /\ DoneLast(<<>>)
      /\ <<>> \in Seq(Events) /\ <<>> \in Seq(Spoken) /\ <<>> \in Seq(Letters)
  <2>1. <<>> \in Seq(Events) /\ <<>> \in Seq(Spoken) /\ <<>> \in Seq(Letters)
    OBVIOUS
  <2> QED  BY <1>2, <1>3, <2>1, TextLaws, MarkedLaws, DoneLastLaws
<1>6. outbox["scanner"] = <<>> /\ outbox["bridge"] = b /\ chan["scanner"] = <<>> /\ chan["bridge"] = <<>>
  BY <1>4
<1>7. outbox \in [Stream!Goroutines -> Seq(Events)] /\ chan \in [Stream!Goroutines -> Seq(Events)]
  <2>1. ASSUME NEW x \in Seq(Events), NEW f, f = [scanner |-> <<>>, bridge |-> x]
        PROVE  f \in [Stream!Goroutines -> Seq(Events)]
    <3>1. DOMAIN f = Stream!Goroutines /\ f = [g \in DOMAIN f |-> f[g]]
      BY <2>1 DEF Stream!Goroutines
    <3>2. \A g \in DOMAIN f : f[g] = <<>> \/ f[g] = x
      BY <2>1
    <3>3. \A g \in DOMAIN f : f[g] \in Seq(Events)
      BY <1>5, <3>2
    <3> QED  BY <3>1, <3>3
  <2> QED  BY <1>4, <1>5, <2>1
<1>8. StreamTyped
  BY <1>3, <1>4, <1>5, <1>6, <1>7 DEF StreamTyped
<1>9. PICK Q : Q = Queues
  OBVIOUS
<1>10. /\ Q \in [1..5 -> Seq(Events)] /\ Q[1] = <<>> /\ Q[2] = <<>> /\ Q[3] = b /\ Q[4] = <<>> /\ Q[5] = <<>>
       /\ \A p \in 1..5 : Q[p] = b \/ Q[p] = <<>>
  <2>1. \A p \in 1..5 : p = 1 \/ p = 2 \/ p = 3 \/ p = 4 \/ p = 5
    OBVIOUS
  <2>2. Q \in [1..5 -> Seq(Events)] /\ Q[1] = <<>> /\ Q[2] = <<>> /\ Q[3] = b /\ Q[4] = <<>> /\ Q[5] = <<>>
    BY <1>4, <1>6, <1>8, <1>9, QueuesType
  <2> QED  BY <2>1, <2>2
<1>11. Closing
  <2>1. \A p \in 1..5 : DoneLast(Q[p]) /\ ~Marked(Q[p], Dones) /\ ~Marked(Q[p], Finishes)
    BY <1>5, <1>10
  <2> QED  BY <1>4, <1>9, <2>1 DEF Closing, DoneEnds, Anywhere
<1>12. Told
  BY <1>4 DEF Told
<1>13. Complete
  <2>1. TextOfAll(Q) = (((<<>> \o <<>>) \o <<>>) \o <<>>) \o <<>>
    BY <1>5, <1>10, Zenon DEF TextOfAll
  <2>2. <<>> \o <<>> = <<>>
    OBVIOUS
  <2>3. said = TextOfAll(Q) \o <<>>
    BY <1>4, <2>1, <2>2
  <2> QED  BY <1>4, <1>5, <1>9, <2>3 DEF Complete
<1>14. TranslatesAll
  <2>1. Translated(written) = Unopened /\ Text(written) = <<>>
    BY <1>4, <1>5, TranslatedLaws
  <2> QED  BY <2>1 DEF TranslatesAll, Unopened
<1> QED  BY <1>4, <1>8, <1>11, <1>12, <1>13, <1>14 DEF StreamInv, ReturnEnds

(* A goroutine returns, the handler returns, the client leaves. *)
LEMMA QuietSteps ==
  ASSUME StreamInv, NEW g \in Stream!Goroutines, Stream!Close(g) \/ Stream!Return \/ Stream!Disconnect
  PROVE  StreamInv'
<1>1. StreamTyped /\ Closing
  BY DEF StreamInv
<1>2. /\ UNCHANGED <<outbox, chan, written>>
      /\ UNCHANGED <<provider, client, includeUsage, cumulative, said, upstream, spoiled, prevText, usage>>
      /\ scanner' \in {scanner, "gone"} /\ bridge' \in {bridge, "gone"} /\ handler' \in {handler, "gone"}
      /\ ctx' = ctx \/ (ctx = "live" /\ ctx' \in {"left", "returned"})
      /\ ctx' = "returned" => ctx = "returned" \/ handler' = "gone"
  BY DEF Stream!Close, Stream!Return, Stream!Disconnect
<1>3. ctx' = "returned" => handler' = "gone"
  BY <1>1, <1>2 DEF Closing
<1>4. Stream!Bridged' = Stream!Bridged
  BY <1>2 DEF Stream!Bridged
<1>5. StreamTyped'
  BY <1>1, <1>2, <1>4 DEF StreamTyped
<1> QED  BY <1>2, <1>3, <1>5, NothingMoves

(* And every step of the stream keeps it. *)
LEMMA StreamSteps == ASSUME StreamInv, ReturnEnds, [Stream!Next]_(Stream!vars) PROVE StreamInv' /\ ReturnEnds'
<1>1. CASE UNCHANGED Stream!vars
  <2>1. /\ UNCHANGED <<outbox, chan, written>>
        /\ UNCHANGED <<provider, client, includeUsage, cumulative, said, upstream, prevText, usage>>
        /\ UNCHANGED <<scanner, ctx, handler, bridge, spoiled>>
    BY <1>1 DEF Stream!vars
  <2>2. StreamTyped /\ (ctx = "returned" => handler = "gone")
    BY DEF StreamInv, Closing
  <2>3. StreamTyped'
    <3>1. Stream!Bridged' = Stream!Bridged
      BY <2>1 DEF Stream!Bridged
    <3> QED  BY <2>1, <2>2, <3>1 DEF StreamTyped
  <2>4. StreamInv'
    BY <2>1, <2>2, <2>3, NothingMoves
  <2> QED  BY <2>1, <2>4 DEF ReturnEnds
<1>2. CASE Stream!Next
  <2>1. StreamInv'
    <3>1. "scanner" \in Stream!Goroutines
      BY DEF Stream!Goroutines
    <3> QED  BY <1>2, <3>1, ScanTextSteps, ScanFinishSteps, ScanEndSteps, GiveUpSteps, SendSteps, BridgeSteps,
                ForwardSteps, QuietSteps DEF Stream!Next
  <2>2. ReturnEnds'
    BY <1>2 DEF ReturnEnds, Stream!Next, Stream!ScanText, Stream!ScanFinish, Stream!ScanGarbage, Stream!ScanEnd,
                Stream!ScanCancelled, Stream!ScanRest, Stream!GiveUp, Stream!Send, Stream!Close, Stream!Bridge,
                Stream!Forward, Stream!Return, Stream!Disconnect, Stream!Idle
  <2> QED  BY <2>1, <2>2
<1> QED  BY <1>1, <1>2

(* A list begins every list it is the beginning of.                        *)
LEMMA BeginsWith ==
  ASSUME NEW s \in Seq(Letters), NEW u \in Seq(Letters)
  PROVE  Stream!IsPrefix(s, s \o u)
<1>1. PICK t : t = s \o u
  OBVIOUS
<1>2. t \in Seq(Letters) /\ Len(s) \in Nat /\ Len(s) <= Len(t) /\ \A i \in 1..Len(s) : t[i] = s[i] /\ s[i] \in Letters
  BY <1>1
<1>3. PICK x, y : x = SubSeq(s, 1, Len(s)) /\ y = SubSeq(t, 1, Len(s))
  OBVIOUS
<1>4. x \in Seq(Letters) /\ Len(x) = Len(s) /\ \A i \in 1..Len(s) : x[i] = s[i]
  BY <1>2, <1>3
<1>5. y \in Seq(Letters) /\ Len(y) = Len(s) /\ \A i \in 1..Len(s) : y[i] = t[i]
  BY <1>2, <1>3
<1>6. x = y
  BY <1>2, <1>4, <1>5, SeqEqual
<1> QED  BY <1>1, <1>2, <1>3, <1>6 DEF Stream!IsPrefix

(* What the client received is the text of what was written, which begins  *)
(* what was said, and is all of it when the end was written.               *)
LEMMA StreamInvIsEnough ==
  ASSUME StreamInv, ReturnEnds
  PROVE  Stream!EndedIsWhole /\ Stream!EndedIsFinished /\ Stream!EndedIsCounted
<1>1. StreamTyped /\ Closing /\ Told /\ Complete /\ TranslatesAll
  BY DEF StreamInv
<1>2. PICK w, t : w = written /\ t = Text(w)
  OBVIOUS
<1>3. w \in Seq(Events) /\ t \in Seq(Letters)
  BY <1>1, <1>2, TextLaws DEF StreamTyped
<1>4. Stream!Received = t
  BY <1>1, <1>2, <1>3, WrittenIsText, WrittenIsTranslated DEF Stream!Received, TranslatesAll
<1>5. Stream!Ended => Marked(w, Dones) /\ (client = "anthropic" => Marked(w, Finishes))
  <2>1. CASE client = "anthropic"
    BY <1>1, <1>2, <1>3, <2>1, WrittenIsTranslated DEF Stream!Ended, TranslatesAll
  <2>2. CASE client # "anthropic"
    <3> SUFFICES ASSUME Stream!Ended PROVE Marked(w, Dones)
      BY <2>2
    <3>1. PICK i \in DOMAIN w : w[i].kind = "done"
      BY <1>2, <2>2 DEF Stream!Ended
    <3>2. w[i] \in Events
      BY <1>3, <3>1
    <3> QED  BY <3>1, <3>2 DEF Marked, Dones
  <2> QED  BY <2>1, <2>2
<1>6. PICK Q : Q = Queues
  OBVIOUS
<1>7. Q \in [1..5 -> Seq(Events)] /\ Q[5] = w
  BY <1>1, <1>2, <1>6, QueuesType
<1>8. Marked(w, Dones) => Q[1] = <<>> /\ Q[2] = <<>> /\ Q[3] = <<>> /\ Q[4] = <<>>
  <2>1. /\ 5 \in 1..5 /\ 4 \in 1..5 /\ 3 \in 1..5 /\ 2 \in 1..5 /\ 1 \in 1..5 /\ 1 < 5 /\ 2 < 5 /\ 3 < 5 /\ 4 < 5
    OBVIOUS
  <2> QED  BY <1>1, <1>6, <1>7, <2>1 DEF Closing, DoneEnds
<1>9. Stream!EndedIsWhole
  <2> SUFFICES ASSUME ~Stream!Repeats
               PROVE  Stream!IsPrefix(t, said) /\ (Stream!Ended /\ ctx # "left" => t = said)
    BY <1>4 DEF Stream!EndedIsWhole
  <2>1. PICK rest \in Seq(Letters) : said = TextOfAll(Q) \o rest /\ (ctx = "live" => rest = <<>>)
    BY <1>1, <1>6 DEF Complete
  <2>2. PICK a, b, c, d : a = Text(Q[1]) /\ b = Text(Q[2]) /\ c = Text(Q[3]) /\ d = Text(Q[4])
    OBVIOUS
  <2>3. a \in Seq(Letters) /\ b \in Seq(Letters) /\ c \in Seq(Letters) /\ d \in Seq(Letters)
    <3>1. Q[1] \in Seq(Events) /\ Q[2] \in Seq(Events) /\ Q[3] \in Seq(Events) /\ Q[4] \in Seq(Events)
      BY <1>7
    <3> QED  BY <2>2, <3>1, TextLaws
  <2>4. TextOfAll(Q) = (((t \o d) \o c) \o b) \o a
    BY <1>2, <1>7, <2>2, Zenon DEF TextOfAll
  <2>5. PICK u : u = (((d \o c) \o b) \o a) \o rest
    OBVIOUS
  <2>6. u \in Seq(Letters) /\ said = t \o u
    <3>1. PICK x, y, z : x = d \o c /\ y = x \o b /\ z = y \o a
      OBVIOUS
    <3>2. x \in Seq(Letters) /\ y \in Seq(Letters) /\ z \in Seq(Letters) /\ u = z \o rest /\ u \in Seq(Letters)
      BY <2>1, <2>3, <2>5, <3>1
    <3>0. ASSUME NEW p \in Seq(Letters), NEW q \in Seq(Letters) PROVE (t \o p) \o q = t \o (p \o q)
      BY <1>3, <3>0, Regrouped, Zenon
    <3>3. (t \o d) \o c = t \o (d \o c)
      <4>1. d \in Seq(Letters) /\ c \in Seq(Letters)
        BY <2>3
      <4> QED  BY <3>0, <4>1, Zenon
    <3>4. (t \o x) \o b = t \o (x \o b)
      <4>1. x \in Seq(Letters) /\ b \in Seq(Letters)
        BY <2>3, <3>2
      <4> QED  BY <3>0, <4>1, Zenon
    <3>5. (t \o y) \o a = t \o (y \o a)
      <4>1. y \in Seq(Letters) /\ a \in Seq(Letters)
        BY <2>3, <3>2
      <4> QED  BY <3>0, <4>1, Zenon
    <3>6. (t \o z) \o rest = t \o (z \o rest)
      <4>1. z \in Seq(Letters) /\ rest \in Seq(Letters)
        BY <2>1, <3>2
      <4> QED  BY <3>0, <4>1, Zenon
    <3>7. t \o x = (t \o d) \o c
      BY <3>1, <3>3
    <3>8. t \o y = (t \o x) \o b
      BY <3>1, <3>4
    <3>9. t \o z = (t \o y) \o a
      BY <3>1, <3>5
    <3>10. TextOfAll(Q) = t \o z
      BY <2>4, <3>7, <3>8, <3>9
    <3> QED  BY <2>1, <3>2, <3>6, <3>10
  <2>7. Stream!IsPrefix(t, said)
    BY <1>3, <2>6, BeginsWith
  <2>8. ASSUME Stream!Ended, ctx # "left" PROVE t = said
    <3>1. CASE ctx = "returned"
      BY <1>1, <1>2, <1>5, <2>8, <3>1 DEF Complete
    <3>2. CASE ctx = "live"
      <4>1. a = <<>> /\ b = <<>> /\ c = <<>> /\ d = <<>> /\ rest = <<>>
        BY <1>5, <1>8, <2>1, <2>2, <2>8, <3>2, TextLaws
      <4>2. <<>> \o <<>> = <<>> /\ t \o <<>> = t
        BY <1>3, ConcatEmptySeq
      <4> QED  BY <2>5, <2>6, <4>1, <4>2
    <3>3. ctx \in {"live", "left", "returned"}
      BY <1>1 DEF StreamTyped
    <3> QED  BY <2>8, <3>1, <3>2, <3>3
  <2> QED  BY <2>7, <2>8
<1>10. Stream!EndedIsFinished
  <2>1. 5 \in 1..5
    OBVIOUS
  <2>2. \A m : Marked(w, m) => Anywhere(Q, m)
    BY <1>7, <2>1 DEF Anywhere
  <2>3. /\ Anywhere(Q, Dones) => (provider = "openai" => upstream = "finished")
        /\ Anywhere(Q, Finishes) => upstream = "finished"
    BY <1>1, <1>6 DEF Closing
  <2> QED  BY <1>5, <2>2, <2>3 DEF Stream!EndedIsFinished
<1>11. Stream!EndedIsCounted
  <2>1. handler = "gone" /\ ctx # "left" => ctx = "returned"
    BY <1>1 DEF ReturnEnds, StreamTyped
  <2> QED  BY <1>1, <1>2, <1>5, <2>1 DEF Stream!EndedIsCounted, Told, Tells
<1> QED  BY <1>9, <1>10, <1>11

(* A client that is shown the end of its answer has all of it, for every   *)
(* alphabet, length of answer and capacity of the channels: what it        *)
(* received begins what the model said and, unless it left, is all of it;  *)
(* OpenAI's [DONE] and message_stop are not said of an answer that was     *)
(* cut, and the tokens of a finished one whose stream tells of them are    *)
(* counted (chat.go, the adapters' stream.go, responses_bridge.go): the    *)
(* property of the run Routing.                                            *)
THEOREM AnswersAreWhole == MCSpec => []EndedIsWhole
<1> DEFINE I == part = "stream" => StreamInv /\ ReturnEnds
<1>1. MCInit => I
  <2>1. MCInit /\ part = "stream" => Stream!Init
    BY DEF MCInit
  <2> QED  BY <2>1, StreamBegins
<1>2. I /\ [MCNext]_MCVars => I'
  <2> SUFFICES ASSUME part = "stream" => StreamInv /\ ReturnEnds, [MCNext]_MCVars, part' = "stream"
               PROVE  StreamInv' /\ ReturnEnds'
    OBVIOUS
  <2>1. part' = part
    BY DEF MCNext, MCVars, OrderStep, RaceStep, LoneStep, StreamStep, KeyStep, RegisterStep, Rest
  <2>2. part = "stream" => [Stream!Next]_(Stream!vars)
    BY DEF MCNext, MCVars, OrderStep, RaceStep, LoneStep, StreamStep, KeyStep, RegisterStep, Rest,
           Stream!vars, streamVars
  <2> QED  BY <2>1, <2>2, StreamSteps
<1>3. I => EndedIsWhole
  BY StreamInvIsEnough DEF EndedIsWhole
<1> QED  BY <1>1, <1>2, <1>3, PTL DEF MCSpec

----------------------------------------------------------------------------
(* RouterOrder.  Counting who comes before each deployment gives it a      *)
(* place; equals are next to each other, and each group is rotated within  *)
(* its places, so that every place is taken once and ranks stay in order.  *)
(* An insertion passes only those that are slower, so that whoever stands  *)
(* behind another is slower by no more than the jitter makes up for.       *)

(* R is a strict total order of D.                                         *)
Ranks(R, D) ==
  /\ \A a \in D : <<a, a>> \notin R
  /\ \A a, b \in D : a # b => <<a, b>> \in R \/ <<b, a>> \in R
  /\ \A a, b, c \in D : <<a, b>> \in R /\ <<b, c>> \in R => <<a, c>> \in R

(* A place is the number of those before.                                  *)
PlacesBy(p, R, D) == p = [d \in D |-> Cardinality({e \in D : <<e, d>> \in R})]

(* The places of D are 0 to n - 1, each taken once and in order.           *)
Lines(p, D, n) ==
  /\ p \in [D -> 0..(n - 1)]
  /\ \A a, b \in D : p[a] = p[b] => a = b
  /\ \A k \in 0..(n - 1) : \E d \in D : p[d] = k

(* An injection of n things into n places fills them.                      *)
LEMMA Filled ==
  ASSUME NEW D, IsFiniteSet(D), NEW n \in Nat, Cardinality(D) = n,
         NEW p \in [D -> 0..(n - 1)], \A a, b \in D : p[a] = p[b] => a = b
  PROVE  Lines(p, D, n)
<1>1. p \in Injection(D, 0..(n - 1))
  BY DEF Injection, IsInjective
<1>2. IsFiniteSet(0..(n - 1)) /\ Cardinality(0..(n - 1)) = n
  BY FS_Interval
<1>3. p \in Surjection(D, 0..(n - 1))
  BY <1>1, <1>2, FS_Injection
<1> QED  BY <1>3 DEF Surjection, Lines

(* Counting those before gives the places of a total order.                *)
LEMMA PlacesLineUp ==
  ASSUME NEW D, IsFiniteSet(D), NEW n \in Nat, Cardinality(D) = n,
         NEW R, Ranks(R, D), NEW p, PlacesBy(p, R, D)
  PROVE  /\ Lines(p, D, n)
         /\ \A a, b \in D : <<a, b>> \in R <=> p[a] < p[b]
<1> DEFINE Prior(d) == {e \in D : <<e, d>> \in R}
<1>1. \A d \in D : p[d] = Cardinality(Prior(d))
  BY DEF PlacesBy
<1>2. ASSUME NEW d \in D PROVE IsFiniteSet(Prior(d)) /\ Cardinality(Prior(d)) \in 0..(n - 1)
  <2>1. Prior(d) \in SUBSET (D \ {d})
    BY DEF Ranks
  <2>2. IsFiniteSet(D \ {d}) /\ Cardinality(D \ {d}) = n - 1
    BY FS_RemoveElement
  <2>3. IsFiniteSet(Prior(d)) /\ Cardinality(Prior(d)) <= n - 1
    <3>1. PICK X, Y : X = Prior(d) /\ Y = D \ {d}
      OBVIOUS
    <3>2. IsFiniteSet(X) /\ Cardinality(X) <= Cardinality(Y)
      BY <2>1, <2>2, <3>1, FS_Subset, Zenon
    <3> QED  BY <2>2, <3>1, <3>2, Zenon
  <2>4. Cardinality(Prior(d)) \in Nat
    BY <2>3, FS_CardinalityType
  <2> QED  BY <2>3, <2>4
<1>3. ASSUME NEW a \in D, NEW b \in D, <<a, b>> \in R PROVE p[a] < p[b]
  <2>1. Prior(a) \in SUBSET Prior(b) /\ a \in Prior(b) /\ a \notin Prior(a)
    BY <1>3 DEF Ranks
  <2>2. Cardinality(Prior(a)) <= Cardinality(Prior(b)) /\ Cardinality(Prior(a)) # Cardinality(Prior(b))
    BY <1>2, <2>1, FS_Subset
  <2>3. Cardinality(Prior(a)) \in Nat /\ Cardinality(Prior(b)) \in Nat
    BY <1>2
  <2> HIDE DEF Prior
  <2> QED  BY <1>1, <2>2, <2>3
<1>4. p \in [D -> 0..(n - 1)]
  BY <1>2 DEF PlacesBy
<1> HIDE DEF Prior
<1>5. ASSUME NEW a \in D, NEW b \in D PROVE <<a, b>> \in R <=> p[a] < p[b]
  <2>1. p[a] \in Int /\ p[b] \in Int
    BY <1>4
  <2>2. a = b \/ <<a, b>> \in R \/ <<b, a>> \in R
    BY DEF Ranks
  <2> QED  BY <1>3, <2>1, <2>2
<1>6. ASSUME NEW a \in D, NEW b \in D, p[a] = p[b] PROVE a = b
  <2>1. p[a] \in Int /\ p[b] \in Int
    BY <1>4
  <2>2. <<a, b>> \notin R /\ <<b, a>> \notin R
    BY <1>5, <1>6, <2>1
  <2> QED  BY <2>2 DEF Ranks
<1>7. Lines(p, D, n)
  BY <1>4, <1>6, Filled
<1> QED  BY <1>5, <1>7

(* G is a block of D: who is between two of G is of G.                     *)
Block(p, G, D) == \A a, c \in G, b \in D : p[a] < p[b] /\ p[b] < p[c] => b \in G

Foremost(p, G) == Min({p[e] : e \in G})

(* The places of a block follow each other.                                *)
LEMMA BlockPlaces ==
  ASSUME NEW D, IsFiniteSet(D), NEW n \in Nat, NEW p, Lines(p, D, n),
         NEW G \in SUBSET D, G # {}, Block(p, G, D)
  PROVE  /\ Foremost(p, G) \in 0..(n - 1) /\ IsFiniteSet(G) /\ Cardinality(G) \in Nat \ {0}
         /\ Foremost(p, G) + Cardinality(G) <= n
         /\ \A d \in D : d \in G <=> p[d] \in Foremost(p, G)..(Foremost(p, G) + Cardinality(G) - 1)
<1> DEFINE P == {p[e] : e \in G}
<1>1. P \in SUBSET (0..(n - 1)) /\ P # {}
  BY DEF Lines
<1>2. PICK s \in P : \A y \in P : s <= y
  <2>1. P \subseteq Nat
    BY <1>1
  <2> HIDE DEF P
  <2> QED  BY <1>1, <2>1, LeastElement
<1>3. Foremost(p, G) = s
  <2>1. Foremost(p, G) = CHOOSE x \in P : \A y \in P : x <= y
    BY DEF Foremost, Min
  <2> HIDE DEF P
  <2>a. \E x \in P : \A y \in P : x <= y
    BY <1>2
  <2>b. (CHOOSE x \in P : \A y \in P : x <= y) \in P
          /\ \A y \in P : (CHOOSE x \in P : \A z \in P : x <= z) <= y
    BY <2>a, Zenon
  <2>2. Foremost(p, G) \in P /\ \A y \in P : Foremost(p, G) <= y
    BY <2>1, <2>b, Zenon
  <2>3. Foremost(p, G) <= s /\ s <= Foremost(p, G)
    BY <1>2, <2>2
  <2>4. Foremost(p, G) \in 0..(n - 1) /\ s \in 0..(n - 1)
    BY <1>1, <2>2, Zenon
  <2> QED  BY <2>3, <2>4
<1>4. PICK t \in P : \A y \in P : t >= y
  <2>1. n - 1 \in Nat
    BY <1>1
  <2> HIDE DEF P
  <2> QED  BY <1>1, <2>1, GreatestElement
<1>5. P = s..t
  <2>1. ASSUME NEW k \in s..t PROVE k \in P
    <3>1. PICK a, c \in G : p[a] = s /\ p[c] = t
      BY <1>2, <1>4
    <3>2. s \in 0..(n - 1) /\ t \in 0..(n - 1)
      BY <1>1, <1>2, <1>4
    <3>3. k \in 0..(n - 1)
      BY <3>2
    <3>4. PICK b \in D : p[b] = k
      BY <3>3 DEF Lines
    <3>5. k = s \/ k = t \/ (s < k /\ k < t)
      BY <3>2
    <3>6. b \in G \/ k \in {s, t}
      BY <3>1, <3>4, <3>5 DEF Block
    <3> QED  BY <3>1, <3>4, <3>6
  <2>2. ASSUME NEW k \in P PROVE k \in s..t
    BY <1>1, <1>2, <1>4, <2>2
  <2> QED  BY <2>1, <2>2
<1>6. s \in 0..(n - 1) /\ t \in 0..(n - 1) /\ s <= t
  BY <1>1, <1>2, <1>4
<1>7. IsFiniteSet(G) /\ Cardinality(G) = t - s + 1
  <2>1. [e \in G |-> p[e]] \in Bijection(G, P)
    BY DEF Bijection, Injection, Surjection, IsInjective, Lines
  <2>2. IsFiniteSet(G)
    BY FS_Subset
  <2>3. Cardinality(P) = Cardinality(G)
    BY <2>1, <2>2, FS_Bijection DEF ExistsBijection
  <2>4. Cardinality(s..t) = t - s + 1
    BY <1>6, FS_Interval
  <2> QED  BY <1>5, <2>2, <2>3, <2>4
<1>8. \A d \in D : d \in G <=> p[d] \in s..t
  BY <1>5 DEF Lines
<1> HIDE DEF P
<1> QED  BY <1>3, <1>6, <1>7, <1>8

(* No two numbers less than n apart have the same residue modulo n.        *)
LEMMA ResiduesDiffer ==
  ASSUME NEW n \in Nat \ {0}, NEW x \in Int, NEW y \in Int, x - y < n, y - x < n, x % n = y % n
  PROVE  x = y
<1>1. x = (x \div n) * n + (x % n) /\ y = (y \div n) * n + (y % n)
  OBVIOUS
<1>2. PICK a, b, m \in Int : a = x \div n /\ b = y \div n /\ m = x % n
  OBVIOUS
<1>3. x = a * n + m /\ y = b * n + m
  BY <1>1, <1>2
<1>4. (a > b => a * n >= b * n + n) /\ (b > a => b * n >= a * n + n)
  BY <1>2
<1>5. a * n \in Int /\ b * n \in Int
  BY <1>2
<1>6. ~(a > b) /\ ~(b > a)
  BY <1>2, <1>3, <1>4, <1>5
<1>7. a = b
  BY <1>2, <1>6
<1> QED  BY <1>3, <1>7

(* C gives the block of each element of D.                                 *)
Blocks(C, p, D) ==
  /\ C \in [D -> SUBSET D]
  /\ \A d \in D : d \in C[d] /\ Block(p, C[d], D) /\ \A e \in C[d] : C[e] = C[d]

(* Every block is rotated in its place, by a turn of its own.              *)
Turned(q, p, C, t, D) ==
  /\ t \in [D -> Int] /\ \A d \in D : \A e \in C[d] : t[e] = t[d]
  /\ q = [d \in D |-> Foremost(p, C[d]) + ((p[d] - Foremost(p, C[d]) - t[d]) % Cardinality(C[d]))]

(* Then the places are still taken once each, and those of different       *)
(* blocks in the same order.                                               *)
LEMMA TurnedLineUp ==
  ASSUME NEW D, IsFiniteSet(D), NEW n \in Nat, Cardinality(D) = n,
         NEW p, Lines(p, D, n), NEW C, Blocks(C, p, D), NEW t, NEW q, Turned(q, p, C, t, D)
  PROVE  /\ Lines(q, D, n)
         /\ \A a, b \in D : p[a] < p[b] /\ b \notin C[a] => q[a] < q[b]
<1>1. PICK s, z : s = [d \in D |-> Foremost(p, C[d])] /\ z = [d \in D |-> Cardinality(C[d])]
  OBVIOUS
<1>2. ASSUME NEW d \in D
      PROVE  /\ s[d] \in 0..(n - 1) /\ z[d] \in Nat \ {0} /\ s[d] + z[d] <= n
             /\ \A e \in D : e \in C[d] <=> p[e] \in s[d]..(s[d] + z[d] - 1)
  <2>1. C[d] \in SUBSET D /\ C[d] # {} /\ Block(p, C[d], D)
    BY DEF Blocks
  <2>2. s[d] = Foremost(p, C[d]) /\ z[d] = Cardinality(C[d])
    BY <1>1
  <2> QED  BY <2>1, <2>2, BlockPlaces
<1>3. \A d \in D : p[d] \in 0..(n - 1) /\ p[d] \in s[d]..(s[d] + z[d] - 1)
  BY <1>2 DEF Lines, Blocks
<1>4. ASSUME NEW d \in D
      PROVE  /\ q[d] = s[d] + ((p[d] - s[d] - t[d]) % z[d])
             /\ q[d] \in s[d]..(s[d] + z[d] - 1)
  <2>1. q[d] = s[d] + ((p[d] - s[d] - t[d]) % z[d])
    BY <1>1 DEF Turned
  <2>2. PICK x \in Int : x = p[d] - s[d] - t[d]
    BY <1>2, <1>3 DEF Turned
  <2>3. x % z[d] \in 0..(z[d] - 1)
    BY <1>2
  <2>4. s[d] \in Int /\ z[d] \in Int
    BY <1>2
  <2> QED  BY <2>1, <2>2, <2>3, <2>4
<1>5. ASSUME NEW a \in D, NEW b \in D, p[a] < p[b], b \notin C[a] PROVE q[a] < q[b]
  <2>1. PICK k \in Int : k = s[a] + z[a] - 1
    BY <1>2
  <2>2. p[b] > k /\ s[a] <= p[a] /\ p[a] <= k /\ k \in 0..(n - 1)
    <3>1. p[b] \notin s[a]..k
      BY <1>2, <1>5, <2>1
    <3>2. /\ p[a] \in s[a]..k /\ s[a] \in 0..(n - 1) /\ s[a] + z[a] <= n
          /\ p[a] \in Int /\ p[b] \in Int /\ z[a] \in Nat
      BY <1>2, <1>3, <2>1
    <3> QED  BY <1>5, <2>1, <3>1, <3>2
  <2>3. s[b] > k
    <3>1. SUFFICES ASSUME s[b] <= k PROVE FALSE
      BY <1>2, <2>1
    <3>2. PICK e \in D : p[e] = k
      BY <2>2 DEF Lines
    <3>3. e \in C[a]
      BY <1>2, <1>3, <2>1, <2>2, <3>2
    <3>4. e \in C[b]
      <4>1. p[b] \in s[b]..(s[b] + z[b] - 1) /\ s[b] \in Int /\ z[b] \in Int
        BY <1>2, <1>3
      <4>2. k \in s[b]..(s[b] + z[b] - 1)
        BY <2>1, <2>2, <3>1, <4>1
      <4> QED  BY <1>2, <3>2, <4>2
    <3>5. C[a] = C[e] /\ C[b] = C[e] /\ b \in C[b]
      BY <3>3, <3>4 DEF Blocks
    <3> QED  BY <1>5, <3>5
  <2>4. q[a] <= k
    BY <1>2, <1>4, <2>1
  <2>5. q[b] >= s[b] /\ q[a] \in Int /\ q[b] \in Int /\ s[b] \in Int
    BY <1>2, <1>4
  <2> QED  BY <2>1, <2>3, <2>4, <2>5
<1>6. q \in [D -> 0..(n - 1)]
  <2>1. \A d \in D : q[d] \in 0..(n - 1)
    BY <1>2, <1>4
  <2> QED  BY <2>1 DEF Turned
<1>7. ASSUME NEW a \in D, NEW b \in D, q[a] = q[b] PROVE a = b
  <2>0. p[a] \in Int /\ p[b] \in Int /\ q[a] \in Int /\ q[b] \in Int
    BY <1>3, <1>6
  <2>1. CASE C[a] = C[b]
    <3>1. s[a] = s[b] /\ z[a] = z[b] /\ t[a] = t[b]
      BY <1>1, <2>1 DEF Turned, Blocks
    <3>2. PICK x, y \in Int : x = p[a] - s[a] - t[a] /\ y = p[b] - s[b] - t[b]
      BY <1>2, <2>0 DEF Turned
    <3>3. x % z[a] = y % z[a]
      <4>1. x % z[a] \in Int /\ y % z[a] \in Int /\ s[a] \in Int
        BY <1>2
      <4>2. q[a] = s[a] + (x % z[a]) /\ q[b] = s[a] + (y % z[a])
        BY <1>4, <3>1, <3>2
      <4>3. PICK k, l, m \in Int : k = s[a] /\ l = x % z[a] /\ m = y % z[a]
        BY <4>1
      <4>4. k + l = k + m
        BY <1>7, <4>2, <4>3
      <4>5. l = m
        BY <4>4
      <4> QED  BY <4>3, <4>5, Zenon
    <3>4. x - y < z[a] /\ y - x < z[a]
      <4>1. p[a] \in s[a]..(s[a] + z[a] - 1) /\ p[b] \in s[a]..(s[a] + z[a] - 1)
        BY <1>3, <3>1
      <4>2. x - y = p[a] - p[b]
        BY <1>2, <2>0, <3>1, <3>2 DEF Turned
      <4> QED  BY <1>2, <2>0, <4>1, <4>2
    <3>5. x = y
      BY <1>2, <3>3, <3>4, ResiduesDiffer
    <3>6. p[a] = p[b]
      BY <1>2, <2>0, <3>1, <3>2, <3>5 DEF Turned
    <3> QED  BY <3>6 DEF Lines
  <2>2. CASE C[a] # C[b]
    <3>1. b \notin C[a] /\ a \notin C[b]
      BY <2>2 DEF Blocks
    <3>2. ~(p[a] < p[b]) /\ ~(p[b] < p[a])
      BY <1>5, <1>7, <2>0, <3>1
    <3>3. p[a] = p[b]
      BY <2>0, <3>2
    <3> QED  BY <3>3 DEF Lines
  <2> QED  BY <2>1, <2>2
<1>8. Lines(q, D, n)
  BY <1>6, <1>7, Filled
<1> QED  BY <1>5, <1>8

(* A strict order B of the deployments that tells them apart by score only; *)
(* among equals the first of the list goes first.                          *)
Orders(B) ==
  /\ \A a, b, c \in Deps : <<a, b>> \in B /\ <<b, c>> \in B => <<a, c>> \in B
  /\ \A a, b \in Deps : /\ <<a, b>> \in B => <<b, a>> \notin B
                        /\ score[a] = score[b] <=> <<a, b>> \notin B /\ <<b, a>> \notin B

Ahead(B) == {x \in Deps \X Deps : x \in B \/ (<<x[2], x[1]>> \notin B /\ x[1] < x[2])}

Tied(d) == {e \in Deps : score[e] = score[d]}

(* Deployments in W are rotated with those of their score.                 *)
Turning(d, W) == d \in W /\ Cardinality(Tied(d)) > 1

(* What a sort and the rotations make of the places.                       *)
SortedAndTurned(q, p, W, t) ==
  /\ t \in [Deps -> Int] /\ \A d, e \in Deps : score[e] = score[d] => t[e] = t[d]
  /\ q = [d \in Deps |->
            IF Turning(d, W)
            THEN Foremost(p, Tied(d)) + ((p[d] - Foremost(p, Tied(d)) - t[d]) % Cardinality(Tied(d)))
            ELSE p[d]]

(* The deployments are as many as there are.                               *)
LEMMA DepsCount == IsFiniteSet(Deps) /\ Cardinality(Deps) = N /\ N \in Nat
BY NAssumption, FS_Interval DEF Deps

(* A block of one.                                                         *)
LEMMA OneAlone ==
  ASSUME NEW D, NEW p, \A e \in D : p[e] \in Int, NEW d \in D
  PROVE  Foremost(p, {d}) = p[d] /\ Cardinality({d}) = 1 /\ Block(p, {d}, D)
<1>1. {p[e] : e \in {d}} = {p[d]}
  OBVIOUS
<1>2. Foremost(p, {d}) = p[d]
  <2>1. Foremost(p, {d}) = CHOOSE x \in {p[d]} : \A y \in {p[d]} : x <= y
    BY <1>1, Zenon DEF Foremost, Min
  <2>2. \A x \in {p[d]} : \A y \in {p[d]} : x <= y
    OBVIOUS
  <2> QED  BY <2>1, <2>2
<1>3. Cardinality({d}) = 1
  BY FS_Singleton
<1>4. Block(p, {d}, D)
  BY DEF Block
<1> QED  BY <1>2, <1>3, <1>4

(* After the sort and the rotations every deployment has a place, and who  *)
(* is better comes first.                                                  *)
LEMMA SortedLineUp ==
  ASSUME NEW B, Orders(B), NEW W, \A d \in W, e \in Deps : score[e] = score[d] => e \in W,
         NEW p, PlacesBy(p, Ahead(B), Deps), NEW t, NEW q, SortedAndTurned(q, p, W, t)
  PROVE  /\ Lines(q, Deps, N)
         /\ \A a, b \in Deps : <<a, b>> \in B => q[a] < q[b]
<1>0. Deps \subseteq Int
  BY DEF Deps
<1>1. \A a, b \in Deps : <<a, b>> \in Ahead(B) <=> <<a, b>> \in B \/ (<<b, a>> \notin B /\ a < b)
  BY DEF Ahead
<1>2. Ranks(Ahead(B), Deps)
  <2>1. ASSUME NEW a \in Deps PROVE <<a, a>> \notin Ahead(B)
    <3>1. ~(a < a)
      BY <1>0
    <3> QED  BY <1>1, <3>1 DEF Orders
  <2>2. ASSUME NEW a \in Deps, NEW b \in Deps, a # b
        PROVE  <<a, b>> \in Ahead(B) \/ <<b, a>> \in Ahead(B)
    <3>1. a < b \/ b < a
      BY <1>0, <2>2
    <3> QED  BY <1>1, <3>1
  <2>3. ASSUME NEW a \in Deps, NEW b \in Deps, NEW c \in Deps,
               <<a, b>> \in Ahead(B), <<b, c>> \in Ahead(B)
        PROVE  <<a, c>> \in Ahead(B)
    <3>1. CASE <<a, b>> \in B
      <4>1. CASE <<b, c>> \in B
        BY <1>1, <3>1, <4>1 DEF Orders
      <4>2. CASE <<b, c>> \notin B
        <5>1. score[b] = score[c]
          BY <1>1, <2>3, <4>2 DEF Orders
        <5>2. <<a, c>> \in B
          <6>1. score[a] # score[c]
            BY <3>1, <5>1 DEF Orders
          <6>2. <<c, a>> \notin B
            <7>1. <<c, b>> \notin B
              BY <5>1 DEF Orders
            <7> QED  BY <3>1, <7>1 DEF Orders
          <6> QED  BY <6>1, <6>2 DEF Orders
        <5> QED  BY <1>1, <5>2
      <4> QED  BY <4>1, <4>2
    <3>2. CASE <<a, b>> \notin B
      <4>0. score[a] = score[b] /\ a < b
        BY <1>1, <2>3, <3>2 DEF Orders
      <4>1. CASE <<b, c>> \in B
        <5>1. score[a] # score[c]
          BY <4>0, <4>1 DEF Orders
        <5>2. <<c, a>> \notin B
          BY <3>2, <4>0, <4>1 DEF Orders
        <5>3. <<a, c>> \in B
          BY <5>1, <5>2 DEF Orders
        <5> QED  BY <1>1, <5>3
      <4>2. CASE <<b, c>> \notin B
        <5>1. score[b] = score[c] /\ b < c
          BY <1>1, <2>3, <4>2 DEF Orders
        <5>2. score[a] = score[c] /\ a < c
          BY <1>0, <4>0, <5>1
        <5> QED  BY <1>1, <5>2 DEF Orders
      <4> QED  BY <4>1, <4>2
    <3> QED  BY <3>1, <3>2
  <2> QED  BY <2>1, <2>2, <2>3 DEF Ranks
<1>3. /\ Lines(p, Deps, N)
      /\ \A a, b \in Deps : <<a, b>> \in Ahead(B) <=> p[a] < p[b]
  BY <1>2, DepsCount, PlacesLineUp
<1>4. \A d \in Deps : p[d] \in Int
  BY <1>3, DepsCount DEF Lines
<1>5. PICK C, u : /\ C = [d \in Deps |-> IF Turning(d, W) THEN Tied(d) ELSE {d}]
                  /\ u = [d \in Deps |-> IF Turning(d, W) THEN t[d] ELSE 0]
  OBVIOUS
<1>6. \A d, e \in Deps : score[e] = score[d] => Tied(e) = Tied(d) /\ (Turning(e, W) <=> Turning(d, W))
  BY DEF Tied, Turning
<1>7. Blocks(C, p, Deps)
  <2>1. ASSUME NEW d \in Deps
        PROVE  /\ C[d] \in SUBSET Deps /\ d \in C[d] /\ Block(p, C[d], Deps)
               /\ \A e \in C[d] : C[e] = C[d]
    <3>1. CASE Turning(d, W)
      <4>1. C[d] = Tied(d)
        BY <1>5, <3>1
      <4>2. Block(p, Tied(d), Deps)
        <5> SUFFICES ASSUME NEW a \in Tied(d), NEW c \in Tied(d), NEW b \in Deps,
                            p[a] < p[b], p[b] < p[c], b \notin Tied(d)
                     PROVE  FALSE
          BY DEF Block
        <5>1. <<a, b>> \in Ahead(B) /\ <<b, c>> \in Ahead(B) /\ a \in Deps /\ c \in Deps
          BY <1>3 DEF Tied
        <5>2. score[a] = score[c] /\ score[a] # score[b] /\ score[b] # score[c]
          BY DEF Tied
        <5>3. <<a, b>> \in B /\ <<b, c>> \in B
          BY <1>1, <5>1, <5>2 DEF Orders
        <5>4. <<a, c>> \in B
          BY <5>1, <5>3 DEF Orders
        <5> QED  BY <5>1, <5>2, <5>4 DEF Orders
      <4>3. \A e \in Tied(d) : C[e] = C[d]
        BY <1>5, <1>6, <3>1 DEF Tied
      <4> QED  BY <4>1, <4>2, <4>3 DEF Tied
    <3>2. CASE ~Turning(d, W)
      <4>1. C[d] = {d}
        BY <1>5, <3>2
      <4> QED  BY <1>4, <4>1, OneAlone
    <3> QED  BY <3>1, <3>2
  <2> QED  BY <1>5, <2>1 DEF Blocks
<1>8. Turned(q, p, C, u, Deps)
  <2>1. u \in [Deps -> Int]
    BY <1>5 DEF SortedAndTurned
  <2>2. ASSUME NEW d \in Deps, NEW e \in C[d] PROVE u[e] = u[d]
    <3>1. CASE Turning(d, W)
      <4>1. e \in Deps /\ score[e] = score[d]
        BY <1>5, <3>1 DEF Tied
      <4> QED  BY <1>5, <1>6, <3>1, <4>1 DEF SortedAndTurned
    <3>2. CASE ~Turning(d, W)
      BY <1>5, <3>2
    <3> QED  BY <3>1, <3>2
  <2>3. ASSUME NEW d \in Deps
        PROVE  q[d] = Foremost(p, C[d]) + ((p[d] - Foremost(p, C[d]) - u[d]) % Cardinality(C[d]))
    <3>1. CASE Turning(d, W)
      <4>1. C[d] = Tied(d) /\ u[d] = t[d]
        BY <1>5, <3>1
      <4> QED  BY <3>1, <4>1 DEF SortedAndTurned
    <3>2. CASE ~Turning(d, W)
      <4>1. C[d] = {d} /\ u[d] = 0
        BY <1>5, <3>2
      <4>2. Foremost(p, C[d]) = p[d] /\ Cardinality(C[d]) = 1
        BY <1>4, <4>1, OneAlone
      <4>3. q[d] = p[d]
        BY <3>2 DEF SortedAndTurned
      <4>4. p[d] + ((p[d] - p[d] - 0) % 1) = p[d]
        BY <1>4
      <4> QED  BY <4>1, <4>2, <4>3, <4>4
    <3> QED  BY <3>1, <3>2
  <2>4. q = [d \in Deps |-> Foremost(p, C[d]) + ((p[d] - Foremost(p, C[d]) - u[d]) % Cardinality(C[d]))]
    BY <2>3 DEF SortedAndTurned
  <2> QED  BY <2>1, <2>2, <2>4 DEF Turned
<1>9. /\ Lines(q, Deps, N)
      /\ \A a, b \in Deps : p[a] < p[b] /\ b \notin C[a] => q[a] < q[b]
  BY <1>3, <1>7, <1>8, DepsCount, TurnedLineUp
<1>10. ASSUME NEW a \in Deps, NEW b \in Deps, <<a, b>> \in B PROVE q[a] < q[b]
  <2>1. p[a] < p[b] /\ a # b /\ score[a] # score[b]
    BY <1>1, <1>3, <1>10 DEF Orders
  <2>2. b \notin C[a]
    BY <1>5, <2>1 DEF Tied
  <2> QED  BY <1>9, <2>1, <2>2
<1> QED  BY <1>9, <1>10

(* An order tries every deployment.                                        *)
Whole(o) == o \in [Deps -> Deps] /\ \A d \in Deps : \E i \in Deps : o[i] = d

(* Then it tries each once.                                                *)
LEMMA WholeHasAll ==
  ASSUME NEW o, Whole(o)
  PROVE  Len(o) = N /\ ToSet(o) = Deps /\ DOMAIN o = Deps
<1>0. o = [i \in 1..N |-> o[i]] /\ N \in Nat /\ \A i \in 1..N : o[i] \in Deps
  BY NAssumption DEF Whole, Deps
<1>1. DOMAIN o = 1..N /\ o \in Seq(Deps) /\ Len(o) = N
  BY <1>0
<1>2. ToSet(o) = Deps
  BY <1>1 DEF Whole, ToSet, Deps
<1> QED  BY <1>1, <1>2 DEF Deps

(* A list by places.                                                       *)
ListedBy(o, q) == o = [i \in Deps |-> CHOOSE d \in Deps : q[d] = i - 1]

(* Where every place is taken once, the list has everyone once.             *)
LEMMA ListedByPlaces ==
  ASSUME NEW q, Lines(q, Deps, N), NEW o, ListedBy(o, q)
  PROVE  Whole(o) /\ \A i \in Deps : q[o[i]] = i - 1
<1>0. \A i \in Deps : i - 1 \in 0..(N - 1) /\ i \in Int
  BY NAssumption DEF Deps
<1>1. ASSUME NEW i \in Deps PROVE o[i] \in Deps /\ q[o[i]] = i - 1
  <2>1. \E d \in Deps : q[d] = i - 1
    BY <1>0 DEF Lines
  <2>2. o[i] = CHOOSE d \in Deps : q[d] = i - 1
    BY DEF ListedBy
  <2> QED  BY <2>1, <2>2
<1>2. ASSUME NEW d \in Deps PROVE \E i \in Deps : o[i] = d
  <2>1. q[d] \in 0..(N - 1)
    BY DEF Lines
  <2>2. q[d] + 1 \in Deps /\ (q[d] + 1) - 1 = q[d]
    BY <2>1, NAssumption DEF Deps
  <2>3. o[q[d] + 1] \in Deps /\ q[o[q[d] + 1]] = q[d]
    BY <1>1, <2>2
  <2>4. o[q[d] + 1] = d
    BY <2>3 DEF Lines
  <2> QED  BY <2>2, <2>4
<1>3. Whole(o)
  BY <1>1, <1>2 DEF Whole, ListedBy
<1> QED  BY <1>1, <1>3

(* Who is better in B is tried earlier.                                    *)
Keeps(o, B) == \A i, j \in Deps : <<o[i], o[j]>> \in B => i < j

(* The numbers a counter can have.                                         *)
LEMMA CounterWraps ==
  ASSUME counter \in 0..(CounterMod - 1), NEW n \in Nat
  PROVE  (counter + n) % CounterMod \in 0..(CounterMod - 1)
BY CounterModAssumption

(* What a sort and its rotations return.                                   *)
LEMMA SortIsFair ==
  ASSUME NEW B, Orders(B), NEW W, \A d \in W, e \in Deps : score[e] = score[d] => e \in W,
         NEW p, PlacesBy(p, Ahead(B), Deps), NEW t, NEW q, SortedAndTurned(q, p, W, t),
         NEW o, ListedBy(o, q)
  PROVE  Whole(o) /\ Keeps(o, B)
<1>1. Lines(q, Deps, N) /\ \A a, b \in Deps : <<a, b>> \in B => q[a] < q[b]
  BY SortedLineUp
<1>2. Whole(o) /\ \A i \in Deps : q[o[i]] = i - 1
  BY <1>1, ListedByPlaces
<1>3. ASSUME NEW i \in Deps, NEW j \in Deps, <<o[i], o[j]>> \in B PROVE i < j
  <2>1. i - 1 < j - 1
    BY <1>1, <1>2, <1>3 DEF Whole
  <2>2. i \in Int /\ j \in Int
    BY DEF Deps
  <2> QED  BY <2>1, <2>2
<1> QED  BY <1>2, <1>3 DEF Keeps

(* The places at which groups that rotate begin are finitely many.         *)
LEMMA StartsAreFinite ==
  ASSUME NEW f, NEW S \in SUBSET Deps, NEW T \in SUBSET {f[d] : d \in S}
  PROVE  Cardinality(T) \in Nat
<1>1. IsFiniteSet(S)
  BY DepsCount, FS_Subset
<1>2. PICK g : g = [d \in S |-> f[d]]
  OBVIOUS
<1>3. g \in Surjection(S, {f[d] : d \in S})
  BY <1>2 DEF Surjection
<1>4. IsFiniteSet({f[d] : d \in S})
  BY <1>1, <1>3, FS_Surjection
<1>5. IsFiniteSet(T)
  BY <1>4, FS_Subset
<1> QED  BY <1>5, FS_CardinalityType

(* What the strategy priority sorts by.                                    *)
ByPriority == {x \in Deps \X Deps : score[x[1]] < score[x[2]]}

(* The strategy priority tries everyone, the lower numbers first.          *)
LEMMA PrioritySorts ==
  ASSUME TypeOK, PriorityOrdered
  PROVE  Whole(ordered') /\ Keeps(ordered', ByPriority) /\ counter' \in 0..(CounterMod - 1)
<1> DEFINE B == ByPriority
           Before(a, b) == score[a] < score[b] \/ (~(score[b] < score[a]) /\ a < b)
           P == [d \in Deps |-> Cardinality({e \in Deps : Before(e, d)})]
           Start(d) == Min({P[e] : e \in Tied(d)})
           Rotates(d) == d \in Deps /\ Cardinality(Tied(d)) > 1
           Starts == {Start(d) : d \in {e \in Deps : Rotates(e)}}
           Turn(d) == counter + Cardinality({s \in Starts : s < Start(d)})
           Q == [d \in Deps |->
                  IF Rotates(d)
                  THEN Start(d) + ((P[d] - Start(d) - Turn(d)) % Cardinality(Tied(d)))
                  ELSE P[d]]
<1>1. /\ ordered' = [i \in Deps |-> CHOOSE d \in Deps : Q[d] = i - 1]
      /\ AddCounter(Cardinality(Starts))
  BY Zenon DEF PriorityOrdered, SortAndRotate, Tied
<1>2. \A a, b \in Deps : <<a, b>> \in B <=> score[a] < score[b]
  BY DEF ByPriority
<1>3. \A d \in Deps : score[d] \in Int
  BY DEF TypeOK, Unknown
<1>4. Orders(B)
  BY <1>2, <1>3 DEF Orders
<1>5. PlacesBy(P, Ahead(B), Deps)
  <2>1. ASSUME NEW d \in Deps, NEW e \in Deps PROVE <<e, d>> \in Ahead(B) <=> Before(e, d)
    BY <1>2 DEF Ahead
  <2>2. ASSUME NEW d \in Deps
        PROVE  {e \in Deps : Before(e, d)} = {e \in Deps : <<e, d>> \in Ahead(B)}
    BY <2>1
  <2> HIDE DEF Before, B
  <2> QED  BY <2>2 DEF PlacesBy
<1>6. ASSUME NEW d \in Deps PROVE Start(d) = Foremost(P, Tied(d))
  BY Zenon DEF Foremost
<1>7. PICK t : t = [d \in Deps |-> Turn(d)]
  OBVIOUS
<1>8. ASSUME NEW k PROVE Cardinality({s \in Starts : s < k}) \in Nat /\ Cardinality(Starts) \in Nat
  <2>1. PICK f : f = [d \in Deps |-> Start(d)]
    OBVIOUS
  <2>2. PICK S : S = {e \in Deps : Rotates(e)}
    OBVIOUS
  <2>3. Starts = {f[d] : d \in S} /\ S \in SUBSET Deps
    BY <2>1, <2>2
  <2> HIDE DEF Starts
  <2> QED  BY <2>3, StartsAreFinite
<1>9. SortedAndTurned(Q, P, Deps, t)
  <2>1. ASSUME NEW d \in Deps PROVE t[d] \in Int
    <3>1. counter \in Int
      BY DEF TypeOK
    <3>2. PICK c \in Nat : c = Cardinality({s \in Starts : s < Start(d)})
      BY <1>8
    <3> QED  BY <1>7, <3>1, <3>2
  <2>2. ASSUME NEW d \in Deps, NEW e \in Deps, score[e] = score[d] PROVE t[e] = t[d]
    <3>1. Tied(e) = Tied(d)
      BY <2>2 DEF Tied
    <3>2. Start(e) = Start(d)
      BY <3>1
    <3> HIDE DEF Start, Starts
    <3> QED  BY <1>7, <3>2
  <2>3. ASSUME NEW d \in Deps PROVE Rotates(d) <=> Turning(d, Deps)
    BY DEF Turning
  <2>4. Q = [d \in Deps |->
               IF Turning(d, Deps)
               THEN Foremost(P, Tied(d)) + ((P[d] - Foremost(P, Tied(d)) - t[d]) % Cardinality(Tied(d)))
               ELSE P[d]]
    <3> HIDE DEF P, Start, Rotates, Turn
    <3> QED  BY <1>6, <1>7, <2>3
  <2>5. t \in [Deps -> Int]
    BY <1>7, <2>1
  <2> HIDE DEF P, Q, Turn
  <2> QED  BY <2>2, <2>4, <2>5 DEF SortedAndTurned
<1>10. ListedBy(ordered', Q)
  BY <1>1, Zenon DEF ListedBy
<1>11. Whole(ordered') /\ Keeps(ordered', B)
  <2> HIDE DEF P, Q, B
  <2>1. \A d, e \in Deps : score[e] = score[d] => e \in Deps
    OBVIOUS
  <2> QED  BY <1>4, <1>5, <1>9, <1>10, <2>1, SortIsFair
<1>12. counter' \in 0..(CounterMod - 1)
  <2> HIDE DEF Starts
  <2>1. counter' = (counter + Cardinality(Starts)) % CounterMod
    BY <1>1 DEF AddCounter
  <2>2. Cardinality(Starts) \in Nat /\ counter \in 0..(CounterMod - 1)
    BY <1>8 DEF TypeOK
  <2> QED  BY <2>1, <2>2, CounterWraps
<1> QED  BY <1>11, <1>12

(* What the strategy cheapest sorts by.                                    *)
ByPrice == {x \in Deps \X Deps : Cheaper(x[1], x[2])}

(* The strategy cheapest tries everyone, the cheaper ones first.           *)
LEMMA CheapestSorts ==
  ASSUME TypeOK, Cheapest
  PROVE  Whole(ordered') /\ Keeps(ordered', ByPrice) /\ counter' \in 0..(CounterMod - 1)
<1> DEFINE B == ByPrice
           Before(a, b) == Cheaper(a, b) \/ (~Cheaper(b, a) /\ a < b)
           Known == {d \in Deps : score[d] # Unknown}
           P == [d \in Deps |-> Cardinality({e \in Deps : Before(e, d)})]
           Start(d) == Min({P[e] : e \in Tied(d)})
           Rotates(d) == d \in Known /\ Cardinality(Tied(d)) > 1
           Starts == {Start(d) : d \in {e \in Deps : Rotates(e)}}
           Turn(d) == counter + Cardinality({s \in Starts : s < Start(d)})
           Q == [d \in Deps |->
                  IF Rotates(d)
                  THEN Start(d) + ((P[d] - Start(d) - Turn(d)) % Cardinality(Tied(d)))
                  ELSE P[d]]
<1>1. /\ ordered' = [i \in Deps |-> CHOOSE d \in Deps : Q[d] = i - 1]
      /\ AddCounter(Cardinality(Starts))
  BY Zenon DEF Cheapest, SortAndRotate, Tied
<1>2. \A a, b \in Deps : <<a, b>> \in B <=> Cheaper(a, b)
  BY DEF ByPrice
<1>3. \A d \in Deps : score[d] \in Int
  BY DEF TypeOK, Unknown
<1>4. Orders(B)
  BY <1>2, <1>3 DEF Orders, Cheaper, Unknown
<1>5. PlacesBy(P, Ahead(B), Deps)
  <2>1. ASSUME NEW d \in Deps, NEW e \in Deps PROVE <<e, d>> \in Ahead(B) <=> Before(e, d)
    BY <1>2 DEF Ahead
  <2>2. ASSUME NEW d \in Deps
        PROVE  {e \in Deps : Before(e, d)} = {e \in Deps : <<e, d>> \in Ahead(B)}
    BY <2>1
  <2> HIDE DEF Before, B
  <2> QED  BY <2>2 DEF PlacesBy
<1>6. ASSUME NEW d \in Deps PROVE Start(d) = Foremost(P, Tied(d))
  BY Zenon DEF Foremost
<1>7. PICK t : t = [d \in Deps |-> Turn(d)]
  OBVIOUS
<1>8. ASSUME NEW k PROVE Cardinality({s \in Starts : s < k}) \in Nat /\ Cardinality(Starts) \in Nat
  <2>1. PICK f : f = [d \in Deps |-> Start(d)]
    OBVIOUS
  <2>2. PICK S : S = {e \in Deps : Rotates(e)}
    OBVIOUS
  <2>3. Starts = {f[d] : d \in S} /\ S \in SUBSET Deps
    BY <2>1, <2>2
  <2> HIDE DEF Starts
  <2> QED  BY <2>3, StartsAreFinite
<1>9. SortedAndTurned(Q, P, Known, t)
  <2>1. ASSUME NEW d \in Deps PROVE t[d] \in Int
    <3>1. counter \in Int
      BY DEF TypeOK
    <3>2. PICK c \in Nat : c = Cardinality({s \in Starts : s < Start(d)})
      BY <1>8
    <3> QED  BY <1>7, <3>1, <3>2
  <2>2. ASSUME NEW d \in Deps, NEW e \in Deps, score[e] = score[d] PROVE t[e] = t[d]
    <3>1. Tied(e) = Tied(d)
      BY <2>2 DEF Tied
    <3>2. Start(e) = Start(d)
      BY <3>1
    <3> HIDE DEF Start, Starts
    <3> QED  BY <1>7, <3>2
  <2>3. ASSUME NEW d \in Deps PROVE Rotates(d) <=> Turning(d, Known)
    BY DEF Turning
  <2>4. Q = [d \in Deps |->
               IF Turning(d, Known)
               THEN Foremost(P, Tied(d)) + ((P[d] - Foremost(P, Tied(d)) - t[d]) % Cardinality(Tied(d)))
               ELSE P[d]]
    <3> HIDE DEF P, Start, Rotates, Turn
    <3> QED  BY <1>6, <1>7, <2>3
  <2>5. t \in [Deps -> Int]
    BY <1>7, <2>1
  <2> HIDE DEF P, Q, Turn
  <2> QED  BY <2>2, <2>4, <2>5 DEF SortedAndTurned
<1>10. ListedBy(ordered', Q)
  BY <1>1, Zenon DEF ListedBy
<1>11. Whole(ordered') /\ Keeps(ordered', B)
  <2> HIDE DEF P, Q, B
  <2>1. \A d, e \in Deps : score[e] = score[d] /\ d \in Known => e \in Known
    OBVIOUS
  <2> QED  BY <1>4, <1>5, <1>9, <1>10, <2>1, SortIsFair
<1>12. counter' \in 0..(CounterMod - 1)
  <2> HIDE DEF Starts
  <2>1. counter' = (counter + Cardinality(Starts)) % CounterMod
    BY <1>1 DEF AddCounter
  <2>2. Cardinality(Starts) \in Nat /\ counter \in 0..(CounterMod - 1)
    BY <1>8 DEF TypeOK
  <2> QED  BY <2>1, <2>2, CounterWraps
<1> QED  BY <1>11, <1>12

(* The deployments as they are listed.                                     *)
AsListed == [i \in Deps |-> i]

(* It lists everyone.                                                      *)
LEMMA ListedOnce == AsListed \in Seq(Deps) /\ Len(AsListed) = N /\ DOMAIN AsListed = Deps
<1>1. N \in Nat
  BY NAssumption
<1> QED  BY <1>1 DEF AsListed, Deps

(* An order that repeats nothing tries every deployment.                   *)
LEMMA NoneTwice ==
  ASSUME NEW o \in [Deps -> Deps], \A i, j \in Deps : o[i] = o[j] => i = j
  PROVE  Whole(o)
<1>1. o \in Injection(Deps, Deps)
  BY DEF Injection, IsInjective
<1>2. o \in Surjection(Deps, Deps)
  BY <1>1, DepsCount, FS_Injection
<1> QED  BY <1>2 DEF Surjection, Whole

(* Round robin turns the list and counts on.                               *)
LEMMA RoundRobinSorts ==
  ASSUME counter \in 0..(CounterMod - 1), RoundRobin
  PROVE  Whole(ordered') /\ counter' \in 0..(CounterMod - 1)
<1>0. N \in Nat \ {0} /\ counter \in Nat
  BY NAssumption, CounterModAssumption
<1>1. ordered' = [i \in Deps |-> AsListed[((counter + i - 1) % N) + 1]]
  <2>1. ordered' = Rotation(AsListed, counter)
    BY Zenon DEF RoundRobin, AsListed
  <2> QED  BY <2>1, ListedOnce DEF Rotation
<1>2. \A i \in Deps : i \in 1..N /\ counter + i - 1 \in Int
  BY <1>0 DEF Deps
<1>3. ASSUME NEW i \in Deps
      PROVE  (counter + i - 1) % N \in 0..(N - 1) /\ ordered'[i] = ((counter + i - 1) % N) + 1
             /\ ordered'[i] \in Deps
  <2>1. PICK x \in Int : x = counter + i - 1
    BY <1>2
  <2>2. x % N \in 0..(N - 1)
    BY <1>0
  <2>3. (x % N) + 1 \in Deps
    BY <1>0, <2>2 DEF Deps
  <2> QED  BY <1>1, <2>1, <2>2, <2>3 DEF AsListed
<1>4. ASSUME NEW i \in Deps, NEW j \in Deps, ordered'[i] = ordered'[j] PROVE i = j
  <2>1. PICK x, y \in Int : x = counter + i - 1 /\ y = counter + j - 1
    BY <1>2
  <2>2. x % N \in Int /\ y % N \in Int /\ (x % N) + 1 = (y % N) + 1
    BY <1>3, <1>4, <2>1
  <2>3. PICK k, l \in Int : k = x % N /\ l = y % N
    BY <2>2
  <2>4. k = l
    BY <2>2, <2>3
  <2>5. x % N = y % N
    BY <2>3, <2>4, Zenon
  <2>6. x - y < N /\ y - x < N
    BY <1>0, <1>2, <2>1
  <2>7. x = y
    BY <1>0, <2>5, <2>6, ResiduesDiffer
  <2> QED  BY <1>0, <1>2, <2>1, <2>7
<1>5. Whole(ordered')
  <2>1. ordered' \in [Deps -> Deps]
    BY <1>1, <1>3
  <2> QED  BY <1>4, <2>1, NoneTwice
<1>6. counter' \in 0..(CounterMod - 1)
  BY CounterWraps DEF RoundRobin, AddCounter
<1> QED  BY <1>5, <1>6

(* Weights draw one, and the others follow as they are listed.             *)
LEMMA WeightedSorts ==
  ASSUME counter \in 0..(CounterMod - 1), Weighted
  PROVE  Whole(ordered') /\ counter' \in 0..(CounterMod - 1)
<1>1. CASE RoundRobin
  BY <1>1, RoundRobinSorts
<1>2. CASE /\ \E primary \in Deps : ordered' = <<primary>> \o RemoveAt([i \in Deps |-> i], primary)
           /\ UNCHANGED counter
  <2>1. PICK k \in Deps : ordered' = <<k>> \o RemoveAt(AsListed, k)
    BY <1>2, Zenon DEF AsListed
  <2>2. N \in Nat /\ k \in 1..N /\ k - 1 \in Nat /\ k + 1 \in Nat
    BY NAssumption DEF Deps
  <2>3. PICK a, b : a = SubSeq(AsListed, 1, k - 1) /\ b = SubSeq(AsListed, k + 1, N)
    OBVIOUS
  <2>4. ordered' = <<k>> \o (a \o b)
    BY <2>1, <2>3, ListedOnce, Zenon DEF RemoveAt
  <2>5. /\ a \in Seq(Deps) /\ Len(a) = k - 1 /\ \A i \in 1..(k - 1) : a[i] = i
        /\ b \in Seq(Deps) /\ Len(b) = N - k /\ \A i \in 1..(N - k) : b[i] = i + k
    <3>1. /\ 1 \in 1..(N + 1) /\ k + 1 \in 1..(N + 1) /\ k - 1 \in (1 - 1)..N /\ N \in k..N
      BY <2>2
    <3>2. PICK s \in Seq(Deps) : s = AsListed
      BY ListedOnce
    <3>3. Len(s) = N /\ \A i \in 1..N : s[i] = i
      BY <3>2, ListedOnce DEF AsListed, Deps
    <3>4. a = [i \in 1..(k - 1) |-> s[i]] /\ b = [i \in 1..(N - k) |-> s[i + k]]
      BY <2>2, <2>3, <3>2, <3>3
    <3>5. \A i \in 1..(k - 1) : s[i] = i /\ i \in Deps
      BY <2>2, <3>3 DEF Deps
    <3>6. \A i \in 1..(N - k) : s[i + k] = i + k /\ i + k \in Deps
      BY <2>2, <3>3 DEF Deps
    <3>7. a \in Seq(Deps) /\ Len(a) = k - 1
      <4>1. a \in [1..(k - 1) -> Deps] /\ k - 1 \in Nat
        BY <2>2, <3>4, <3>5
      <4> QED  BY <4>1
    <3>8. b \in Seq(Deps) /\ Len(b) = N - k
      <4>1. N - k \in Nat
        BY <2>2
      <4>2. \A i \in 1..(N - k) : s[i + k] \in Deps
        BY <3>6
      <4>3. b \in [1..(N - k) -> Deps]
        BY <3>4, <4>2
      <4> QED  BY <4>1, <4>3
    <3>9. ASSUME NEW i \in 1..(k - 1) PROVE a[i] = i
      BY <3>4, <3>5
    <3>10. ASSUME NEW i \in 1..(N - k) PROVE b[i] = i + k
      BY <3>4, <3>6
    <3> QED  BY <3>7, <3>8, <3>9, <3>10
  <2>6. /\ a \o b \in Seq(Deps) /\ Len(a \o b) = N - 1
        /\ \A i \in 1..(N - 1) : (a \o b)[i] = IF i < k THEN i ELSE i + 1
    <3>1. /\ a \o b \in Seq(Deps) /\ Len(a \o b) = (k - 1) + (N - k)
          /\ \A i \in 1..((k - 1) + (N - k)) :
               (a \o b)[i] = IF i <= k - 1 THEN a[i] ELSE b[i - (k - 1)]
      BY <2>5, ConcatProperties
    <3>2. (k - 1) + (N - k) = N - 1
      BY <2>2
    <3>3. ASSUME NEW i \in 1..(N - 1)
          PROVE  (IF i <= k - 1 THEN a[i] ELSE b[i - (k - 1)]) = (IF i < k THEN i ELSE i + 1)
      <4>1. CASE i < k
        BY <2>2, <2>5, <4>1
      <4>2. CASE ~(i < k)
        <5>1. i - (k - 1) \in 1..(N - k) /\ ~(i <= k - 1) /\ (i - (k - 1)) + k = i + 1
          BY <2>2, <4>2
        <5> QED  BY <2>5, <4>2, <5>1
      <4> QED  BY <4>1, <4>2
    <3> QED  BY <3>1, <3>2, <3>3
  <2>7. PICK c \in Seq(Deps) : c = a \o b
    BY <2>6
  <2>8. /\ Len(c) = N - 1
        /\ \A i \in 1..(N - 1) : c[i] = IF i < k THEN i ELSE i + 1
    BY <2>6, <2>7
  <2>9. PICK o : o = <<k>> \o c
    OBVIOUS
  <2>10. o \in Seq(Deps) /\ Len(o) = N /\ o[1] = k /\ \A i \in 2..N : o[i] = c[i - 1]
    <3>1. <<k>> \in Seq(Deps) /\ Len(<<k>>) = 1 /\ <<k>>[1] = k
      OBVIOUS
    <3>2. /\ o \in Seq(Deps) /\ Len(o) = 1 + (N - 1)
          /\ \A i \in 1..(1 + (N - 1)) : o[i] = IF i <= 1 THEN <<k>>[i] ELSE c[i - 1]
      BY <2>8, <2>9, <3>1, ConcatProperties
    <3>3. 1 + (N - 1) = N /\ N \in Nat \ {0}
      BY <2>2
    <3> QED  BY <3>1, <3>2, <3>3
  <2>11. o \in [Deps -> Deps]
    <3>1. o = [i \in 1..N |-> o[i]] /\ \A i \in 1..N : o[i] \in Deps
      BY <2>2, <2>10
    <3> QED  BY <3>1 DEF Deps
  <2>12. ASSUME NEW i \in Deps
         PROVE  o[i] = IF i = 1 THEN k ELSE IF i <= k THEN i - 1 ELSE i
    <3>1. CASE i = 1
      BY <2>10, <3>1
    <3>2. CASE i # 1
      <4>1. i \in 2..N /\ i - 1 \in 1..(N - 1)
        BY <2>2, <3>2 DEF Deps
      <4>2. o[i] = c[i - 1] /\ c[i - 1] = IF i - 1 < k THEN i - 1 ELSE i - 1 + 1
        BY <2>8, <2>10, <4>1
      <4> QED  BY <2>2, <3>2, <4>1, <4>2
    <3> QED  BY <3>1, <3>2
  <2>13. ASSUME NEW i \in Deps, NEW j \in Deps, o[i] = o[j] PROVE i = j
    <3>1. i \in 1..N /\ j \in 1..N
      BY DEF Deps
    <3> QED  BY <2>2, <2>12, <2>13, <3>1
  <2>14. Whole(o)
    BY <2>11, <2>13, NoneTwice
  <2>15. ordered' = o
    BY <2>4, <2>7, <2>9, Zenon
  <2> QED  BY <1>2, <2>14, <2>15
<1> QED  BY <1>1, <1>2, Zenon DEF Weighted

(* l orders the first k deployments, none slower than the one before it by *)
(* more than the jitter.                                                   *)
Settled(l, k) ==
  /\ l \in Seq(Deps) /\ Len(l) = k
  /\ \A i \in 1..k : l[i] \in 1..k
  /\ \A i, j \in 1..k : l[i] = l[j] => i = j
  /\ \A i \in 2..k : score[l[i]] + MaxJitter >= score[l[i - 1]]

(* What an insertion returns.                                              *)
LEMMA InsertedAt ==
  ASSUME NEW n \in Nat, NEW l \in Seq(Deps), Len(l) = n, NEW j \in 0..n, NEW d \in Deps,
         NEW o, o = InsertAt(l, j + 1, d)
  PROVE  /\ o \in Seq(Deps) /\ Len(o) = n + 1
         /\ \A i \in 1..(n + 1) :
              o[i] = IF i <= j THEN l[i] ELSE IF i = j + 1 THEN d ELSE l[i - 1]
<1>0. n = Len(l) /\ j \in 0..n
  OBVIOUS
<1>1. PICK a, b : a = SubSeq(l, 1, j) /\ b = SubSeq(l, j + 1, n)
  OBVIOUS
<1>2. \A i \in 1..j : l[i] \in Deps
  BY <1>0
<1>3. a \in Seq(Deps) /\ Len(a) = j /\ \A i \in 1..j : a[i] = l[i]
  <2>1. a = [i \in 1..j |-> l[i]]
    BY <1>0, <1>1
  <2> QED  BY <1>0, <1>2, <2>1
<1>4. b \in Seq(Deps) /\ Len(b) = n - j /\ \A i \in 1..(n - j) : b[i] = l[i + j]
  <2>1. b = [i \in 1..(n - j) |-> l[i + j]]
    BY <1>0, <1>1
  <2>2. \A i \in 1..(n - j) : l[i + j] \in Deps
    BY <1>0
  <2>3. n - j \in Nat
    BY <1>0
  <2>4. b \in [1..(n - j) -> Deps]
    BY <2>1, <2>2
  <2>5. b \in Seq(Deps) /\ Len(b) = n - j
    BY <2>3, <2>4
  <2> QED  BY <2>1, <2>5
<1>5. PICK c \in Seq(Deps) : c = a \o <<d>> /\ Len(c) = j + 1
        /\ \A i \in 1..(j + 1) : c[i] = IF i <= j THEN l[i] ELSE d
  <2>1. <<d>> \in Seq(Deps) /\ Len(<<d>>) = 1 /\ <<d>>[1] = d
    OBVIOUS
  <2>2. PICK e \in Seq(Deps) : e = <<d>> /\ Len(e) = 1 /\ e[1] = d
    BY <2>1
  <2>3. /\ a \o e \in Seq(Deps) /\ Len(a \o e) = j + 1
        /\ \A i \in 1..(j + 1) : (a \o e)[i] = IF i <= j THEN a[i] ELSE e[i - j]
    BY <1>3, <2>2, ConcatProperties
  <2>4. \A i \in 1..(j + 1) : (IF i <= j THEN a[i] ELSE e[i - j]) = (IF i <= j THEN l[i] ELSE d)
    <3>1. \A i \in 1..(j + 1) : ~(i <= j) => i - j = 1
      BY <1>0
    <3> QED  BY <1>0, <1>3, <2>2, <3>1
  <2>5. a \o e = a \o <<d>>
    BY <2>2
  <2>6. PICK c \in Seq(Deps) : c = a \o e
    BY <2>3
  <2>7. c = a \o <<d>> /\ Len(c) = j + 1
    BY <2>3, <2>5, <2>6, Zenon
  <2>8. \A i \in 1..(j + 1) : c[i] = IF i <= j THEN l[i] ELSE d
    BY <2>3, <2>4, <2>6
  <2> QED  BY <2>7, <2>8
<1>6. /\ c \o b \in Seq(Deps) /\ Len(c \o b) = (j + 1) + (n - j)
      /\ \A i \in 1..((j + 1) + (n - j)) : (c \o b)[i] = IF i <= j + 1 THEN c[i] ELSE b[i - (j + 1)]
  <2>1. /\ c \o b \in Seq(Deps) /\ Len(c \o b) = Len(c) + Len(b)
        /\ \A i \in 1..(Len(c) + Len(b)) : (c \o b)[i] = IF i <= Len(c) THEN c[i] ELSE b[i - Len(c)]
    <3>1. b \in Seq(Deps)
      BY <1>4
    <3> QED  BY <3>1, ConcatProperties
  <2> QED  BY <1>4, <1>5, <2>1, Zenon
<1>7. (j + 1) + (n - j) = n + 1
  BY <1>0
<1>8. ASSUME NEW i \in 1..(n + 1)
      PROVE  (IF i <= j + 1 THEN c[i] ELSE b[i - (j + 1)])
               = (IF i <= j THEN l[i] ELSE IF i = j + 1 THEN d ELSE l[i - 1])
  <2>1. CASE i <= j + 1
    <3>1. i \in 1..(j + 1)
      BY <1>0, <2>1
    <3> QED  BY <1>0, <1>5, <2>1, <3>1
  <2>2. CASE ~(i <= j + 1)
    <3>1. i - (j + 1) \in 1..(n - j) /\ (i - (j + 1)) + j = i - 1 /\ ~(i <= j) /\ i # j + 1
      BY <1>0, <2>2
    <3>2. b[i - (j + 1)] = l[i - 1]
      BY <1>4, <3>1
    <3> QED  BY <2>2, <3>1, <3>2
  <2> QED  BY <2>1, <2>2
<1>9. InsertAt(l, j + 1, d) = c \o b
  <2>1. InsertAt(l, j + 1, d) = SubSeq(l, 1, (j + 1) - 1) \o <<d>> \o SubSeq(l, j + 1, Len(l))
    BY Zenon DEF InsertAt
  <2>2. (j + 1) - 1 = j
    BY <1>0
  <2> QED  BY <1>0, <1>1, <1>5, <2>1, <2>2, Zenon
<1>10. o = c \o b
  BY <1>9, Zenon
<1>11. o \in Seq(Deps) /\ Len(o) = n + 1
  BY <1>6, <1>7, <1>10, Zenon
<1>12. \A i \in 1..(n + 1) : o[i] = IF i <= j THEN l[i] ELSE IF i = j + 1 THEN d ELSE l[i - 1]
  BY <1>6, <1>7, <1>8, <1>10, Zenon
<1> QED  BY <1>11, <1>12

(* The k-th deployment goes where its latency and the jitter let it.       *)
LEMMA InsertedSettles ==
  ASSUME TypeOK, NEW k \in 1..N, NEW l, Settled(l, k - 1), NEW m \in Inserted(l, k)
  PROVE  Settled(m, k)
<1>0. N \in Nat /\ k \in Nat /\ k \in Deps /\ MaxJitter \in Nat
  BY NAssumption, JitterAssumption DEF Deps
<1>1. \A d \in Deps : score[d] \in Int
  BY DEF TypeOK, Unknown
<1>2. /\ l \in Seq(Deps) /\ Len(l) = k - 1 /\ \A i \in 1..(k - 1) : l[i] \in 1..(k - 1)
      /\ \A i, j \in 1..(k - 1) : l[i] = l[j] => i = j
      /\ \A i \in 2..(k - 1) : score[l[i]] + MaxJitter >= score[l[i - 1]]
  BY DEF Settled
<1>3. PICK j \in 0..(k - 1) :
        /\ m = InsertAt(l, j + 1, k)
        /\ \A i \in (j + 1)..(k - 1) : score[k] < score[l[i]]
        /\ j = 0 \/ score[k] + MaxJitter >= score[l[j]]
  <2>1. PICK n \in Nat : n = k - 1 /\ Len(l) = n
    BY <1>0, <1>2
  <2>2. PICK j \in {i \in 0..Len(l) : /\ \A h \in (i + 1)..Len(l) : score[k] < score[l[h]]
                                      /\ i = 0 \/ score[k] + MaxJitter >= score[l[i]]} :
          m = InsertAt(l, j + 1, k)
    BY Zenon DEF Inserted
  <2>3. /\ j \in 0..n /\ \A i \in (j + 1)..n : score[k] < score[l[i]]
        /\ j = 0 \/ score[k] + MaxJitter >= score[l[j]]
    BY <2>1, <2>2
  <2> QED  BY <2>1, <2>2, <2>3
<1>4. /\ m \in Seq(Deps) /\ Len(m) = (k - 1) + 1
      /\ \A i \in 1..((k - 1) + 1) : m[i] = IF i <= j THEN l[i] ELSE IF i = j + 1 THEN k ELSE l[i - 1]
  <2>1. PICK n \in Nat : n = k - 1 /\ Len(l) = n /\ j \in 0..n
    BY <1>0, <1>2
  <2>2. /\ m \in Seq(Deps) /\ Len(m) = n + 1
        /\ \A i \in 1..(n + 1) :
             m[i] = IF i <= j THEN l[i] ELSE IF i = j + 1 THEN k ELSE l[i - 1]
    BY <1>0, <1>2, <1>3, <2>1, InsertedAt
  <2> QED  BY <2>1, <2>2
<1>5. (k - 1) + 1 = k
  BY <1>0
<1>6. \A i \in 1..k : m[i] = IF i <= j THEN l[i] ELSE IF i = j + 1 THEN k ELSE l[i - 1]
  BY <1>4, <1>5
<1>7. \A i \in 1..k : \/ i <= j /\ i \in 1..(k - 1) /\ m[i] = l[i]
                      \/ i = j + 1 /\ m[i] = k
                      \/ i > j + 1 /\ i - 1 \in 1..(k - 1) /\ m[i] = l[i - 1]
  <2>1. PICK n \in Nat : n = k - 1 /\ j \in 0..n
    BY <1>0
  <2>2. ASSUME NEW i \in 1..k
        PROVE  \/ i <= j /\ i \in 1..(k - 1)
               \/ i = j + 1 /\ ~(i <= j)
               \/ i > j + 1 /\ i - 1 \in 1..(k - 1) /\ ~(i <= j) /\ i # j + 1
    BY <1>0, <2>1
  <2> QED  BY <1>6, <2>2
<1>8. ASSUME NEW i \in 1..k PROVE m[i] \in 1..k
  <2>1. 1..(k - 1) \subseteq 1..k /\ k \in 1..k
    BY <1>0
  <2> QED  BY <1>2, <1>7, <2>1
<1>9. ASSUME NEW a \in 1..k, NEW b \in 1..k, m[a] = m[b] PROVE a = b
  <2>1. k \notin 1..(k - 1) /\ a \in Int /\ b \in Int /\ j \in Int
    BY <1>0
  <2>2. CASE a = j + 1 \/ b = j + 1
    <3>1. m[a] = k /\ m[b] = k
      BY <1>7, <1>9, <2>1, <2>2
    <3>2. \A i \in 1..(k - 1) : l[i] # k
      BY <1>2, <2>1
    <3> QED  BY <1>7, <3>1, <3>2
  <2>3. CASE a # j + 1 /\ b # j + 1
    <3>1. PICK x, y \in 1..(k - 1) : /\ m[a] = l[x] /\ m[b] = l[y]
                                     /\ x = (IF a <= j THEN a ELSE a - 1)
                                     /\ y = (IF b <= j THEN b ELSE b - 1)
      BY <1>7, <2>1, <2>3
    <3>2. x = y
      BY <1>2, <1>9, <3>1
    <3> QED  BY <2>1, <2>3, <3>1, <3>2
  <2> QED  BY <2>2, <2>3
<1>10. ASSUME NEW i \in 2..k PROVE score[m[i]] + MaxJitter >= score[m[i - 1]]
  <2>0. i \in 1..k /\ i - 1 \in 1..k /\ i \in Int /\ j \in Int
    BY <1>0
  <2>d. \A x \in 1..k : x \in Deps
    BY <1>0 DEF Deps
  <2>1. CASE i <= j
    <3>1. m[i] = l[i] /\ m[i - 1] = l[i - 1] /\ i \in 2..(k - 1)
      BY <1>6, <2>0, <2>1
    <3> QED  BY <1>2, <3>1
  <2>2. CASE i = j + 1
    <3>1. m[i] = k /\ m[i - 1] = l[j] /\ j # 0
      BY <1>6, <2>0, <2>2
    <3> QED  BY <1>3, <3>1
  <2>3. CASE i = j + 2
    <3>1. m[i] = l[j + 1] /\ m[i - 1] = k /\ j + 1 \in (j + 1)..(k - 1)
      BY <1>6, <2>0, <2>3
    <3>2. score[k] < score[l[j + 1]] /\ score[k] \in Int /\ score[l[j + 1]] \in Int
      BY <1>1, <1>3, <1>8, <2>0, <2>d, <3>1
    <3> QED  BY <1>0, <3>1, <3>2
  <2>4. CASE i > j + 2
    <3>1. m[i] = l[i - 1] /\ m[i - 1] = l[(i - 1) - 1] /\ i - 1 \in 2..(k - 1)
      BY <1>6, <2>0, <2>4
    <3> QED  BY <1>2, <3>1
  <2> QED  BY <2>0, <2>1, <2>2, <2>3, <2>4
<1> QED  BY <1>4, <1>5, <1>8, <1>9, <1>10 DEF Settled

(* All lists that the insertions can make of the first deployments.        *)
Widens == [p \in (SUBSET Seq(Deps)) \X Deps |-> UNION {Inserted(l, p[2]) : l \in p[1]}]

(* These are lists of deployments.                                         *)
LEMMA WidensType == Steps(Widens, SUBSET Seq(Deps), Deps)
<1>1. ASSUME NEW L \in SUBSET Seq(Deps), NEW d \in Deps
      PROVE  UNION {Inserted(l, d) : l \in L} \in SUBSET Seq(Deps)
  <2>1. ASSUME NEW l \in L PROVE Inserted(l, d) \subseteq Seq(Deps)
    <3>0. l \in Seq(Deps) /\ Len(l) \in Nat
      OBVIOUS
    <3>1. \A j \in 0..Len(l) : InsertAt(l, j + 1, d) \in Seq(Deps)
      BY <3>0, InsertedAt
    <3> QED  BY <3>1 DEF Inserted
  <2> QED  BY <2>1
<1>2. \A p \in (SUBSET Seq(Deps)) \X Deps : UNION {Inserted(l, p[2]) : l \in p[1]} \in SUBSET Seq(Deps)
  BY <1>1
<1> QED  BY <1>2 DEF Steps, Widens

(* All lists that the insertions can make of w.                            *)
Sorted(w) == Folded(w, SUBSET Seq(Deps), {<<>>}, Widens)

(* The fold of the insertions is the loop.                                 *)
LEMMA LatencyOrdersAreSorted == LatencyOrders = Sorted(AsListed)
<1> DEFINE w == AsListed
           Grows(g) == g = [s \in SUBSET (DOMAIN w) |->
                              IF s = {} THEN {<<>>}
                              ELSE UNION {Inserted(l, w[Greatest(s)]) : l \in g[s \ {Greatest(s)}]}]
<1>1. LatencyOrders = (CHOOSE g : Grows(g))[DOMAIN w]
  BY Zenon DEF LatencyOrders, AsListed, FoldLeft, MapThenFoldSet, Max, Greatest
<1>2. PICK S : S = SUBSET Seq(Deps)
  OBVIOUS
<1>3. {<<>>} \in S /\ Widens \in [S \X Deps -> S] /\ Steps(Widens, S, Deps)
  BY <1>2, WidensType DEF Steps
<1>4. \A L \in S, d \in Deps : Widens[<<L, d>>] = UNION {Inserted(l, d) : l \in L}
  BY <1>2 DEF Widens
<1>w. w \in Seq(Deps)
  BY ListedOnce
<1> HIDE DEF w
<1>5. PICK g \in [SUBSET (DOMAIN w) -> S] : FoldsBack(g, w, S, {<<>>}, Widens)
  BY <1>3, <1>w, FoldExists
<1>6. \A s \in SUBSET (DOMAIN w) : s # {} => Greatest(s) \in s
  BY <1>w, HasGreatest
<1>7. Grows(g)
  <2>1. ASSUME NEW s \in SUBSET (DOMAIN w)
        PROVE  g[s] = IF s = {} THEN {<<>>}
                      ELSE UNION {Inserted(l, w[Greatest(s)]) : l \in g[s \ {Greatest(s)}]}
    <3>1. CASE s = {}
      BY <1>5, <3>1 DEF FoldsBack
    <3>2. CASE s # {}
      <4>1. PICK x : x = Greatest(s)
        OBVIOUS
      <4>2. x \in DOMAIN w /\ s \ {x} \in SUBSET (DOMAIN w)
        BY <1>6, <3>2, <4>1
      <4>3. g[s \ {x}] \in S /\ w[x] \in Deps
        BY <1>5, <1>w, <4>2
      <4>4. g[s] = Widens[<<g[s \ {x}], w[x]>>]
        BY <1>5, <3>2, <4>1, <4>3 DEF FoldsBack
      <4>5. g[s] = UNION {Inserted(l, w[x]) : l \in g[s \ {x}]}
        BY <1>4, <4>3, <4>4, Zenon
      <4>6. g[s] = UNION {Inserted(l, w[Greatest(s)]) : l \in g[s \ {Greatest(s)}]}
        BY <4>1, <4>5
      <4> QED  BY <3>2, <4>6, Zenon
    <3> QED  BY <3>1, <3>2
  <2>2. g = [s \in SUBSET (DOMAIN w) |-> g[s]]
    BY <1>5
  <2> QED  BY <2>1, <2>2, Zenon
<1>8. PICK c : c = CHOOSE h : Grows(h)
  OBVIOUS
<1>9. Grows(c)
  <2> HIDE DEF Grows
  <2> QED  BY <1>7, <1>8, Zenon
<1>10. FoldsBack(c, w, S, {<<>>}, Widens)
  <2>1. c[{}] = {<<>>}
    BY <1>9
  <2>2. ASSUME NEW s \in SUBSET (DOMAIN w), s # {}, c[s \ {Greatest(s)}] \in S
        PROVE  c[s] = Widens[<<c[s \ {Greatest(s)}], w[Greatest(s)]>>]
    <3>1. PICK x : x = Greatest(s)
      OBVIOUS
    <3>2. x \in DOMAIN w /\ w[x] \in Deps
      BY <1>6, <1>w, <2>2, <3>1
    <3>3. c[s] = UNION {Inserted(l, w[Greatest(s)]) : l \in c[s \ {Greatest(s)}]}
      BY <1>9, <2>2, Zenon
    <3> HIDE DEF Grows
    <3> QED  BY <1>4, <2>2, <3>1, <3>2, <3>3, Zenon
  <2> QED  BY <2>1, <2>2 DEF FoldsBack
<1> HIDE DEF Grows
<1>11. c[DOMAIN w] = Folded(w, S, {<<>>}, Widens)
  BY <1>3, <1>10, <1>w, FoldIsLoop
<1> QED  BY <1>1, <1>2, <1>8, <1>11, Zenon DEF Sorted, w

(* Least latency orders all deployments, within the jitter.                *)
LEMMA LatencySorts ==
  ASSUME TypeOK, NEW o \in LatencyOrders
  PROVE  Settled(o, N)
<1> DEFINE T == {k \in 0..N : \A l \in Sorted([i \in 1..k |-> i]) : Settled(l, k)}
<1>0. N \in Nat
  BY NAssumption
<1>1. LoopLaws(Deps, SUBSET Seq(Deps), {<<>>}, Widens)
  <2>1. PICK S : S = SUBSET Seq(Deps)
    OBVIOUS
  <2>2. {<<>>} \in S /\ Steps(Widens, S, Deps)
    BY <2>1, WidensType
  <2>3. LoopLaws(Deps, S, {<<>>}, Widens)
    BY <2>2, FoldedLaws
  <2> QED  BY <2>1, <2>3
<1>2. 0 \in T
  <2>1. [i \in 1..0 |-> i] = <<>>
    OBVIOUS
  <2>2. Sorted(<<>>) = {<<>>}
    BY <1>1, Zenon DEF LoopLaws, Sorted
  <2>3. Settled(<<>>, 0)
    BY DEF Settled
  <2> QED  BY <1>0, <2>1, <2>2, <2>3
<1>3. ASSUME NEW k \in 1..N, k - 1 \in T PROVE k \in T
  <2>0. k \in Deps /\ k - 1 \in Nat /\ k - 1 \in 0..N /\ k \in 0..N /\ \A i \in 1..(k - 1) : i \in Deps
    BY <1>0 DEF Deps
  <2>1. PICK w : w = [i \in 1..(k - 1) |-> i]
    OBVIOUS
  <2>2. w \in Seq(Deps) /\ [i \in 1..k |-> i] = Append(w, k)
    BY <2>0, <2>1
  <2>3. Sorted(Append(w, k)) = Widens[<<Sorted(w), k>>] /\ Sorted(w) \in SUBSET Seq(Deps)
    BY <1>1, <2>0, <2>2, Zenon DEF LoopLaws, Sorted
  <2>4. Sorted(Append(w, k)) = UNION {Inserted(l, k) : l \in Sorted(w)}
    BY <2>0, <2>3 DEF Widens
  <2>5. \A l \in Sorted(w) : Settled(l, k - 1)
    BY <1>3, <2>1
  <2>6. ASSUME NEW m \in Sorted(Append(w, k)) PROVE Settled(m, k)
    <3>1. PICK l \in Sorted(w) : m \in Inserted(l, k)
      BY <2>4
    <3> QED  BY <2>5, <3>1, InsertedSettles
  <2> QED  BY <2>0, <2>2, <2>6
<1> HIDE DEF T
<1>4. 0..N \subseteq T
  BY <1>0, <1>2, <1>3, UpTo
<1>5. N \in T
  BY <1>0, <1>4
<1>6. \A l \in Sorted([i \in 1..N |-> i]) : Settled(l, N)
  BY <1>5 DEF T
<1>7. [i \in 1..N |-> i] = AsListed
  BY Zenon DEF AsListed, Deps
<1> QED  BY <1>6, <1>7, LatencyOrdersAreSorted, Zenon

(* The scores that a strategy compares, the counter, and the last order.   *)
OrderInv ==
  /\ TypeOK /\ RotationKeepsRank /\ JitterIsBounded
  /\ strategy # "cheapest" => \A d \in Deps : score[d] # Unknown

(* An order that tries all of them in the order of their ranks.            *)
LEMMA RankedIsFair ==
  ASSUME strategy' = strategy, score' = score, strategy \in Strategies, Whole(ordered'),
         NEW B, Keeps(ordered', B), strategy # "least-latency",
         strategy \in {"priority", "cheapest"} =>
           \A a, b \in Deps : Cheaper(a, b) => <<a, b>> \in B
  PROVE  RotationKeepsRank' /\ JitterIsBounded'
<1>1. DOMAIN ordered' = Deps /\ \A i \in Deps : ordered'[i] \in Deps
  BY WholeHasAll DEF Whole
<1>2. RotationKeepsRank'
  BY <1>1 DEF RotationKeepsRank, Keeps, Cheaper
<1> QED  BY <1>2 DEF JitterIsBounded

(* Each strategy of Resolve keeps the invariant.                           *)
LEMMA ResolveKeeps ==
  ASSUME OrderInv, Resolve
  PROVE  OrderInv'
<1>0. /\ TypeOK /\ counter \in 0..(CounterMod - 1) /\ strategy \in Strategies
      /\ strategy' = strategy /\ score' = score
  BY DEF OrderInv, TypeOK, Resolve
<1> DEFINE Sound == /\ Whole(ordered') /\ counter' \in 0..(CounterMod - 1)
                    /\ RotationKeepsRank' /\ JitterIsBounded'
<1>1. ASSUME strategy = "round-robin" /\ RoundRobin PROVE Sound
  <2>1. Whole(ordered') /\ counter' \in 0..(CounterMod - 1)
    BY <1>0, <1>1, RoundRobinSorts
  <2>2. Sound
    BY <1>0, <1>1, <2>1 DEF RotationKeepsRank, JitterIsBounded
  <2> QED  BY <2>2
<1>2. ASSUME strategy = "weighted" /\ Weighted PROVE Sound
  <2>1. Whole(ordered') /\ counter' \in 0..(CounterMod - 1)
    BY <1>0, <1>2, WeightedSorts
  <2>2. Sound
    BY <1>0, <1>2, <2>1 DEF RotationKeepsRank, JitterIsBounded
  <2> QED  BY <2>2
<1>3. ASSUME strategy = "priority" /\ PriorityOrdered PROVE Sound
  <2>1. Whole(ordered') /\ Keeps(ordered', ByPriority) /\ counter' \in 0..(CounterMod - 1)
    BY <1>0, <1>3, PrioritySorts
  <2>2. \A a, b \in Deps : Cheaper(a, b) => <<a, b>> \in ByPriority
    BY <1>3 DEF OrderInv, Cheaper, ByPriority
  <2>3. RotationKeepsRank' /\ JitterIsBounded'
    BY <1>0, <1>3, <2>1, <2>2, RankedIsFair
  <2> QED  BY <2>1, <2>3
<1>4. ASSUME strategy = "cheapest" /\ Cheapest PROVE Sound
  <2>1. Whole(ordered') /\ Keeps(ordered', ByPrice) /\ counter' \in 0..(CounterMod - 1)
    BY <1>0, <1>4, CheapestSorts
  <2>2. \A a, b \in Deps : Cheaper(a, b) => <<a, b>> \in ByPrice
    BY DEF ByPrice
  <2>3. RotationKeepsRank' /\ JitterIsBounded'
    BY <1>0, <1>4, <2>1, <2>2, RankedIsFair
  <2> QED  BY <2>1, <2>3
<1>5. ASSUME strategy = "least-latency" /\ LeastLatency PROVE Sound
  <2>1. Settled(ordered', N) /\ counter' = counter
    BY <1>0, <1>5, LatencySorts DEF LeastLatency
  <2>2. N \in Nat /\ Deps = 1..N
    BY NAssumption DEF Deps
  <2>3. ordered' \in [Deps -> Deps] /\ \A i, j \in Deps : ordered'[i] = ordered'[j] => i = j
    <3>1. \A i \in 1..N : ordered'[i] \in 1..N
      BY <2>1 DEF Settled
    <3>2. ordered' = [i \in 1..N |-> ordered'[i]]
      <4>1. ordered' \in Seq(Deps) /\ Len(ordered') = N
        BY <2>1 DEF Settled
      <4> QED  BY <4>1
    <3> QED  BY <2>1, <2>2, <3>1, <3>2 DEF Settled
  <2>4. Whole(ordered')
    BY <2>3, NoneTwice
  <2>5. JitterIsBounded'
    <3>1. DOMAIN ordered' = 1..N
      BY <2>2, <2>4, WholeHasAll
    <3>2. ASSUME NEW i \in 1..N, i > 1
          PROVE  score[ordered'[i]] + MaxJitter >= score[ordered'[i - 1]]
      <4>1. i \in 2..N
        BY <2>2, <3>2
      <4> QED  BY <2>1, <4>1 DEF Settled
    <3> QED  BY <1>0, <3>1, <3>2 DEF JitterIsBounded
  <2>6. RotationKeepsRank'
    BY <1>0, <1>5 DEF RotationKeepsRank
  <2> QED  BY <1>0, <2>1, <2>4, <2>5, <2>6
<1>6. Sound
  BY <1>1, <1>2, <1>3, <1>4, <1>5 DEF Resolve
<1> HIDE DEF Sound
<1>7. TypeOK'
  <2>1. Len(ordered') = N /\ ToSet(ordered') = Deps /\ counter' \in 0..(CounterMod - 1)
    BY <1>6, WholeHasAll DEF Sound
  <2> QED  BY <1>0, <2>1 DEF TypeOK
<1>8. strategy' # "cheapest" => \A d \in Deps : score'[d] # Unknown
  BY <1>0 DEF OrderInv
<1> QED  BY <1>6, <1>7, <1>8 DEF OrderInv, Sound

(* At first nothing is ordered.                                            *)
LEMMA OrderBegins == Init => OrderInv
<1> SUFFICES ASSUME Init PROVE OrderInv
  OBVIOUS
<1>1. TypeOK
  BY CounterModAssumption DEF Init, TypeOK
<1>2. strategy # "cheapest" => \A d \in Deps : score[d] # Unknown
  <2> SUFFICES ASSUME strategy # "cheapest", NEW d \in Deps PROVE score[d] # Unknown
    OBVIOUS
  <2>1. score[d] \in 0..MaxScore
    BY DEF Init
  <2> QED  BY <2>1 DEF Unknown
<1>3. RotationKeepsRank /\ JitterIsBounded
  BY DEF Init, RotationKeepsRank, JitterIsBounded
<1> QED  BY <1>1, <1>2, <1>3 DEF OrderInv

(* What holds while a request is being routed, and of the variables when   *)
(* another part is exercised.                                              *)
Ordering == IF part = "order" THEN OrderInv ELSE strategy = Idle

(* It holds at first.                                                      *)
LEMMA OrderingBegins == MCInit => Ordering
BY OrderBegins DEF MCInit, Ordering, OrderIdle

(* And every step keeps it.                                                *)
LEMMA OrderingIsKept == Ordering /\ [MCNext]_MCVars => Ordering'
<1> SUFFICES ASSUME Ordering, [MCNext]_MCVars PROVE Ordering'
  OBVIOUS
<1>1. CASE part = "order"
  <2>1. part' = "order" /\ [Resolve]_vars
    BY <1>1 DEF MCNext, MCVars, Next, OrderStep, RaceStep, LoneStep, StreamStep, KeyStep, RegisterStep, Rest
  <2>2. CASE Resolve
    BY <1>1, <2>1, <2>2, ResolveKeeps DEF Ordering
  <2>3. CASE UNCHANGED vars
    BY <1>1, <2>1, <2>3
       DEF Ordering, OrderInv, vars, TypeOK, RotationKeepsRank, JitterIsBounded, Cheaper
  <2> QED  BY <2>1, <2>2, <2>3
<1>2. CASE part # "order"
  <2>1. part' = part /\ UNCHANGED strategy
    BY <1>2 DEF MCNext, MCVars, vars, OrderStep, RaceStep, LoneStep, StreamStep, KeyStep, RegisterStep, Rest
  <2> QED  BY <1>2, <2>1 DEF Ordering
<1> QED  BY <1>1, <1>2

(* In every behaviour of MCSpec, for any number of deployments and any     *)
(* scores, rotating groups of equal rank never tries a deployment before   *)
(* one of higher rank, and least latency never puts one behind another     *)
(* that is slower by more than the jitter (router.go).                     *)
THEOREM OrdersAreFair == MCSpec => []OrderIsFair
<1>1. Ordering => OrderIsFair
  BY DEF Ordering, OrderInv, OrderIsFair, RotationKeepsRank, JitterIsBounded, Idle
<1> QED  BY <1>1, OrderingBegins, OrderingIsKept, PTL DEF MCSpec

----------------------------------------------------------------------------
(* Fallback: the types of the request that goes through the loop alone,    *)
(* over breakers that trip at the first failure.                           *)

(* The operations of a breaker that trips at the first failure keep its    *)
(* type.                                                                   *)
LEMMA BreakerType ==
  /\ Lone!NewCircuitBreaker \in Lone!Breaker
  /\ \A b \in Lone!Breaker : /\ Lone!AfterAllow(b) \in Lone!Breaker
                             /\ Lone!AfterSuccess(b) \in Lone!Breaker
                             /\ Lone!AfterFailure(b) \in Lone!Breaker
                             /\ Lone!BreakerTick(b) \in Lone!Breaker
<1> USE DEF Lone!Breaker, Lone!CircuitState, Lone!Closed, Lone!Open, Lone!HalfOpen, Lone!Ages, Lone!Unset
<1>1. Lone!NewCircuitBreaker \in Lone!Breaker
  BY DEF Lone!BreakerOf, Lone!NewCircuitBreaker
<1>2. ASSUME NEW b \in Lone!Breaker PROVE Lone!AfterAllow(b) \in Lone!Breaker
  BY DEF Lone!BreakerOf, Lone!AfterAllow
<1>3. ASSUME NEW b \in Lone!Breaker PROVE Lone!AfterFailure(b) \in Lone!Breaker
  <2> HIDE DEF Lone!Ages, Lone!Unset
  <2>0. 0 \in Lone!Ages /\ 1 \in 0..1
    BY DEF Lone!Ages
  <2>1. CASE b.state = Lone!HalfOpen
    BY <2>0, <2>1 DEF Lone!BreakerOf, Lone!AfterFailure
  <2>2. CASE b.state # Lone!HalfOpen /\ Lone!Counted(b.failures) = 1
    BY <2>0, <2>2 DEF Lone!BreakerOf, Lone!AfterFailure
  <2>3. CASE b.state # Lone!HalfOpen /\ Lone!Counted(b.failures) # 1
    <3>1. Lone!Counted(b.failures) \in 0..1
      BY DEF Lone!Counted
    <3> QED  BY <2>3, <3>1 DEF Lone!BreakerOf, Lone!AfterFailure
  <2> QED  BY <2>1, <2>2, <2>3
<1>4. ASSUME NEW b \in Lone!Breaker PROVE Lone!BreakerTick(b) \in Lone!Breaker
  BY DEF Lone!BreakerOf, Lone!BreakerTick, Lone!Aged
<1> QED  BY <1>1, <1>2, <1>3, <1>4 DEF Lone!AfterSuccess

(* The lists of deployments of the alias.                                  *)
Lists == {<<d1, d2>>, <<d2>>, <<>>}

(* Of a list of objects, those of some owners are a list of objects.       *)
LEMMA ThoseOfLists ==
  ASSUME NEW objects \in Seq(Lone!Objects), NEW owners
  PROVE  Lone!Those(owners, objects) \in Seq(Lone!Objects)
<1> DEFINE n == Len(objects)
           keep == [i \in 1..n |-> [d \in Both |-> global][objects[i][1]] \in owners]
           val == [i \in 1..n |-> objects[i]]
           upTo == CHOOSE f : f = [i \in 0..n |->
                     IF i = 0 THEN <<>>
                     ELSE IF [d \in Both |-> global][objects[i][1]] \in owners THEN Append(f[i - 1], objects[i])
                     ELSE f[i - 1]]
<1>1. n \in Nat /\ \A i \in 1..n : objects[i] \in Lone!Objects
  OBVIOUS
<1>2. val \in [1..n -> Lone!Objects]
  BY <1>1
<1>3. upTo = CHOOSE f : Filtered(f, n, keep, val)
  <2>1. \A f : [i \in 0..n |->
                  IF i = 0 THEN <<>>
                  ELSE IF [d \in Both |-> global][objects[i][1]] \in owners THEN Append(f[i - 1], objects[i])
                  ELSE f[i - 1]]
             = [i \in 0..n |-> IF i = 0 THEN <<>>
                               ELSE IF keep[i] THEN Append(f[i - 1], val[i]) ELSE f[i - 1]]
    <3>1. \A i \in 0..n : i # 0 => keep[i] = ([d \in Both |-> global][objects[i][1]] \in owners) /\ val[i] = objects[i]
      BY <1>1
    <3> HIDE DEF n, keep, val
    <3> QED  BY <3>1, Zenon
  <2> HIDE DEF n, keep, val
  <2> QED  BY <2>1, Zenon DEF Filtered
<1>4. Lone!Those(owners, objects) = upTo[n]
  BY Zenon DEF Lone!Those
<1> HIDE DEF n, keep, val, upTo
<1>5. Filtered(upTo, n, keep, val)
  BY <1>1, <1>2, <1>3, FilterExists
<1>6. Selects(Lone!Those(owners, objects), n, Lone!Objects, keep, val)
  BY <1>1, <1>2, <1>4, <1>5, FilterResult
<1> QED  BY <1>6 DEF Selects

(* The alias's list names objects, and so do an owner's part of it and     *)
(* what round-robin makes of a list (buildOrgIndex, roundRobin).           *)
LEMMA LoneLists ==
  ASSUME Lone!TypeOK
  PROVE  /\ Lone!Current \in Seq(Lone!Objects)
         /\ \A owner : Lone!OwnedBy(owner) \in Seq(Lone!Objects)
         /\ \A r \in {r1} : \/ Len(list[r]) > 1 /\ turn = Lone!NoCounter
                           \/ Lone!Scoped(r, Lone!RoundRobin(list[r])) \in Seq(Lone!Objects)
<1>1. catalog \in Lists /\ gen \in Lone!Gens
  BY DEF Lone!TypeOK, Lists
<1>2. Lone!Current \in Seq(Lone!Objects)
  <2>1. /\ Len(catalog) \in Nat /\ DOMAIN catalog = 1..Len(catalog)
        /\ \A i \in 1..Len(catalog) : catalog[i] \in Both
    BY <1>1 DEF Lists, Both
  <2>2. PICK n \in Nat : n = Len(catalog)
    BY <2>1
  <2>3. Lone!Current \in [1..n -> Lone!Objects]
    BY <1>1, <2>1, <2>2 DEF Lone!Current, Lone!Objects
  <2> QED  BY <2>3
<1>3. \A owner : Lone!OwnedBy(owner) \in Seq(Lone!Objects)
  BY <1>2, ThoseOfLists DEF Lone!OwnedBy
<1>4. ASSUME NEW r \in {r1}, ~(Len(list[r]) > 1 /\ turn = Lone!NoCounter)
      PROVE  Lone!Scoped(r, Lone!RoundRobin(list[r])) \in Seq(Lone!Objects)
  <2>1. list[r] \in Seq(Lone!Objects)
    BY DEF Lone!TypeOK
  <2>2. PICK t : t = Lone!RoundRobin(list[r])
    OBVIOUS
  <2>3. t \in Seq(Lone!Objects)
    <3>1. CASE Len(list[r]) <= 1
      BY <2>1, <2>2, <3>1 DEF Lone!RoundRobin
    <3>2. CASE Len(list[r]) > 1
      <4>1. turn \in Nat
        BY <1>4, <3>2 DEF Lone!TypeOK
      <4>2. PICK n \in Nat : n = Len(list[r]) /\ n > 1
        BY <2>1, <3>2
      <4>3. ASSUME NEW i \in 1..n PROVE ((turn + i - 1) % n) + 1 \in 1..n
        <5>1. PICK x \in Int : x = turn + i - 1
          BY <4>1
        <5>2. x % n \in 0..(n - 1)
          BY <4>2, <5>1
        <5> QED  BY <5>1, <5>2
      <4>4. t \in [1..n -> Lone!Objects]
        BY <2>1, <2>2, <3>2, <4>2, <4>3 DEF Lone!RoundRobin
      <4> QED  BY <4>4
    <3> QED  BY <2>1, <3>1, <3>2
  <2>4. \A owners : Lone!Those(owners, t) \in Seq(Lone!Objects)
    BY <2>3, ThoseOfLists
  <2> QED  BY <2>2, <2>3, <2>4 DEF Lone!Scoped
<1> QED  BY <1>2, <1>3, <1>4

(* Where a request has an object to call.                                  *)
InTheLoop == {"attempt", "backoff", "reportFailure", "reportSuccess"}

(* A request in flight has the object it calls at the head of its list,    *)
(* and one that waits for a retry has a retry left.                        *)
LoneEquipped ==
  \A r \in {r1} : /\ pc[r] \in InTheLoop => list[r] # <<>>
                  /\ pc[r] = "backoff" => attempt[r] < Lone!MaxRetries

(* A step keeps the types, and leaves every request equipped.              *)
LEMMA LoneTypeSteps ==
  ASSUME Lone!TypeOK, LoneEquipped, [Lone!Next]_(Lone!vars)
  PROVE  Lone!TypeOK' /\ LoneEquipped'
<1>a. Lone!MaxRetries \in Nat
  BY DEF Lone!MaxRetries
<1>b. \A r \in {r1} : list[r] # <<>> => Lone!Head1(r) \in Lone!Objects /\ Tail(list[r]) \in Seq(Lone!Objects)
  BY DEF Lone!TypeOK, Lone!Head1
<1>c. \A new : Lone!FirstCounter(new) \in 0..(2 - 1) \cup {Lone!NoCounter}
  BY DEF Lone!FirstCounter
<1> USE DEF Lone!TypeOK, LoneEquipped, InTheLoop, Lone!PCs, Lone!Verdicts, Lone!Goto, Lone!Finish, Lone!shared,
            Lone!history
\* A step that gives a request a list and leaves it out of flight.
<1>e. ASSUME NEW r \in {r1}, NEW l \in Seq(Lone!Objects), list' = [list EXCEPT ![r] = l],
             NEW to \in Lone!PCs \ InTheLoop, pc' = [pc EXCEPT ![r] = to],
             UNCHANGED <<fallbackEnabled, catalog, gen, writing, up, hungUp, absent>>,
             UNCHANGED <<breaker, attempt, sent>>,
             turn' \in 0..(2 - 1) \cup {Lone!NoCounter}, missed' \subseteq {r1},
             \/ UNCHANGED outcome
             \/ \E v \in Lone!Verdicts : outcome' = [outcome EXCEPT ![r] = [verdict |-> v, by |-> <<>>]]
      PROVE  Lone!TypeOK' /\ LoneEquipped'
  <2>1. outcome' \in [{r1} -> [verdict : Lone!Verdicts, by : Lone!Objects \cup {<<>>}]]
    <3>1. CASE UNCHANGED outcome
      BY <3>1
    <3>2. ASSUME NEW v \in Lone!Verdicts, outcome' = [outcome EXCEPT ![r] = [verdict |-> v, by |-> <<>>]]
          PROVE  outcome' \in [{r1} -> [verdict : Lone!Verdicts, by : Lone!Objects \cup {<<>>}]]
      <4> HIDE DEF Lone!Verdicts
      <4> QED  BY <3>2
    <3> QED  BY <1>e, <3>1, <3>2
  <2> HIDE DEF Lone!Verdicts
  <2> QED  BY <1>e, <2>1
<1>1. ASSUME NEW r \in {r1}, Lone!ResolveForOrg(r) PROVE Lone!TypeOK' /\ LoneEquipped'
  <2>1. UNCHANGED <<fallbackEnabled, catalog, gen, writing, up, hungUp, absent>>
        /\ UNCHANGED <<breaker, attempt, sent>> /\ missed' \subseteq {r1}
    BY <1>1 DEF Lone!ResolveForOrg
  <2>2. PICK l \in Seq(Lone!Objects) : list' = [list EXCEPT ![r] = l]
    <3>1. CASE UNCHANGED list
      BY <3>1
    <3>2. CASE list' # list
      <4>1. \E owner : list' = [list EXCEPT ![r] = Lone!OwnedBy(owner)]
        BY <1>1, <3>2, Zenon DEF Lone!ResolveForOrg
      <4> QED  BY <4>1, LoneLists
    <3> QED  BY <3>1, <3>2
  <2>3. \E to \in Lone!PCs \ InTheLoop : pc' = [pc EXCEPT ![r] = to]
    BY <1>1 DEF Lone!ResolveForOrg
  <2>4. \/ UNCHANGED outcome
        \/ \E v \in Lone!Verdicts : outcome' = [outcome EXCEPT ![r] = [verdict |-> v, by |-> <<>>]]
    BY <1>1 DEF Lone!ResolveForOrg
  <2>5. turn' \in 0..(2 - 1) \cup {Lone!NoCounter}
    BY <1>1 DEF Lone!ResolveForOrg
  <2> QED  BY <1>e, <2>1, <2>2, <2>3, <2>4, <2>5
<1>2. ASSUME NEW r \in {r1}, Lone!Resolve(r) \/ Lone!ReadDeps(r) PROVE Lone!TypeOK' /\ LoneEquipped'
  <2>1. UNCHANGED <<fallbackEnabled, catalog, gen, writing, up, hungUp, absent>>
        /\ UNCHANGED <<breaker, attempt, sent>> /\ missed' \subseteq {r1}
    BY <1>2 DEF Lone!Resolve, Lone!ReadDeps
  <2>2. PICK l \in Seq(Lone!Objects) : list' = [list EXCEPT ![r] = l]
    <3>1. CASE UNCHANGED list
      BY <3>1
    <3>2. CASE list' = [list EXCEPT ![r] = Lone!Current]
      BY <3>2, LoneLists
    <3> QED  BY <1>2, <3>1, <3>2 DEF Lone!Resolve, Lone!ReadDeps
  <2>3. \E to \in Lone!PCs \ InTheLoop : pc' = [pc EXCEPT ![r] = to]
    BY <1>2 DEF Lone!Resolve, Lone!ReadDeps
  <2>4. \/ UNCHANGED outcome
        \/ \E v \in Lone!Verdicts : outcome' = [outcome EXCEPT ![r] = [verdict |-> v, by |-> <<>>]]
    BY <1>2 DEF Lone!Resolve, Lone!ReadDeps
  <2>5. turn' \in 0..(2 - 1) \cup {Lone!NoCounter}
    BY <1>2 DEF Lone!Resolve, Lone!ReadDeps
  <2> QED  BY <1>e, <2>1, <2>2, <2>3, <2>4, <2>5
<1>3. ASSUME NEW r \in {r1}, Lone!Order(r) PROVE Lone!TypeOK' /\ LoneEquipped'
  <2>1. UNCHANGED <<fallbackEnabled, catalog, gen, writing, up, hungUp, absent>>
        /\ UNCHANGED <<breaker, attempt, sent>> /\ missed' \subseteq {r1}
    BY <1>3 DEF Lone!Order
  <2>2. PICK l \in Seq(Lone!Objects) : list' = [list EXCEPT ![r] = l]
    <3>1. CASE UNCHANGED list
      BY <3>1
    <3>2. CASE list' # list
      <4>1. ~(Len(list[r]) > 1 /\ turn = Lone!NoCounter)
            /\ list' = [list EXCEPT ![r] = Lone!Scoped(r, Lone!RoundRobin(list[r]))]
        BY <1>3, <3>2, Zenon DEF Lone!Order
      <4> QED  BY <4>1, LoneLists
    <3> QED  BY <3>1, <3>2
  <2>3. \E to \in Lone!PCs \ InTheLoop : pc' = [pc EXCEPT ![r] = to]
    BY <1>3 DEF Lone!Order
  <2>4. \/ UNCHANGED outcome
        \/ \E v \in Lone!Verdicts : outcome' = [outcome EXCEPT ![r] = [verdict |-> v, by |-> <<>>]]
    BY <1>3 DEF Lone!Order
  <2>5. turn' \in 0..(2 - 1) \cup {Lone!NoCounter}
    <3>1. turn' = turn \/ (turn # Lone!NoCounter /\ turn' = (turn + 1) % 2)
      BY <1>3 DEF Lone!Order
    <3>2. turn # Lone!NoCounter => (turn + 1) % 2 \in 0..(2 - 1)
      OBVIOUS
    <3> QED  BY <3>1, <3>2
  <2> QED  BY <1>e, <2>1, <2>2, <2>3, <2>4, <2>5
<1>16. ASSUME NEW r \in {r1}, Lone!ConcurrentMapAccess(r) PROVE Lone!TypeOK' /\ LoneEquipped'
  <2>1. outcome' \in [{r1} -> [verdict : Lone!Verdicts, by : Lone!Objects \cup {<<>>}]]
    BY <1>16 DEF Lone!ConcurrentMapAccess
  <2>2. breaker' \in [Lone!Objects -> Lone!Breaker]
    BY <1>16, BreakerType DEF Lone!ConcurrentMapAccess
  <2>3. turn' \in 0..(2 - 1) \cup {Lone!NoCounter}
    BY <1>16, <1>c DEF Lone!ConcurrentMapAccess
  <2> HIDE DEF Lone!Verdicts
  <2> QED  BY <1>16, <2>1, <2>2, <2>3 DEF Lone!ConcurrentMapAccess
<1>4. ASSUME NEW r \in {r1}, Lone!Exhausted(r) PROVE Lone!TypeOK' /\ LoneEquipped'
  BY <1>4 DEF Lone!Exhausted
<1>5. ASSUME NEW r \in {r1}, Lone!Skip(r) PROVE Lone!TypeOK' /\ LoneEquipped'
  <2>1. CASE fallbackEnabled
    BY <1>5, <1>b, <2>1 DEF Lone!Skip
  <2>2. CASE ~fallbackEnabled
    <3>1. list[r] # <<>> /\ Lone!Finish(r, "rejected", Lone!Head1(r))
          /\ UNCHANGED <<Lone!shared, breaker, list, attempt, sent, missed>>
      BY <1>5, <2>2 DEF Lone!Skip
    <3> QED  BY <1>b, <3>1
  <2> QED  BY <2>1, <2>2
<1>6. ASSUME NEW r \in {r1}, Lone!Try(r) PROVE Lone!TypeOK' /\ LoneEquipped'
  BY <1>6, <1>a, <1>b, BreakerType DEF Lone!Try
<1>7. ASSUME NEW r \in {r1}, Lone!Attempt(r) PROVE Lone!TypeOK' /\ LoneEquipped'
  <2>1. PICK to \in Lone!PCs : /\ pc' = [pc EXCEPT ![r] = to]
                          /\ to \in InTheLoop /\ (to = "backoff" => attempt[r] < Lone!MaxRetries)
    BY <1>7, <1>a DEF Lone!Attempt, Lone!AfterError, Lone!AfterAnswer
  <2>2. pc[r] \in InTheLoop /\ UNCHANGED <<Lone!shared, breaker, list, attempt, outcome, missed>>
    BY <1>7 DEF Lone!Attempt
  <2>3. sent' \in [{r1} -> [Lone!Objects -> Nat]]
    <3>1. sent' = [sent EXCEPT ![r][Lone!Head1(r)] = @ + 1] /\ Lone!Head1(r) \in Lone!Objects
      BY <1>7, <1>b DEF Lone!Attempt
    <3> QED  BY <3>1
  <2> QED  BY <2>1, <2>2, <2>3
<1>8. ASSUME NEW r \in {r1}, Lone!Retry(r) \/ Lone!GiveUp(r) PROVE Lone!TypeOK' /\ LoneEquipped'
  <2>1. CASE Lone!Retry(r)
    BY <1>a, <2>1 DEF Lone!Retry
  <2>2. CASE Lone!GiveUp(r)
    BY <1>a, <2>2 DEF Lone!GiveUp
  <2> QED  BY <1>8, <2>1, <2>2
<1>9. ASSUME NEW r \in {r1}, Lone!ReportFailure(r) PROVE Lone!TypeOK' /\ LoneEquipped'
  <2>1. breaker' \in [Lone!Objects -> Lone!Breaker]
    BY <1>9, BreakerType DEF Lone!ReportFailure
  <2>2. CASE fallbackEnabled
    BY <1>9, <1>b, <2>1, <2>2 DEF Lone!ReportFailure
  <2>3. CASE ~fallbackEnabled
    <3>1. list[r] # <<>> /\ Lone!Finish(r, "failed", Lone!Head1(r))
          /\ UNCHANGED <<Lone!shared, list, attempt, sent, missed>>
      BY <1>9, <2>3 DEF Lone!ReportFailure
    <3> QED  BY <1>b, <2>1, <3>1
  <2> QED  BY <2>2, <2>3
<1>10. ASSUME NEW r \in {r1}, Lone!ReportSuccess(r) PROVE Lone!TypeOK' /\ LoneEquipped'
  BY <1>10, <1>b, BreakerType DEF Lone!ReportSuccess
<1>11. ASSUME NEW r \in {r1}, Lone!HangUp(r) PROVE Lone!TypeOK' /\ LoneEquipped'
  BY <1>11, <1>a DEF Lone!HangUp
<1>12. ASSUME NEW r \in {r1}, Lone!NextRequest(r) PROVE Lone!TypeOK' /\ LoneEquipped'
  BY <1>12, <1>a DEF Lone!NextRequest
<1>13. CASE Lone!Reload
  <2>1. gen + 1 \in Lone!Gens
    BY <1>13 DEF Lone!Reload, Lone!Gens
  <2>2. writing' \in BOOLEAN /\ catalog' \in {<<d1, d2>>, <<d2>>, <<>>} /\ absent' \subseteq Lone!Gens
    BY <1>13, <2>1 DEF Lone!Reload, Lone!Without
  <2> QED  BY <1>13, <2>1, <2>2 DEF Lone!Reload
<1>17. CASE Lone!Unlock
  <2>1. \A new : Lone!KeptCounter(new) \in 0..(2 - 1) \cup {Lone!NoCounter}
    BY <1>c DEF Lone!KeptCounter
  <2> QED  BY <1>17, <2>1 DEF Lone!Unlock
<1>14. CASE Lone!Tick
  BY <1>14, BreakerType DEF Lone!Tick
<1>15. CASE UNCHANGED Lone!vars
  BY <1>15 DEF Lone!vars
<1> QED
  BY <1>1, <1>2, <1>3, <1>4, <1>5, <1>6, <1>7, <1>8, <1>9, <1>10, <1>11, <1>12,
     <1>13, <1>14, <1>15, <1>16, <1>17 DEF Lone!Next, Lone!Step

(* They have their types at first.                                         *)
LEMMA LoneTypeBegins ==
  ASSUME Lone!Init
  PROVE  Lone!TypeOK /\ LoneEquipped
<1>1. LoneEquipped
  BY DEF Lone!Init, LoneEquipped, InTheLoop
<1>2. 0 \in 0..Lone!MaxRetries /\ 0 \in Lone!Gens
  BY DEF Lone!MaxRetries, Lone!Gens
<1>3. turn \in 0..(2 - 1) \cup {Lone!NoCounter} /\ absent \subseteq Lone!Gens
  BY <1>2 DEF Lone!Init, Lone!FirstCounter, Lone!Without
<1>4. /\ list \in [{r1} -> Seq(Lone!Objects)]
      /\ outcome \in [{r1} -> [verdict : Lone!Verdicts, by : Lone!Objects \cup {<<>>}]]
      /\ breaker \in [Lone!Objects -> Lone!Breaker]
  BY BreakerType DEF Lone!Init, Lone!Verdicts
<1>5. /\ pc \in [{r1} -> Lone!PCs] /\ attempt \in [{r1} -> 0..Lone!MaxRetries]
      /\ sent \in [{r1} -> [Lone!Objects -> Nat]]
  BY <1>2 DEF Lone!Init, Lone!PCs
<1> QED  BY <1>1, <1>2, <1>3, <1>4, <1>5 DEF Lone!Init, Lone!TypeOK

----------------------------------------------------------------------------
(* RateLimit: what the clients of a key are doing and were told.           *)
KeyTyped ==
  /\ available \in BOOLEAN
  /\ checking \in [Clients -> {"idle", "tpm", "upstream"}]
  /\ pending \in 0..MaxPending
  /\ verdict \in [Clients -> {"none", "admitted", "rejected"}]

(* It holds at first.                                                      *)
LEMMA KeyTypeBegins ==
  ASSUME Key!Init
  PROVE  KeyTyped
<1>1. MaxPending \in Nat
  BY KeyAssumption DEF Key!ConstantsOK
<1> QED  BY <1>1 DEF Key!Init, KeyTyped

(* And every step keeps it.                                                *)
LEMMA KeyTypeSteps ==
  ASSUME KeyTyped, [Key!Next]_keyVars
  PROVE  KeyTyped'
<1>0. MaxPending \in Nat
  BY KeyAssumption DEF Key!ConstantsOK
<1>1. ASSUME NEW c \in Clients, Key!CheckRpm(c) PROVE KeyTyped'
  <2>1. UNCHANGED <<available, pending>>
        /\ \E p \in {"idle", "tpm"} : checking' = [checking EXCEPT ![c] = p]
        /\ \E v \in {"none", "rejected"} : verdict' = [verdict EXCEPT ![c] = v]
    BY <1>1 DEF Key!CheckRpm
  <2> QED  BY <2>1 DEF KeyTyped
<1>2. ASSUME NEW c \in Clients, Key!CheckTpm(c) PROVE KeyTyped'
  <2>1. UNCHANGED <<available, pending>>
        /\ \E p \in {"idle", "upstream"} : checking' = [checking EXCEPT ![c] = p]
        /\ \E v \in {"admitted", "rejected"} : verdict' = [verdict EXCEPT ![c] = v]
    BY <1>2 DEF Key!CheckTpm
  <2> QED  BY <2>1 DEF KeyTyped
<1>3. ASSUME NEW c \in Clients, Key!UpstreamFails(c) \/ Key!Respond(c) PROVE KeyTyped'
  BY <1>0, <1>3 DEF Key!UpstreamFails, Key!Respond, KeyTyped
<1>4. CASE Key!ConsumeTokens
  BY <1>0, <1>4 DEF Key!ConsumeTokens, KeyTyped
<1>5. CASE Key!Tick \/ UNCHANGED keyVars
  BY <1>5 DEF Key!Tick, keyVars, KeyTyped
<1> QED  BY <1>1, <1>2, <1>3, <1>4, <1>5 DEF Key!Next, Key!Request

(* The invariant of the limits and this are the types.                     *)
LEMMA KeyTypeIsEnough ==
  ASSUME KeyInv, KeyTyped
  PROVE  Key!TypeOK
<1>1. RpmLimit \in Nat /\ MaxCount \in Nat /\ MaxCount > RpmLimit
  BY KeyAssumption DEF Key!ConstantsOK
<1>2. admitted \in [Key!Stores -> 0..MaxCount]
  <2>1. \A s \in Key!Stores : admitted[s] \in 0..MaxCount
    BY <1>1 DEF KeyInv, AdmissionsAreCounted
  <2>2. admitted = [s \in Key!Stores |-> admitted[s]]
    BY DEF KeyInv
  <2> QED  BY <2>1, <2>2
<1> QED  BY <1>2 DEF KeyInv, KeyTyped, CounterType, Items, Key!TypeOK

----------------------------------------------------------------------------
(* ChatStream: nothing is longer than it may be.                           *)
Shorter ==
  /\ Len(said) <= MaxLetters /\ Len(prevText) <= Len(said)
  /\ \A g \in Stream!Goroutines : Len(chan[g]) <= Stream!Capacity(g) /\ Len(outbox[g]) <= 2

(* The lengths of lists that are written out.                              *)
LEMMA ShortLists ==
  ASSUME NEW x, NEW y
  PROVE  /\ Len(<<>>) = 0 /\ Len(<<x>>) = 1 /\ Len(<<x, y>>) = 2
         /\ 0 <= 2 /\ 1 <= 2 /\ 2 <= 2
OBVIOUS

(* It holds at first.                                                      *)
LEMMA ShortBegins ==
  ASSUME Stream!Init
  PROVE  Shorter
<1>1. MaxLetters \in Nat /\ Buffer \in Nat
  BY StreamAssumption DEF Stream!ConstantsOK
<1>2. \A g \in Stream!Goroutines : Stream!Capacity(g) \in Nat
  BY <1>1 DEF Stream!Capacity
<1>3. PICK b : b = <<Stream!Event("created")>>
  OBVIOUS
<1>4. Len(b) = 1 /\ Len(<<>>) = 0
  BY <1>3
<1>5. outbox = [scanner |-> <<>>, bridge |-> IF Stream!Bridged THEN b ELSE <<>>]
      /\ chan = [scanner |-> <<>>, bridge |-> <<>>] /\ said = <<>> /\ prevText = <<>>
  BY <1>3 DEF Stream!Init
<1>6. \A g \in Stream!Goroutines : Len(chan[g]) = 0 /\ Len(outbox[g]) \in {0, 1}
  <2>1. Len(chan["scanner"]) = 0 /\ Len(chan["bridge"]) = 0 /\ Len(outbox["scanner"]) = 0
        /\ Len(outbox["bridge"]) \in {0, 1}
    BY <1>4, <1>5
  <2> QED  BY <2>1 DEF Stream!Goroutines
<1>7. ASSUME NEW g \in Stream!Goroutines PROVE Len(chan[g]) <= Stream!Capacity(g) /\ Len(outbox[g]) <= 2
  <2>1. PICK c, o, n : c = Len(chan[g]) /\ o = Len(outbox[g]) /\ n = Stream!Capacity(g)
    OBVIOUS
  <2>2. c = 0 /\ o \in {0, 1} /\ n \in Nat
    BY <1>2, <1>6, <2>1
  <2>3. c <= n /\ o <= 2
    BY <2>2
  <2> QED  BY <2>1, <2>3
<1>8. Len(said) <= MaxLetters /\ Len(prevText) <= Len(said)
  BY <1>1, <1>4, <1>5
<1> QED  BY <1>7, <1>8 DEF Shorter

(* Gemini's adapter remembers no more than was said.                       *)
LEMMA PrevIsShorter ==
  ASSUME StreamTyped, Complete, Shorter, NEW l \in Letters, NEW full, NEW prev,
         full = IF cumulative THEN Append(said, l) ELSE <<l>>,
         provider = "gemini", prev = Stream!streamingAdvancePrev(prevText, full, Stream!TextOf(l))
  PROVE  Len(prev) <= Len(said) + 1
<1>1. /\ said \in Seq(Letters) /\ prevText \in Seq(Letters) /\ full \in Seq(Letters)
      /\ Len(said) \in Nat /\ Len(prevText) \in Nat /\ Len(prevText) <= Len(said)
      /\ Len(full) <= Len(said) + 1
  BY DEF StreamTyped, Shorter
<1>2. CASE Stream!IsPrefix(prevText, full)
  <2>1. prev = full
    BY <1>2 DEF Stream!streamingAdvancePrev
  <2> QED  BY <1>1, <2>1
<1>3. CASE ~Stream!IsPrefix(prevText, full)
  <2>1. ~cumulative
    <3> SUFFICES ASSUME cumulative PROVE Stream!IsPrefix(prevText, full)
      BY <1>3
    <3>1. prevText = said
      BY DEF Complete, Stream!Repeats
    <3>2. PICK f : f = Append(said, l)
      OBVIOUS
    <3>3. Len(said) <= Len(f) /\ SubSeq(said, 1, Len(said)) = SubSeq(f, 1, Len(said))
      BY <1>1, <3>2
    <3> QED  BY <3>1, <3>2, <3>3 DEF Stream!IsPrefix
  <2>2. Stream!TextOf(l) = <<l>>
    BY <1>3, <2>1 DEF Stream!TextOf, Stream!streamingTextDelta
  <2>3. prev = prevText \o <<l>>
    BY <1>3, <2>2 DEF Stream!streamingAdvancePrev
  <2> QED  BY <1>1, <2>3
<1> QED  BY <1>2, <1>3

(* A list of the scanner's.                                                *)
LEMMA FewHanded ==
  ASSUME StreamTyped, Shorter, NEW es, NEW next, Len(es) <= 2, Stream!HandOver(es, next), UNCHANGED <<chan, provider>>
  PROVE  \A g \in Stream!Goroutines : Len(chan'[g]) <= Stream!Capacity(g)' /\ Len(outbox'[g]) <= 2
<1>1. outbox' = [outbox EXCEPT !["scanner"] = es]
  BY DEF Stream!HandOver
<1>2. \A g \in Stream!Goroutines : Len(outbox'[g]) <= 2
  BY <1>1 DEF Shorter, StreamTyped
<1> QED  BY <1>2 DEF Shorter, Stream!Capacity

(* What is taken from a list leaves it no longer.                          *)
LEMMA TailsAreShort ==
  ASSUME NEW s \in Seq(Events), s # <<>>
  PROVE  Len(Tail(s)) <= Len(s) /\ Len(s) \in Nat /\ Len(Tail(s)) \in Nat
OBVIOUS

(* A step of the stream leaves nothing longer than it may be.              *)
LEMMA ShortSteps ==
  ASSUME StreamInv, Shorter, [Stream!Next]_(Stream!vars)
  PROVE  Shorter'
<1>0. /\ StreamTyped /\ Complete
      /\ outbox \in [Stream!Goroutines -> Seq(Events)] /\ chan \in [Stream!Goroutines -> Seq(Events)]
      /\ "scanner" \in Stream!Goroutines /\ "bridge" \in Stream!Goroutines
      /\ \A g \in Stream!Goroutines : g = "scanner" \/ g = "bridge"
  BY DEF StreamInv, StreamTyped, Stream!Goroutines
<1>1. CASE Stream!ScanText
  <2>1. PICK l \in Letters :
          LET text == Stream!TextOf(l)
              full == IF cumulative THEN Append(said, l) ELSE <<l>>
          IN  /\ said' = Append(said, l)
              /\ prevText' = IF provider = "gemini" THEN Stream!streamingAdvancePrev(prevText, full, text) ELSE <<>>
              /\ Stream!HandOver(IF text = <<>> THEN <<>> ELSE <<Stream!Chunk(text, FALSE, FALSE)>>, scanner)
    BY <1>1 DEF Stream!ScanText
  <2>2. Len(said) < MaxLetters /\ UNCHANGED <<chan, provider>>
    BY <1>1 DEF Stream!ScanText, Stream!Idle
  <2>3. PICK es : /\ es = IF Stream!TextOf(l) = <<>> THEN <<>> ELSE <<Stream!Chunk(Stream!TextOf(l), FALSE, FALSE)>>
                  /\ Stream!HandOver(es, scanner)
    BY <2>1
  <2>4. Len(es) <= 2
    <3>1. PICK e : e = Stream!Chunk(Stream!TextOf(l), FALSE, FALSE)
      OBVIOUS
    <3>2. es = <<>> \/ es = <<e>>
      BY <2>3, <3>1
    <3> QED  BY <3>2
  <2>5. \A g \in Stream!Goroutines : Len(chan'[g]) <= Stream!Capacity(g)' /\ Len(outbox'[g]) <= 2
    BY <1>0, <2>2, <2>3, <2>4, FewHanded
  <2>6. said \in Seq(Letters) /\ said' = Append(said, l) /\ Len(said) \in Nat /\ Len(said') = Len(said) + 1
    BY <1>0, <2>1 DEF StreamTyped
  <2>7. MaxLetters \in Nat
    BY StreamAssumption DEF Stream!ConstantsOK
  <2>8. Len(prevText') <= Len(said')
    <3>1. PICK full : full = IF cumulative THEN Append(said, l) ELSE <<l>>
      OBVIOUS
    <3>2. prevText' = IF provider = "gemini"
                      THEN Stream!streamingAdvancePrev(prevText, full, Stream!TextOf(l)) ELSE <<>>
      BY <2>1, <3>1
    <3>3. CASE provider = "gemini"
      <4>1. Len(prevText') <= Len(said) + 1
        BY <1>0, <3>1, <3>2, <3>3, PrevIsShorter
      <4> QED  BY <2>6, <4>1
    <3>4. CASE provider # "gemini"
      <4>1. Len(prevText') = 0
        BY <3>2, <3>4
      <4> QED  BY <2>6, <4>1
    <3> QED  BY <3>3, <3>4
  <2> QED  BY <2>2, <2>5, <2>6, <2>7, <2>8 DEF Shorter
<1>2. ASSUME NEW es, NEW next, Len(es) <= 2, Stream!HandOver(es, next), UNCHANGED <<chan, provider, said, prevText>>
      PROVE  Shorter'
  BY <1>0, <1>2, FewHanded DEF Shorter
<1>3. CASE Stream!ScanFinish
  <2>1. PICK a, b, c : Stream!FinishChunks \in {<<a, b>>, <<b, a>>, <<a>>, <<c>>}
    <3>1. PICK a, b, c : a = Stream!Chunk(<<>>, TRUE, FALSE) /\ b = Stream!Chunk(<<>>, FALSE, TRUE)
                         /\ c = Stream!Chunk(<<>>, TRUE, TRUE)
      OBVIOUS
    <3>2. provider \in {"openai", "anthropic", "gemini"}
      BY <1>0 DEF StreamTyped
    <3> QED  BY <3>1, <3>2 DEF Stream!FinishChunks
  <2>2. Len(Stream!FinishChunks) <= 2
    <3>1. Len(Stream!FinishChunks) = 1 \/ Len(Stream!FinishChunks) = 2
      BY <2>1, ShortLists, SMT
    <3> QED  BY <3>1, ShortLists, Zenon
  <2> QED  BY <1>2, <1>3, <2>2 DEF Stream!ScanFinish, Stream!Idle
<1>4. CASE \/ Stream!ScanGarbage \/ Stream!ScanEnd \/ Stream!ScanCancelled \/ Stream!ScanRest \/ Stream!GiveUp
  <2>1. PICK es, next : Stream!HandOver(es, next) /\ (es = <<>> \/ \E e : es = <<e>>)
    BY <1>4 DEF Stream!ScanGarbage, Stream!ScanEnd, Stream!ScanCancelled, Stream!ScanRest, Stream!GiveUp
  <2>2. Len(es) <= 2
    BY <2>1
  <2>3. UNCHANGED <<chan, provider, said, prevText>>
    BY <1>4 DEF Stream!ScanGarbage, Stream!ScanEnd, Stream!ScanCancelled, Stream!ScanRest, Stream!GiveUp, Stream!Idle
  <2> QED  BY <1>2, <2>1, <2>2, <2>3
<1>5. ASSUME UNCHANGED <<provider, said, prevText>>,
             \A g \in Stream!Goroutines : Len(chan'[g]) <= Stream!Capacity(g) /\ Len(outbox'[g]) <= 2
      PROVE  Shorter'
  BY <1>5 DEF Shorter, Stream!Capacity
<1>6. ASSUME NEW g \in Stream!Goroutines, Stream!Send(g) PROVE Shorter'
  <2>1. PICK e : /\ outbox[g] # <<>> /\ Len(chan[g]) < Stream!Capacity(g)
                 /\ chan' = [chan EXCEPT ![g] = Append(chan[g], e)]
                 /\ outbox' = [outbox EXCEPT ![g] = Tail(outbox[g])]
                 /\ UNCHANGED <<provider, said, prevText>>
    BY <1>6 DEF Stream!Send
  <2>2. Buffer \in Nat /\ Stream!Capacity(g) \in Nat
    BY StreamAssumption DEF Stream!ConstantsOK, Stream!Capacity
  <2>3. Len(Append(chan[g], e)) <= Stream!Capacity(g)
    <3>1. PICK c, n : c = chan[g] /\ n = Stream!Capacity(g)
      OBVIOUS
    <3>2. c \in Seq(Events) /\ n \in Nat /\ Len(c) < n
      BY <1>0, <2>1, <2>2, <3>1
    <3>3. Len(Append(c, e)) = Len(c) + 1 /\ Len(c) \in Nat
      BY <3>2
    <3> QED  BY <3>1, <3>2, <3>3
  <2>4. Len(Tail(outbox[g])) <= 2
    <3>1. Len(Tail(outbox[g])) <= Len(outbox[g]) /\ Len(outbox[g]) \in Nat /\ Len(Tail(outbox[g])) \in Nat
          /\ Len(outbox[g]) <= 2
      BY <1>0, <2>1, TailsAreShort DEF Shorter
    <3> QED  BY <3>1
  <2>5. \A h \in Stream!Goroutines : Len(chan'[h]) <= Stream!Capacity(h) /\ Len(outbox'[h]) <= 2
    <3> TAKE h \in Stream!Goroutines
    <3>1. CASE h = g
      BY <1>0, <2>1, <2>3, <2>4, <3>1
    <3>2. CASE h # g
      BY <1>0, <2>1, <3>2 DEF Shorter
    <3> QED  BY <3>1, <3>2
  <2> QED  BY <1>5, <2>1, <2>5
<1>7. ASSUME NEW g \in Stream!Goroutines, NEW others, Len(others["bridge"]) <= 2, others["scanner"] = outbox["scanner"],
             others \in [Stream!Goroutines -> Seq(Events)], g = "bridge" => others["bridge"] = outbox["bridge"],
             chan[g] \o outbox[g] # <<>>,
             IF chan[g] # <<>> THEN chan' = [chan EXCEPT ![g] = Tail(@)] /\ outbox' = others
             ELSE UNCHANGED chan /\ outbox' = [others EXCEPT ![g] = Tail(@)]
      PROVE  \A h \in Stream!Goroutines : Len(chan'[h]) <= Stream!Capacity(h) /\ Len(outbox'[h]) <= 2
  <2>0. /\ \A h \in Stream!Goroutines : Len(chan[h]) <= Stream!Capacity(h) /\ Len(others[h]) <= 2
        /\ Buffer \in Nat /\ \A h \in Stream!Goroutines : Stream!Capacity(h) \in Nat
    BY <1>0, <1>7, StreamAssumption DEF Shorter, Stream!ConstantsOK, Stream!Capacity
  <2>1. CASE chan[g] # <<>>
    <3>1. Len(Tail(chan[g])) <= Stream!Capacity(g)
      <4>1. Len(Tail(chan[g])) <= Len(chan[g]) /\ Len(chan[g]) \in Nat /\ Len(Tail(chan[g])) \in Nat
        BY <1>0, <2>1, TailsAreShort
      <4> QED  BY <2>0, <4>1
    <3> QED  BY <1>0, <1>7, <2>0, <2>1, <3>1
  <2>2. CASE chan[g] = <<>>
    <3>1. chan[g] \in Seq(Events) /\ outbox[g] \in Seq(Events) /\ outbox[g] # <<>> /\ others[g] = outbox[g]
      <4>1. chan[g] \in Seq(Events) /\ outbox[g] \in Seq(Events)
        BY <1>0
      <4>2. outbox[g] # <<>>
        BY <1>7, <2>2, <4>1, FirstWaiting
      <4> QED  BY <1>0, <1>7, <4>1, <4>2
    <3>2. Len(Tail(others[g])) <= 2
      <4>1. Len(Tail(others[g])) <= Len(others[g]) /\ Len(others[g]) \in Nat /\ Len(Tail(others[g])) \in Nat
        BY <3>1, TailsAreShort
      <4> QED  BY <2>0, <4>1
    <3> QED  BY <1>7, <2>0, <2>2, <3>2
  <2> QED  BY <2>1, <2>2
<1>8. CASE Stream!Bridge
  <2>1. UNCHANGED <<provider, said, prevText>>
    BY <1>8 DEF Stream!Bridge
  <2>2. CASE UNCHANGED <<chan, outbox>>
    BY <1>5, <2>1, <2>2 DEF Shorter
  <2>3. CASE Stream!Closed("scanner")
    BY <1>8, <2>2, <2>3 DEF Stream!Bridge
  <2>4. CASE ~Stream!Closed("scanner")
    <3>1. PICK e, es : e = Head(Stream!Waiting("scanner")) /\ es = Stream!Bridging(e)
      OBVIOUS
    <3>2. PICK others : others = [outbox EXCEPT !["bridge"] = es]
      OBVIOUS
    <3>3. /\ Stream!Waiting("scanner") # <<>>
          /\ IF chan["scanner"] # <<>>
               THEN chan' = [chan EXCEPT !["scanner"] = Tail(@)] /\ outbox' = others
               ELSE UNCHANGED chan /\ outbox' = [others EXCEPT !["scanner"] = Tail(@)]
      BY <1>8, <2>4, <3>1, <3>2 DEF Stream!Bridge
    <3>4. chan["scanner"] \o outbox["scanner"] # <<>> /\ e = Head(chan["scanner"] \o outbox["scanner"])
      BY <3>1, <3>3 DEF Stream!Waiting
    <3>5. e \in Spoken
      <4>1. PICK w : w = chan["scanner"] \o outbox["scanner"]
        OBVIOUS
      <4>2. w \in Seq(Spoken) /\ w # <<>> /\ e = Head(w)
        BY <1>0, <3>4, <4>1 DEF StreamTyped
      <4> QED  BY <4>2
    <3>6. es \in Seq(Events) /\ Len(es) <= 2
      <4>1. PICK f : f = Stream!Event("completed")
        OBVIOUS
      <4>2. f \in Events
        <5>1. "completed" \in Kinds /\ "completed" # "data"
          BY DEF Kinds
        <5> QED  BY <4>1, <5>1, EventType
      <4>3. CASE e.kind = "data"
        <5>1. PICK t : t = Stream!Chunk(e.text, FALSE, FALSE)
          OBVIOUS
        <5>2. t \in Events
          <6>1. e.text \in Seq(Letters)
            BY <3>5 DEF Spoken, Events
          <6>2. t \in Spoken
            BY <5>1, <6>1, ChunkType
          <6> QED  BY <6>2 DEF Spoken
        <5>3. es = <<>> \/ es = <<t>>
          BY <3>1, <4>3, <5>1 DEF Stream!Bridging
        <5>4. <<t>> \in Seq(Events) /\ <<>> \in Seq(Events)
          BY <5>2
        <5>5. Len(es) = 0 \/ Len(es) = 1
          BY <5>3, ShortLists, SMT
        <5> QED  BY <5>3, <5>4, <5>5, ShortLists, Zenon
      <4>4. CASE e.kind # "data"
        <5>1. e \in Events /\ e.kind \in {"done", "error"}
          BY <3>5, <4>4 DEF Spoken
        <5>2. es = <<e>> \/ es = <<f, e>>
          BY <3>1, <4>1, <5>1 DEF Stream!Bridging
        <5>3. <<e>> \in Seq(Events) /\ <<f, e>> \in Seq(Events)
          BY <4>2, <5>1
        <5>4. Len(es) = 1 \/ Len(es) = 2
          BY <5>2, ShortLists, SMT
        <5> QED  BY <5>2, <5>3, <5>4, ShortLists, Zenon
      <4> QED  BY <4>3, <4>4
    <3>7. others \in [Stream!Goroutines -> Seq(Events)] /\ others["scanner"] = outbox["scanner"] /\ others["bridge"] = es
      BY <1>0, <3>2, <3>6
    <3>8. \A h \in Stream!Goroutines : Len(chan'[h]) <= Stream!Capacity(h) /\ Len(outbox'[h]) <= 2
      BY <1>0, <1>7, <3>3, <3>4, <3>6, <3>7
    <3> QED  BY <1>5, <2>1, <3>8
  <2> QED  BY <2>3, <2>4
<1>9. CASE Stream!Forward
  <2>1. UNCHANGED <<provider, said, prevText>>
    BY <1>9 DEF Stream!Forward
  <2>2. CASE UNCHANGED <<chan, outbox>>
    BY <1>5, <2>1, <2>2 DEF Shorter
  <2>3. CASE Stream!Closed(Stream!Source)
    BY <1>9, <2>2, <2>3 DEF Stream!Forward
  <2>4. CASE ~Stream!Closed(Stream!Source)
    <3>1. PICK g \in Stream!Goroutines : g = Stream!Source
      BY <1>0 DEF Stream!Source
    <3>2. Stream!Waiting(g) # <<>> /\ Stream!Take(g)
      BY <1>9, <2>4, <3>1 DEF Stream!Forward
    <3>3. /\ chan[g] \o outbox[g] # <<>>
          /\ IF chan[g] # <<>> THEN chan' = [chan EXCEPT ![g] = Tail(@)] /\ outbox' = outbox
             ELSE UNCHANGED chan /\ outbox' = [outbox EXCEPT ![g] = Tail(@)]
      BY <3>2 DEF Stream!Waiting, Stream!Take
    <3>4. Len(outbox["bridge"]) <= 2
      BY <1>0 DEF Shorter
    <3>5. \A h \in Stream!Goroutines : Len(chan'[h]) <= Stream!Capacity(h) /\ Len(outbox'[h]) <= 2
      BY <1>0, <1>7, <3>3, <3>4
    <3> QED  BY <1>5, <2>1, <3>5
  <2> QED  BY <2>3, <2>4
<1>10. ASSUME \/ \E g \in Stream!Goroutines : Stream!Close(g)
              \/ Stream!Return \/ Stream!Disconnect \/ UNCHANGED Stream!vars
       PROVE  Shorter'
  <2>1. UNCHANGED <<provider, said, prevText, chan, outbox>>
    BY <1>10 DEF Stream!Close, Stream!Return, Stream!Disconnect, Stream!vars
  <2> QED  BY <1>5, <2>1 DEF Shorter
<1> QED  BY <1>1, <1>3, <1>4, <1>6, <1>8, <1>9, <1>10 DEF Stream!Next

(* A stream's invariant and these bounds are its types.                    *)
LEMMA StreamTypeIsEnough ==
  ASSUME StreamInv, Shorter
  PROVE  Stream!TypeOK
<1>0. StreamTyped /\ MaxLetters \in Nat
  BY StreamAssumption DEF StreamInv, Stream!ConstantsOK
<1>1. ASSUME NEW s \in Seq(Letters), Len(s) <= MaxLetters PROVE s \in Stream!BoundedSeq(Letters, MaxLetters)
  <2>1. PICK m : m = Len(s)
    OBVIOUS
  <2>2. m \in 0..MaxLetters /\ s \in [1..m -> Letters]
    BY <1>0, <1>1, <2>1
  <2> QED  BY <2>2 DEF Stream!BoundedSeq, Stream!SeqOf
<1>2. /\ said \in Seq(Letters) /\ prevText \in Seq(Letters) /\ Len(said) <= MaxLetters
      /\ Len(prevText) <= MaxLetters
  <2>1. /\ said \in Seq(Letters) /\ prevText \in Seq(Letters) /\ Len(said) <= MaxLetters
        /\ Len(prevText) <= Len(said)
    BY <1>0 DEF StreamTyped, Shorter
  <2>2. Len(said) \in Nat /\ Len(prevText) \in Nat
    BY <2>1
  <2> QED  BY <1>0, <2>1, <2>2
<1>3. said \in Stream!BoundedSeq(Letters, MaxLetters) /\ prevText \in Stream!BoundedSeq(Letters, MaxLetters)
  BY <1>1, <1>2
<1> QED  BY <1>0, <1>3 DEF StreamTyped, Shorter, Stream!TypeOK

----------------------------------------------------------------------------
(* What every part keeps.                                                  *)
PartsInv ==
  /\ part = "race" => RaceInv
  /\ part = "lone" => Lone!TypeOK /\ LoneEquipped
  /\ part = "stream" => StreamInv /\ ReturnEnds /\ Shorter
  /\ part = "key" => KeyInv /\ KeyTyped
  /\ part = "register" => RegisterInv

(* In every behaviour of MCSpec the part that is exercised keeps its       *)
(* types: no channel of a race or a stream holds more than its buffer, no  *)
(* counter leaves its bounds, every order tries every deployment, and what *)
(* a request is to try are objects of the router (router.go, fallback.go,  *)
(* speculative.go, the adapters' stream.go, ratelimit.go,                  *)
(* register_ratelimit.go).                                                 *)
THEOREM RoutingIsTyped == MCSpec => []PartTypeOK
<1>1. MCInit => PartsInv
  BY RaceBegins, LoneTypeBegins, StreamBegins, ShortBegins, KeyBegins, KeyTypeBegins, RegisterBegins
     DEF MCInit, PartsInv
<1>2. PartsInv /\ [MCNext]_MCVars => PartsInv'
  <2> SUFFICES ASSUME PartsInv, [MCNext]_MCVars PROVE PartsInv'
    OBVIOUS
  <2>1. /\ part' = part
        /\ part = "race" => [Race!Next]_raceVars
        /\ part = "lone" => [Lone!Next]_loneVars
        /\ part = "stream" => [Stream!Next]_streamVars
        /\ part = "key" => [Key!Next]_keyVars
        /\ part = "register" => [Register!Next]_hitVars
    BY DEF MCNext, MCVars, OrderStep, RaceStep, LoneStep, StreamStep, KeyStep, RegisterStep, Rest
  <2>2. CASE part = "race"
    <3>1. RaceInv'
      BY <2>1, <2>2, RaceStepsKeep DEF PartsInv
    <3> QED  BY <2>1, <2>2, <3>1 DEF PartsInv
  <2>3. CASE part = "lone"
    <3>1. [Lone!Next]_(Lone!vars)
      BY <2>1, <2>3 DEF loneVars, Lone!vars, Lone!history
    <3>2. Lone!TypeOK' /\ LoneEquipped'
      BY <2>3, <3>1, LoneTypeSteps DEF PartsInv
    <3> QED  BY <2>1, <2>3, <3>2 DEF PartsInv
  <2>4. CASE part = "stream"
    <3>1. [Stream!Next]_(Stream!vars)
      BY <2>1, <2>4 DEF streamVars, Stream!vars
    <3>2. StreamInv' /\ ReturnEnds' /\ Shorter'
      BY <2>4, <3>1, StreamSteps, ShortSteps DEF PartsInv
    <3> QED  BY <2>1, <2>4, <3>2 DEF PartsInv
  <2>5. CASE part = "key"
    <3>1. KeyInv' /\ KeyTyped'
      BY <2>1, <2>5, KeyStepsKeep, KeyTypeSteps DEF PartsInv
    <3> QED  BY <2>1, <2>5, <3>1 DEF PartsInv
  <2>6. CASE part = "register"
    <3>1. [Register!Next]_(Register!vars)
      BY <2>1, <2>6 DEF hitVars, Register!vars
    <3>2. RegisterInv'
      BY <2>6, <3>1, RegisterSteps DEF PartsInv
    <3> QED  BY <2>1, <2>6, <3>2 DEF PartsInv
  <2>7. CASE part \notin {"race", "lone", "stream", "key", "register"}
    BY <2>1, <2>7 DEF PartsInv
  <2> QED  BY <2>2, <2>3, <2>4, <2>5, <2>6, <2>7
<1>3. PartsInv /\ Ordering => PartTypeOK
  <2>1. RegisterInv => Register!TypeOK
    BY DEF RegisterInv, Remembered, Register!TypeOK
  <2>2. RaceInv => Race!TypeOK
    BY DEF RaceInv
  <2>3. OrderInv => TypeOK
    BY DEF OrderInv
  <2> QED  BY <2>1, <2>2, <2>3, KeyTypeIsEnough, StreamTypeIsEnough DEF PartsInv, Ordering, PartTypeOK
<1> QED  BY <1>1, <1>2, <1>3, OrderingBegins, OrderingIsKept, PTL DEF MCSpec

=============================================================================
