----------------------------- MODULE Speculative -----------------------------
(***************************************************************************)
(* ExecuteSpeculative of router/speculative.go: the cheap and the          *)
(* expensive alias race under one cancellable context, and the first       *)
(* success wins.  A branch is one run of ExecuteWithFallbackForOrg         *)
(* (Fallback): all that matters here is that it ends, with a response or   *)
(* with an error, and that a cancelled context makes its upstream calls    *)
(* fail and the bodies it has returned unreadable, as net/http does.       *)
(***************************************************************************)
EXTENDS Naturals, Sequences, FiniteSets

VARIABLES clientGone, \* the caller's context is done
          cancelled,  \* cancelAll was called
          branch,     \* what each branch is doing
          response,   \* the response of each branch: none, or its body's state
          results,    \* the channel of branch results, in the order they were sent
          main,       \* the collecting loop
          winner,     \* the branch that won, or "none"
          losers      \* the results the loop has set aside

vars == <<clientGone, cancelled, branch, response, results, main, winner, losers>>

Branches == {"cheap", "expensive"}

TypeOK ==
  /\ clientGone \in BOOLEAN /\ cancelled \in BOOLEAN
  /\ branch \in [Branches -> {"grace", "running", "answered", "failed", "sent"}]
  /\ response \in [Branches -> {"none", "open", "closed"}]
  /\ results \in Seq(Branches \X BOOLEAN) /\ Len(results) <= 2     \* its capacity
  /\ main \in {"collecting", "returned"}
  /\ winner \in Branches \cup {"none"}
  /\ losers \subseteq Branches

Init ==
  /\ clientGone = FALSE /\ cancelled = FALSE
  /\ \E start \in {"grace", "running"} :      \* is cheapGrace zero or not
       branch = [b \in Branches |-> IF b = "expensive" THEN start ELSE "running"]
  /\ response = [b \in Branches |-> "none"]
  /\ results = <<>>
  /\ main = "collecting"
  /\ winner = "none"
  /\ losers = {}

(* parentCtx.Done() *)
Done == clientGone \/ cancelled

----------------------------------------------------------------------------
(* The branches *)

(* The grace is over: the branch starts, also when the context is done at  *)
(* the same time, for select then picks either case.                       *)
GraceOver(b) ==
  /\ branch[b] = "grace"
  /\ branch' = [branch EXCEPT ![b] = "running"]
  /\ UNCHANGED <<clientGone, cancelled, response, results, main, winner, losers>>

GraceCancelled(b) ==
  /\ branch[b] = "grace"
  /\ Done
  /\ branch' = [branch EXCEPT ![b] = "failed"]
  /\ UNCHANGED <<clientGone, cancelled, response, results, main, winner, losers>>

(* The upstream answers.  Once the context is done it cannot. *)
Answer(b) ==
  /\ branch[b] = "running"
  /\ ~Done
  /\ branch' = [branch EXCEPT ![b] = "answered"]
  /\ response' = [response EXCEPT ![b] = "open"]
  /\ UNCHANGED <<clientGone, cancelled, results, main, winner, losers>>

Fail(b) ==
  /\ branch[b] = "running"
  /\ branch' = [branch EXCEPT ![b] = "failed"]
  /\ UNCHANGED <<clientGone, cancelled, response, results, main, winner, losers>>

(* The channel has room for both results. *)
Publish(b) ==
  /\ branch[b] \in {"answered", "failed"}
  /\ results' = Append(results, <<b, branch[b] = "answered">>)
  /\ branch' = [branch EXCEPT ![b] = "sent"]
  /\ UNCHANGED <<clientGone, cancelled, response, main, winner, losers>>

----------------------------------------------------------------------------
(* The loop over the two results *)

Received == Cardinality(losers) + (IF winner = "none" THEN 0 ELSE 1)

(* Fault: a later success replaces the winner. *)
CollectLatest ==
  /\ main = "collecting"
  /\ Received < 2
  /\ Len(results) > Received
  /\ LET b  == results[Received + 1][1]
         ok == results[Received + 1][2]
     IN  IF ok
         THEN winner' = b /\ cancelled' = TRUE /\ losers' = losers \cup ({winner} \ {"none"})
         ELSE losers' = losers \cup {b} /\ UNCHANGED <<winner, cancelled>>
  /\ UNCHANGED <<clientGone, branch, response, results, main>>

Collect ==
  /\ main = "collecting"
  /\ Received < 2
  /\ Len(results) > Received
  /\ LET b  == results[Received + 1][1]
         ok == results[Received + 1][2]
     IN  IF ok /\ winner = "none"
         THEN winner' = b /\ cancelled' = TRUE /\ UNCHANGED losers
         ELSE losers' = losers \cup {b} /\ UNCHANGED <<winner, cancelled>>
  /\ UNCHANGED <<clientGone, branch, response, results, main>>

(* The losers' bodies are closed, and the deferred cancelAll runs.  What   *)
(* is returned is the winner's response, or the last error.                *)
Return ==
  /\ main = "collecting"
  /\ Received = 2
  /\ response' = [b \in Branches |-> IF b \in losers /\ response[b] = "open"
                                     THEN "closed" ELSE response[b]]
  /\ cancelled' = TRUE
  /\ main' = "returned"
  /\ UNCHANGED <<clientGone, branch, results, winner, losers>>

HangUp ==
  /\ clientGone' = TRUE
  /\ UNCHANGED <<cancelled, branch, response, results, main, winner, losers>>

Branch(b) == GraceOver(b) \/ GraceCancelled(b) \/ Answer(b) \/ Fail(b) \/ Publish(b)

Next == (\E b \in Branches : Branch(b)) \/ Collect \/ Return \/ HangUp

Spec == Init /\ [][Next]_vars

----------------------------------------------------------------------------
(* No goroutine and no connection outlives the call: when it returns both  *)
(* branches have ended, and of all the responses obtained only the         *)
(* returned one is still open.                                             *)
NothingLeaks ==
  main = "returned" => \A b \in Branches : /\ branch[b] = "sent"
                                           /\ response[b] = "open" <=> b = winner

(* A race is lost only when both branches lose it, and it is the first     *)
(* success to arrive that wins.                                            *)
FirstSuccessWins ==
  main = "returned" =>
    \/ winner = "none" /\ \A i \in DOMAIN results : ~results[i][2]
    \/ \E i \in DOMAIN results : /\ results[i] = <<winner, TRUE>>
                                /\ \A j \in 1..(i - 1) : ~results[j][2]

(* What the comment at lines 28-29 says: the first non-error response is   *)
(* returned and the loser is cancelled.  The winner's context is not.      *)
WinnerIsReadable ==
  main = "returned" /\ winner # "none" /\ ~clientGone => ~cancelled
=============================================================================
