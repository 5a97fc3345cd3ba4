------------------------------- MODULE Ledger -------------------------------
(***************************************************************************)
(* The two signed chains a finished request is entered in: the rows of     *)
(* routing_savings (Writer.Write in savings/writer.go, with its two        *)
(* statements in db/savings.go), linked by the signature of the row        *)
(* before, and the receipts (Signer.Sign in receipt/receipt.go), whose     *)
(* links are kept in memory.  Several processes write to one database;     *)
(* each savings row is written by a goroutine of one of them.              *)
(*                                                                         *)
(* A signature, a receipt id and the created_at of a row are the number of *)
(* their turn: no two are the same.  What becomes of a receipt in its      *)
(* table (issueReceipt stores it in a goroutine of its own) has no effect  *)
(* on the chain, and is left out.                                          *)
(***************************************************************************)
EXTENDS Integers

CONSTANTS Replicas, Writers, ReplicaOf, Orgs,
          MaxSigned,       \* bound on the rows and receipts signed
          None

ASSUME ReplicaOfAssumption == ReplicaOf \in [Writers -> Replicas]
ASSUME MaxSignedAssumption == MaxSigned \in Nat
ASSUME NoneAssumption == None \notin Nat /\ None \notin Writers

VARIABLES
  rows,       \* the rows of routing_savings
  adrift,     \* inserts whose caller no longer waits for the answer
  chainMu,    \* replica -> who holds its lock
  write,      \* writer -> the row it is about to insert
  tail,       \* replica -> org -> the receipt it signed last
  receipts,   \* every receipt signed
  signed      \* turns taken

savingsVars == <<rows, adrift, chainMu, write>>
receiptVars == <<tail, receipts>>
vars == <<savingsVars, receiptVars, signed>>

Ids     == 1..MaxSigned
Links   == Ids \cup {None}
Receipt == [org : Orgs, prev : Links, id : Ids, by : Replicas]

(* orphan: the answer to its insert was not waited for. *)
Row     == [org : Orgs, prev : Links, id : Ids, by : Replicas, orphan : BOOLEAN]

Write   == [pc : {"idle", "read", "insert", "sent"}, org : Orgs \cup {None},
            prev : Links, id : Links]
NoWrite == [pc |-> "idle", org |-> None, prev |-> None, id |-> None]

TypeOK ==
  /\ rows \subseteq Row
  /\ adrift \subseteq Row
  /\ chainMu \in [Replicas -> Writers \cup {None}]
  /\ write \in [Writers -> Write]
  /\ tail \in [Replicas -> [Orgs -> Links]]
  /\ receipts \subseteq Receipt
  /\ signed \in 0..MaxSigned

Init ==
  /\ rows = {} /\ adrift = {}
  /\ chainMu = [p \in Replicas |-> None]
  /\ write = [w \in Writers |-> NoWrite]
  /\ tail = [p \in Replicas |-> [o \in Orgs |-> None]]
  /\ receipts = {}
  /\ signed = 0

----------------------------------------------------------------------------
(* Fault: the mutex is not taken. *)
LockWithoutMutex(w) ==
  /\ write[w].pc = "idle"
  /\ chainMu' = [chainMu EXCEPT ![ReplicaOf[w]] = w]
  /\ \E o \in Orgs : write' = [write EXCEPT ![w].pc = "read", ![w].org = o]
  /\ UNCHANGED <<rows, adrift, receiptVars, signed>>

(* The lock is one for all orgs of a process, and no other process's. *)
Lock(w) ==
  /\ write[w].pc = "idle"
  /\ chainMu[ReplicaOf[w]] = None
  /\ chainMu' = [chainMu EXCEPT ![ReplicaOf[w]] = w]
  /\ \E o \in Orgs : write' = [write EXCEPT ![w].pc = "read", ![w].org = o]
  /\ UNCHANGED <<rows, adrift, receiptVars, signed>>

(* The org's newest row: one, or none if there is no row. *)
Newest(o) == {row \in rows : row.org = o /\ \A x \in rows : x.org = o => x.id <= row.id}

(* Its signature is the link.  An error of the statement is passed over,   *)
(* and like the first row of an org the row then starts a chain.           *)
PrevSavingsHashForOrg(o) == {row.id : row \in Newest(o)} \cup {None}

ReadPrev(w) ==
  /\ write[w].pc = "read"
  /\ \E prev \in PrevSavingsHashForOrg(write[w].org) :
       write' = [write EXCEPT ![w].pc = "insert", ![w].prev = prev]
  /\ UNCHANGED <<rows, adrift, chainMu, receiptVars, signed>>

(* The row is signed and sent; the database stamps it as it begins. *)
Insert(w) ==
  /\ write[w].pc = "insert"
  /\ signed < MaxSigned
  /\ signed' = signed + 1
  /\ write' = [write EXCEPT ![w].pc = "sent", ![w].id = signed']
  /\ UNCHANGED <<rows, adrift, chainMu, receiptVars>>

RowOf(w, orphan) == [org |-> write[w].org, prev |-> write[w].prev, id |-> write[w].id,
                     by |-> ReplicaOf[w], orphan |-> orphan]

Unlock(w) ==
  /\ chainMu' = [chainMu EXCEPT ![ReplicaOf[w]] = None]
  /\ write' = [write EXCEPT ![w] = NoWrite]

(* The insert is done or has failed, or the five seconds of the goroutine  *)
(* are over first: the lock is released in any case.                       *)
Answer(w) ==
  /\ write[w].pc = "sent"
  /\ \/ rows' = rows \cup {RowOf(w, FALSE)} /\ UNCHANGED adrift
     \/ adrift' = adrift \cup {RowOf(w, TRUE)} /\ UNCHANGED rows
     \/ UNCHANGED <<rows, adrift>>
  /\ Unlock(w)
  /\ UNCHANGED <<receiptVars, signed>>

(* The database commits, or not, an insert nobody waits for. *)
Settle(row) ==
  /\ row \in adrift
  /\ adrift' = adrift \ {row}
  /\ rows' \in {rows, rows \cup {row}}
  /\ UNCHANGED <<chainMu, write, receiptVars, signed>>

----------------------------------------------------------------------------
(* Fault: only the first receipt of an org becomes the tail. *)
SignForTheFirst(p, o) ==
  /\ signed < MaxSigned
  /\ signed' = signed + 1
  /\ receipts' = receipts \cup {[org |-> o, prev |-> tail[p][o], id |-> signed', by |-> p]}
  /\ tail' = [tail EXCEPT ![p][o] = IF @ = None THEN signed' ELSE @]
  /\ UNCHANGED savingsVars

(* Sign links a receipt to the last one of the org and becomes the last    *)
(* itself, under the signer's lock.                                        *)
Sign(p, o) ==
  /\ signed < MaxSigned
  /\ signed' = signed + 1
  /\ receipts' = receipts \cup {[org |-> o, prev |-> tail[p][o], id |-> signed', by |-> p]}
  /\ tail' = [tail EXCEPT ![p][o] = signed']
  /\ UNCHANGED savingsVars

(* A process stops and starts: the goroutines and the tails are gone, what *)
(* it has sent is not.                                                     *)
Gone(p) == {w \in Writers : ReplicaOf[w] = p}

Restart(p) ==
  /\ adrift' = adrift \cup {RowOf(w, TRUE) : w \in {x \in Gone(p) : write[x].pc = "sent"}}
  /\ chainMu' = [chainMu EXCEPT ![p] = None]
  /\ write' = [w \in Writers |-> IF w \in Gone(p) THEN NoWrite ELSE write[w]]
  /\ tail' = [tail EXCEPT ![p] = [o \in Orgs |-> None]]
  /\ UNCHANGED <<rows, receipts, signed>>

Next ==
  \/ \E w \in Writers : Lock(w) \/ ReadPrev(w) \/ Insert(w) \/ Answer(w)
  \/ \E row \in adrift : Settle(row)
  \/ \E p \in Replicas : Restart(p) \/ \E o \in Orgs : Sign(p, o)

Spec == Init /\ [][Next]_vars

----------------------------------------------------------------------------
(* A savings row that is not the start of a chain continues an older row   *)
(* of its org, and no other row of its process continues the same one      *)
(* (writer.go:35-38), unless the database committed one of the two after   *)
(* its writer had given it up.                                             *)
OneProcessNeverForks ==
  \A row \in rows :
    row.prev # None =>
      /\ \E before \in rows : before.id = row.prev /\ before.org = row.org /\ before.id < row.id
      /\ \A other \in rows \ {row} :
           (other.prev = row.prev /\ other.by = row.by) => other.orphan \/ row.orphan

(* Receipts never fork, whatever fails or restarts: two receipts do not    *)
(* continue the same one, and a chain stays in its org and its process     *)
(* (receipt.go:111-133).                                                   *)
ReceiptsNeverFork ==
  \A r, s \in receipts :
    /\ (r.prev = s.prev /\ r.prev # None) => r = s
    /\ r.prev = s.id => r.org = s.org /\ r.by = s.by /\ s.id < r.id
=============================================================================
