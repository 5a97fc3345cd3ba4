---------------------------- MODULE RecordsProofs ----------------------------
(***************************************************************************)
(* What MCRecords promises, for any number of processes, writers, orgs,    *)
(* handlers, workers and recordings: the chains do not fork, the end of    *)
(* the process is clean, and the progress of a replay run is true.         *)
(*                                                                         *)
(* Savings: the lock keeps all but one writer of a process away from       *)
(* between its read and its answer (Mutex).  What the writer has read is   *)
(* the newest row, so no row of its process that was waited for links to   *)
(* it, and none comes to while it holds the lock (Fresh).  Ids are not     *)
(* reused (Distinct), so a link names one row (Linked).                    *)
(*                                                                         *)
(* Receipts: nothing links to a tail yet.                                  *)
(***************************************************************************)
EXTENDS MCRecords, InductionLemmas, FiniteSetTheorems, TLAPS

Writing(w) == write[w].pc \in {"read", "insert", "sent"}

Mutex == \A w \in Writers : Writing(w) => chainMu[ReplicaOf[w]] = w

Sent == {w \in Writers : write[w].pc = "sent"}

Filled ==
  /\ \A w \in Writers : Writing(w) => write[w].org \in Orgs
  /\ \A w \in Sent : write[w].id \in Ids

Shape == TypeOK /\ Filled

(* Ids are handed out once. *)
Distinct ==
  /\ \A r, s \in rows \cup adrift : r.id <= signed /\ (r.id = s.id => r = s)
  /\ \A w \in Sent :
       /\ write[w].id <= signed
       /\ \A r \in rows \cup adrift : r.id # write[w].id
       /\ \A x \in Sent : write[x].id = write[w].id => x = w

Orphans == \A r \in adrift : r.orphan

Continues(prev, org, id) ==
  prev # None => \E before \in rows : before.id = prev /\ before.org = org /\ before.id < id

Linked ==
  /\ \A r \in rows \cup adrift : Continues(r.prev, r.org, r.id)
  /\ \A w \in Writers :
       /\ write[w].pc = "insert" => Continues(write[w].prev, write[w].org, signed + 1)
       /\ write[w].pc = "sent" => Continues(write[w].prev, write[w].org, write[w].id)

(* Only rows that nobody waited for continue, in the same process, what a  *)
(* writer is about to continue.                                            *)
Fresh ==
  \A w \in Writers :
    (write[w].pc \in {"insert", "sent"} /\ write[w].prev # None) =>
      \A r \in rows : (r.prev = write[w].prev /\ r.by = ReplicaOf[w]) => r.orphan

Unforked ==
  \A r, s \in rows :
    (r # s /\ r.prev # None /\ r.prev = s.prev /\ r.by = s.by) => r.orphan \/ s.orphan

----------------------------------------------------------------------------
(* Receipts have different ids, and a tail is a receipt of its org and     *)
(* process that none continues.                                            *)
Receipts ==
  \A r, s \in receipts :
    /\ r.id <= signed
    /\ r.prev # None => r.prev < r.id
    /\ r.id = s.id => r = s

Tails ==
  \A p \in Replicas, o \in Orgs :
    tail[p][o] # None =>
      /\ \E r \in receipts : r.id = tail[p][o] /\ r.org = o /\ r.by = p
      /\ \A r \in receipts : r.prev # tail[p][o]


----------------------------------------------------------------------------
(* The variables of Ledger keep their types (savings/writer.go:77-177,     *)
(* receipt/receipt.go:102-137), for any writers, processes and orgs.       *)
LEMMA ShapeBegins ==
  ASSUME Init
  PROVE  Shape
BY MaxSignedAssumption, NoneAssumption, ReplicaOfAssumption
   DEF Init, Shape, TypeOK, Filled, Writing, Sent, NoWrite, Write, Row, Receipt, Ids, Links

(* Every step keeps the shape.                                             *)
LEMMA ShapeSteps ==
  ASSUME Shape, [Next]_vars
  PROVE  Shape'
<1> USE MaxSignedAssumption, NoneAssumption, ReplicaOfAssumption
<1> USE DEF Shape, TypeOK, Filled, Writing, Sent, receiptVars, savingsVars
<1>1. ASSUME NEW w \in Writers, Lock(w) PROVE Shape'
  <2>1. PICK o \in Orgs : write' = [write EXCEPT ![w] = [write[w] EXCEPT !.pc = "read", !.org = o]]
    BY <1>1 DEF Lock
  <2>2. [write[w] EXCEPT !.pc = "read", !.org = o] \in Write
    BY DEF Write
  <2>3. write' \in [Writers -> Write] /\ Filled'
    BY <1>1, <2>1, <2>2 DEF Write
  <2> QED  BY <1>1, <2>3 DEF Lock
<1>2. ASSUME NEW w \in Writers, ReadPrev(w) PROVE Shape'
  <2>1. \A prev \in PrevSavingsHashForOrg(write[w].org) : prev \in Links
    BY DEF PrevSavingsHashForOrg, Newest, Row, Links
  <2>2. PICK prev \in Links :
          write' = [write EXCEPT ![w] = [write[w] EXCEPT !.pc = "insert", !.prev = prev]]
    BY <1>2, <2>1 DEF ReadPrev
  <2>3. [write[w] EXCEPT !.pc = "insert", !.prev = prev] \in Write
    BY DEF Write
  <2>4. write' \in [Writers -> Write] /\ Filled'
    BY <1>2, <2>2, <2>3 DEF ReadPrev, Write
  <2> QED  BY <1>2, <2>4 DEF ReadPrev
<1>3. ASSUME NEW w \in Writers, Insert(w) PROVE Shape'
  <2>1. signed' \in Ids /\ signed' \in Links /\ signed' \in 0..MaxSigned
    BY <1>3 DEF Insert, Ids, Links
  <2> QED  BY <1>3, <2>1 DEF Insert, Write
<1>4. ASSUME NEW w \in Writers, Answer(w) PROVE Shape'
  <2>1. \A orphan \in BOOLEAN : RowOf(w, orphan) \in Row
    BY <1>4 DEF Answer, RowOf, Row, Write
  <2>2. rows' \subseteq Row /\ adrift' \subseteq Row
    BY <1>4, <2>1 DEF Answer
  <2>3. NoWrite \in Write
    BY DEF NoWrite, Write, Links
  <2>4. write' \in [Writers -> Write] /\ Filled'
    BY <1>4, <2>3 DEF Answer, Unlock, NoWrite
  <2> QED  BY <1>4, <2>2, <2>4 DEF Answer, Unlock
<1>5. ASSUME NEW r \in adrift, Settle(r) PROVE Shape'
  BY <1>5 DEF Settle
<1>6. ASSUME NEW p \in Replicas, Restart(p) PROVE Shape'
  <2>1. \A w \in Sent : RowOf(w, TRUE) \in Row
    BY DEF RowOf, Row, Write
  <2>2. adrift' \subseteq Row
    BY <1>6, <2>1 DEF Restart, Gone
  <2>3. NoWrite \in Write
    BY DEF NoWrite, Write, Links
  <2>4. write' \in [Writers -> Write] /\ Filled'
    BY <1>6, <2>3 DEF Restart, NoWrite
  <2>5. tail' \in [Replicas -> [Orgs -> Links]] /\ chainMu' \in [Replicas -> Writers \cup {None}]
    BY <1>6 DEF Restart, Links
  <2> QED  BY <1>6, <2>2, <2>4, <2>5 DEF Restart
<1>7. ASSUME NEW p \in Replicas, NEW o \in Orgs, Sign(p, o) PROVE Shape'
  <2>1. signed' \in Ids /\ signed' \in Links /\ signed' \in 0..MaxSigned
    BY <1>7 DEF Sign, Ids, Links
  <2> QED  BY <1>7, <2>1 DEF Sign, Receipt
<1>8. CASE UNCHANGED vars
  BY <1>8 DEF vars
<1> QED  BY <1>1, <1>2, <1>3, <1>4, <1>5, <1>6, <1>7, <1>8 DEF Next

(* It holds always.                                                        *)
LEMMA ShapeInvariant == Spec => []Shape
BY ShapeBegins, ShapeSteps, PTL DEF Spec

(* At most one writer of a process is between its read and its answer. *)
LEMMA MutexInvariant == Spec => []Mutex
<1> USE ReplicaOfAssumption, NoneAssumption
<1>1. Init => Mutex
  BY DEF Init, Mutex, Writing, NoWrite
<1>2. Shape /\ Mutex /\ [Next]_vars => Mutex'
  <2> SUFFICES ASSUME Shape, Mutex, [Next]_vars PROVE Mutex'
    OBVIOUS
  <2> USE DEF Shape, TypeOK, Mutex, Writing, NoWrite, receiptVars, savingsVars
  <2>1. ASSUME NEW w \in Writers, Lock(w) PROVE Mutex'
    BY <2>1 DEF Lock
  <2>2. ASSUME NEW w \in Writers, ReadPrev(w) PROVE Mutex'
    BY <2>2 DEF ReadPrev
  <2>3. ASSUME NEW w \in Writers, Insert(w) PROVE Mutex'
    BY <2>3 DEF Insert
  <2>4. ASSUME NEW w \in Writers, Answer(w) PROVE Mutex'
    BY <2>4 DEF Answer, Unlock
  <2>5. ASSUME NEW r \in adrift, Settle(r) PROVE Mutex'
    BY <2>5 DEF Settle
  <2>6. ASSUME NEW p \in Replicas, Restart(p) PROVE Mutex'
    BY <2>6 DEF Restart, Gone
  <2>7. ASSUME NEW p \in Replicas, NEW o \in Orgs, Sign(p, o) PROVE Mutex'
    BY <2>7 DEF Sign
  <2>8. CASE UNCHANGED vars
    BY <2>8 DEF vars
  <2> QED  BY <2>1, <2>2, <2>3, <2>4, <2>5, <2>6, <2>7, <2>8 DEF Next
<1> QED  BY <1>1, <1>2, ShapeInvariant, PTL DEF Spec

----------------------------------------------------------------------------
Chained == Distinct /\ Orphans /\ Linked /\ Fresh /\ Unforked

(* No row a process waited for continues the newest row. *)
LEMMA NewestIsFree ==
  ASSUME Shape, Distinct, Linked, NEW o \in Orgs, NEW newest \in Newest(o),
         NEW r \in rows, r.prev = newest.id
  PROVE  FALSE
<1>1. newest \in rows /\ newest.org = o /\ \A x \in rows : x.org = o => x.id <= newest.id
  BY DEF Newest
<1>2. newest.id \in Int /\ newest.id # None /\ r.id \in Int
  BY <1>1, NoneAssumption DEF Shape, TypeOK, Row, Ids
<1>3. PICK before \in rows : before.id = r.prev /\ before.org = r.org /\ before.id < r.id
  BY <1>2 DEF Linked, Continues
<1>4. before = newest
  BY <1>1, <1>3 DEF Distinct
<1> QED  BY <1>1, <1>2, <1>3, <1>4

(* The argument of the header, action by action. *)
LEMMA ChainedStep == Shape /\ Mutex /\ Chained /\ [Next]_vars => Chained'
<1> SUFFICES ASSUME Shape, Mutex, Chained, [Next]_vars PROVE Chained'
  OBVIOUS
<1> USE MaxSignedAssumption, NoneAssumption, ReplicaOfAssumption
<1> USE DEF Chained, receiptVars, savingsVars
<1>t. /\ signed \in Int
      /\ \A r \in rows \cup adrift : r.id \in Int /\ r.prev \in Ids \cup {None}
      /\ write \in [Writers -> Write]
      /\ \A w \in Sent : write[w].id \in Int
  BY DEF Shape, TypeOK, Filled, Row, Ids, Links
<1>1. ASSUME NEW w \in Writers, Lock(w) PROVE Chained'
  <2>1. /\ UNCHANGED <<rows, adrift, signed>>
        /\ write'[w].pc = "read"
        /\ \A x \in Writers : x # w => write'[x] = write[x]
    BY <1>1, <1>t DEF Lock
  <2> QED  BY <2>1 DEF Distinct, Orphans, Linked, Fresh, Unforked, Sent, Continues
<1>2. ASSUME NEW w \in Writers, ReadPrev(w) PROVE Chained'
  <2>1. PICK prev \in PrevSavingsHashForOrg(write[w].org) :
          write' = [write EXCEPT ![w] = [write[w] EXCEPT !.pc = "insert", !.prev = prev]]
    BY <1>2 DEF ReadPrev
  <2>2. /\ UNCHANGED <<rows, adrift, signed>>
        /\ write'[w].pc = "insert" /\ write'[w].prev = prev /\ write'[w].org = write[w].org
        /\ \A x \in Writers : x # w => write'[x] = write[x]
    BY <1>2, <1>t, <2>1, ZenonT(60) DEF ReadPrev, Write
  <2>3. prev # None => \E newest \in Newest(write[w].org) : newest.id = prev
    BY DEF PrevSavingsHashForOrg
  <2>4. write[w].org \in Orgs
    BY <1>2 DEF ReadPrev, Shape, Filled, Writing
  <2>5. Continues(prev, write[w].org, signed + 1)
    BY <1>t, <2>3 DEF Continues, Newest, Distinct
  <2>6. prev # None => \A r \in rows : r.prev # prev
    BY <2>3, <2>4, NewestIsFree
  <2>7. Distinct' /\ Orphans' /\ Unforked'
    BY <2>2 DEF Distinct, Orphans, Unforked, Sent
  <2>8. Linked'
    BY <2>2, <2>5 DEF Linked, Continues
  <2>9. Fresh'
    BY <2>2, <2>6 DEF Fresh
  <2> QED  BY <2>7, <2>8, <2>9
<1>3. ASSUME NEW w \in Writers, Insert(w) PROVE Chained'
  <2>1. /\ UNCHANGED <<rows, adrift>> /\ signed' = signed + 1
        /\ write[w].pc = "insert" /\ write'[w].pc = "sent" /\ write'[w].id = signed + 1
        /\ write'[w].prev = write[w].prev /\ write'[w].org = write[w].org
        /\ \A x \in Writers : x # w => write'[x] = write[x]
    BY <1>3, <1>t DEF Insert, Write
  <2>2. Distinct'
    BY <1>t, <2>1 DEF Distinct, Sent
  <2>3. Linked'
    BY <1>t, <2>1 DEF Linked, Continues
  <2>4. Orphans' /\ Unforked' /\ Fresh'
    BY <2>1 DEF Orphans, Unforked, Fresh
  <2> QED  BY <2>2, <2>3, <2>4
<1>4. ASSUME NEW w \in Writers, Answer(w) PROVE Chained'
  <2>1. /\ write[w].pc = "sent" /\ write'[w] = NoWrite /\ signed' = signed
        /\ \A x \in Writers : x # w => write'[x] = write[x]
    BY <1>4, <1>t DEF Answer, Unlock
  <2>2. w \in Sent /\ \A x \in Writers : ReplicaOf[x] = ReplicaOf[w] /\ Writing(x) => x = w
    BY <2>1 DEF Mutex, Writing, Sent
  <2> DEFINE new(orphan) == RowOf(w, orphan)
  <2>n. \A orphan \in BOOLEAN :
          /\ new(orphan).id = write[w].id /\ new(orphan).prev = write[w].prev
          /\ new(orphan).by = ReplicaOf[w] /\ new(orphan).orphan = orphan
    BY DEF RowOf
  <2>d. \A orphan \in BOOLEAN :
          rows' \cup adrift' \subseteq rows \cup adrift \cup {new(orphan)} => Distinct'
    <3> SUFFICES ASSUME NEW orphan \in BOOLEAN,
                        rows' \cup adrift' \subseteq rows \cup adrift \cup {new(orphan)}
                 PROVE  Distinct'
      OBVIOUS
    <3>1. \A x \in Sent' : x \in Sent /\ x # w /\ write'[x] = write[x]
      BY <2>1 DEF Sent, NoWrite
    <3> HIDE DEF new
    <3> QED  BY <1>t, <2>1, <2>2, <2>n, <3>1 DEF Distinct
  <2>3. CASE rows' = rows \cup {RowOf(w, FALSE)} /\ adrift' = adrift
    <3>1. Distinct'
      BY <2>3, <2>d
    <3>2. Linked'
      BY <1>t, <2>1, <2>3 DEF Linked, Continues, RowOf, NoWrite
    <3>3. Fresh'
      BY <2>1, <2>2, <2>3 DEF Fresh, RowOf, NoWrite, Writing
    <3>4. Unforked'
      <4>1. \A r \in rows :
              (r.prev # None /\ r.prev = new(FALSE).prev /\ r.by = new(FALSE).by) => r.orphan
        BY <2>1, <2>n DEF Fresh
      <4>2. rows' = rows \cup {new(FALSE)}
        BY <2>3
      <4> HIDE DEF new
      <4> QED  BY <4>1, <4>2 DEF Unforked
    <3> QED  BY <2>3, <3>1, <3>2, <3>3, <3>4 DEF Orphans
  <2>4. CASE rows' = rows /\ adrift' = adrift \cup {RowOf(w, TRUE)}
    <3>1. Distinct'
      BY <2>4, <2>d
    <3>2. Linked'
      BY <1>t, <2>1, <2>4 DEF Linked, Continues, RowOf, NoWrite
    <3> QED  BY <2>1, <2>4, <3>1, <3>2 DEF Orphans, Fresh, Unforked, RowOf, NoWrite
  <2>5. CASE rows' = rows /\ adrift' = adrift
    BY <2>1, <2>5 DEF Distinct, Orphans, Linked, Fresh, Unforked, Sent, Continues, NoWrite
  <2> QED  BY <1>4, <2>3, <2>4, <2>5 DEF Answer
<1>5. ASSUME NEW r \in adrift, Settle(r) PROVE Chained'
  <2>1. /\ UNCHANGED <<write, signed>> /\ adrift' \subseteq adrift
        /\ rows \subseteq rows' /\ rows' \subseteq rows \cup {r} /\ r.orphan
    BY <1>5 DEF Settle, Orphans
  <2>2. Distinct' /\ Linked'
    BY <1>t, <2>1 DEF Distinct, Linked, Continues, Sent
  <2> QED  BY <2>1, <2>2 DEF Orphans, Fresh, Unforked
<1>6. ASSUME NEW p \in Replicas, Restart(p) PROVE Chained'
  <2>1. /\ UNCHANGED <<rows, signed>>
        /\ \A x \in Writers : write'[x] = NoWrite \/ (x \notin Gone(p) /\ write'[x] = write[x])
        /\ adrift' = adrift \cup {RowOf(x, TRUE) : x \in {y \in Gone(p) : write[y].pc = "sent"}}
    BY <1>6 DEF Restart
  <2>2. \A r \in adrift' : r \in adrift \/ \E x \in Sent : x \in Gone(p) /\ r = RowOf(x, TRUE)
    BY <2>1 DEF Gone, Sent
  <2>i. \A x \in Sent : RowOf(x, TRUE).id = write[x].id
    BY DEF RowOf
  <2>s. \A x \in Sent' : x \in Sent /\ x \notin Gone(p) /\ write'[x] = write[x]
    BY <2>1 DEF Sent, NoWrite
  <2>3. Distinct'
    <3>a. ASSUME NEW r \in rows' \cup adrift'
          PROVE  r \in rows \cup adrift \/ \E x \in Sent : x \in Gone(p) /\ r = RowOf(x, TRUE)
      BY <2>1, <2>2
    <3>1. ASSUME NEW r \in rows' \cup adrift', NEW s \in rows' \cup adrift'
          PROVE  r.id <= signed /\ (r.id = s.id => r = s)
      <4>1. CASE r \in rows \cup adrift /\ s \in rows \cup adrift
        BY <4>1 DEF Distinct
      <4>2. ASSUME r \in rows \cup adrift, NEW x \in Sent, s = RowOf(x, TRUE)
            PROVE  r.id <= signed /\ r.id # s.id
        <5>1. r.id <= signed /\ r.id # write[x].id
          BY <4>2 DEF Distinct
        <5>2. s.id = write[x].id
          BY <4>2, <2>i
        <5> QED  BY <5>1, <5>2
      <4>3. ASSUME s \in rows \cup adrift, NEW x \in Sent, r = RowOf(x, TRUE)
            PROVE  r.id <= signed /\ r.id # s.id
        <5>1. write[x].id <= signed /\ s.id # write[x].id
          BY <4>3 DEF Distinct
        <5>2. r.id = write[x].id
          BY <4>3, <2>i
        <5> QED  BY <5>1, <5>2
      <4>4. ASSUME NEW x \in Sent, NEW y \in Sent, r = RowOf(x, TRUE), s = RowOf(y, TRUE)
            PROVE  r.id <= signed /\ (r.id = s.id => r = s)
        <5>1. write[x].id <= signed /\ (write[x].id = write[y].id => x = y)
          BY DEF Distinct
        <5>2. r.id = write[x].id /\ s.id = write[y].id
          BY <4>4, <2>i
        <5> QED  BY <4>4, <5>1, <5>2
      <4>5. r \in rows \cup adrift \/ \E x \in Sent : r = RowOf(x, TRUE)
        BY <3>a
      <4>6. s \in rows \cup adrift \/ \E x \in Sent : s = RowOf(x, TRUE)
        BY <3>a
      <4>7. CASE r \in rows \cup adrift
        BY <4>1, <4>2, <4>6, <4>7
      <4>8. CASE \E x \in Sent : r = RowOf(x, TRUE)
        BY <4>3, <4>4, <4>6, <4>8
      <4> QED  BY <4>5, <4>7, <4>8
    <3>2. ASSUME NEW x \in Sent', NEW r \in rows' \cup adrift'
          PROVE  r.id # write[x].id
      <4>0. \A y \in Sent : \A b \in rows \cup adrift : b.id # write[y].id
        BY DEF Distinct
      <4>1. CASE r \in rows \cup adrift
        BY <4>0, <4>1, <2>s
      <4>2. CASE \E y \in Sent : y \in Gone(p) /\ r = RowOf(y, TRUE)
        BY <4>2, <2>i, <2>s, ZenonT(60) DEF Distinct
      <4> QED  BY <3>a, <4>1, <4>2
    <3> QED  BY <2>1, <2>s, <3>1, <3>2, ZenonT(60) DEF Distinct
  <2>4. Linked'
    BY <2>1, <2>2 DEF Linked, Continues, Sent, RowOf, NoWrite
  <2> QED  BY <2>1, <2>2, <2>3, <2>4 DEF Orphans, Fresh, Unforked, RowOf, NoWrite
<1>7. ASSUME NEW p \in Replicas, NEW o \in Orgs, Sign(p, o) PROVE Chained'
  BY <1>7, <1>t DEF Sign, Distinct, Orphans, Linked, Fresh, Unforked, Continues, Sent
<1>8. CASE UNCHANGED vars
  BY <1>8 DEF vars, Distinct, Orphans, Linked, Fresh, Unforked, Continues, Sent
<1> QED  BY <1>1, <1>2, <1>3, <1>4, <1>5, <1>6, <1>7, <1>8 DEF Next

(* The savings chain of a process forks only where an insert was given up  *)
(* (savings/writer.go:141-164), however many processes and writers.        *)
THEOREM SavingsChain == Spec => []OneProcessNeverForks
<1>1. Init => Chained
  BY DEF Init, Chained, Distinct, Orphans, Linked, Fresh, Unforked, Sent, NoWrite
<1>2. Shape /\ Chained => OneProcessNeverForks
  BY DEF Shape, TypeOK, Chained, Linked, Continues, Unforked, OneProcessNeverForks
<1> QED  BY <1>1, <1>2, ChainedStep, ShapeInvariant, MutexInvariant, PTL DEF Spec

----------------------------------------------------------------------------
(* Receipts never fork (receipt/receipt.go:111-136): Sign moves the tail   *)
(* past the receipt it has just linked to.                                 *)
THEOREM ReceiptChain == Spec => []ReceiptsNeverFork
<1> DEFINE Inv == Receipts /\ Tails /\ ReceiptsNeverFork
<1>1. Init => Inv
  BY DEF Init, Receipts, Tails, ReceiptsNeverFork
<1>2. Shape /\ Inv /\ [Next]_vars => Inv'
  <2> SUFFICES ASSUME Shape, Inv, [Next]_vars PROVE Inv'
    OBVIOUS
  <2> USE NoneAssumption
  <2>t. /\ signed \in Nat
        /\ \A r \in receipts : r.id \in Nat /\ r.prev \in Nat \cup {None}
        /\ tail \in [Replicas -> [Orgs -> Nat \cup {None}]]
    BY MaxSignedAssumption DEF Shape, TypeOK, Receipt, Ids, Links
  <2>1. ASSUME NEW p \in Replicas, NEW o \in Orgs, Sign(p, o) PROVE Inv'
    <3> DEFINE new == [org |-> o, prev |-> tail[p][o], id |-> signed + 1, by |-> p]
    <3>1. /\ receipts' = receipts \cup {new} /\ signed' = signed + 1
          /\ tail' = [tail EXCEPT ![p] = [tail[p] EXCEPT ![o] = signed + 1]]
      BY <2>1 DEF Sign
    <3>2. new.org = o /\ new.prev = tail[p][o] /\ new.id = signed + 1 /\ new.by = p
      OBVIOUS
    <3>3. new.prev # None =>
            /\ new.prev \in Nat /\ new.prev <= signed
            /\ \A r \in receipts : /\ r.prev # new.prev
                                   /\ new.prev = r.id => r.org = o /\ r.by = p
      BY <2>t DEF Tails, Receipts
    <3> HIDE DEF new
    <3>4. Receipts'
      BY <2>t, <3>1, <3>2, <3>3 DEF Receipts
    <3>5. Tails'
      <4> SUFFICES ASSUME NEW q \in Replicas, NEW b \in Orgs, tail'[q][b] # None
                   PROVE  /\ \E r \in receipts' : r.id = tail'[q][b] /\ r.org = b /\ r.by = q
                          /\ \A r \in receipts' : r.prev # tail'[q][b]
        BY DEF Tails
      <4>1. CASE q = p /\ b = o
        BY <2>t, <3>1, <3>2, <3>3, <4>1 DEF Receipts
      <4>2. CASE ~(q = p /\ b = o)
        <5>1. tail'[q][b] = tail[q][b]
          BY <2>t, <3>1, <4>2
        <5>2. new.prev # tail[q][b]
          BY <2>t, <3>2, <3>3, <4>2, <5>1 DEF Tails, Receipts
        <5> QED  BY <3>1, <5>1, <5>2 DEF Tails
      <4> QED  BY <4>1, <4>2
    <3>6. ReceiptsNeverFork'
      <4>1. ASSUME NEW r \in receipts PROVE r.prev # new.id /\ r.id < new.id
        BY <2>t, <3>2, <4>1 DEF Receipts
      <4>2. new.prev # new.id
        BY <2>t, <3>2, <3>3
      <4>3. \A r \in receipts : (r.prev = new.prev /\ r.prev # None) => FALSE
        BY <3>3
      <4>4. \A r \in receipts : new.prev = r.id => r.org = new.org /\ r.by = new.by
        BY <2>t, <3>2, <3>3
      <4> QED  BY <3>1, <4>1, <4>2, <4>3, <4>4 DEF ReceiptsNeverFork
    <3> QED  BY <3>4, <3>5, <3>6
  <2>2. ASSUME NEW p \in Replicas, Restart(p) PROVE Inv'
    <3>1. /\ UNCHANGED <<receipts, signed>>
          /\ \A q \in Replicas, o \in Orgs : tail'[q][o] \in {None, tail[q][o]}
      BY <2>2, <2>t DEF Restart
    <3> QED  BY <3>1 DEF Receipts, Tails, ReceiptsNeverFork
  <2>3. ASSUME UNCHANGED receiptVars, signed' \in {signed, signed + 1} PROVE Inv'
    BY <2>3, <2>t DEF receiptVars, Receipts, Tails, ReceiptsNeverFork
  <2> QED
    BY <2>1, <2>2, <2>3
    DEF Next, Lock, ReadPrev, Insert, Answer, Settle, savingsVars, vars
<1> QED  BY <1>1, <1>2, ShapeInvariant, PTL DEF Spec

----------------------------------------------------------------------------
(* Sinks.  The audit buffer and the queue are closed after Shutdown has    *)
(* waited for the handlers (ClosedLast); no worker is gone before its      *)
(* queue is closed and empty, and none is left after a Stop that did not   *)
(* time out (GoneLast).                                                    *)
Stopping == {"serving", "shutdown"}
Over     == {"roller", "await roller", "db", "exited"}

SinksShape ==
  /\ main \in Sinks!Stages
  /\ handler \in [Handlers -> {"idle", "enqueue", "send", "record"}]
  /\ queue \in Nat /\ queue <= QueueSize /\ audit \in Nat /\ audit <= AuditSize
  /\ worker \in [Workers -> {"waiting", "writing", "gone"}]
  /\ roller \in {"waiting", "rolling", "gone"}

ClosedLast ==
  /\ panicked => forced
  /\ main \in Stopping => ~auditClosed /\ ~queueClosed /\ ~panicked
  /\ main \notin Stopping /\ ~forced => \A h \in Handlers : handler[h] = "idle"

GoneLast ==
  /\ (\E w \in Workers : worker[w] = "gone") => queueClosed /\ queue = 0
  /\ main \in Over /\ ~timedOut => \A w \in Workers : worker[w] = "gone"

SinksInv == SinksShape /\ ClosedLast /\ GoneLast

(* A process begins with everything open.                                  *)
LEMMA SinksBegin ==
  ASSUME Sinks!Init
  PROVE  SinksInv
BY SinkAssumption DEF Sinks!Init, Sinks!Stages, Sinks!ConstantsOK, SinksInv, SinksShape, ClosedLast, GoneLast, Stopping, Over

(* No step of a handler, a worker, the roller or main breaks it.           *)
LEMMA SinksStep ==
  ASSUME SinksInv, [Sinks!Next]_sinkVars
  PROVE  SinksInv'
<1>0. QueueSize \in Nat /\ AuditSize \in Nat
  BY SinkAssumption DEF Sinks!ConstantsOK
<1>s. SinksShape /\ ClosedLast /\ GoneLast
  BY DEF SinksInv
<1> USE DEF SinksShape
<1>1. ASSUME NEW h \in Handlers, Sinks!Accept(h) \/ Sinks!Enqueue(h) PROVE SinksInv'
  <2>1. /\ UNCHANGED <<main, forced, queue, queueClosed, worker, timedOut, audit, auditClosed,
                       roller, panicked>>
        /\ handler' \in [Handlers -> {"idle", "enqueue", "send", "record"}]
        /\ main = "serving" \/ handler[h] = "enqueue"
        /\ \A x \in Handlers : x # h => handler'[x] = handler[x]
    BY <1>1, <1>s DEF Sinks!Accept, Sinks!Enqueue, Sinks!Becomes
  <2>2. SinksShape'
    BY <1>s, <2>1
  <2>3. ClosedLast'
    BY <1>s, <2>1 DEF ClosedLast, Stopping
  <2>4. GoneLast'
    BY <1>s, <2>1 DEF GoneLast
  <2> QED  BY <2>2, <2>3, <2>4 DEF SinksInv
<1>2. ASSUME NEW h \in Handlers, Sinks!Send(h) \/ Sinks!Record(h) PROVE SinksInv'
  <2>1. /\ UNCHANGED <<main, forced, queueClosed, worker, timedOut, auditClosed, roller>>
        /\ handler' \in [Handlers -> {"idle", "enqueue", "send", "record"}]
        /\ handler[h] # "idle"
        /\ panicked' => panicked \/ queueClosed \/ auditClosed
    BY <1>2, <1>s DEF Sinks!Send, Sinks!Record, Sinks!Becomes
  <2>2. /\ queue' \in Nat /\ queue' <= QueueSize /\ (queueClosed => queue' = queue)
        /\ audit' \in Nat /\ audit' <= AuditSize
    BY <1>0, <1>2, <1>s DEF Sinks!Send, Sinks!Record
  <2>3. SinksShape'
    BY <1>s, <2>1, <2>2
  <2>4. ClosedLast'
    BY <1>s, <2>1 DEF ClosedLast
  <2>5. GoneLast'
    BY <1>s, <2>1, <2>2 DEF GoneLast
  <2> QED  BY <2>3, <2>4, <2>5 DEF SinksInv
<1>3. ASSUME NEW w \in Workers, Sinks!Take(w) \/ Sinks!Write(w) PROVE SinksInv'
  <2>1. /\ UNCHANGED <<main, forced, handler, queueClosed, timedOut, audit, auditClosed, roller, panicked>>
        /\ queue' \in Nat /\ queue' <= queue
        /\ worker' \in [Workers -> {"waiting", "writing", "gone"}]
        /\ \A x \in Workers : x # w => worker'[x] = worker[x]
        /\ worker[w] # "gone"
        /\ worker'[w] = "gone" => queue = 0 /\ queueClosed
    BY <1>3, <1>s DEF Sinks!Take, Sinks!Write
  <2>2. SinksShape'
    BY <1>0, <1>s, <2>1
  <2>3. ClosedLast'
    BY <1>s, <2>1 DEF ClosedLast
  <2>4. GoneLast'
    BY <1>s, <2>1 DEF GoneLast
  <2> QED  BY <2>2, <2>3, <2>4 DEF SinksInv
<1>4. ASSUME Sinks!InsertAuditEvent \/ Sinks!Roll \/ Sinks!Rolled \/ Sinks!RollerStops PROVE SinksInv'
  <2>1. /\ UNCHANGED <<main, forced, handler, queue, queueClosed, worker, timedOut, auditClosed, panicked>>
        /\ roller' \in {"waiting", "rolling", "gone"}
    BY <1>4, <1>s DEF Sinks!InsertAuditEvent, Sinks!Roll, Sinks!Rolled, Sinks!RollerStops, Sinks!RollerIs
  <2>2. audit' \in Nat /\ audit' <= AuditSize
    BY <1>0, <1>4, <1>s DEF Sinks!InsertAuditEvent, Sinks!Roll, Sinks!Rolled, Sinks!RollerStops, Sinks!RollerIs
  <2>3. SinksShape'
    BY <1>s, <2>1, <2>2
  <2>4. ClosedLast' /\ GoneLast'
    BY <1>s, <2>1 DEF ClosedLast, GoneLast
  <2> QED  BY <2>3, <2>4 DEF SinksInv
<1>5. ASSUME Sinks!Signal \/ Sinks!Shutdown PROVE SinksInv'
  <2>1. /\ UNCHANGED <<handler, queue, queueClosed, worker, timedOut, audit, auditClosed, roller, panicked>>
        /\ main \in Stopping /\ main' \in {"shutdown", "audit"}
        /\ main' = "shutdown" => forced' = forced
        /\ main' = "audit" /\ ~forced' => \A h \in Handlers : handler[h] = "idle"
    BY <1>5 DEF Sinks!Signal, Sinks!Shutdown, Stopping
  <2>2. SinksShape'
    BY <1>s, <2>1 DEF Sinks!Stages
  <2>3. panicked' => forced'
    BY <1>5, <1>s, <2>1 DEF Sinks!Signal, Sinks!Shutdown, ClosedLast
  <2>4. ClosedLast' /\ GoneLast'
    BY <1>s, <2>1, <2>3 DEF ClosedLast, GoneLast, Stopping, Over
  <2> QED  BY <2>2, <2>4 DEF SinksInv
<1>6. ASSUME Sinks!Close PROVE SinksInv'
  <2>1. /\ UNCHANGED <<forced, handler, queue, worker, audit, roller, panicked>>
        /\ main \notin Stopping /\ main' \in Sinks!Stages \ Stopping
    BY <1>6 DEF Sinks!Close, Sinks!CloseAudit, Sinks!SetStopped, Sinks!CloseQueue, Sinks!AwaitWorkers,
                Sinks!StopRoller, Sinks!AwaitRoller, Sinks!Exit, Stopping, Sinks!Stages
  <2>2. /\ queueClosed => queueClosed'
        /\ main' \in Over /\ ~timedOut' =>
             (main \in Over /\ ~timedOut) \/ \A w \in Workers : worker[w] = "gone"
    <3>1. ASSUME Sinks!CloseAudit \/ Sinks!SetStopped \/ Sinks!CloseQueue
          PROVE  (queueClosed => queueClosed') /\ main' \notin Over
      <4>1. main' \in {"recorder", "close queue", "drain"}
        BY <3>1 DEF Sinks!CloseAudit, Sinks!SetStopped, Sinks!CloseQueue
      <4>2. queueClosed => queueClosed'
        BY <3>1 DEF Sinks!CloseAudit, Sinks!SetStopped, Sinks!CloseQueue
      <4>3. main' \notin Over
        BY <4>1 DEF Over
      <4> QED  BY <4>2, <4>3
    <3>2. CASE Sinks!AwaitWorkers
      BY <3>2 DEF Sinks!AwaitWorkers, Sinks!Drained
    <3>3. ASSUME Sinks!StopRoller \/ Sinks!AwaitRoller \/ Sinks!Exit
          PROVE  main \in Over /\ UNCHANGED <<queueClosed, timedOut>>
      BY <3>3 DEF Sinks!StopRoller, Sinks!AwaitRoller, Sinks!Exit, Over
    <3> QED  BY <1>6, <3>1, <3>2, <3>3 DEF Sinks!Close
  <2>3. SinksShape' /\ ClosedLast'
    BY <1>s, <2>1 DEF ClosedLast
  <2>4. GoneLast'
    BY <1>s, <2>1, <2>2 DEF GoneLast
  <2> QED  BY <2>3, <2>4 DEF SinksInv
<1>7. CASE UNCHANGED sinkVars
  BY <1>7, <1>s DEF sinkVars, SinksInv, ClosedLast, GoneLast
<1> QED
  BY <1>1, <1>2, <1>3, <1>4, <1>5, <1>6, <1>7 DEF Sinks!Next, Sinks!Goroutine

(* The end of the process is part of what MCRecords runs.                  *)
SinksPart == IF part = "sinks" THEN SinksInv ELSE ~(main \in Over) /\ panicked = FALSE

(* The invariant of the sinks holds always, in their part.                 *)
LEMMA SinksPartHolds == MCSpec => []SinksPart
<1>1. MCInit => SinksPart
  BY SinksBegin DEF MCInit, SinksPart, SinksIdle, Idle, Over, Chains
<1>2. SinksPart /\ [MCNext]_MCVars => SinksPart'
  <2> SUFFICES ASSUME SinksPart, [MCNext]_MCVars PROVE SinksPart'
    OBVIOUS
  <2>1. CASE part = "sinks"
    <3>1. part' = part /\ [Sinks!Next]_sinkVars
      BY <2>1 DEF MCNext, MCVars, ChainStep, SinkStep, RunStep, Chains
    <3> QED  BY <2>1, <3>1, SinksStep DEF SinksPart
  <2>2. CASE part # "sinks"
    <3>1. part' = part /\ UNCHANGED sinkVars
      BY <2>2 DEF MCNext, MCVars, ChainStep, SinkStep, RunStep
    <3> QED  BY <2>2, <3>1 DEF SinksPart, sinkVars, Over
  <2> QED  BY <2>1, <2>2
<1> QED  BY <1>1, <1>2, PTL DEF MCSpec

(* Nobody sends on a closed channel unless Shutdown gave up on handlers    *)
(* that were still running (server.go:850-861), and a recorder whose Stop  *)
(* did not time out has written its whole queue (recorder.go:80-98), for   *)
(* any number of handlers and workers and buffers of any size.             *)
THEOREM ProcessEndsClean == MCSpec => []ShutdownIsClean
<1>1. SinksPart => ShutdownIsClean
  <2>1. Workers # {}
    BY SinkAssumption DEF Sinks!ConstantsOK
  <2> QED
    BY <2>1 DEF SinksPart, SinksInv, ClosedLast, GoneLast, ShutdownIsClean, Sinks!OnlyForcedShutdownPanics,
                Sinks!StoppedIsDrained, Sinks!Drained, Over
<1> QED  BY <1>1, SinksPartHolds, PTL

----------------------------------------------------------------------------
(* ReplayRun.  What a scorer gives is between 0 and Points: the shares of  *)
(* patterns and keys are of subsets, and the cosine is by the inequality   *)
(* of Cauchy and Schwarz.                                                  *)
Points == Run!Points

(* A share is at most the whole.                                           *)
LEMMA SharesAreBounded ==
  ASSUME NEW S, IsFiniteSet(S), S # {}, NEW A, A \subseteq S
  PROVE  Run!Part(Run!Cardinality(A), Run!Cardinality(S)) \in 0..Points
<1>1. Run!Cardinality(A) = Cardinality(A) /\ Run!Cardinality(S) = Cardinality(S)
  BY DEF Run!Cardinality, Cardinality
<1>2. Cardinality(A) \in Nat /\ Cardinality(S) \in Nat /\ Cardinality(A) <= Cardinality(S) /\ Cardinality(S) # 0
  BY FS_Subset, FS_CardinalityType, FS_EmptySet
<1>3. \A n, d \in Nat : n <= d /\ d # 0 => (12 * n) \div d \in 0..12
  OBVIOUS
<1> QED  BY <1>1, <1>2, <1>3 DEF Run!Part, Points, Run!Points

(* The product of two vectors is a sum.                                    *)
LEMMA DotIsTotal ==
  ASSUME NEW a, NEW b
  PROVE  Run!Dot(a, b) = Total(Product(a, b, DOMAIN a), DOMAIN a)
<1>1. DOMAIN Product(a, b, DOMAIN a) = DOMAIN a
  BY DEF Product
<1>2. \A f : Run!FoldFunction(+, 0, f) = Total(f, DOMAIN f)
  BY Zenon DEF Run!FoldFunction, Run!FoldFunctionOnSet, Run!MapThenFoldSet, Total, Totals, Pick
<1>3. Run!Dot(a, b) = Run!FoldFunction(+, 0, Product(a, b, DOMAIN a))
  BY Zenon DEF Run!Dot, Product
<1> QED  BY <1>1, <1>2, <1>3

(* A cosine is at most 1.                                                  *)
LEMMA CosineIsBounded ==
  ASSUME NEW reply \in Replies
  PROVE  Run!CosineScore(reply) \in 0..Points
<1> DEFINE D == DOMAIN Original.words
           a == Original.words
           b == reply.words
           x == Total(Product(a, b, D), D)
           p == Total(Product(a, a, D), D)
           q == Total(Product(b, b, D), D)
           S == {n \in 0..(Points * x) : n * n * (p * q) <= Points * Points * x * x}
<1>1. IsFiniteSet(D) /\ a \in [D -> Nat] /\ b \in [D -> Nat]
  BY RunAssumption DEF Run!ConstantsOK, Run!IsFiniteSet, IsFiniteSet
<1>2. x \in Nat /\ p \in Nat /\ q \in Nat /\ x * x <= p * q
  <2> HIDE DEF D, a, b
  <2> QED  BY <1>1, CauchySchwarz
<1>3. Run!Dot(a, b) = x /\ Run!Dot(a, a) = p /\ Run!Dot(b, b) = q
  <2>1. DOMAIN b = D /\ DOMAIN a = D
    BY <1>1
  <2> QED  BY <2>1, DotIsTotal
<1>4. Run!CosineScore(reply) = IF p * q = 0 THEN 0 ELSE Run!Max(S)
  BY <1>3 DEF Run!CosineScore, Points
<1> HIDE DEF D, a, b, x, p, q
<1>5. CASE p * q = 0
  BY <1>4, <1>5 DEF Points, Run!Points
<1>6. CASE p * q # 0
  <2>1. ASSUME NEW n \in S PROVE n \in 0..Points
    <3>1. n \in Nat /\ n * n * (p * q) <= (12 * 12) * (x * x)
      BY <1>2 DEF Points, Run!Points
    <3>2. PICK k \in Nat : k = p * q
      BY <1>2
    <3>3. k >= 1 /\ x * x <= k /\ x * x \in Nat
      BY <1>2, <1>6, <3>2
    <3>4. n * n * k <= 144 * k
      BY <3>1, <3>2, <3>3
    <3>5. CASE n >= 13
      <4>1. n * n >= 169
        BY <3>1, <3>5
      <4>2. \A m \in Nat : m >= 169 => m * k > 144 * k
        BY <3>3
      <4>3. n * n \in Nat
        BY <3>1
      <4> QED  BY <3>4, <4>1, <4>2, <4>3, <3>3
    <3> QED  BY <3>1, <3>5 DEF Points, Run!Points
  <2>2. 0 \in S
    BY <1>2 DEF Points, Run!Points
  <2> HIDE DEF S
  <2>3. PICK m \in S : \A n \in S : m >= n
    <3>1. Points \in Nat /\ S \subseteq 0..Points /\ S # {}
      BY <2>1, <2>2 DEF Points, Run!Points
    <3> QED  BY <3>1, GreatestElement
  <2>4. Run!Max(S) \in S
    BY <2>3 DEF Run!Max
  <2> QED  BY <1>4, <1>6, <2>1, <2>4
<1> QED  BY <1>5, <1>6

(* A score is an error or between 0 and 1.                                 *)
LEMMA ScoresAreBounded ==
  ASSUME NEW reply \in Replies
  PROVE  Run!ScoreOf(reply) \in {Error} \cup 0..Points
<1>0. 12 \in 0..Points /\ 0 \in 0..Points /\ IsFiniteSet(Patterns) /\ IsFiniteSet(RequiredKeys) /\ Points = 12
      /\ Run!Points = 12
  BY RunAssumption DEF Run!ConstantsOK, Run!IsFiniteSet, IsFiniteSet, Points, Run!Points
<1>1. Run!RegexScore(reply) \in 0..Points
  BY <1>0, SharesAreBounded DEF Run!RegexScore
<1>2. Run!JSONSchemaScore(reply) \in 0..Points
  <2>1. \A wrong : \A n \in 0..Points : Run!Diminished(n, wrong) \in 0..Points
    <3>1. \A n \in 0..12 : (3 * n) \div 4 \in 0..12
      OBVIOUS
    <3> QED  BY <1>0, <3>1 DEF Run!Diminished
  <2>2. RequiredKeys # {} =>
          Run!Part(Run!Cardinality(RequiredKeys \cap DOMAIN reply.object), Run!Cardinality(RequiredKeys)) \in 0..Points
    <3>1. RequiredKeys \cap DOMAIN reply.object \subseteq RequiredKeys
      OBVIOUS
    <3> QED  BY <1>0, <3>1, SharesAreBounded
  <2> QED  BY <1>0, <2>1, <2>2 DEF Run!JSONSchemaScore
<1>3. Run!CosineScore(reply) \in 0..Points
  BY CosineIsBounded
<1> QED  BY <1>1, <1>2, <1>3 DEF Run!ScoreOf

----------------------------------------------------------------------------
(* The recordings of a run, which are a finite number.                     *)
LEMMA RecordingsAreCounted ==
  /\ Run!Total \in Nat /\ Run!Recs = 1..Run!Total
  /\ IsFiniteSet(Run!Recs) /\ Cardinality(Run!Recs) = Run!Total
  /\ None \notin Run!Recs
<1>1. IsFiniteSet(Recorded) /\ None \notin Nat /\ Limit \in Nat /\ MaxPage \in Nat /\ PageSize \in Nat
  BY RunAssumption DEF Run!ConstantsOK, Run!IsFiniteSet, IsFiniteSet
<1>2. Run!PageLimit \in Nat
  BY <1>1 DEF Run!PageLimit
<1>3. Run!Cardinality(Run!Matching) \in Nat
  <2>1. Run!Matching \subseteq Recorded
    BY DEF Run!Matching
  <2>2. IsFiniteSet(Run!Matching)
    BY <1>1, <2>1, FS_Subset
  <2>3. Cardinality(Run!Matching) \in Nat
    BY <2>2, FS_CardinalityType
  <2> QED  BY <2>3 DEF Run!Cardinality, Cardinality
<1>4. \A n, m \in Nat : Run!Min({n, m}) \in Nat
  <2> TAKE n, m \in Nat
  <2>1. \E x \in {n, m} : \A y \in {n, m} : x <= y
    OBVIOUS
  <2>2. Run!Min({n, m}) \in {n, m}
    BY <2>1, Zenon DEF Run!Min
  <2> QED  BY <2>2
<1>5. Run!Total \in Nat
  BY <1>2, <1>3, <1>4 DEF Run!Total
<1> QED  BY <1>1, <1>5, FS_Interval DEF Run!Recs

(* Of the goroutines that are in W the counters know the outcome.          *)
Failed(W, r) == {i \in W : r[i] = Error}
Scored(W, r) == {i \in W : r[i] # Error}

Tallied(c, W, r) ==
  /\ c.failed = Cardinality(Failed(W, r))
  /\ c.completed = Cardinality(Scored(W, r))
  /\ c.sum = Total(r, Scored(W, r))

Outcomes == {Error} \cup 0..Points
Tallies  == [completed : Nat, failed : Nat, sum : Nat]

(* Nothing counted is nothing tallied.                                     *)
LEMMA NothingTallied ==
  ASSUME NEW r
  PROVE  Tallied(Run!Zero, {}, r)
<1>1. Failed({}, r) = {} /\ Scored({}, r) = {}
  BY DEF Failed, Scored
<1>2. IsFiniteSet({}) /\ Cardinality({}) = 0 /\ \A x \in {} : r[x] \in Nat
  BY FS_EmptySet
<1>3. Total(r, {}) = 0
  BY <1>2, TotalLaws
<1> QED  BY <1>1, <1>2, <1>3 DEF Tallied, Run!Zero

(* One outcome more.                                                       *)
LEMMA TallyOneMore ==
  ASSUME counts \in Tallies, NEW W, IsFiniteSet(W), NEW i, i \notin W,
         \A j \in W \cup {i} : result[j] \in Outcomes, Tallied(counts, W, result)
  PROVE  /\ Run!CountedWith(result[i]) \in Tallies
         /\ Run!CountedWith(result[i]).completed >= counts.completed
         /\ Run!CountedWith(result[i]).failed >= counts.failed
         /\ Tallied(Run!CountedWith(result[i]), W \cup {i}, result)
<1> DEFINE F == Failed(W, result)
           S == Scored(W, result)
<1>1. IsFiniteSet(F) /\ IsFiniteSet(S) /\ i \notin F /\ i \notin S /\ Cardinality(F) \in Nat /\ Cardinality(S) \in Nat
  BY FS_Subset, FS_CardinalityType DEF Failed, Scored
<1>2. counts.failed = Cardinality(F) /\ counts.completed = Cardinality(S) /\ counts.sum = Total(result, S)
  BY DEF Tallied
<1>3. CASE result[i] = Error
  <2>1. Failed(W \cup {i}, result) = F \cup {i} /\ Scored(W \cup {i}, result) = S
    BY <1>3 DEF Failed, Scored
  <2>2. Run!CountedWith(result[i]) = [counts EXCEPT !.failed = @ + 1]
    BY <1>3 DEF Run!CountedWith
  <2> HIDE DEF F, S
  <2>3. Cardinality(F \cup {i}) = Cardinality(F) + 1
    BY <1>1, FS_AddElement
  <2>4. PICK c : c = Run!CountedWith(result[i])
    OBVIOUS
  <2>5. /\ c \in Tallies /\ c.failed = counts.failed + 1 /\ c.completed = counts.completed /\ c.sum = counts.sum
        /\ counts.failed \in Nat /\ counts.completed \in Nat
    BY <2>2, <2>4 DEF Tallies
  <2>6. Tallied(c, W \cup {i}, result)
    BY <1>2, <2>1, <2>3, <2>5 DEF Tallied
  <2> QED  BY <2>4, <2>5, <2>6
<1>4. CASE result[i] # Error
  <2>1. Failed(W \cup {i}, result) = F /\ Scored(W \cup {i}, result) = S \cup {i}
    BY <1>4 DEF Failed, Scored
  <2>2. Run!CountedWith(result[i]) = [counts EXCEPT !.completed = @ + 1, !.sum = @ + result[i]]
    BY <1>4 DEF Run!CountedWith
  <2>3. result[i] \in Nat /\ \A j \in S \cup {i} : result[j] \in Nat
    BY <1>4 DEF Outcomes, Scored
  <2> HIDE DEF F, S
  <2>4. Cardinality(S \cup {i}) = Cardinality(S) + 1
    BY <1>1, FS_AddElement
  <2>5. Total(result, S \cup {i}) = Total(result, S) + result[i]
    BY <1>1, <2>3, TotalGrows
  <2>6. PICK c : c = Run!CountedWith(result[i])
    OBVIOUS
  <2>7. /\ c \in Tallies /\ c.failed = counts.failed /\ c.completed = counts.completed + 1
        /\ c.sum = counts.sum + result[i]
        /\ counts.failed \in Nat /\ counts.completed \in Nat
    <3>1. PICK v \in Nat : v = result[i]
      BY <2>3
    <3>2. counts.completed \in Nat /\ counts.failed \in Nat /\ counts.sum \in Nat
          /\ counts = [completed |-> counts.completed, failed |-> counts.failed, sum |-> counts.sum]
      BY DEF Tallies
    <3>3. c = [completed |-> counts.completed + 1, failed |-> counts.failed, sum |-> counts.sum + v]
      BY <2>2, <2>6, <3>1, <3>2
    <3> QED  BY <3>1, <3>2, <3>3 DEF Tallies
  <2>8. Tallied(c, W \cup {i}, result)
    BY <1>2, <2>1, <2>4, <2>5, <2>7 DEF Tallied
  <2> QED  BY <2>6, <2>7, <2>8
<1> QED  BY <1>3, <1>4

(* A result that is not yet counted may change.                            *)
LEMMA TallyStays ==
  ASSUME NEW c, NEW W, IsFiniteSet(W), NEW r, NEW s, \A j \in W : r[j] = s[j] /\ r[j] \in Outcomes,
         Tallied(c, W, r)
  PROVE  Tallied(c, W, s)
<1>1. Failed(W, s) = Failed(W, r) /\ Scored(W, s) = Scored(W, r)
  BY DEF Failed, Scored
<1> DEFINE S == Scored(W, r)
<1>2. IsFiniteSet(S) /\ (\A j \in S : r[j] \in Nat) /\ (\A j \in S : s[j] = r[j])
  BY FS_Subset DEF Scored, Outcomes
<1>3. Total(s, S) = Total(r, S)
  <2> HIDE DEF S
  <2> QED  BY <1>2, TotalOfEqual
<1> QED  BY <1>1, <1>3 DEF Tallied

(* When all are counted, the counters are the results.                     *)
LEMMA TallyOfAll ==
  ASSUME NEW c, NEW r, \A j \in Run!Recs : r[j] \in Outcomes, Tallied(c, Run!Recs, r)
  PROVE  /\ c.failed = Run!Cardinality({i \in Run!Recs : r[i] = Error})
         /\ c.completed = Run!Total - c.failed
         /\ c.sum = Run!FoldFunctionOnSet(+, 0, r, {i \in Run!Recs : r[i] # Error})
         /\ c.sum \in 0..(Points * c.completed)
<1> DEFINE F == Failed(Run!Recs, r)
           S == Scored(Run!Recs, r)
<1>1. IsFiniteSet(Run!Recs) /\ Cardinality(Run!Recs) = Run!Total
  BY RecordingsAreCounted
<1>2. F \cup S = Run!Recs /\ F \cap S = {} /\ IsFiniteSet(F) /\ IsFiniteSet(S)
  BY <1>1, FS_Subset DEF Failed, Scored
<1>3. c.failed = Cardinality(F) /\ c.completed = Cardinality(S) /\ c.sum = Total(r, S)
  BY DEF Tallied
<1>4. \A j \in S : r[j] \in 0..Points
  BY DEF Scored, Outcomes
<1>5. Run!Cardinality(F) = Cardinality(F)
  BY DEF Run!Cardinality, Cardinality
<1>6. Run!FoldFunctionOnSet(+, 0, r, S) = Total(r, S)
  BY Zenon DEF Run!FoldFunctionOnSet, Run!MapThenFoldSet, Total, Totals, Pick
<1>7. F = {i \in Run!Recs : r[i] = Error} /\ S = {i \in Run!Recs : r[i] # Error}
  BY DEF Failed, Scored
<1> HIDE DEF F, S
<1>8. Cardinality(F) \in Nat /\ Cardinality(S) \in Nat
  BY <1>2, FS_CardinalityType
<1>9. Cardinality(F \cup S) = Cardinality(F) + Cardinality(S) - Cardinality({})
  BY <1>2, FS_Union
<1>10. Run!Total = Cardinality(F) + Cardinality(S)
  BY <1>1, <1>2, <1>8, <1>9, FS_EmptySet
<1>11. Total(r, S) \in 0..(Points * Cardinality(S))
  <2>1. Points \in Nat
    BY DEF Points, Run!Points
  <2> QED  BY <1>2, <1>4, <2>1, TotalIsBounded
<1>12. c.sum = Run!FoldFunctionOnSet(+, 0, r, S)
  BY <1>3, <1>6, Zenon
<1>13. c.failed = Run!Cardinality(F) /\ c.completed = Run!Total - c.failed /\ c.sum \in 0..(Points * c.completed)
  BY <1>3, <1>5, <1>8, <1>10, <1>11
<1> QED  BY <1>7, <1>12, <1>13, Zenon

----------------------------------------------------------------------------
(* A run: goroutines are started in order and no more than Parallel are    *)
(* busy (Paced); only the holder of the mutex counts or saves (Locked), so *)
(* what it is about to save is what the counters say (Drafted), and those  *)
(* say what the goroutines that counted got (Tallied).  The row shows      *)
(* some of that, and when it says completed all of it (Shown).             *)
Pcs     == {"none", "replaying", "reporting", "counting", "saving", "done"}
RunRows == [status : {"pending", "running", "completed"}, completed : Nat, failed : Nat, sum : Nat]

RunShape ==
  /\ row \in RunRows \cup {None}
  /\ engine \in {"idle", "refused", "starting", "running", "finished", "dead"}
  /\ spawned \in 0..Run!Total
  /\ replayer \in [Run!Recs -> Pcs]
  /\ result \in [Run!Recs -> Outcomes \cup {None}]
  /\ stored \subseteq Run!Recs
  /\ mu \in Run!Recs \cup {None}
  /\ counts \in Tallies
  /\ draft \in [Run!Recs -> RunRows \cup {None}]

Paced ==
  /\ \A i \in Run!Recs : replayer[i] = "none" <=> i > spawned
  /\ Cardinality(Run!Busy) <= Parallel
  /\ engine \in {"idle", "starting"} => spawned = 0

Locked  == \A i \in Run!Recs : replayer[i] \in {"counting", "saving"} => mu = i
Settled == \A i \in Run!Recs : replayer[i] \notin {"none", "replaying"} => result[i] \in Outcomes
Drafted == \A i \in Run!Recs : replayer[i] = "saving" => draft[i] = Run!RunRow("running", counts)
Counted == {i \in Run!Recs : replayer[i] \in {"saving", "done"}}

Shown ==
  row # None =>
    /\ row.completed <= counts.completed /\ row.failed <= counts.failed
    /\ row.status = "completed" =>
         /\ engine = "finished" /\ row = Run!RunRow("completed", counts)
         /\ \A i \in Run!Recs : replayer[i] = "done"

Quiet == engine = "idle" => row = None

RunInv ==
  /\ RunShape /\ Paced /\ Locked /\ Settled /\ Drafted /\ Tallied(counts, Counted, result)
  /\ Shown /\ Quiet

(* What a step may do to the row.                                          *)
Advances ==
  row # None => /\ row'.completed >= row.completed
                /\ row'.failed >= row.failed
                /\ row.status = "completed" => row' = row

(* The rows that are written.                                              *)
LEMMA RowsWritten ==
  ASSUME NEW status \in {"pending", "running", "completed"}, NEW c \in Tallies
  PROVE  /\ Run!RunRow(status, c) \in RunRows
         /\ Run!RunRow(status, c).status = status
         /\ Run!RunRow(status, c).completed = c.completed /\ c.completed \in Nat
         /\ Run!RunRow(status, c).failed = c.failed /\ c.failed \in Nat
BY DEF Run!RunRow, RunRows, Tallies

(* A run begins with a tally of nothing.                                   *)
LEMMA ZeroIsATally == Run!Zero \in Tallies /\ Run!Zero.completed = 0 /\ Run!Zero.failed = 0
BY DEF Run!Zero, Tallies

(* No more are busy than before.                                           *)
LEMMA FewerAreBusy ==
  ASSUME NEW S, S \subseteq Run!Recs, NEW W, W \subseteq S
  PROVE  IsFiniteSet(W) /\ Cardinality(W) <= Cardinality(S) /\ Cardinality(W) \in Nat /\ Cardinality(S) \in Nat
BY RecordingsAreCounted, FS_Subset, FS_CardinalityType

(* Nothing is counted before the goroutines are started.                   *)
LEMMA NothingCountedYet ==
  ASSUME RunInv, spawned = 0
  PROVE  Counted = {} /\ counts.completed = 0 /\ counts.failed = 0
<1>1. \A i \in Run!Recs : replayer[i] = "none"
  <2>1. \A i \in Run!Recs : i > 0
    BY RecordingsAreCounted
  <2> QED  BY <2>1 DEF RunInv, Paced
<1>2. Counted = {}
  BY <1>1 DEF Counted
<1>3. Failed({}, result) = {} /\ Scored({}, result) = {}
  BY DEF Failed, Scored
<1> QED  BY <1>2, <1>3, FS_EmptySet DEF RunInv, Tallied

(* The invariant holds of a run that begins.                               *)
LEMMA RunBegins ==
  ASSUME Run!RunInit
  PROVE  RunInv
<1>1. /\ row = None /\ engine = "idle" /\ spawned = 0 /\ stored = {} /\ mu = None /\ counts = Run!Zero
      /\ replayer = [i \in Run!Recs |-> "none"] /\ result = [i \in Run!Recs |-> None]
      /\ draft = [i \in Run!Recs |-> None]
  BY DEF Run!RunInit
<1>2. RunShape
  BY <1>1, RecordingsAreCounted, ZeroIsATally DEF RunShape, Pcs
<1>3. Counted = {} /\ Run!Busy = {}
  BY <1>1 DEF Counted, Run!Busy
<1>4. Paced
  <2>1. \A i \in Run!Recs : i > 0
    BY RecordingsAreCounted
  <2>2. 0 <= Parallel
    BY RunAssumption DEF Run!ConstantsOK
  <2> QED  BY <1>1, <1>3, <2>1, <2>2, FS_EmptySet DEF Paced
<1>5. Locked /\ Settled /\ Drafted /\ Shown /\ Quiet
  BY <1>1 DEF Locked, Settled, Drafted, Shown, Quiet
<1> QED  BY <1>1, <1>2, <1>3, <1>4, <1>5, NothingTallied DEF RunInv

(* What main and the clock do leaves the goroutines alone.                 *)
LEMMA MainSteps ==
  ASSUME RunInv, Run!Start \/ Run!Execute \/ Run!Finish \/ Run!Expire \/ Run!Die
  PROVE  RunInv' /\ Advances
<1>1. UNCHANGED <<spawned, replayer, result, stored, mu, counts, draft>>
  BY DEF Run!Start, Run!Execute, Run!Finish, Run!Expire, Run!Die
<1>2. RunShape /\ Paced /\ Shown /\ Quiet /\ counts \in Tallies
  BY DEF RunInv, RunShape
<1>3. Locked' /\ Settled' /\ Drafted' /\ Counted' = Counted /\ Run!Busy' = Run!Busy
  BY <1>1 DEF RunInv, Locked, Settled, Drafted, Counted, Run!Busy
<1>4. Tallied(counts, Counted, result)'
  BY <1>1, <1>3 DEF RunInv, Tallied, Failed, Scored
<1>5. /\ engine' \in {"idle", "refused", "starting", "running", "finished", "dead"}
      /\ engine' \in {"idle", "starting"} => engine \in {"idle", "starting"}
      /\ engine' # "idle" \/ (engine' = engine /\ row' = row)
  BY <1>2 DEF Run!Start, Run!Execute, Run!Finish, Run!Expire, Run!Die, RunShape
<1>6. \/ row' = row /\ (engine = "finished" => engine' = "finished")
      \/ row' = Run!RunRow("pending", Run!Zero) /\ row = None
      \/ row' = Run!RunRow("running", Run!Zero) /\ engine = "starting"
      \/ /\ row' = Run!RunRow("completed", counts) /\ engine = "running" /\ engine' = "finished"
         /\ Run!AllDone
  <2>1. CASE Run!Start
    BY <1>2, <2>1 DEF Run!Start, Quiet
  <2>2. CASE Run!Execute
    BY <2>2 DEF Run!Execute, Run!UpdateReplayRun
  <2>3. CASE Run!Finish
    BY <2>3 DEF Run!Finish, Run!UpdateReplayRun
  <2>4. CASE Run!Expire \/ Run!Die
    BY <2>4 DEF Run!Expire, Run!Die
  <2> QED  BY <2>1, <2>2, <2>3, <2>4
<1>7. row' \in RunRows \cup {None} /\ Shown' /\ Advances
  <2>1. CASE row' = row /\ (engine = "finished" => engine' = "finished")
    BY <1>1, <1>2, <2>1 DEF RunShape, Shown, Advances, RunRows
  <2>2. CASE row' = Run!RunRow("pending", Run!Zero) /\ row = None
    BY <1>1, <1>2, <2>2, RowsWritten, ZeroIsATally DEF Shown, Advances
  <2>3. CASE row' = Run!RunRow("running", Run!Zero) /\ engine = "starting"
    <3>1. counts.completed = 0 /\ counts.failed = 0
      BY <1>2, <2>3, NothingCountedYet DEF Paced
    <3>2. row # None => /\ row.completed <= 0 /\ row.completed \in Nat /\ row.failed <= 0 /\ row.failed \in Nat
                        /\ row.status # "completed"
      BY <1>2, <2>3, <3>1 DEF RunShape, RunRows, Shown
    <3> QED  BY <1>1, <2>3, <3>1, <3>2, RowsWritten, ZeroIsATally DEF Shown, Advances
  <2>4. CASE /\ row' = Run!RunRow("completed", counts) /\ engine = "running" /\ engine' = "finished"
             /\ Run!AllDone
    <3>1. \A i \in Run!Recs : replayer[i] = "done"
      <4>1. \A i \in Run!Recs : ~(i > spawned)
        BY <2>4, RecordingsAreCounted DEF Run!AllDone
      <4> QED  BY <1>2, <2>4, <4>1 DEF Run!AllDone, Run!Busy, Paced
    <3>2. row # None => /\ row.completed <= counts.completed /\ row.failed <= counts.failed
                        /\ row.status # "completed"
      BY <1>2, <2>4 DEF Shown
    <3>3. Run!RunRow("completed", counts') = Run!RunRow("completed", counts)
      BY <1>1
    <3>4. row' \in RunRows /\ row'.completed = counts.completed /\ row'.failed = counts.failed
      BY <1>2, <2>4, RowsWritten
    <3>5. counts.completed \in Nat /\ counts.failed \in Nat
      BY <1>2, RowsWritten
    <3>6. Shown'
      BY <1>1, <2>4, <3>1, <3>3, <3>4, <3>5 DEF Shown
    <3>7. Advances
      BY <3>2, <3>4 DEF Advances
    <3> QED  BY <3>4, <3>6, <3>7
  <2> QED  BY <1>6, <2>1, <2>2, <2>3, <2>4
<1>8. RunShape'
  BY <1>1, <1>2, <1>5, <1>7 DEF RunShape
<1>9. Paced' /\ Quiet'
  BY <1>1, <1>2, <1>3, <1>5 DEF Paced, Quiet
<1> QED  BY <1>3, <1>4, <1>7, <1>8, <1>9 DEF RunInv

(* What a goroutine does, as far as it does not touch the counters.        *)
LEMMA QuietSteps ==
  ASSUME RunInv, NEW i \in Run!Recs, NEW pc \in Pcs, pc # "none",
         engine = "running", replayer' = [replayer EXCEPT ![i] = pc],
         UNCHANGED <<engine, spawned, counts>>, stored' \subseteq Run!Recs, mu' \in Run!Recs \cup {None},
         replayer[i] # "none", replayer[i] \notin {"done"},
         i \in Counted <=> pc \in {"saving", "done"},
         draft' = draft, \A j \in Run!Recs \ {i} : result'[j] = result[j],
         result' \in [Run!Recs -> Outcomes \cup {None}],
         pc # "replaying" => result'[i] \in Outcomes,
         i \in Counted => result'[i] = result[i],
         row' = row \/ row' = Run!RunRow("running", counts)
  PROVE  /\ RunShape' /\ Paced' /\ Settled' /\ Shown' /\ Quiet' /\ Advances
         /\ Tallied(counts, Counted, result)'
         /\ replayer'[i] = pc /\ \A j \in Run!Recs \ {i} : replayer'[j] = replayer[j]
<1>1. RunShape /\ Paced /\ Settled /\ Shown /\ Quiet /\ counts \in Tallies
  BY DEF RunInv, RunShape
<1>2. replayer' \in [Run!Recs -> Pcs] /\ replayer'[i] = pc /\ \A j \in Run!Recs \ {i} : replayer'[j] = replayer[j]
  BY <1>1 DEF RunShape
<1>3. counts' = counts /\ engine' = "running" /\ spawned' = spawned
  OBVIOUS
<1>4. /\ row' \in RunRows \cup {None}
      /\ row # None => /\ row.completed \in Nat /\ row.failed \in Nat /\ row.status # "completed"
                       /\ row.completed <= counts.completed /\ row.failed <= counts.failed
  BY <1>1, RowsWritten DEF RunShape, Shown, RunRows
<1>5. Shown' /\ Advances
  <2>1. CASE row' = row
    BY <1>3, <1>4, <2>1 DEF Shown, Advances
  <2>2. CASE row' = Run!RunRow("running", counts)
    <3>1. /\ row'.completed = counts.completed /\ row'.failed = counts.failed /\ row'.status = "running"
          /\ counts.completed \in Nat /\ counts.failed \in Nat
      BY <1>1, <2>2, RowsWritten
    <3> QED  BY <1>3, <1>4, <3>1 DEF Shown, Advances
  <2> QED  BY <2>1, <2>2
<1>6. RunShape'
  BY <1>1, <1>2, <1>3, <1>4 DEF RunShape
<1>7. Paced'
  <2>1. \A j \in Run!Recs : replayer'[j] = "none" <=> j > spawned'
    BY <1>1, <1>2, <1>3 DEF Paced
  <2>2. Run!Busy' \subseteq Run!Busy /\ Run!Busy \subseteq Run!Recs
    BY <1>2 DEF Run!Busy
  <2>3. Cardinality(Run!Busy') <= Cardinality(Run!Busy) /\ Cardinality(Run!Busy') \in Nat /\ Cardinality(Run!Busy) \in Nat
    BY <2>2, FewerAreBusy
  <2>4. Cardinality(Run!Busy') <= Parallel
    BY <1>1, <2>3, RunAssumption DEF Paced, Run!ConstantsOK
  <2> QED  BY <1>3, <2>1, <2>4 DEF Paced
<1>8. Settled'
  BY <1>1, <1>2 DEF Settled
<1>9. Quiet'
  BY <1>3 DEF Quiet
<1>10. Counted' = Counted
  <2>1. i \in Counted' <=> i \in Counted
    BY <1>2 DEF Counted
  <2>2. \A j \in Run!Recs \ {i} : j \in Counted' <=> j \in Counted
    BY <1>2 DEF Counted
  <2> QED  BY <2>1, <2>2 DEF Counted
<1>11. Tallied(counts, Counted, result)'
  <2>1. IsFiniteSet(Counted)
    BY RecordingsAreCounted, FewerAreBusy DEF Counted
  <2>2. \A j \in Counted : result[j] = result'[j] /\ result[j] \in Outcomes
    BY <1>1 DEF Counted, Settled
  <2>3. Tallied(counts, Counted, result)
    BY DEF RunInv
  <2>4. Tallied(counts, Counted, result')
    BY <2>1, <2>2, <2>3, TallyStays
  <2> QED  BY <1>3, <1>10, <2>4 DEF Tallied
<1> QED  BY <1>2, <1>5, <1>6, <1>7, <1>8, <1>9, <1>11

(* The engine keeps it when it starts a goroutine.                         *)
LEMMA SpawnSteps ==
  ASSUME RunInv, Run!Spawn
  PROVE  RunInv' /\ Advances
<1> DEFINE i == spawned + 1
<1>1. RunShape /\ Paced /\ Settled /\ Shown /\ Quiet /\ Locked /\ Drafted
  BY DEF RunInv
<1>2. i \in Run!Recs /\ spawned \in Nat /\ i \in 0..Run!Total
  BY <1>1, RecordingsAreCounted DEF RunShape, Run!Spawn
<1>3. replayer' = [replayer EXCEPT ![i] = "replaying"] /\ spawned' = i
      /\ engine = "running" /\ UNCHANGED <<row, engine, result, stored, mu, counts, draft>>
  BY DEF Run!Spawn, Run!Moves
<1> HIDE DEF i
<1>4. /\ replayer' \in [Run!Recs -> Pcs] /\ replayer'[i] = "replaying"
      /\ \A j \in Run!Recs \ {i} : replayer'[j] = replayer[j]
  BY <1>1, <1>2, <1>3 DEF RunShape, Pcs
<1>5. replayer[i] = "none"
  BY <1>1, <1>2 DEF Paced, i
<1>6. RunShape'
  BY <1>1, <1>2, <1>3, <1>4 DEF RunShape
<1>7. \A j \in Run!Recs : replayer'[j] = "none" <=> j > spawned'
  <2>1. \A j \in Run!Recs \ {i} : j > i <=> j > spawned
    BY <1>2, RecordingsAreCounted DEF i
  <2>2. ~(i > i)
    BY <1>2
  <2> QED  BY <1>1, <1>3, <1>4, <2>1, <2>2 DEF Paced
<1>8. Cardinality(Run!Busy') <= Parallel
  <2>1. Run!Busy' = Run!Busy \cup {i} /\ i \notin Run!Busy /\ Run!Busy \subseteq Run!Recs
    BY <1>2, <1>4, <1>5 DEF Run!Busy
  <2>2. IsFiniteSet(Run!Busy) /\ Cardinality(Run!Busy) \in Nat
    BY <2>1, FewerAreBusy
  <2>3. Cardinality(Run!Busy') = Cardinality(Run!Busy) + 1
    BY <2>1, <2>2, FS_AddElement
  <2>4. Cardinality(Run!Busy) < Parallel
    BY DEF Run!Spawn, Run!Cardinality, Cardinality
  <2> QED  BY <2>2, <2>3, <2>4, RunAssumption DEF Run!ConstantsOK
<1>9. Paced'
  BY <1>3, <1>7, <1>8 DEF Paced
<1>10. Settled' /\ Locked' /\ Drafted' /\ Quiet'
  BY <1>1, <1>3, <1>4 DEF Settled, Locked, Drafted, Quiet
<1>11. Shown' /\ Advances
  BY <1>1, <1>3 DEF Shown, Advances, RunShape, RunRows
<1>12. Counted' = Counted
  BY <1>4, <1>5 DEF Counted
<1>13. Tallied(counts, Counted, result)'
  BY <1>3, <1>12 DEF RunInv, Tallied
<1> QED  BY <1>6, <1>9, <1>10, <1>11, <1>13 DEF RunInv

(* A replayed recording keeps it.                                          *)
LEMMA ReplayedSteps ==
  ASSUME RunInv, NEW i \in Run!Recs, Run!Replayed(i)
  PROVE  RunInv' /\ Advances
<1>1. /\ engine = "running" /\ replayer[i] = "replaying" /\ replayer' = [replayer EXCEPT ![i] = "reporting"]
      /\ UNCHANGED <<row, engine, spawned, stored, mu, counts, draft>>
  BY DEF Run!Replayed, Run!Moves
<1>2. PICK v \in Outcomes : result' = [result EXCEPT ![i] = v]
  BY ScoresAreBounded DEF Run!Replayed, Outcomes
<1>3. RunShape /\ Locked /\ Drafted
  BY DEF RunInv
<1>4. /\ result' \in [Run!Recs -> Outcomes \cup {None}] /\ result'[i] \in Outcomes
      /\ \A j \in Run!Recs \ {i} : result'[j] = result[j]
  BY <1>2, <1>3 DEF RunShape
<1>5. i \notin Counted /\ "reporting" \in Pcs /\ stored' \subseteq Run!Recs /\ mu' \in Run!Recs \cup {None}
  BY <1>1, <1>3 DEF Counted, Pcs, RunShape
<1>6. /\ RunShape' /\ Paced' /\ Settled' /\ Shown' /\ Quiet' /\ Advances
      /\ Tallied(counts, Counted, result)'
      /\ replayer'[i] = "reporting" /\ \A j \in Run!Recs \ {i} : replayer'[j] = replayer[j]
  BY <1>1, <1>4, <1>5, QuietSteps
<1>7. Locked' /\ Drafted'
  BY <1>1, <1>3, <1>6 DEF Locked, Drafted
<1> QED  BY <1>6, <1>7 DEF RunInv

(* A stored result keeps it.                                               *)
LEMMA InsertSteps ==
  ASSUME RunInv, NEW i \in Run!Recs, Run!InsertReplayResult(i)
  PROVE  RunInv' /\ Advances
<1>1. /\ engine = "running" /\ replayer[i] = "reporting" /\ replayer' = [replayer EXCEPT ![i] = "counting"]
      /\ mu = None /\ mu' = i /\ stored' \subseteq stored \cup {i}
      /\ UNCHANGED <<row, engine, spawned, result, counts, draft>>
  BY DEF Run!InsertReplayResult, Run!Moves
<1>2. RunShape /\ Locked /\ Drafted /\ Settled
  BY DEF RunInv
<1>3. /\ result' \in [Run!Recs -> Outcomes \cup {None}] /\ result'[i] \in Outcomes
      /\ \A j \in Run!Recs \ {i} : result'[j] = result[j]
  BY <1>1, <1>2 DEF RunShape, Settled
<1>4. i \notin Counted /\ "counting" \in Pcs /\ stored' \subseteq Run!Recs /\ mu' \in Run!Recs \cup {None}
  BY <1>1, <1>2 DEF Counted, Pcs, RunShape
<1>5. /\ RunShape' /\ Paced' /\ Settled' /\ Shown' /\ Quiet' /\ Advances
      /\ Tallied(counts, Counted, result)'
      /\ replayer'[i] = "counting" /\ \A j \in Run!Recs \ {i} : replayer'[j] = replayer[j]
  BY <1>1, <1>3, <1>4, QuietSteps
<1>6. Locked' /\ Drafted'
  BY <1>1, <1>2, <1>5, RecordingsAreCounted DEF Locked, Drafted
<1> QED  BY <1>5, <1>6 DEF RunInv

(* A saved row keeps it.                                                   *)
LEMMA SaveSteps ==
  ASSUME RunInv, NEW i \in Run!Recs, Run!Save(i)
  PROVE  RunInv' /\ Advances
<1>1. /\ engine = "running" /\ replayer[i] = "saving" /\ replayer' = [replayer EXCEPT ![i] = "done"]
      /\ mu' = (IF mu = i THEN None ELSE mu) /\ (row' = draft[i] \/ row' = row)
      /\ UNCHANGED <<engine, spawned, result, stored, counts, draft>>
  BY DEF Run!Save, Run!Moves, Run!UpdateReplayRun
<1>2. RunShape /\ Locked /\ Drafted /\ Settled
  BY DEF RunInv
<1>3. /\ result' \in [Run!Recs -> Outcomes \cup {None}] /\ result'[i] \in Outcomes /\ result'[i] = result[i]
      /\ \A j \in Run!Recs \ {i} : result'[j] = result[j]
  BY <1>1, <1>2 DEF RunShape, Settled
<1>4. i \in Counted /\ "done" \in Pcs /\ stored' \subseteq Run!Recs /\ mu' \in Run!Recs \cup {None}
  BY <1>1, <1>2 DEF Counted, Pcs, RunShape
<1>5. row' = row \/ row' = Run!RunRow("running", counts)
  BY <1>1, <1>2 DEF Drafted
<1>6. /\ RunShape' /\ Paced' /\ Settled' /\ Shown' /\ Quiet' /\ Advances
      /\ Tallied(counts, Counted, result)'
      /\ replayer'[i] = "done" /\ \A j \in Run!Recs \ {i} : replayer'[j] = replayer[j]
  BY <1>1, <1>3, <1>4, <1>5, QuietSteps
<1>7. Locked' /\ Drafted'
  BY <1>1, <1>2, <1>6 DEF Locked, Drafted
<1> QED  BY <1>6, <1>7 DEF RunInv

(* A counted result keeps it.                                              *)
LEMMA CountSteps ==
  ASSUME RunInv, NEW i \in Run!Recs, Run!Count(i)
  PROVE  RunInv' /\ Advances
<1>1. /\ engine = "running" /\ replayer[i] = "counting" /\ counts' = Run!CountedWith(result[i])
      /\ UNCHANGED <<row, engine, spawned, result, stored>>
      /\ \/ /\ replayer' = [replayer EXCEPT ![i] = "saving"] /\ mu' = i
            /\ draft' = [draft EXCEPT ![i] = Run!RunRow("running", counts')]
         \/ /\ replayer' = [replayer EXCEPT ![i] = "done"] /\ mu' = None /\ draft' = draft
  BY DEF Run!Count, Run!Moves, Run!HolderWhileSaving
<1>2. RunShape /\ Paced /\ Locked /\ Drafted /\ Settled /\ Shown /\ counts \in Tallies /\ mu = i
  BY <1>1 DEF RunInv, Locked, RunShape
<1>3. i \notin Counted /\ IsFiniteSet(Counted) /\ \A j \in Counted \cup {i} : result[j] \in Outcomes
  BY <1>1, <1>2, RecordingsAreCounted, FewerAreBusy DEF Counted, Settled
<1>4. Tallied(counts, Counted, result)
  BY DEF RunInv
<1>5. /\ counts' \in Tallies /\ counts'.completed >= counts.completed /\ counts'.failed >= counts.failed
      /\ Tallied(counts', Counted \cup {i}, result)
  BY <1>1, <1>2, <1>3, <1>4, TallyOneMore
<1>6. /\ replayer' \in [Run!Recs -> Pcs] /\ replayer'[i] \in {"saving", "done"}
      /\ \A j \in Run!Recs \ {i} : replayer'[j] = replayer[j]
      /\ replayer'[i] = "saving" => mu' = i /\ draft' = [draft EXCEPT ![i] = Run!RunRow("running", counts')]
      /\ mu' \in Run!Recs \cup {None}
  BY <1>1, <1>2 DEF RunShape, Pcs
<1>7. \A j \in Run!Recs \ {i} : replayer[j] \notin {"counting", "saving"}
  BY <1>2 DEF Locked
<1>8. draft' \in [Run!Recs -> RunRows \cup {None}]
  BY <1>1, <1>2, <1>5, RowsWritten DEF RunShape
<1>9. RunShape'
  BY <1>1, <1>2, <1>5, <1>6, <1>8 DEF RunShape
<1>10. Locked' /\ Settled' /\ Quiet'
  BY <1>1, <1>2, <1>3, <1>6, <1>7 DEF Locked, Settled, Quiet
<1>11. Drafted'
  <2>1. replayer'[i] = "saving" => draft'[i] = Run!RunRow("running", counts')
    BY <1>2, <1>6 DEF RunShape
  <2>2. \A j \in Run!Recs \ {i} : replayer'[j] # "saving"
    BY <1>6, <1>7
  <2> QED  BY <2>1, <2>2 DEF Drafted
<1>12. Paced'
  <2>1. \A j \in Run!Recs : replayer'[j] = "none" <=> j > spawned'
    BY <1>1, <1>2, <1>6 DEF Paced
  <2>2. Run!Busy' \subseteq Run!Busy /\ Run!Busy \subseteq Run!Recs
    BY <1>1, <1>6 DEF Run!Busy
  <2>3. Cardinality(Run!Busy') <= Cardinality(Run!Busy) /\ Cardinality(Run!Busy') \in Nat /\ Cardinality(Run!Busy) \in Nat
    BY <2>2, FewerAreBusy
  <2>4. Cardinality(Run!Busy') <= Parallel
    BY <1>2, <2>3, RunAssumption DEF Paced, Run!ConstantsOK
  <2> QED  BY <1>1, <2>1, <2>4 DEF Paced
<1>13. Counted' = Counted \cup {i}
  BY <1>6 DEF Counted
<1>14. Tallied(counts, Counted, result)'
  BY <1>1, <1>5, <1>13 DEF Tallied
<1>15. Shown' /\ Advances
  <2>1. row # None => /\ row.completed \in Nat /\ row.failed \in Nat /\ row.status # "completed"
                      /\ row.completed <= counts.completed /\ row.failed <= counts.failed
    BY <1>1, <1>2 DEF RunShape, Shown, RunRows
  <2>2. counts.completed \in Nat /\ counts.failed \in Nat /\ counts'.completed \in Nat /\ counts'.failed \in Nat
    BY <1>2, <1>5 DEF Tallies
  <2> QED  BY <1>1, <1>5, <2>1, <2>2 DEF Shown, Advances
<1> QED  BY <1>9, <1>10, <1>11, <1>12, <1>14, <1>15 DEF RunInv

runStateVars == <<row, engine, spawned, replayer, result, stored, mu, counts, draft>>

(* Every step of a run keeps it.                                           *)
LEMMA RunSteps ==
  ASSUME RunInv, [Run!RunNext]_runVars
  PROVE  RunInv' /\ Advances
<1>1. CASE Run!RunNext
  <2>1. ASSUME NEW i \in Run!Recs, Run!Goroutine(i) PROVE RunInv' /\ Advances
    BY <2>1, ReplayedSteps, InsertSteps, CountSteps, SaveSteps DEF Run!Goroutine
  <2> QED  BY <1>1, <2>1, MainSteps, SpawnSteps DEF Run!RunNext, Run!Main
<1>2. CASE UNCHANGED runVars
  <2>1. UNCHANGED runStateVars
    BY <1>2 DEF runVars, runStateVars
  <2>2. Counted' = Counted /\ Run!Busy' = Run!Busy
    BY <2>1 DEF runStateVars, Counted, Run!Busy
  <2>3. Advances
    <3>1. row # None => row.completed \in Nat /\ row.failed \in Nat
      BY DEF RunInv, RunShape, RunRows
    <3> QED  BY <2>1, <3>1 DEF runStateVars, Advances
  <2>4. Tallied(counts, Counted, result)'
    BY <2>1, <2>2 DEF runStateVars, RunInv, Tallied
  <2> QED
    BY <2>1, <2>2, <2>3, <2>4
    DEF runStateVars, RunInv, RunShape, Paced, Locked, Settled, Drafted, Shown, Quiet
<1> QED  BY <1>1, <1>2

(* The progress a client polls never goes back, though goroutines that end *)
(* in any order save it; and a run that says completed has a replay of     *)
(* each recording behind it, counters that agree with the results, and an  *)
(* average score that is a fraction (replay/engine.go, scorer.go): for any *)
(* recordings, filter, limits, replies and scorer.                         *)
THEOREM RunsTellTheTruth == MCSpec => ProgressIsTrue
<1>1. MCInit => RunInv
  BY RunBegins DEF MCInit, RunIdle
<1>2. RunInv /\ [MCNext]_MCVars => RunInv' /\ [Advances]_(Run!vars)
  <2>1. [MCNext]_MCVars => [Run!RunNext]_runVars
    BY DEF MCNext, MCVars, ChainStep, SinkStep, RunStep
  <2> QED  BY <2>1, RunSteps
<1>3. RunInv => Run!CompletedIsComplete
  <2> SUFFICES ASSUME RunInv, row # None, row.status = "completed" PROVE Run!CompletedIsComplete
    BY DEF Run!CompletedIsComplete
  <2>1. /\ row = Run!RunRow("completed", counts) /\ \A i \in Run!Recs : replayer[i] = "done"
        /\ Tallied(counts, Counted, result)
    BY DEF RunInv, Shown
  <2>2. Counted = Run!Recs
    BY <2>1 DEF Counted
  <2>3. \A j \in Run!Recs : result[j] \in Outcomes
    BY <2>1 DEF RunInv, Settled
  <2>4. row.completed = counts.completed /\ row.failed = counts.failed /\ row.sum = counts.sum
    BY <2>1 DEF Run!RunRow
  <2>5. /\ counts.failed = Run!Cardinality({i \in Run!Recs : result[i] = Error})
        /\ counts.completed = Run!Total - counts.failed
        /\ counts.sum = Run!FoldFunctionOnSet(+, 0, result, {i \in Run!Recs : result[i] # Error})
        /\ counts.sum \in 0..(Points * counts.completed)
    BY <2>1, <2>2, <2>3, TallyOfAll
  <2> QED  BY <2>1, <2>4, <2>5, Zenon DEF Run!CompletedIsComplete, Points
<1>4. [Advances]_(Run!vars) => [row # None => /\ row'.completed >= row.completed
                                              /\ row'.failed >= row.failed
                                              /\ row.status = "completed" => row' = row]_(Run!vars)
  BY DEF Advances
<1>5. MCSpec => []RunInv /\ [][Advances]_(Run!vars)
  BY <1>1, <1>2, PTL DEF MCSpec
<1>6. MCSpec => Run!ProgressNeverGoesBack
  BY <1>4, <1>5, PTL DEF Run!ProgressNeverGoesBack
<1>7. MCSpec => []Run!CompletedIsComplete
  BY <1>3, <1>5, PTL
<1> QED  BY <1>6, <1>7, PTL DEF ProgressIsTrue

----------------------------------------------------------------------------
(* The types of the part that is exercised. *)
Flags == <<forced, stopped, queueClosed, timedOut, auditClosed, stopRoller, panicked>>

Flagged ==
  /\ forced \in BOOLEAN /\ stopped \in BOOLEAN /\ queueClosed \in BOOLEAN /\ timedOut \in BOOLEAN
  /\ auditClosed \in BOOLEAN /\ stopRoller \in BOOLEAN /\ panicked \in BOOLEAN

(* The flags of Sinks are set to TRUE, or to what a step found. *)
LEMMA FlagsStayFlags ==
  ASSUME Flagged, [Sinks!Next]_sinkVars
  PROVE  Flagged'
<1>1. ASSUME NEW h \in Handlers, Sinks!Send(h) \/ Sinks!Record(h) PROVE Flagged'
  <2>1. /\ UNCHANGED <<forced, stopped, queueClosed, timedOut, auditClosed, stopRoller>>
        /\ panicked' = (panicked \/ queueClosed) \/ panicked' = (panicked \/ auditClosed)
    BY <1>1 DEF Sinks!Send, Sinks!Record
  <2> QED  BY <2>1, Zenon DEF Flagged
<1>2. CASE Sinks!Shutdown
  <2>1. /\ UNCHANGED <<panicked, stopped, queueClosed, timedOut, auditClosed, stopRoller>>
        /\ forced' = \E h \in Handlers : handler[h] # "idle"
    BY <1>2 DEF Sinks!Shutdown
  <2> QED  BY <2>1, Zenon DEF Flagged
<1>3. CASE Sinks!AwaitWorkers
  <2>1. /\ UNCHANGED <<panicked, stopped, queueClosed, forced, auditClosed, stopRoller>>
        /\ timedOut' = ~Sinks!Drained
    BY <1>3 DEF Sinks!AwaitWorkers
  <2> QED  BY <2>1, Zenon DEF Flagged
<1>4. CASE Sinks!CloseAudit \/ Sinks!SetStopped \/ Sinks!CloseQueue \/ Sinks!StopRoller
  <2>1. /\ UNCHANGED <<forced, timedOut, panicked>>
        /\ stopped' = TRUE \/ stopped' = stopped
        /\ queueClosed' = TRUE \/ queueClosed' = queueClosed
        /\ auditClosed' = TRUE \/ auditClosed' = auditClosed
        /\ stopRoller' = TRUE \/ stopRoller' = stopRoller
    BY <1>4, Zenon DEF Sinks!CloseAudit, Sinks!SetStopped, Sinks!CloseQueue, Sinks!StopRoller
  <2> QED  BY <2>1, Zenon DEF Flagged
<1>5. CASE UNCHANGED Flags
  BY <1>5 DEF Flags, Flagged
<1>6. ASSUME NEW h \in Handlers, Sinks!Accept(h) \/ Sinks!Enqueue(h) PROVE UNCHANGED Flags
  BY <1>6 DEF Sinks!Accept, Sinks!Enqueue, Flags
<1>7. ASSUME NEW w \in Workers, Sinks!Take(w) \/ Sinks!Write(w) PROVE UNCHANGED Flags
  BY <1>7 DEF Sinks!Take, Sinks!Write, Flags
<1>8. ASSUME \/ Sinks!InsertAuditEvent \/ Sinks!Roll \/ Sinks!Rolled \/ Sinks!RollerStops
             \/ Sinks!Signal \/ Sinks!AwaitRoller \/ Sinks!Exit
      PROVE  UNCHANGED Flags
  BY <1>8 DEF Sinks!InsertAuditEvent, Sinks!Roll, Sinks!Rolled, Sinks!RollerStops, Sinks!RollerIs, Sinks!Signal,
              Sinks!AwaitRoller, Sinks!Exit, Flags
<1>9. CASE UNCHANGED sinkVars
  BY <1>5, <1>9 DEF sinkVars, Flags
<1> QED
  BY <1>1, <1>2, <1>3, <1>4, <1>5, <1>6, <1>7, <1>8, <1>9 DEF Sinks!Next, Sinks!Goroutine, Sinks!Close

(* A run is within its bounds: its row counts no more than there is to     *)
(* replay, for the counters say what goroutines that ended have found.     *)
LEMMA RunsAreTyped ==
  ASSUME RunInv
  PROVE  Run!RunTypeOK
<1>1. RunShape /\ Paced /\ Tallied(counts, Counted, result) /\ Shown
  BY DEF RunInv
<1>2. Run!Cardinality(Run!Busy) <= Parallel
  BY <1>1 DEF Paced, Run!Cardinality, Cardinality
<1>3. row # None => /\ row.status \in {"pending", "running", "completed"}
                    /\ row.completed + row.failed <= Run!Total
  <2> DEFINE F == Failed(Counted, result)
             S == Scored(Counted, result)
  <2>1. F \cup S \subseteq Run!Recs /\ F \cap S = {}
    BY DEF Failed, Scored, Counted
  <2>2. counts.failed = Cardinality(F) /\ counts.completed = Cardinality(S)
    BY <1>1 DEF Tallied
  <2> HIDE DEF F, S
  <2>3. IsFiniteSet(F) /\ IsFiniteSet(S) /\ Cardinality(F) \in Nat /\ Cardinality(S) \in Nat
    BY <2>1, RecordingsAreCounted, FS_Subset, FS_CardinalityType
  <2>4. Cardinality(F \cup S) = Cardinality(F) + Cardinality(S) - Cardinality({})
    BY <2>1, <2>3, FS_Union
  <2>5. Cardinality(F \cup S) <= Run!Total
    BY <2>1, RecordingsAreCounted, FS_Subset
  <2>6. counts.completed + counts.failed <= Run!Total
    BY <2>2, <2>3, <2>4, <2>5, RecordingsAreCounted, FS_EmptySet
  <2>7. row # None => /\ row.status \in {"pending", "running", "completed"}
                      /\ row.completed \in Nat /\ row.failed \in Nat
    BY <1>1 DEF RunShape, RunRows
  <2>8. counts.completed \in Nat /\ counts.failed \in Nat
    BY <2>2, <2>3
  <2>9. row # None => row.completed <= counts.completed /\ row.failed <= counts.failed
    BY <1>1 DEF Shown
  <2> QED  BY <2>6, <2>7, <2>8, <2>9, RecordingsAreCounted
<1> QED  BY <1>1, <1>2, <1>3 DEF Run!RunTypeOK, RunShape

(* Whichever part is exercised, its state is of the types its module gives *)
(* it: buffers within their capacity, no more goroutines than Parallel, a  *)
(* row that counts no more recordings than there are.                      *)
THEOREM RecordsAreTyped == MCSpec => []PartTypeOK
<1> DEFINE OfChains == part \in Chains => Shape
           OfSinks  == part = "sinks" => Flagged
<1>1. MCInit => OfChains /\ OfSinks
  <2>1. MCInit => OfChains
    BY ShapeBegins DEF MCInit, Chains
  <2>2. Sinks!Init => Flagged
    BY DEF Sinks!Init, Flagged
  <2> QED  BY <2>1, <2>2 DEF MCInit, Chains
<1>2. OfChains /\ [MCNext]_MCVars => OfChains'
  <2>1. [MCNext]_MCVars => part' = part
    BY DEF MCNext, MCVars, ChainStep, SinkStep, RunStep
  <2>2. part \in Chains /\ [MCNext]_MCVars => [Next]_vars
    BY DEF MCNext, MCVars, ChainStep, SinkStep, RunStep, Chains
  <2> QED  BY <2>1, <2>2, ShapeSteps
<1>3. OfSinks /\ [MCNext]_MCVars => OfSinks'
  <2>1. [MCNext]_MCVars => part' = part
    BY DEF MCNext, MCVars, ChainStep, SinkStep, RunStep
  <2>2. part = "sinks" /\ [MCNext]_MCVars => [Sinks!Next]_sinkVars
    BY DEF MCNext, MCVars, ChainStep, SinkStep, RunStep, Chains
  <2> QED  BY <2>1, <2>2, FlagsStayFlags
<1>4. MCInit => RunInv
  BY RunBegins DEF MCInit, RunIdle
<1>5. RunInv /\ [MCNext]_MCVars => RunInv'
  <2>1. [MCNext]_MCVars => [Run!RunNext]_runVars
    BY DEF MCNext, MCVars, ChainStep, SinkStep, RunStep
  <2> QED  BY <2>1, RunSteps
<1>6. OfChains /\ OfSinks /\ SinksPart /\ RunInv => PartTypeOK
  <2>1. SinksInv /\ Flagged => Sinks!TypeOK
    <3>1. QueueSize \in Nat /\ AuditSize \in Nat
      BY SinkAssumption DEF Sinks!ConstantsOK
    <3>2. Flagged => {forced, stopped, queueClosed, timedOut, auditClosed, stopRoller, panicked} \subseteq BOOLEAN
      BY Zenon DEF Flagged
    <3> QED  BY <3>1, <3>2 DEF SinksInv, SinksShape, Sinks!TypeOK
  <2>2. OfChains => (part \in Chains => TypeOK)
    BY DEF Shape
  <2> QED  BY <2>1, <2>2, RunsAreTyped DEF PartTypeOK, SinksPart
<1> QED  BY <1>1, <1>2, <1>3, <1>4, <1>5, <1>6, SinksPartHolds, PTL DEF MCSpec
=============================================================================
