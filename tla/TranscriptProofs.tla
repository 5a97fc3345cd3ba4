--------------------------- MODULE TranscriptProofs ---------------------------
(***************************************************************************)
(* A conversation with tools, on every wire and with every provider, of    *)
(* any length, with any instructions and any number of calls in a reply:   *)
(* what a provider gets has its calls answered, nothing that is said is    *)
(* lost, and a replay asks the same.                                       *)
(*                                                                         *)
(* Everything a request goes through maps over a list: of blocks, messages *)
(* or turns.  The first part proves the laws of such maps by induction     *)
(* over lists, once; the rest applies them to each ingress, the repair,    *)
(* the merging of turns and each adapter, and to the texts, the system     *)
(* texts and the calls they carry.  The repair is a recursive function:    *)
(* that it exists is proved from the places it goes on at, which are later *)
(* ones, and then that it keeps calls together with their answers.         *)
(***************************************************************************)
EXTENDS MCChatPipeline, InductionLemmas, SequenceTheorems, FiniteSetTheorems, TLAPS

----------------------------------------------------------------------------
(* Lists, and what is made of each of their elements.                      *)

(* Induction over the lists of a set's elements.                           *)
LEMMA ListInduction ==
  ASSUME NEW E, NEW T, <<>> \in T,
         \A w \in Seq(E), e \in E : w \in T => Append(w, e) \in T
  PROVE  Seq(E) \subseteq T
<1> SUFFICES ASSUME NEW w \in Seq(E) PROVE w \in T
  OBVIOUS
<1> DEFINE U == {n \in 0..Len(w) : \A v \in Seq(E) : Len(v) = n => v \in T}
<1>0. Len(w) \in Nat
  OBVIOUS
<1>1. 0 \in U
  <2>1. ASSUME NEW v \in Seq(E), Len(v) = 0 PROVE v \in T
    <3>1. v = <<>>
      BY <2>1, EmptySeq
    <3> QED  BY <3>1
  <2> QED  BY <1>0, <2>1
<1>2. ASSUME NEW n \in 1..Len(w), n - 1 \in U PROVE n \in U
  <2>1. ASSUME NEW v \in Seq(E), Len(v) = n PROVE v \in T
    <3>1. v # <<>>
      BY <1>0, <2>1
    <3>2. PICK d \in Seq(E), e \in E : v = Append(d, e)
      BY <3>1, SequenceEmptyOrAppend
    <3>3. Len(d) = n - 1
      BY <1>0, <2>1, <3>2
    <3> QED  BY <1>2, <3>2, <3>3
  <2> QED  BY <1>0, <2>1
<1> HIDE DEF U
<1>3. 0..Len(w) \subseteq U
  BY <1>0, <1>1, <1>2, UpTo
<1>4. Len(w) \in U
  BY <1>0, <1>3
<1> QED  BY <1>4 DEF U

(* Lists one after another.                                                *)
Concats(S) == [p \in Seq(S) \X Seq(S) |-> p[1] \o p[2]]
Flat(ss, S) == Folded(ss, Seq(S), <<>>, Concats(S))

(* That loop is concatenation.                                             *)
LEMMA Concatenates ==
  ASSUME NEW S
  PROVE  /\ Concats(S) \in [Seq(S) \X Seq(S) -> Seq(S)]
         /\ \A u, s \in Seq(S) : Concats(S)[<<u, s>>] = u \o s
<1> DEFINE C == [p \in Seq(S) \X Seq(S) |-> p[1] \o p[2]]
<1>1. \A u, s \in Seq(S) : <<u, s>> \in Seq(S) \X Seq(S) /\ u \o s \in Seq(S)
  OBVIOUS
<1>2. \A p \in Seq(S) \X Seq(S) : p[1] \in Seq(S) /\ p[2] \in Seq(S)
  OBVIOUS
<1>3. \A p \in Seq(S) \X Seq(S) : p[1] \o p[2] \in Seq(S)
  BY <1>2
<1>4. PICK Q : Q = Seq(S)
  OBVIOUS
<1>5. C \in [Q \X Q -> Q]
  BY <1>3, <1>4
<1>6. \A u, s \in Q : C[<<u, s>>] = u \o s
  BY <1>4
<1> QED  BY <1>4, <1>5, <1>6 DEF Concats

(* The loop has its laws.                                                  *)
LEMMA FlatLaws ==
  ASSUME NEW S
  PROVE  /\ Flat(<<>>, S) = <<>>
         /\ \A ss \in Seq(Seq(S)) : Flat(ss, S) \in Seq(S)
         /\ \A ss \in Seq(Seq(S)), s \in Seq(S) : Flat(Append(ss, s), S) = Flat(ss, S) \o s
<1>1. PICK Q, c : Q = Seq(S) /\ c = Concats(S)
  OBVIOUS
<1>2. Steps(c, Q, Q) /\ <<>> \in Q
  BY <1>1 DEF Concats, Steps
<1>3. LoopLaws(Q, Q, <<>>, c)
  BY <1>2, FoldedLaws
<1>4. \A u, s \in Q : c[<<u, s>>] = u \o s
  BY <1>1 DEF Concats
<1>5. /\ Folded(<<>>, Q, <<>>, c) = <<>>
      /\ \A ss \in Seq(Q) : Folded(ss, Q, <<>>, c) \in Q
      /\ \A ss \in Seq(Q), s \in Q : Folded(Append(ss, s), Q, <<>>, c) = Folded(ss, Q, <<>>, c) \o s
  BY <1>3, <1>4 DEF LoopLaws
<1> QED  BY <1>1, <1>5, Zenon DEF Flat

(* FlattenSeq is that loop.                                                *)
LEMMA FlattenIsFlat ==
  ASSUME NEW S, NEW ss \in Seq(Seq(S))
  PROVE  Talk!FlattenSeq(ss) = Flat(ss, S)
<1> DEFINE n == Len(ss)
           Q == Seq(S)
           Says(f) == f = [i \in 1..n |-> IF i = 1 THEN ss[i] ELSE f[i - 1] \o ss[i]]
<1>0. n \in Nat /\ <<>> \in Q /\ \A i \in 1..n : ss[i] \in Q
  OBVIOUS
<1>1. CASE n = 0
  <2>1. ss = <<>>
    BY <1>1, EmptySeq
  <2>2. Talk!FlattenSeq(ss) = ss
    BY <1>1 DEF Talk!FlattenSeq
  <2> QED  BY <2>1, <2>2, FlatLaws
<1>2. CASE n # 0
  <2>1. Talk!FlattenSeq(ss) = (CHOOSE f : Says(f))[n]
    BY <1>2, Zenon DEF Talk!FlattenSeq
  <2>2. Concats(S) \in [Q \X Q -> Q] /\ \A u, s \in Q : Concats(S)[<<u, s>>] = u \o s
    BY Concatenates, Zenon
  <2> HIDE DEF Q
  <2>3. PICK h : h = CHOOSE k : Loops(k, ss, Q, <<>>, Concats(S))
    OBVIOUS
  <2>4. Loops(h, ss, Q, <<>>, Concats(S))
    <3>1. ss \in Seq(Q)
      BY DEF Q
    <3>2. \E g : Loops(g, ss, Q, <<>>, Concats(S))
      BY <1>0, <2>2, <3>1, LoopExists
    <3> QED  BY <2>3, <3>2, Zenon
  <2>5. /\ h[0] = <<>> /\ (\A i \in 0..n : h[i] \in Q)
        /\ \A i \in 1..n : h[i] = h[i - 1] \o ss[i]
    <3>1. h \in [0..n -> Q] /\ h[0] = <<>> /\ \A i \in 1..n : h[i] = Concats(S)[<<h[i - 1], ss[i]>>]
      BY <2>4 DEF Loops
    <3>2. \A i \in 1..n : i - 1 \in 0..n
      BY <1>0
    <3> QED  BY <1>0, <2>2, <3>1, <3>2
  <2>6. h[1] = ss[1]
    <3>1. 1 \in 1..n /\ 1 - 1 = 0
      BY <1>0, <1>2
    <3>2. h[1] = <<>> \o ss[1] /\ ss[1] \in Seq(S)
      BY <1>0, <2>5, <3>1 DEF Q
    <3> QED  BY <3>2
  <2>7. PICK g : g = [i \in 1..n |-> h[i]]
    OBVIOUS
  <2>8. Says(g)
    <3>1. \A i \in 1..n : i # 1 => i - 1 \in 1..n
      BY <1>0
    <3>2. \A i \in 1..n : h[i] = IF i = 1 THEN ss[i] ELSE g[i - 1] \o ss[i]
      BY <2>5, <2>6, <2>7, <3>1
    <3> QED  BY <2>7, <3>2
  <2>9. PICK c : c = CHOOSE f : Says(f)
    OBVIOUS
  <2>10. Says(c)
    <3> HIDE DEF Says
    <3> QED  BY <2>8, <2>9, Zenon
  <2>11. \A i \in 1..n : c[i] = IF i = 1 THEN ss[i] ELSE c[i - 1] \o ss[i]
    BY <2>10
  <2> HIDE DEF Says
  <2> DEFINE T == {i \in 0..n : i # 0 => c[i] = h[i]}
  <2>12. 0 \in T
    BY <1>0
  <2>13. ASSUME NEW i \in 1..n, i - 1 \in T PROVE i \in T
    <3>1. CASE i = 1
      BY <1>0, <2>6, <2>11, <3>1
    <3>2. CASE i # 1
      <4>1. i - 1 \in 1..n /\ i - 1 # 0
        BY <1>0, <3>2
      <4>2. c[i - 1] = h[i - 1]
        BY <2>13, <4>1
      <4>3. c[i] = c[i - 1] \o ss[i] /\ h[i] = h[i - 1] \o ss[i]
        BY <2>5, <2>11, <3>2, Zenon
      <4>4. i \in 0..n
        BY <1>0
      <4> QED  BY <4>2, <4>3, <4>4, Zenon
    <3> QED  BY <3>1, <3>2
  <2> HIDE DEF T
  <2>14. 0..n \subseteq T
    BY <1>0, <2>12, <2>13, UpTo
  <2>15. c[n] = h[n]
    BY <1>0, <1>2, <2>14 DEF T
  <2> QED  BY <2>1, <2>3, <2>9, <2>15, Zenon DEF Flat, Folded, Q
<1> QED  BY <1>1, <1>2

(* One list after another, of lists of lists.                              *)
LEMMA FlatOfBoth ==
  ASSUME NEW S, NEW a \in Seq(Seq(S)), NEW b \in Seq(Seq(S))
  PROVE  Flat(a \o b, S) = Flat(a, S) \o Flat(b, S)
<1> DEFINE T == {c \in Seq(Seq(S)) : Flat(a \o c, S) = Flat(a, S) \o Flat(c, S)}
<1>1. <<>> \in T
  <2>1. a \o <<>> = a /\ Flat(a, S) \o <<>> = Flat(a, S)
    BY FlatLaws, ConcatEmptySeq
  <2> QED  BY <2>1, FlatLaws
<1>2. ASSUME NEW c \in Seq(Seq(S)), NEW e \in Seq(S), c \in T PROVE Append(c, e) \in T
  <2>1. PICK u, v : u = Flat(a, S) /\ v = Flat(c, S)
    OBVIOUS
  <2>2. u \in Seq(S) /\ v \in Seq(S) /\ Flat(a \o c, S) = u \o v
    BY <1>2, <2>1, FlatLaws
  <2>3. a \o Append(c, e) = Append(a \o c, e) /\ a \o c \in Seq(Seq(S)) /\ Append(c, e) \in Seq(Seq(S))
    OBVIOUS
  <2>4. Flat(a \o Append(c, e), S) = (u \o v) \o e /\ Flat(Append(c, e), S) = v \o e
    BY <2>1, <2>2, <2>3, FlatLaws
  <2>5. (u \o v) \o e = u \o (v \o e)
    BY <2>2, ConcatAssociative
  <2> QED  BY <2>1, <2>3, <2>4, <2>5
<1> HIDE DEF T
<1>3. Seq(Seq(S)) \subseteq T
  BY <1>1, <1>2, ListInduction
<1> QED  BY <1>3 DEF T

(* What f makes of each element of a list, one after another.              *)
Images(f, s) == [i \in DOMAIN s |-> f[s[i]]]
Maps(f, s) == Talk!FlattenSeq(Images(f, s))

(* Concatenation is associative.                                           *)
LEMMA Associates ==
  ASSUME NEW S, NEW u, NEW v, NEW w, u \in Seq(S), v \in Seq(S), w \in Seq(S)
  PROVE  (u \o v) \o w = u \o (v \o w)
BY ConcatAssociative

MapLaws(f, E, S) ==
  /\ Maps(f, <<>>) = <<>>
  /\ \A s \in Seq(E) : Maps(f, s) \in Seq(S)
  /\ \A s \in Seq(E), e \in E : Maps(f, Append(s, e)) = Maps(f, s) \o f[e]
  /\ \A e \in E : Maps(f, <<e>>) = f[e]
  /\ \A s, t \in Seq(E) : Maps(f, s \o t) = Maps(f, s) \o Maps(f, t)

(* Images are lists, and grow with theirs.                                 *)
LEMMA ImagesAreLists ==
  ASSUME NEW E, NEW Q, NEW f \in [E -> Q]
  PROVE  /\ Images(f, <<>>) = <<>>
         /\ \A s \in Seq(E) : Images(f, s) \in Seq(Q)
         /\ \A s \in Seq(E), e \in E : Images(f, Append(s, e)) = Append(Images(f, s), f[e])
<1>1. Images(f, <<>>) = <<>>
  BY DEF Images
<1>2. ASSUME NEW s \in Seq(E) PROVE Images(f, s) \in Seq(Q) /\ Len(Images(f, s)) = Len(s)
  BY DEF Images
<1>3. ASSUME NEW s \in Seq(E), NEW e \in E
      PROVE  Images(f, Append(s, e)) = Append(Images(f, s), f[e])
  <2>1. PICK n, t, u, v : n = Len(s) /\ t = Append(s, e) /\ u = Images(f, s) /\ v = Append(u, f[e])
    OBVIOUS
  <2>2. n \in Nat /\ t \in Seq(E) /\ Len(t) = n + 1 /\ t[n + 1] = e /\ \A i \in 1..n : t[i] = s[i]
    BY <2>1, AppendProperties
  <2>3. u \in Seq(Q) /\ Len(u) = n /\ \A i \in 1..n : u[i] = f[s[i]]
    <3>1. DOMAIN s = 1..n
      BY <2>1
    <3> QED  BY <1>2, <2>1, <3>1 DEF Images
  <2>4. v \in Seq(Q) /\ Len(v) = n + 1 /\ v[n + 1] = f[e] /\ \A i \in 1..n : v[i] = u[i]
    BY <2>1, <2>3, AppendProperties
  <2>5. \A i \in 1..(n + 1) : v[i] = f[t[i]]
    <3>1. \A i \in 1..(n + 1) : i \in 1..n \/ i = n + 1
      BY <2>2
    <3> QED  BY <2>2, <2>3, <2>4, <3>1
  <2>6. Images(f, t) \in Seq(Q) /\ Len(Images(f, t)) = n + 1 /\ \A i \in 1..(n + 1) : Images(f, t)[i] = f[t[i]]
    BY <1>2, <2>2 DEF Images
  <2>7. Images(f, t) = v
    BY <2>4, <2>5, <2>6, SeqEqual
  <2> QED  BY <2>1, <2>7
<1> QED  BY <1>1, <1>2, <1>3

(* Maps respects the empty list, one more element and concatenation.       *)
LEMMA MapsHasItsLaws ==
  ASSUME NEW E, NEW S, NEW f, f \in [E -> Seq(S)]
  PROVE  MapLaws(f, E, S)
<1>1. /\ Images(f, <<>>) = <<>>
      /\ \A s \in Seq(E) : Images(f, s) \in Seq(Seq(S))
      /\ \A s \in Seq(E), e \in E : Images(f, Append(s, e)) = Append(Images(f, s), f[e])
  <2>1. PICK Q : Q = Seq(S)
    OBVIOUS
  <2>2. f \in [E -> Q]
    BY <2>1
  <2>3. /\ Images(f, <<>>) = <<>>
        /\ \A s \in Seq(E) : Images(f, s) \in Seq(Q)
        /\ \A s \in Seq(E), e \in E : Images(f, Append(s, e)) = Append(Images(f, s), f[e])
    BY <2>2, ImagesAreLists, ZenonT(30)
  <2> QED  BY <2>1, <2>3, Zenon
<1>2. ASSUME NEW s \in Seq(E) PROVE Maps(f, s) = Flat(Images(f, s), S) /\ Maps(f, s) \in Seq(S)
  BY <1>1, FlattenIsFlat, FlatLaws DEF Maps
<1>3. Maps(f, <<>>) = <<>>
  <2>1. <<>> \in Seq(E)
    OBVIOUS
  <2> QED  BY <1>1, <1>2, <2>1, FlatLaws
<1>4. ASSUME NEW s \in Seq(E), NEW e \in E
      PROVE  Maps(f, Append(s, e)) = Maps(f, s) \o f[e]
  <2>1. PICK ss, w : ss = Images(f, s) /\ w = f[e]
    OBVIOUS
  <2>2. ss \in Seq(Seq(S)) /\ w \in Seq(S)
    BY <1>1, <2>1
  <2>3. Flat(Append(ss, w), S) = Flat(ss, S) \o w
    BY <2>2, FlatLaws
  <2>4. Append(s, e) \in Seq(E)
    OBVIOUS
  <2>5. Maps(f, Append(s, e)) = Flat(Append(ss, w), S)
    BY <1>1, <1>2, <2>1, <2>4
  <2> QED  BY <1>2, <2>1, <2>3, <2>5
<1>5. ASSUME NEW e \in E PROVE Maps(f, <<e>>) = f[e]
  <2>1. <<e>> = Append(<<>>, e) /\ <<>> \in Seq(E)
    OBVIOUS
  <2>2. PICK w : w = f[e]
    OBVIOUS
  <2>3. w \in Seq(S)
    BY <2>2
  <2>4. Maps(f, <<e>>) = <<>> \o w
    BY <1>3, <1>4, <2>1, <2>2
  <2> QED  BY <2>2, <2>3, <2>4
<1>6. ASSUME NEW s \in Seq(E), NEW t \in Seq(E)
      PROVE  Maps(f, s \o t) = Maps(f, s) \o Maps(f, t)
  <2> DEFINE T == {c \in Seq(E) : Maps(f, s \o c) = Maps(f, s) \o Maps(f, c)}
  <2>1. <<>> \in T
    <3>1. PICK u : u = Maps(f, s)
      OBVIOUS
    <3>2. u \in Seq(S)
      BY <1>2, <3>1
    <3>3. s \o <<>> = s /\ u \o <<>> = u
      BY <3>2, ConcatEmptySeq
    <3>4. <<>> \in Seq(E)
      OBVIOUS
    <3> QED  BY <1>3, <3>1, <3>3, <3>4, Zenon
  <2>2. ASSUME NEW c \in Seq(E), NEW e \in E, c \in T PROVE Append(c, e) \in T
    <3>1. PICK u, v, w : u = Maps(f, s) /\ v = Maps(f, c) /\ w = f[e]
      OBVIOUS
    <3>2. u \in Seq(S) /\ v \in Seq(S) /\ w \in Seq(S)
      BY <1>2, <3>1
    <3>3. s \o Append(c, e) = Append(s \o c, e) /\ s \o c \in Seq(E) /\ Append(c, e) \in Seq(E)
      OBVIOUS
    <3>4. Maps(f, s \o Append(c, e)) = (u \o v) \o w /\ Maps(f, Append(c, e)) = v \o w
      BY <1>4, <2>2, <3>1, <3>3
    <3>5. (u \o v) \o w = u \o (v \o w)
      BY <3>2, Associates
    <3> QED  BY <3>1, <3>3, <3>4, <3>5
  <2> HIDE DEF T
  <2>3. Seq(E) \subseteq T
    BY <2>1, <2>2, ListInduction
  <2> QED  BY <2>3 DEF T
<1> QED  BY <1>2, <1>3, <1>4, <1>5, <1>6 DEF MapLaws

(* One loop after another is a loop.                                       *)
LEMMA MapsOfMaps ==
  ASSUME NEW E, NEW S, NEW R, NEW f, NEW g, NEW h, MapLaws(f, E, S), MapLaws(g, S, R), MapLaws(h, E, R),
         \A e \in E : f[e] \in Seq(S) /\ Maps(g, f[e]) = h[e]
  PROVE  \A s \in Seq(E) : Maps(g, Maps(f, s)) = Maps(h, s)
<1> DEFINE T == {s \in Seq(E) : Maps(g, Maps(f, s)) = Maps(h, s)}
<1>1. <<>> \in T
  BY DEF MapLaws
<1>2. ASSUME NEW s \in Seq(E), NEW e \in E, s \in T PROVE Append(s, e) \in T
  <2>1. PICK u, w : u = Maps(f, s) /\ w = f[e]
    OBVIOUS
  <2>2. u \in Seq(S) /\ w \in Seq(S) /\ Append(s, e) \in Seq(E)
    BY <2>1 DEF MapLaws
  <2>3. Maps(f, Append(s, e)) = u \o w /\ Maps(h, Append(s, e)) = Maps(h, s) \o h[e]
    BY <2>1 DEF MapLaws
  <2>4. Maps(g, u \o w) = Maps(g, u) \o Maps(g, w)
    BY <2>2 DEF MapLaws
  <2> QED  BY <1>2, <2>1, <2>2, <2>3, <2>4
<1> HIDE DEF T
<1>3. Seq(E) \subseteq T
  BY <1>1, <1>2, ListInduction
<1> QED  BY <1>3 DEF T

(* Where f makes nothing of any element, it makes nothing of the list.     *)
LEMMA MapsToNothing ==
  ASSUME NEW E, NEW S, NEW f, MapLaws(f, E, S), \A e \in E : f[e] = <<>>
  PROVE  \A s \in Seq(E) : Maps(f, s) = <<>>
<1> DEFINE T == {s \in Seq(E) : Maps(f, s) = <<>>}
<1>1. <<>> \in T
  BY DEF MapLaws
<1>2. ASSUME NEW s \in Seq(E), NEW e \in E, s \in T PROVE Append(s, e) \in T
  <2>1. Maps(f, Append(s, e)) = <<>> \o <<>> /\ Append(s, e) \in Seq(E)
    BY <1>2 DEF MapLaws
  <2> QED  BY <2>1
<1> HIDE DEF T
<1>3. Seq(E) \subseteq T
  BY <1>1, <1>2, ListInduction
<1> QED  BY <1>3 DEF T

(* Where it makes one of each, it makes a list of the same length.         *)
LEMMA MapsToOnes ==
  ASSUME NEW E, NEW S, NEW f, NEW g, MapLaws(f, E, S), g \in [E -> S], \A e \in E : f[e] = <<g[e]>>
  PROVE  \A s \in Seq(E) : Maps(f, s) = Images(g, s)
<1> DEFINE T == {s \in Seq(E) : Maps(f, s) = Images(g, s)}
<1>1. <<>> \in T
  BY ImagesAreLists DEF MapLaws
<1>2. ASSUME NEW s \in Seq(E), NEW e \in E, s \in T PROVE Append(s, e) \in T
  <2>1. PICK u : u = Images(g, s)
    OBVIOUS
  <2>2. u \in Seq(S) /\ g[e] \in S /\ Append(s, e) \in Seq(E) /\ Images(g, Append(s, e)) = Append(u, g[e])
    BY <2>1, ImagesAreLists
  <2>3. Maps(f, Append(s, e)) = u \o <<g[e]>>
    BY <1>2, <2>1 DEF MapLaws
  <2>4. u \o <<g[e]>> = Append(u, g[e])
    BY <2>2
  <2> QED  BY <2>2, <2>3, <2>4
<1> HIDE DEF T
<1>3. Seq(E) \subseteq T
  BY <1>1, <1>2, ListInduction
<1> QED  BY <1>3 DEF T

(* A function that makes of each element the list of it makes no change.   *)
LEMMA MapsToItself ==
  ASSUME NEW E, NEW f, f \in [E -> Seq(E)], \A e \in E : f[e] = <<e>>
  PROVE  \A s \in Seq(E) : Maps(f, s) = s
<1>1. PICK g : g = [e \in E |-> e]
  OBVIOUS
<1>2. g \in [E -> E] /\ \A e \in E : f[e] = <<g[e]>>
  BY <1>1
<1>3. \A s \in Seq(E) : Maps(f, s) = Images(g, s)
  <2>1. MapLaws(f, E, E)
    BY MapsHasItsLaws
  <2> QED  BY <1>2, <2>1, MapsToOnes
<1>4. \A s \in Seq(E) : Images(g, s) = s
  BY <1>1 DEF Images
<1> QED  BY <1>3, <1>4

(* What is made of images is made of their elements.                       *)
LEMMA MapsOfImages ==
  ASSUME NEW E, NEW f, NEW g, NEW h, \A e \in E : g[f[e]] = h[e]
  PROVE  \A s \in Seq(E) : Maps(g, Images(f, s)) = Maps(h, s)
<1>1. ASSUME NEW s \in Seq(E) PROVE Images(g, Images(f, s)) = Images(h, s)
  BY DEF Images
<1> QED  BY <1>1 DEF Maps

(* What is said of one function for each element is said of the list.     *)
LEMMA MapsAgree ==
  ASSUME NEW E, NEW f, NEW g, NEW s \in Seq(E), \A i \in DOMAIN s : f[s[i]] = g[s[i]]
  PROVE  Maps(f, s) = Maps(g, s)
<1>1. Images(f, s) = Images(g, s)
  BY DEF Images
<1> QED  BY <1>1 DEF Maps

----------------------------------------------------------------------------
(* Blocks, turns and messages.                                             *)

NoId == Talk!NoId

(* Blocks, of a client and of any request.                                 *)
AnyBlocks  == [kind : {"text", "call", "result", "output"}, of : Int]
ClientsOwn == {b \in AnyBlocks : b.kind # "output"}

(* Calls all have ids, each its own, or none has one.                      *)
Numbered(calls) ==
  \/ \A i \in DOMAIN calls : calls[i] = NoId
  \/ \A i \in DOMAIN calls : calls[i] # NoId /\ \A j \in DOMAIN calls : calls[i] = calls[j] => i = j

(* Turns: users call nothing.                                              *)
AnyTurns == [role : {"user", "assistant"}, blocks : Seq(AnyBlocks)]
OwnTurns ==
  {t \in AnyTurns :
     /\ \A i \in DOMAIN t.blocks : t.blocks[i].kind # "output" /\ (t.role = "user" => t.blocks[i].kind # "call")
     /\ Numbered(Talk!Of("call", t.blocks))}

(* Messages: tools say nothing else, and assistants alone call them.       *)
AnyMessages ==
  [role : {"user", "assistant", "tool", "system"}, text : Seq(Int), calls : Seq(Int), answers : Int]
OwnMessages ==
  {m \in AnyMessages :
     /\ m.role = "tool" => m.text = <<>> /\ m.calls = <<>>
     /\ m.calls # <<>> => m.role = "assistant"
     /\ Numbered(m.calls)}

(* What is taken of blocks, messages and turns.                            *)
OfKind(kind) == [b \in AnyBlocks |-> IF b.kind = kind THEN <<b.of>> ELSE <<>>]
MadeInto(kind) == [x \in Int |-> Talk!Block(kind, x)]
OfUser   == [m \in AnyMessages |-> IF m.role = "user" THEN m.text ELSE <<>>]
OfSystem == [m \in AnyMessages |-> IF m.role = "system" THEN <<m>> ELSE <<>>]
OfOthers == [m \in AnyMessages |-> IF m.role # "system" THEN <<m>> ELSE <<>>]
OfText   == [m \in AnyMessages |-> m.text]
UserSays == [t \in AnyTurns |-> IF t.role = "user" THEN Talk!Of("text", t.blocks) ELSE <<>>]

(* The laws hold of a smaller set of elements.                             *)
LEMMA LawsOfFewer ==
  ASSUME NEW E, NEW S, NEW f, MapLaws(f, E, S), NEW D, D \subseteq E
  PROVE  MapLaws(f, D, S)
<1>1. Seq(D) \subseteq Seq(E)
  OBVIOUS
<1> QED  BY <1>1 DEF MapLaws

(* The blocks of a kind.                                                   *)
LEMMA OfIsMaps ==
  ASSUME NEW kind
  PROVE  /\ MapLaws(OfKind(kind), AnyBlocks, Int)
         /\ \A bs \in Seq(AnyBlocks) : Talk!Of(kind, bs) = Maps(OfKind(kind), bs)
<1>1. OfKind(kind) \in [AnyBlocks -> Seq(Int)]
  BY DEF OfKind, AnyBlocks
<1>2. ASSUME NEW bs \in Seq(AnyBlocks) PROVE Talk!Of(kind, bs) = Maps(OfKind(kind), bs)
  <2>1. \A i \in DOMAIN bs : OfKind(kind)[bs[i]] = IF bs[i].kind = kind THEN <<bs[i].of>> ELSE <<>>
    BY DEF OfKind
  <2>2. PICK v : v = [i \in DOMAIN bs |-> IF bs[i].kind = kind THEN <<bs[i].of>> ELSE <<>>]
    OBVIOUS
  <2>3. Images(OfKind(kind), bs) = v
    BY <2>1, <2>2 DEF Images
  <2>4. Talk!Of(kind, bs) = Talk!FlattenSeq(v)
    BY <2>2, Zenon DEF Talk!Of, Talk!FlatMap
  <2> QED  BY <2>3, <2>4 DEF Maps
<1> QED  BY <1>1, <1>2, MapsHasItsLaws

(* Of has the laws of a loop over blocks.                                  *)
LEMMA OfLaws ==
  ASSUME NEW kind
  PROVE  /\ Talk!Of(kind, <<>>) = <<>>
         /\ \A bs \in Seq(AnyBlocks) : Talk!Of(kind, bs) \in Seq(Int)
         /\ \A a, b \in Seq(AnyBlocks) : Talk!Of(kind, a \o b) = Talk!Of(kind, a) \o Talk!Of(kind, b)
         /\ \A bs \in Seq(AnyBlocks), b \in AnyBlocks :
              Talk!Of(kind, Append(bs, b)) = Talk!Of(kind, bs) \o (IF b.kind = kind THEN <<b.of>> ELSE <<>>)
<1>1. /\ MapLaws(OfKind(kind), AnyBlocks, Int)
      /\ \A bs \in Seq(AnyBlocks) : Talk!Of(kind, bs) = Maps(OfKind(kind), bs)
  BY OfIsMaps
<1>2. <<>> \in Seq(AnyBlocks)
  OBVIOUS
<1>3. \A a, b \in Seq(AnyBlocks) : a \o b \in Seq(AnyBlocks)
  OBVIOUS
<1>4. \A bs \in Seq(AnyBlocks), b \in AnyBlocks : Append(bs, b) \in Seq(AnyBlocks)
  OBVIOUS
<1>5. \A b \in AnyBlocks : OfKind(kind)[b] = IF b.kind = kind THEN <<b.of>> ELSE <<>>
  BY DEF OfKind
<1>6. PICK f : f = OfKind(kind)
  OBVIOUS
<1>7. MapLaws(f, AnyBlocks, Int) /\ \A bs \in Seq(AnyBlocks) : Talk!Of(kind, bs) = Maps(f, bs)
  BY <1>1, <1>6
<1>8. Talk!Of(kind, <<>>) = <<>>
  BY <1>2, <1>7, Zenon DEF MapLaws
<1>9. \A bs \in Seq(AnyBlocks) : Talk!Of(kind, bs) \in Seq(Int)
  BY <1>7, Zenon DEF MapLaws
<1>10. ASSUME NEW a \in Seq(AnyBlocks), NEW b \in Seq(AnyBlocks)
       PROVE  Talk!Of(kind, a \o b) = Talk!Of(kind, a) \o Talk!Of(kind, b)
  <2>1. Maps(f, a \o b) = Maps(f, a) \o Maps(f, b)
    BY <1>7, Zenon DEF MapLaws
  <2> QED  BY <1>3, <1>7, <2>1, Zenon
<1>11. ASSUME NEW bs \in Seq(AnyBlocks), NEW b \in AnyBlocks
       PROVE  Talk!Of(kind, Append(bs, b)) = Talk!Of(kind, bs) \o (IF b.kind = kind THEN <<b.of>> ELSE <<>>)
  <2>1. Maps(f, Append(bs, b)) = Maps(f, bs) \o f[b]
    BY <1>7, Zenon DEF MapLaws
  <2> QED  BY <1>4, <1>5, <1>6, <1>7, <2>1, Zenon
<1> QED  BY <1>8, <1>9, <1>10, <1>11

(* Blocks makes a block of each.                                           *)
LEMMA BlocksAreImages ==
  ASSUME NEW kind
  PROVE  \A ofs \in Seq(Int) : Talk!Blocks(kind, ofs) = Images(MadeInto(kind), ofs)
<1> TAKE ofs \in Seq(Int)
<1>1. \A i \in DOMAIN ofs : MadeInto(kind)[ofs[i]] = Talk!Block(kind, ofs[i])
  BY DEF MadeInto
<1> QED  BY <1>1 DEF Talk!Blocks, Images

(* Blocks of a kind and no other.                                          *)
LEMMA OfBlocks ==
  ASSUME NEW kind \in {"text", "call", "result", "output"}, NEW other, NEW ofs \in Seq(Int)
  PROVE  /\ Talk!Blocks(kind, ofs) \in Seq(AnyBlocks)
         /\ DOMAIN Talk!Blocks(kind, ofs) = DOMAIN ofs
         /\ \A i \in DOMAIN ofs : Talk!Blocks(kind, ofs)[i].kind = kind
         /\ Talk!Of(other, Talk!Blocks(kind, ofs)) = IF other = kind THEN ofs ELSE <<>>
<1>1. MadeInto(kind) \in [Int -> AnyBlocks] /\ \A x \in Int : MadeInto(kind)[x] = Talk!Block(kind, x)
  BY DEF MadeInto, Talk!Block, AnyBlocks
<1>2. \A x \in Int : Talk!Block(kind, x).kind = kind /\ Talk!Block(kind, x).of = x
  BY DEF Talk!Block
<1>3. \A o \in Seq(Int) : Talk!Blocks(kind, o) = Images(MadeInto(kind), o)
  BY BlocksAreImages
<1>4. \A o \in Seq(Int) : Images(MadeInto(kind), o) \in Seq(AnyBlocks)
  BY <1>1, ImagesAreLists
<1>5. \A i \in DOMAIN ofs : Talk!Blocks(kind, ofs)[i].kind = kind
  BY <1>2 DEF Talk!Blocks
<1> DEFINE h == [x \in Int |-> IF other = kind THEN <<x>> ELSE <<>>]
<1>6. h \in [Int -> Seq(Int)] /\ \A x \in Int : h[x] = IF other = kind THEN <<x>> ELSE <<>>
  OBVIOUS
<1>7. \A x \in Int : OfKind(other)[MadeInto(kind)[x]] = h[x]
  BY <1>1, <1>2 DEF OfKind
<1> HIDE DEF h
<1>8. MapLaws(h, Int, Int)
  BY <1>6, MapsHasItsLaws
<1>11. Talk!Of(other, Talk!Blocks(kind, ofs)) = Maps(h, ofs)
  <2>1. Images(OfKind(other), Images(MadeInto(kind), ofs)) = Images(h, ofs)
    BY <1>7 DEF Images
  <2>2. Talk!Of(other, Images(MadeInto(kind), ofs)) = Maps(OfKind(other), Images(MadeInto(kind), ofs))
    BY <1>4, OfIsMaps
  <2> QED  BY <1>3, <2>1, <2>2, Zenon DEF Maps
<1>9. Talk!Of(other, Talk!Blocks(kind, ofs)) = IF other = kind THEN ofs ELSE <<>>
  <2>1. CASE other = kind
    <3>1. PICK g : g = [x \in Int |-> x]
      OBVIOUS
    <3>2. g \in [Int -> Int] /\ \A x \in Int : g[x] = x
      BY <3>1
    <3>3. \A x \in Int : h[x] = <<g[x]>>
      BY <1>6, <2>1, <3>2
    <3>4. Maps(h, ofs) = Images(g, ofs)
      BY <1>8, <3>2, <3>3, MapsToOnes
    <3>5. Images(g, ofs) = ofs
      BY <3>2 DEF Images
    <3> QED  BY <1>11, <2>1, <3>4, <3>5
  <2>2. CASE other # kind
    <3>1. Maps(h, ofs) = <<>>
      BY <1>6, <1>8, <2>2, MapsToNothing
    <3> QED  BY <1>11, <2>2, <3>1
  <2> QED  BY <2>1, <2>2
<1>10. DOMAIN Talk!Blocks(kind, ofs) = DOMAIN ofs
  BY DEF Talk!Blocks
<1> QED  BY <1>3, <1>4, <1>5, <1>9, <1>10

(* The empty list adds nothing.                                            *)
LEMMA EmptyEnds ==
  ASSUME NEW S, NEW u, u \in Seq(S)
  PROVE  u \o <<>> = u /\ <<>> \o u = u
BY ConcatEmptySeq

(* So have what is taken of messages ...                                   *)
LEMMA MessageLaws ==
  /\ MapLaws(OfUser, AnyMessages, Int) /\ MapLaws(OfText, AnyMessages, Int)
  /\ MapLaws(OfSystem, AnyMessages, AnyMessages) /\ MapLaws(OfOthers, AnyMessages, AnyMessages)
  /\ OwnMessages \subseteq AnyMessages /\ Seq(OwnMessages) \subseteq Seq(AnyMessages)
<1>1. OfUser \in [AnyMessages -> Seq(Int)] /\ OfText \in [AnyMessages -> Seq(Int)]
  BY DEF OfUser, OfText, AnyMessages
<1>2. OfSystem \in [AnyMessages -> Seq(AnyMessages)] /\ OfOthers \in [AnyMessages -> Seq(AnyMessages)]
  BY DEF OfSystem, OfOthers
<1>3. OwnMessages \subseteq AnyMessages
  BY DEF OwnMessages
<1>4. Seq(OwnMessages) \subseteq Seq(AnyMessages)
  BY <1>3
<1> QED  BY <1>1, <1>2, <1>3, <1>4, MapsHasItsLaws

(* ... and of turns.                                                       *)
LEMMA TurnLaws ==
  /\ MapLaws(UserSays, AnyTurns, Int)
  /\ OwnTurns \subseteq AnyTurns /\ Seq(OwnTurns) \subseteq Seq(AnyTurns)
<1>1. UserSays \in [AnyTurns -> Seq(Int)]
  <2>1. \A t \in AnyTurns : t.blocks \in Seq(AnyBlocks)
    BY DEF AnyTurns
  <2>2. \A t \in AnyTurns : Talk!Of("text", t.blocks) \in Seq(Int)
    BY <2>1, OfLaws
  <2> QED  BY <2>2 DEF UserSays
<1>2. OwnTurns \subseteq AnyTurns
  BY DEF OwnTurns
<1>3. Seq(OwnTurns) \subseteq Seq(AnyTurns)
  BY <1>2
<1> QED  BY <1>1, <1>2, <1>3, MapsHasItsLaws

(* A list without blocks of a kind.                                        *)
LEMMA NoneOfKind ==
  ASSUME NEW kind, NEW bs \in Seq(AnyBlocks), \A i \in DOMAIN bs : bs[i].kind # kind
  PROVE  Talk!Of(kind, bs) = <<>>
<1> DEFINE E == {b \in AnyBlocks : b.kind # kind}
<1>1. bs \in Seq(E)
  OBVIOUS
<1>2. \A b \in E : OfKind(kind)[b] = <<>>
  BY DEF OfKind
<1>3. MapLaws(OfKind(kind), E, Int)
  <2>1. E \subseteq AnyBlocks
    OBVIOUS
  <2> QED  BY <2>1, OfIsMaps, LawsOfFewer
<1> HIDE DEF E
<1>4. Maps(OfKind(kind), bs) = <<>>
  BY <1>1, <1>2, <1>3, MapsToNothing
<1> QED  BY <1>4, OfIsMaps

(* What the messages of a turn keep of it.                                 *)
Carry(ms, t) ==
  /\ ms \in Seq(OwnMessages)
  /\ Maps(OfUser, ms) = UserSays[t]
  /\ Maps(OfSystem, ms) = <<>>

(* What is taken of one message,                                           *)
LEMMA OneMessage ==
  ASSUME NEW m, m \in OwnMessages
  PROVE  /\ <<m>> \in Seq(OwnMessages)
         /\ Maps(OfUser, <<m>>) = IF m.role = "user" THEN m.text ELSE <<>>
         /\ Maps(OfSystem, <<m>>) = IF m.role = "system" THEN <<m>> ELSE <<>>
         /\ Maps(OfOthers, <<m>>) = IF m.role # "system" THEN <<m>> ELSE <<>>
         /\ Maps(OfText, <<m>>) = m.text
<1>1. m \in AnyMessages
  BY MessageLaws
<1>2. <<m>> \in Seq(OwnMessages)
  OBVIOUS
<1>3. /\ Maps(OfUser, <<m>>) = OfUser[m] /\ Maps(OfSystem, <<m>>) = OfSystem[m]
      /\ Maps(OfOthers, <<m>>) = OfOthers[m] /\ Maps(OfText, <<m>>) = OfText[m]
  BY <1>1, MessageLaws, Zenon DEF MapLaws
<1> QED  BY <1>1, <1>2, <1>3 DEF OfUser, OfSystem, OfOthers, OfText

Tools == {m \in OwnMessages : m.role = "tool"}

(* of the answers of tools,                                                *)
LEMMA ToolsSayNothing ==
  ASSUME NEW ms, ms \in Seq(Tools)
  PROVE  /\ ms \in Seq(OwnMessages)
         /\ Maps(OfUser, ms) = <<>> /\ Maps(OfSystem, ms) = <<>>
<1>1. Tools \subseteq OwnMessages /\ Tools \subseteq AnyMessages
  BY MessageLaws DEF Tools
<1>2. MapLaws(OfUser, Tools, Int) /\ MapLaws(OfSystem, Tools, AnyMessages)
  BY <1>1, LawsOfFewer, MessageLaws
<1>3. \A m \in Tools : OfUser[m] = <<>> /\ OfSystem[m] = <<>>
  BY <1>1 DEF OfUser, OfSystem, Tools
<1>4. Maps(OfUser, ms) = <<>> /\ Maps(OfSystem, ms) = <<>>
  BY <1>2, <1>3, MapsToNothing
<1>5. ms \in Seq(OwnMessages)
  BY <1>1
<1> QED  BY <1>4, <1>5

(* which Answers are,                                                      *)
LEMMA AnswersAreTools ==
  ASSUME NEW ids \in Seq(Int)
  PROVE  Talk!Answers(ids) \in Seq(Tools) /\ Len(Talk!Answers(ids)) = Len(ids)
<1>1. \A x \in Int : Talk!Answer(x) \in Tools
  BY DEF Talk!Answer, Talk!Message, Tools, OwnMessages, AnyMessages, Numbered
<1>2. Talk!Answers(ids) = [i \in DOMAIN ids |-> Talk!Answer(ids[i])]
  BY Zenon DEF Talk!Answers
<1> QED  BY <1>1, <1>2

(* of none,                                                                *)
LEMMA EmptyMessages ==
  /\ <<>> \in Seq(OwnMessages)
  /\ Maps(OfUser, <<>>) = <<>> /\ Maps(OfSystem, <<>>) = <<>> /\ Maps(OfOthers, <<>>) = <<>>
  /\ Maps(OfText, <<>>) = <<>>
BY MessageLaws DEF MapLaws

(* and of two lists.                                                       *)
LEMMA BothMessages ==
  ASSUME NEW a, NEW b, a \in Seq(OwnMessages), b \in Seq(OwnMessages)
  PROVE  /\ a \o b \in Seq(OwnMessages)
         /\ Maps(OfUser, a \o b) = Maps(OfUser, a) \o Maps(OfUser, b)
         /\ Maps(OfSystem, a \o b) = Maps(OfSystem, a) \o Maps(OfSystem, b)
         /\ Maps(OfOthers, a \o b) = Maps(OfOthers, a) \o Maps(OfOthers, b)
         /\ Maps(OfUser, a) \in Seq(Int) /\ Maps(OfUser, b) \in Seq(Int)
         /\ Maps(OfSystem, a) \in Seq(AnyMessages) /\ Maps(OfSystem, b) \in Seq(AnyMessages)
         /\ Maps(OfOthers, a) \in Seq(AnyMessages) /\ Maps(OfOthers, b) \in Seq(AnyMessages)
<1>1. a \in Seq(AnyMessages) /\ b \in Seq(AnyMessages)
  BY MessageLaws
<1>2. a \o b \in Seq(OwnMessages)
  OBVIOUS
<1> QED  BY <1>1, <1>2, MessageLaws, Zenon DEF MapLaws

(* The texts and calls of a turn in one message, and its results.          *)
LEMMA PartsOfTurn ==
  ASSUME NEW t, t \in OwnTurns, NEW text, text = Talk!Of("text", t.blocks),
         NEW calls, calls = Talk!Of("call", t.blocks), NEW results, results = Talk!Answers(Talk!Of("result", t.blocks)),
         NEW m, m = Talk!Message(t.role, text, calls, NoId)
  PROVE  /\ m \in OwnMessages /\ Maps(OfUser, <<m>>) = UserSays[t] /\ Maps(OfSystem, <<m>>) = <<>>
         /\ results \in Seq(OwnMessages) /\ Maps(OfUser, results) = <<>> /\ Maps(OfSystem, results) = <<>>
         /\ text \o calls = <<>> => UserSays[t] = <<>>
         /\ text \in Seq(Int) /\ calls \in Seq(Int)
<1>1. t \in AnyTurns /\ t.blocks \in Seq(AnyBlocks) /\ t.role \in {"user", "assistant"} /\ Numbered(calls)
  BY DEF OwnTurns, AnyTurns
<1>2. text \in Seq(Int) /\ calls \in Seq(Int) /\ Talk!Of("result", t.blocks) \in Seq(Int)
  BY <1>1, OfLaws
<1>3. t.role = "user" => calls = <<>>
  <2>1. ASSUME t.role = "user" PROVE \A i \in DOMAIN t.blocks : t.blocks[i].kind # "call"
    BY <2>1 DEF OwnTurns
  <2> QED  BY <1>1, <2>1, NoneOfKind
<1>4. m \in OwnMessages /\ m.role = t.role /\ m.text = text
  <2>1. m = [role |-> t.role, text |-> text, calls |-> calls, answers |-> NoId] /\ NoId \in Int
    BY DEF Talk!Message, NoId, Talk!NoId
  <2>2. m \in AnyMessages /\ m.calls = calls /\ m.role = t.role /\ m.text = text
    BY <1>1, <1>2, <2>1 DEF AnyMessages
  <2> QED  BY <1>1, <1>3, <2>2 DEF OwnMessages
<1>5. UserSays[t] = IF t.role = "user" THEN text ELSE <<>>
  BY <1>1 DEF UserSays
<1>6. Maps(OfUser, <<m>>) = UserSays[t] /\ Maps(OfSystem, <<m>>) = <<>>
  <2>1. /\ Maps(OfUser, <<m>>) = IF m.role = "user" THEN m.text ELSE <<>>
        /\ Maps(OfSystem, <<m>>) = IF m.role = "system" THEN <<m>> ELSE <<>>
    BY <1>4, OneMessage
  <2> QED  BY <1>1, <1>4, <1>5, <2>1
<1>7. results \in Seq(OwnMessages) /\ Maps(OfUser, results) = <<>> /\ Maps(OfSystem, results) = <<>>
  BY <1>2, AnswersAreTools, ToolsSayNothing
<1>8. text \o calls = <<>> => text = <<>>
  BY <1>2
<1> QED  BY <1>2, <1>4, <1>5, <1>6, <1>7, <1>8

(* So do OpenAI's messages of a turn ...                                   *)
LEMMA OpenAIMessagesCarry ==
  ASSUME NEW t, t \in OwnTurns PROVE Carry(Talk!OpenAIMessages(t), t)
<1>1. PICK text, calls, results, m : text = Talk!Of("text", t.blocks) /\ calls = Talk!Of("call", t.blocks)
        /\ results = Talk!Answers(Talk!Of("result", t.blocks)) /\ m = Talk!Message(t.role, text, calls, NoId)
  OBVIOUS
<1>2. /\ m \in OwnMessages /\ Maps(OfUser, <<m>>) = UserSays[t] /\ Maps(OfSystem, <<m>>) = <<>>
      /\ results \in Seq(OwnMessages) /\ Maps(OfUser, results) = <<>> /\ Maps(OfSystem, results) = <<>>
      /\ text \o calls = <<>> => UserSays[t] = <<>>
  BY <1>1, PartsOfTurn
<1>3. PICK last : last = IF text \o calls = <<>> THEN <<>> ELSE <<m>>
  OBVIOUS
<1>4. Talk!OpenAIMessages(t) = results \o last
  BY <1>1, <1>3, Zenon DEF Talk!OpenAIMessages, Talk!IfAny, NoId
<1>5. last \in Seq(OwnMessages) /\ Maps(OfUser, last) = UserSays[t] /\ Maps(OfSystem, last) = <<>>
  BY <1>2, <1>3, EmptyMessages
<1>6. /\ results \o last \in Seq(OwnMessages)
      /\ Maps(OfUser, results \o last) = <<>> \o UserSays[t]
      /\ Maps(OfSystem, results \o last) = <<>> \o <<>>
      /\ UserSays[t] \in Seq(Int)
  <2>1. /\ results \o last \in Seq(OwnMessages)
        /\ Maps(OfUser, results \o last) = Maps(OfUser, results) \o Maps(OfUser, last)
        /\ Maps(OfSystem, results \o last) = Maps(OfSystem, results) \o Maps(OfSystem, last)
        /\ Maps(OfUser, last) \in Seq(Int)
    BY <1>2, <1>5, BothMessages, Zenon
  <2> QED  BY <1>2, <1>5, <2>1, Zenon
<1>7. <<>> \o UserSays[t] = UserSays[t] /\ <<>> \o <<>> = <<>>
  BY <1>6, EmptyEnds
<1> QED  BY <1>4, <1>6, <1>7 DEF Carry

(* ... and the Anthropic ingress' (anthropic.go).                          *)
LEMMA AnthropicMessagesCarry ==
  ASSUME NEW t, t \in OwnTurns PROVE Carry(Talk!AnthropicMessages(t), t)
<1>1. PICK text, calls, results, m : text = Talk!Of("text", t.blocks) /\ calls = Talk!Of("call", t.blocks)
        /\ results = Talk!Answers(Talk!Of("result", t.blocks)) /\ m = Talk!Message(t.role, text, calls, NoId)
  OBVIOUS
<1>2. /\ m \in OwnMessages /\ Maps(OfUser, <<m>>) = UserSays[t] /\ Maps(OfSystem, <<m>>) = <<>>
      /\ results \in Seq(OwnMessages) /\ Maps(OfUser, results) = <<>> /\ Maps(OfSystem, results) = <<>>
      /\ text \o calls = <<>> => UserSays[t] = <<>>
      /\ text \in Seq(Int) /\ calls \in Seq(Int)
  BY <1>1, PartsOfTurn
<1>3. CASE text \o calls # <<>>
  <2>1. Talk!AnthropicMessages(t) = <<m>> \o results
    BY <1>1, <1>3, Zenon DEF Talk!AnthropicMessages, NoId
  <2>2. <<m>> \in Seq(OwnMessages)
    BY <1>2, OneMessage
  <2>3. /\ <<m>> \o results \in Seq(OwnMessages)
        /\ Maps(OfUser, <<m>> \o results) = UserSays[t] \o <<>>
        /\ Maps(OfSystem, <<m>> \o results) = <<>> \o <<>>
        /\ UserSays[t] \in Seq(Int)
    <3>1. /\ <<m>> \o results \in Seq(OwnMessages)
          /\ Maps(OfUser, <<m>> \o results) = Maps(OfUser, <<m>>) \o Maps(OfUser, results)
          /\ Maps(OfSystem, <<m>> \o results) = Maps(OfSystem, <<m>>) \o Maps(OfSystem, results)
          /\ Maps(OfUser, <<m>>) \in Seq(Int)
      BY <1>2, <2>2, BothMessages, Zenon
    <3> QED  BY <1>2, <3>1, Zenon
  <2>4. UserSays[t] \o <<>> = UserSays[t] /\ <<>> \o <<>> = <<>>
    BY <2>3, EmptyEnds
  <2> QED  BY <2>1, <2>3, <2>4 DEF Carry
<1>4. CASE text \o calls = <<>> /\ results # <<>>
  <2>1. Talk!AnthropicMessages(t) = results
    BY <1>1, <1>4, Zenon DEF Talk!AnthropicMessages
  <2> QED  BY <1>2, <1>4, <2>1 DEF Carry
<1>5. CASE text \o calls = <<>> /\ results = <<>>
  <2>1. Talk!AnthropicMessages(t) = <<Talk!Text(t.role, <<>>)>>
    BY <1>1, <1>5, Zenon DEF Talk!AnthropicMessages
  <2>2. text = <<>> /\ calls = <<>>
    BY <1>2, <1>5
  <2>3. Talk!Text(t.role, <<>>) = m
    BY <1>1, <2>2, Zenon DEF Talk!Text, NoId
  <2>4. <<m>> \in Seq(OwnMessages)
    BY <1>2, OneMessage
  <2> QED  BY <1>2, <2>1, <2>3, <2>4 DEF Carry
<1> QED  BY <1>3, <1>4, <1>5

(* Blocks of one role, and the message an item of it becomes.              *)
BlocksOf(role) == {b \in AnyBlocks : b.kind # "output" /\ (role = "user" => b.kind # "call")}
ItemOf(role) == [b \in BlocksOf(role) |-> Talk!NormalizedItem(role, b)]

(* An item becomes a message that says the same.                           *)
LEMMA ItemIsMessage ==
  ASSUME NEW role \in {"user", "assistant"}, NEW b \in BlocksOf(role)
  PROVE  /\ ItemOf(role)[b] \in OwnMessages
         /\ OfUser[ItemOf(role)[b]] = IF role = "user" THEN OfKind("text")[b] ELSE <<>>
         /\ OfSystem[ItemOf(role)[b]] = <<>>
<1>1. b \in AnyBlocks /\ b.kind \in {"text", "call", "result"} /\ b.of \in Int
  BY DEF BlocksOf, AnyBlocks
<1>2. ItemOf(role)[b] = Talk!NormalizedItem(role, b)
  BY DEF ItemOf
<1>3. NoId \in Int
  BY DEF NoId, Talk!NoId
<1>4. CASE b.kind = "text"
  <2>1. ItemOf(role)[b] = [role |-> role, text |-> <<b.of>>, calls |-> <<>>, answers |-> NoId]
    BY <1>2, <1>4 DEF Talk!NormalizedItem, Talk!Text, Talk!Message, NoId
  <2>2. ItemOf(role)[b] \in OwnMessages
    BY <1>1, <1>3, <2>1 DEF OwnMessages, AnyMessages, Numbered
  <2>3. OfKind("text")[b] = <<b.of>>
    BY <1>1, <1>4 DEF OfKind
  <2> QED  BY <2>1, <2>2, <2>3, MessageLaws DEF OfUser, OfSystem
<1>5. CASE b.kind = "call"
  <2>1. ItemOf(role)[b] = [role |-> "assistant", text |-> <<>>, calls |-> <<b.of>>, answers |-> NoId]
    BY <1>2, <1>5 DEF Talk!NormalizedItem, Talk!Message, NoId
  <2>2. ItemOf(role)[b] \in AnyMessages
    BY <1>1, <1>3, <2>1 DEF AnyMessages
  <2>3. Numbered(<<b.of>>)
    BY DEF Numbered
  <2>4. ItemOf(role)[b] \in OwnMessages
    BY <2>1, <2>2, <2>3 DEF OwnMessages
  <2>5. role # "user"
    BY <1>5 DEF BlocksOf
  <2> QED  BY <2>1, <2>2, <2>4, <2>5 DEF OfUser, OfSystem
<1>6. CASE b.kind = "result"
  <2>1. ItemOf(role)[b] = [role |-> "tool", text |-> <<>>, calls |-> <<>>, answers |-> b.of]
    BY <1>2, <1>6 DEF Talk!NormalizedItem, Talk!Answer, Talk!Message
  <2>2. ItemOf(role)[b] \in OwnMessages
    BY <1>1, <2>1 DEF OwnMessages, AnyMessages, Numbered
  <2>3. OfKind("text")[b] = <<>>
    BY <1>1, <1>6 DEF OfKind
  <2> QED  BY <2>1, <2>2, <2>3, MessageLaws DEF OfUser, OfSystem
<1> QED  BY <1>1, <1>4, <1>5, <1>6

(* The blocks of a turn are those of its role.                             *)
LEMMA BlocksOfTurn ==
  ASSUME NEW t, t \in OwnTurns
  PROVE  /\ t \in AnyTurns /\ t.role \in {"user", "assistant"} /\ t.blocks \in Seq(AnyBlocks)
         /\ t.blocks \in Seq(BlocksOf(t.role)) /\ Talk!Of("text", t.blocks) \in Seq(Int)
<1>1. t \in AnyTurns /\ t.role \in {"user", "assistant"} /\ t.blocks \in Seq(AnyBlocks)
  BY DEF OwnTurns, AnyTurns
<1>2. \A i \in DOMAIN t.blocks : t.blocks[i] \in BlocksOf(t.role)
  BY <1>1 DEF OwnTurns, BlocksOf
<1>3. t.blocks \in Seq(BlocksOf(t.role))
  BY <1>1, <1>2
<1> QED  BY <1>1, <1>3, OfLaws

(* The items of a turn keep what it says (helpers.go).                     *)
LEMMA NormalizedItemsCarry ==
  ASSUME NEW t, t \in OwnTurns PROVE Carry(Talk!NormalizedItems(t), t)
<1>1. PICK role, bs : role = t.role /\ bs = t.blocks
  OBVIOUS
<1>2. t \in AnyTurns /\ role \in {"user", "assistant"} /\ bs \in Seq(AnyBlocks) /\ bs \in Seq(BlocksOf(role))
  BY <1>1, BlocksOfTurn
<1>3. PICK f, E : f = ItemOf(role) /\ E = BlocksOf(role)
  OBVIOUS
<1>4. f \in [E -> OwnMessages]
  BY <1>2, <1>3, ItemIsMessage DEF ItemOf
<1>5. Talk!NormalizedItems(t) = Images(f, bs)
  <2>1. \A i \in DOMAIN bs : f[bs[i]] = Talk!NormalizedItem(role, bs[i])
    BY <1>2, <1>3 DEF ItemOf
  <2> QED  BY <1>1, <2>1 DEF Talk!NormalizedItems, Images
<1>6. Images(f, bs) \in Seq(OwnMessages)
  BY <1>2, <1>3, <1>4, ImagesAreLists
<1>7. Maps(OfUser, Images(f, bs)) = UserSays[t]
  <2>0. E \subseteq AnyBlocks
    BY <1>3 DEF BlocksOf
  <2> DEFINE h == [b \in E |-> IF role = "user" THEN OfKind("text")[b] ELSE <<>>]
  <2>1. Images(OfUser, Images(f, bs)) = Images(h, bs)
    BY <1>2, <1>3, ItemIsMessage DEF Images
  <2>2. Maps(OfUser, Images(f, bs)) = Maps(h, bs)
    BY <2>1 DEF Maps
  <2>3. CASE role = "user"
    <3>1. Maps(h, bs) = Maps(OfKind("text"), bs)
      BY <1>2, <1>3, <2>3, MapsAgree
    <3>2. UserSays[t] = Talk!Of("text", bs)
      BY <1>1, <1>2, <2>3 DEF UserSays
    <3> QED  BY <1>2, <2>2, <3>1, <3>2, OfIsMaps
  <2>4. CASE role # "user"
    <3>1. h \in [E -> Seq(Int)] /\ \A b \in E : h[b] = <<>>
      BY <2>4
    <3> HIDE DEF h
    <3>2. Maps(h, bs) = <<>>
      BY <1>2, <1>3, <3>1, MapsHasItsLaws, MapsToNothing
    <3>3. UserSays[t] = <<>>
      BY <1>1, <1>2, <2>4 DEF UserSays
    <3> QED  BY <2>2, <3>2, <3>3
  <2> QED  BY <2>3, <2>4
<1>8. Maps(OfSystem, Images(f, bs)) = <<>>
  <2> DEFINE h == [b \in E |-> <<>>]
  <2>1. Images(OfSystem, Images(f, bs)) = Images(h, bs)
    BY <1>2, <1>3, ItemIsMessage DEF Images
  <2>2. h \in [E -> Seq(Int)] /\ \A b \in E : h[b] = <<>>
    OBVIOUS
  <2> HIDE DEF h
  <2>3. Maps(h, bs) = <<>>
    BY <1>2, <1>3, <2>2, MapsHasItsLaws, MapsToNothing
  <2> QED  BY <2>1, <2>3 DEF Maps
<1> QED  BY <1>5, <1>6, <1>7, <1>8 DEF Carry

(* The turn Gemini's ingress makes messages of: the same without ids.      *)
WithoutId == [b \in AnyBlocks |-> IF b.kind = "text" THEN b ELSE Talk!Block(b.kind, NoId)]

(* So do the messages of the Gemini ingress (gemini.go).                   *)
LEMMA GeminiMessagesCarry ==
  ASSUME NEW t, t \in OwnTurns PROVE Carry(Talk!GeminiMessages(t), t)
<1>1. PICK bs, u : bs = t.blocks /\ u = [role |-> t.role, blocks |-> Images(WithoutId, bs)]
  OBVIOUS
<1>2. t \in AnyTurns /\ t.role \in {"user", "assistant"} /\ bs \in Seq(AnyBlocks) /\ bs \in Seq(BlocksOf(t.role))
  BY <1>1, BlocksOfTurn
<1>3. Talk!GeminiMessages(t) = Talk!AnthropicMessages(u)
  <2>1. \A i \in DOMAIN bs : WithoutId[bs[i]] = IF bs[i].kind = "text" THEN bs[i] ELSE Talk!Block(bs[i].kind, NoId)
    BY <1>2 DEF WithoutId
  <2>2. Images(WithoutId, bs) = [i \in DOMAIN bs |-> IF bs[i].kind = "text" THEN bs[i] ELSE Talk!Block(bs[i].kind, NoId)]
    BY <2>1 DEF Images
  <2> QED  BY <1>1, <2>2, Zenon DEF Talk!GeminiMessages, Talk!Turn, NoId
<1>4. /\ WithoutId \in [AnyBlocks -> AnyBlocks]
      /\ \A b \in AnyBlocks : /\ WithoutId[b].kind = b.kind
                              /\ b.kind = "text" => WithoutId[b] = b
                              /\ b.kind # "text" => WithoutId[b].of = NoId
  BY DEF WithoutId, AnyBlocks, Talk!Block, NoId, Talk!NoId
<1>5. Images(WithoutId, bs) \in Seq(AnyBlocks)
  BY <1>2, <1>4, ImagesAreLists
<1>6. Talk!Of("text", Images(WithoutId, bs)) = Talk!Of("text", bs)
  <2>1. \A b \in AnyBlocks : OfKind("text")[WithoutId[b]] = OfKind("text")[b]
    BY <1>4 DEF OfKind
  <2>2. Images(OfKind("text"), Images(WithoutId, bs)) = Images(OfKind("text"), bs)
    BY <1>2, <2>1 DEF Images
  <2> QED  BY <1>2, <1>5, <2>2, OfIsMaps DEF Maps
<1>7. Numbered(Talk!Of("call", Images(WithoutId, bs)))
  <2> DEFINE h == [b \in AnyBlocks |-> IF b.kind = "call" THEN <<NoId>> ELSE <<>>]
  <2>1. \A b \in AnyBlocks : OfKind("call")[WithoutId[b]] = h[b]
    BY <1>4 DEF OfKind
  <2>2. h \in [AnyBlocks -> Seq({NoId})]
    <3>1. <<NoId>> \in Seq({NoId}) /\ <<>> \in Seq({NoId})
      OBVIOUS
    <3> QED  BY <3>1
  <2> HIDE DEF h
  <2>3. Images(OfKind("call"), Images(WithoutId, bs)) = Images(h, bs)
    BY <1>2, <2>1 DEF Images
  <2>4. Talk!Of("call", Images(WithoutId, bs)) = Maps(h, bs)
    BY <1>5, <2>3, OfIsMaps DEF Maps
  <2>5. Maps(h, bs) \in Seq({NoId})
    BY <1>2, <2>2, MapsHasItsLaws DEF MapLaws
  <2> QED  BY <2>4, <2>5 DEF Numbered
<1>8. u \in OwnTurns
  <2>1. u.role = t.role /\ u.blocks = Images(WithoutId, bs) /\ u \in AnyTurns
    BY <1>1, <1>2, <1>5 DEF AnyTurns
  <2>2. \A i \in DOMAIN u.blocks : u.blocks[i].kind # "output" /\ (u.role = "user" => u.blocks[i].kind # "call")
    BY <1>2, <1>4, <2>1 DEF Images, BlocksOf
  <2> QED  BY <1>7, <2>1, <2>2 DEF OwnTurns
<1>9. UserSays[u] = UserSays[t]
  <2>1. u \in AnyTurns /\ u.role = t.role /\ u.blocks = Images(WithoutId, bs)
    BY <1>1, <1>8, TurnLaws
  <2> QED  BY <1>1, <1>2, <1>6, <2>1 DEF UserSays
<1> QED  BY <1>3, <1>8, <1>9, AnthropicMessagesCarry DEF Carry

(* The bridge's messages of a turn.                                        *)
LEMMA BridgedMessagesCarry ==
  ASSUME NEW t, t \in OwnTurns
  PROVE  Carry([i \in DOMAIN Talk!Of("text", t.blocks) |-> Talk!Text(t.role, <<Talk!Of("text", t.blocks)[i]>>)], t)
<1>1. PICK role, ofs, N : role = t.role /\ ofs = Talk!Of("text", t.blocks) /\ N = Int
  OBVIOUS
<1>2. t \in AnyTurns /\ role \in {"user", "assistant"} /\ ofs \in Seq(N)
  BY <1>1, BlocksOfTurn
<1>3. PICK f : f = [x \in N |-> Talk!Text(role, <<x>>)]
  OBVIOUS
<1>4. ASSUME NEW x \in N
      PROVE  /\ f[x] \in OwnMessages
             /\ OfUser[f[x]] = (IF role = "user" THEN <<x>> ELSE <<>>) /\ OfSystem[f[x]] = <<>>
  <2>1. PICK m : m = f[x]
    OBVIOUS
  <2>2. m = [role |-> role, text |-> <<x>>, calls |-> <<>>, answers |-> NoId] /\ NoId \in Int /\ x \in Int
    BY <1>1, <1>3, <2>1 DEF Talk!Text, Talk!Message, NoId, Talk!NoId
  <2>3. m \in AnyMessages /\ m.role = role /\ m.calls = <<>> /\ m.text = <<x>>
    BY <1>2, <2>2 DEF AnyMessages
  <2>4. m \in OwnMessages
    BY <1>2, <2>3 DEF OwnMessages, Numbered
  <2> QED  BY <1>2, <2>1, <2>3, <2>4 DEF OfUser, OfSystem
<1>5. [i \in DOMAIN ofs |-> Talk!Text(role, <<ofs[i]>>)] = Images(f, ofs)
  BY <1>2, <1>3 DEF Images
<1>6. f \in [N -> OwnMessages]
  BY <1>3, <1>4
<1>8. Images(f, ofs) \in Seq(OwnMessages)
  BY <1>2, <1>6, ImagesAreLists
<1>9. Maps(OfUser, Images(f, ofs)) = UserSays[t]
  <2>1. PICK h : h = [x \in N |-> IF role = "user" THEN <<x>> ELSE <<>>]
    OBVIOUS
  <2>2. h \in [N -> Seq(N)] /\ \A x \in N : h[x] = IF role = "user" THEN <<x>> ELSE <<>>
    BY <2>1
  <2>3. Maps(OfUser, Images(f, ofs)) = Maps(h, ofs)
    <3>1. \A x \in N : OfUser[f[x]] = h[x]
      BY <1>4, <2>2
    <3> QED  BY <1>2, <3>1, MapsOfImages, SMTT(30)
  <2>4. CASE role = "user"
    <3>1. Maps(h, ofs) = ofs
      BY <1>2, <2>2, <2>4, MapsToItself
    <3> QED  BY <1>1, <1>2, <2>3, <2>4, <3>1 DEF UserSays
  <2>5. CASE role # "user"
    <3>1. MapLaws(h, N, N)
      BY <2>2, MapsHasItsLaws
    <3>2. Maps(h, ofs) = <<>>
      BY <1>2, <2>2, <2>5, <3>1, MapsToNothing
    <3> QED  BY <1>1, <1>2, <2>3, <2>5, <3>2 DEF UserSays
  <2> QED  BY <2>4, <2>5
<1>10. Maps(OfSystem, Images(f, ofs)) = <<>>
  <2>1. PICK h : h = [x \in N |-> <<>>]
    OBVIOUS
  <2>2. h \in [N -> Seq(N)] /\ \A x \in N : h[x] = <<>>
    BY <2>1
  <2>3. Maps(OfSystem, Images(f, ofs)) = Maps(h, ofs)
    <3>1. \A x \in N : OfSystem[f[x]] = h[x]
      BY <1>4, <2>2
    <3> QED  BY <1>2, <3>1, MapsOfImages, SMTT(30)
  <2>4. MapLaws(h, N, N)
    BY <2>2, MapsHasItsLaws
  <2>5. Maps(h, ofs) = <<>>
    BY <1>2, <2>2, <2>4, MapsToNothing
  <2> QED  BY <2>3, <2>5
<1> QED  BY <1>1, <1>5, <1>8, <1>9, <1>10 DEF Carry

----------------------------------------------------------------------------
(* What a request says.                                                    *)

(* What the system messages of a request say.                              *)
Tell(sys, ins) ==
  /\ sys \in Seq(OwnMessages)
  /\ Maps(OfUser, sys) = <<>> /\ Maps(OfSystem, sys) = sys /\ Maps(OfText, sys) = ins
  /\ sys # <<>> => \/ Talk!Last(sys).text = ins
                   \/ Len(ins) > 1 /\ Talk!Last(sys).text = <<Talk!Last(ins)>>

(* One system message of all the instructions tells them ...               *)
LEMMA OneSystemTells ==
  ASSUME NEW ins, ins \in Seq(Int)
  PROVE  Tell(Talk!IfAny(ins, <<Talk!Text("system", ins)>>), ins)
<1>1. CASE ins = <<>>
  <2>1. Talk!IfAny(ins, <<Talk!Text("system", ins)>>) = <<>>
    BY <1>1, Zenon DEF Talk!IfAny
  <2> QED  BY <1>1, <2>1, EmptyMessages, Zenon DEF Tell
<1>2. CASE ins # <<>>
  <2>1. PICK m : m = Talk!Text("system", ins)
    OBVIOUS
  <2>2. m = [role |-> "system", text |-> ins, calls |-> <<>>, answers |-> NoId] /\ NoId \in Int
    BY <2>1 DEF Talk!Text, Talk!Message, NoId, Talk!NoId
  <2>3. m \in AnyMessages /\ m.role = "system" /\ m.calls = <<>> /\ m.text = ins
    BY <2>2 DEF AnyMessages
  <2>4. m \in OwnMessages
    BY <2>3 DEF OwnMessages, Numbered
  <2>5. Talk!IfAny(ins, <<Talk!Text("system", ins)>>) = <<m>>
    BY <1>2, <2>1, Zenon DEF Talk!IfAny
  <2>6. Talk!Last(<<m>>).text = ins
    BY <2>3 DEF Talk!Last
  <2>7. /\ <<m>> \in Seq(OwnMessages) /\ Maps(OfUser, <<m>>) = <<>> /\ Maps(OfSystem, <<m>>) = <<m>>
        /\ Maps(OfText, <<m>>) = ins
    BY <2>3, <2>4, OneMessage
  <2> QED  BY <2>5, <2>6, <2>7, Zenon DEF Tell
<1> QED  BY <1>1, <1>2

(* ... and so does one for each.                                           *)
LEMMA OwnSystemsTell ==
  ASSUME NEW N, N \subseteq Int, NEW ins, ins \in Seq(N)
  PROVE  Tell([i \in DOMAIN ins |-> Talk!Text("system", <<ins[i]>>)], ins)
<1>1. N \subseteq Int
  OBVIOUS
<1>2. ins \in Seq(N)
  OBVIOUS
<1>3. PICK f : f = [x \in N |-> Talk!Text("system", <<x>>)]
  OBVIOUS
<1>4. ASSUME NEW x \in N
      PROVE  /\ f[x] \in OwnMessages /\ f[x].text = <<x>>
             /\ OfUser[f[x]] = <<>> /\ OfSystem[f[x]] = <<f[x]>> /\ OfText[f[x]] = <<x>>
  <2>1. PICK m : m = f[x]
    OBVIOUS
  <2>2. m = [role |-> "system", text |-> <<x>>, calls |-> <<>>, answers |-> NoId] /\ NoId \in Int /\ x \in Int
    BY <1>1, <1>3, <2>1 DEF Talk!Text, Talk!Message, NoId, Talk!NoId
  <2>3. m \in AnyMessages /\ m.role = "system" /\ m.calls = <<>> /\ m.text = <<x>>
    BY <2>2 DEF AnyMessages
  <2>4. m \in OwnMessages
    BY <2>3 DEF OwnMessages, Numbered
  <2> QED  BY <2>1, <2>3, <2>4 DEF OfUser, OfSystem, OfText
<1>5. PICK sys : sys = Images(f, ins)
  OBVIOUS
<1>6. [i \in DOMAIN ins |-> Talk!Text("system", <<ins[i]>>)] = sys
  BY <1>2, <1>3, <1>5 DEF Images
<1>7. f \in [N -> OwnMessages] /\ f \in [N -> AnyMessages]
  BY <1>3, <1>4, MessageLaws
<1>8. sys \in Seq(OwnMessages)
  BY <1>2, <1>5, <1>7, ImagesAreLists
<1>9. Maps(OfUser, sys) = <<>>
  <2>1. PICK h : h = [x \in N |-> <<>>]
    OBVIOUS
  <2>2. h \in [N -> Seq(N)] /\ \A x \in N : h[x] = <<>>
    BY <2>1
  <2>3. Maps(OfUser, sys) = Maps(h, ins)
    <3>1. \A x \in N : OfUser[f[x]] = h[x]
      BY <1>4, <2>2
    <3>2. Maps(OfUser, Images(f, ins)) = Maps(h, ins)
      BY ONLY <1>2, <3>1, MapsOfImages
    <3> QED  BY <1>5, <3>2
  <2>4. MapLaws(h, N, N)
    BY <2>2, MapsHasItsLaws
  <2>5. Maps(h, ins) = <<>>
    BY <1>2, <2>2, <2>4, MapsToNothing
  <2> QED  BY <2>3, <2>5
<1>10. Maps(OfSystem, sys) = sys
  <2>1. PICK h : h = [x \in N |-> <<f[x]>>]
    OBVIOUS
  <2>2. h \in [N -> Seq(AnyMessages)] /\ \A x \in N : h[x] = <<f[x]>>
    BY <1>7, <2>1
  <2>3. Maps(OfSystem, sys) = Maps(h, ins)
    <3>1. \A x \in N : OfSystem[f[x]] = h[x]
      BY <1>4, <2>2
    <3>2. Maps(OfSystem, Images(f, ins)) = Maps(h, ins)
      BY ONLY <1>2, <3>1, MapsOfImages
    <3> QED  BY <1>5, <3>2
  <2>4. MapLaws(h, N, AnyMessages)
    BY <2>2, MapsHasItsLaws
  <2>5. Maps(h, ins) = Images(f, ins)
    BY <1>2, <1>7, <2>2, <2>4, MapsToOnes, SMTT(30)
  <2> QED  BY <1>5, <2>3, <2>5
<1>11. Maps(OfText, sys) = ins
  <2>1. PICK h : h = [x \in N |-> <<x>>]
    OBVIOUS
  <2>2. h \in [N -> Seq(N)] /\ \A x \in N : h[x] = <<x>>
    BY <2>1
  <2>3. Maps(OfText, sys) = Maps(h, ins)
    <3>1. \A x \in N : OfText[f[x]] = h[x]
      BY <1>4, <2>2
    <3>2. Maps(OfText, Images(f, ins)) = Maps(h, ins)
      BY ONLY <1>2, <3>1, MapsOfImages
    <3> QED  BY <1>5, <3>2
  <2>4. Maps(h, ins) = ins
    BY <1>2, <2>2, MapsToItself
  <2> QED  BY <2>3, <2>4
<1>12. ASSUME sys # <<>>
       PROVE  \/ Talk!Last(sys).text = ins
              \/ Len(ins) > 1 /\ Talk!Last(sys).text = <<Talk!Last(ins)>>
  <2>1. PICK n : n = Len(ins)
    OBVIOUS
  <2>2. n \in Nat /\ DOMAIN ins = 1..n /\ Len(sys) = n /\ n # 0
    <3>1. n \in Nat /\ DOMAIN ins = 1..n
      BY <1>2, <2>1
    <3>2. DOMAIN sys = 1..n
      BY <1>5, <3>1 DEF Images
    <3>3. Len(sys) = n
      BY <1>8, <3>1, <3>2, LenProperties
    <3>4. n # 0
      BY <1>8, <1>12, <3>3, EmptySeq
    <3> QED  BY <3>1, <3>3, <3>4
  <2>3. n \in DOMAIN ins /\ ins[n] \in N
    BY <1>2, <2>1, <2>2
  <2>4. Talk!Last(sys) = f[ins[n]] /\ Talk!Last(ins) = ins[n]
    BY <1>5, <2>1, <2>2, <2>3 DEF Talk!Last, Images
  <2>5. Talk!Last(sys).text = <<Talk!Last(ins)>>
    BY <1>4, <2>3, <2>4
  <2>6. n = 1 => ins = <<ins[1]>>
    <3>1. ASSUME n = 1 PROVE ins = <<ins[1]>>
      <4>1. PICK x : x = ins[1]
        OBVIOUS
      <4>2. <<x>> \in Seq(N) /\ Len(<<x>>) = 1 /\ <<x>>[1] = x
        BY <2>3, <3>1, <4>1
      <4>3. Len(ins) = 1 /\ \A i \in 1..1 : ins[i] = <<x>>[i]
        BY <2>1, <3>1, <4>1, <4>2
      <4> QED  BY <1>2, <4>1, <4>2, <4>3, SeqEqual
    <3> QED  BY <3>1
  <2> QED  BY <2>1, <2>2, <2>4, <2>5, <2>6
<1> QED  BY <1>6, <1>8, <1>9, <1>10, <1>11, <1>12 DEF Tell

(* What the messages of turns keep of them.                                *)
LEMMA AllCarry ==
  ASSUME NEW turns, turns \in Seq(OwnTurns), NEW W, W \in [OwnTurns -> Seq(AnyMessages)],
         \A t \in OwnTurns : Carry(W[t], t)
  PROVE  /\ Maps(W, turns) \in Seq(OwnMessages)
         /\ Maps(OfUser, Maps(W, turns)) = Maps(UserSays, turns)
         /\ Maps(OfSystem, Maps(W, turns)) = <<>>
<1>1. W \in [OwnTurns -> Seq(OwnMessages)]
  BY DEF Carry
<1>2. /\ MapLaws(W, OwnTurns, OwnMessages) /\ MapLaws(OfUser, OwnMessages, Int)
      /\ MapLaws(OfSystem, OwnMessages, AnyMessages) /\ MapLaws(UserSays, OwnTurns, Int)
  BY <1>1, MapsHasItsLaws, LawsOfFewer, MessageLaws, TurnLaws
<1>3. Maps(W, turns) \in Seq(OwnMessages)
  BY <1>2 DEF MapLaws
<1>4. Maps(OfUser, Maps(W, turns)) = Maps(UserSays, turns)
  <2>1. \A t \in OwnTurns : W[t] \in Seq(OwnMessages) /\ Maps(OfUser, W[t]) = UserSays[t]
    BY DEF Carry
  <2> QED  BY <1>2, <2>1, MapsOfMaps
<1>5. Maps(OfSystem, Maps(W, turns)) = <<>>
  <2>1. PICK h : h = [t \in OwnTurns |-> <<>>]
    OBVIOUS
  <2>2. h \in [OwnTurns -> Seq(AnyMessages)] /\ \A t \in OwnTurns : h[t] = <<>>
    BY <2>1
  <2>3. MapLaws(h, OwnTurns, AnyMessages)
    BY <2>2, MapsHasItsLaws
  <2>4. \A t \in OwnTurns : W[t] \in Seq(OwnMessages) /\ Maps(OfSystem, W[t]) = h[t]
    BY <2>2 DEF Carry
  <2>5. Maps(OfSystem, Maps(W, turns)) = Maps(h, turns)
    BY <1>2, <2>3, <2>4, MapsOfMaps
  <2>6. Maps(h, turns) = <<>>
    BY <2>2, <2>3, MapsToNothing
  <2> QED  BY <2>5, <2>6
<1> QED  BY <1>3, <1>4, <1>5

(* TextsBy is a loop over turns.                                           *)
LEMMA TextsByIsMaps ==
  ASSUME NEW turns, turns \in Seq(AnyTurns)
  PROVE  Talk!TextsBy("user", turns) = Maps(UserSays, turns)
<1>1. PICK v : v = [i \in DOMAIN turns |-> IF turns[i].role = "user" THEN Talk!Of("text", turns[i].blocks) ELSE <<>>]
  OBVIOUS
<1>2. Images(UserSays, turns) = v
  <2>1. \A i \in DOMAIN turns :
          UserSays[turns[i]] = IF turns[i].role = "user" THEN Talk!Of("text", turns[i].blocks) ELSE <<>>
    BY DEF UserSays
  <2> QED  BY <1>1, <2>1 DEF Images
<1>3. Talk!TextsBy("user", turns) = Talk!FlattenSeq(v)
  BY <1>1, Zenon DEF Talk!TextsBy, Talk!FlatMap
<1> QED  BY <1>2, <1>3 DEF Maps

(* Systems and Spoken are loops over messages.                             *)
LEMMA SystemsIsMaps ==
  ASSUME NEW ms, ms \in Seq(AnyMessages)
  PROVE  /\ Talk!Systems(ms) = Maps(OfSystem, ms)
         /\ Talk!Spoken(ms) = Maps(OfOthers, ms)
<1>1. Talk!Systems(ms) = Maps(OfSystem, ms)
  <2>1. PICK v : v = [i \in DOMAIN ms |-> IF ms[i].role = "system" THEN <<ms[i]>> ELSE <<>>]
    OBVIOUS
  <2>2. \A i \in DOMAIN ms : OfSystem[ms[i]] = IF ms[i].role = "system" THEN <<ms[i]>> ELSE <<>>
    BY DEF OfSystem
  <2>3. Images(OfSystem, ms) = v
    BY <2>1, <2>2 DEF Images
  <2>4. Talk!Systems(ms) = Talk!FlattenSeq(v)
    BY <2>1, Zenon DEF Talk!Systems, Talk!FlatMap
  <2> QED  BY <2>3, <2>4 DEF Maps
<1>2. Talk!Spoken(ms) = Maps(OfOthers, ms)
  <2>1. PICK v : v = [i \in DOMAIN ms |-> IF ms[i].role # "system" THEN <<ms[i]>> ELSE <<>>]
    OBVIOUS
  <2>2. \A i \in DOMAIN ms : OfOthers[ms[i]] = IF ms[i].role # "system" THEN <<ms[i]>> ELSE <<>>
    BY DEF OfOthers
  <2>3. Images(OfOthers, ms) = v
    BY <2>1, <2>2 DEF Images
  <2>4. Talk!Spoken(ms) = Talk!FlattenSeq(v)
    BY <2>1, Zenon DEF Talk!Spoken, Talk!FlatMap
  <2> QED  BY <2>3, <2>4 DEF Maps
<1> QED  BY <1>1, <1>2

(* The messages of the history, as a wire makes them.                      *)
LEMMA AllOfCarry ==
  ASSUME NEW turns, turns \in Seq(OwnTurns), NEW W, W = [t \in OwnTurns |-> W[t]],
         \A t \in OwnTurns : Carry(W[t], t)
  PROVE  /\ Maps(W, turns) \in Seq(OwnMessages)
         /\ Maps(OfUser, Maps(W, turns)) = Talk!TextsBy("user", turns)
         /\ Maps(OfSystem, Maps(W, turns)) = <<>>
<1>1. W \in [OwnTurns -> Seq(AnyMessages)]
  <2>1. \A t \in OwnTurns : W[t] \in Seq(AnyMessages)
    BY MessageLaws DEF Carry
  <2> QED  BY <2>1
<1>2. /\ Maps(W, turns) \in Seq(OwnMessages)
      /\ Maps(OfUser, Maps(W, turns)) = Maps(UserSays, turns)
      /\ Maps(OfSystem, Maps(W, turns)) = <<>>
  BY <1>1, AllCarry
<1>3. Maps(UserSays, turns) = Talk!TextsBy("user", turns)
  BY TextsByIsMaps, TurnLaws
<1> QED  BY <1>2, <1>3

(* What is known of a conversation.                                        *)
TalkTyped ==
  /\ wire \in AllWires /\ provider \in AllProviders
  /\ instructions \in Seq(Nat) /\ history \in Seq(OwnTurns)
  /\ said \in Nat /\ issued \in Nat

(* Those of one question hold it and an answer at most, and no system text. *)
ShortOnes ==
  Talk!OneShot =>
    /\ instructions = <<>> /\ Len(history) <= 2
    /\ Len(history) = 2 => history[2].role = "assistant"

Bearing(ms) ==
  \E sys, rest : /\ ms = sys \o rest /\ Tell(sys, instructions) /\ rest \in Seq(OwnMessages)
                 /\ Maps(OfUser, rest) = Talk!TextsBy("user", history) /\ Maps(OfSystem, rest) = <<>>

(* The speaker is that of the last turn.                                   *)
LEMMA SpeakerIsLast ==
  ASSUME TalkTyped, Talk!Speaker = "user"
  PROVE  /\ history # <<>> /\ Talk!Last(history) \in OwnTurns /\ Talk!Last(history).role = "user"
         /\ Len(history) \in DOMAIN history /\ Talk!Last(history) = history[Len(history)]
<1>1. history \in Seq(OwnTurns)
  BY DEF TalkTyped
<1>2. history # <<>> /\ Talk!Last(history).role = "user"
  BY Zenon DEF Talk!Speaker
<1>3. Len(history) \in Nat /\ Len(history) # 0 /\ DOMAIN history = 1..Len(history)
  BY <1>1, <1>2, EmptySeq
<1>4. Len(history) \in DOMAIN history
  BY <1>3
<1>5. Talk!Last(history) = history[Len(history)]
  BY Zenon DEF Talk!Last
<1> QED  BY <1>1, <1>2, <1>4, <1>5

(* One text is asked of the provider.                                      *)
LEMMA PromptBears ==
  ASSUME TalkTyped, ShortOnes, Talk!OneShot, Talk!Speaker = "user"
  PROVE  Bearing(<<Talk!Text("user", Talk!Of("text", Talk!Last(history).blocks))>>)
<1>1. PICK t : t = Talk!Last(history)
  OBVIOUS
<1>2. t \in OwnTurns /\ t.role = "user" /\ Len(history) \in DOMAIN history /\ t = history[Len(history)] /\ history # <<>>
  BY <1>1, SpeakerIsLast
<1>3. history = <<t>>
  <2>1. history \in Seq(OwnTurns)
    BY DEF TalkTyped
  <2>2. Len(history) # 2
    BY <1>2 DEF ShortOnes
  <2>3. Len(history) = 1
    <3>1. PICK n : n = Len(history)
      OBVIOUS
    <3>2. n \in Nat /\ n \in 1..n
      BY <1>2, <2>1, <3>1
    <3>3. n <= 2
      BY <3>1, Zenon DEF ShortOnes
    <3> QED  BY <2>2, <3>1, <3>2, <3>3
  <2>4. <<t>> \in Seq(OwnTurns) /\ Len(<<t>>) = 1 /\ <<t>>[1] = t
    BY <1>2
  <2>5. \A i \in 1..1 : history[i] = <<t>>[i]
    BY <1>2, <2>3, <2>4
  <2> QED  BY <2>1, <2>3, <2>4, <2>5, SeqEqual
<1>4. t \in AnyTurns /\ Talk!Of("text", t.blocks) \in Seq(Int)
  BY <1>2, BlocksOfTurn
<1>5. PICK m : m = Talk!Text("user", Talk!Of("text", t.blocks))
  OBVIOUS
<1>6. m = [role |-> "user", text |-> Talk!Of("text", t.blocks), calls |-> <<>>, answers |-> NoId] /\ NoId \in Int
  BY <1>5 DEF Talk!Text, Talk!Message, NoId, Talk!NoId
<1>7. m \in AnyMessages /\ m.role = "user" /\ m.calls = <<>> /\ m.text = Talk!Of("text", t.blocks)
  BY <1>4, <1>6 DEF AnyMessages
<1>8. m \in OwnMessages
  BY <1>7 DEF OwnMessages, Numbered
<1>9. <<m>> \in Seq(OwnMessages) /\ Maps(OfUser, <<m>>) = Talk!Of("text", t.blocks) /\ Maps(OfSystem, <<m>>) = <<>>
  BY <1>7, <1>8, OneMessage
<1>10. Talk!TextsBy("user", history) = Talk!Of("text", t.blocks)
  <2>1. <<t>> \in Seq(AnyTurns)
    BY <1>4
  <2>2. Maps(UserSays, <<t>>) = UserSays[t]
    BY <1>4, TurnLaws DEF MapLaws
  <2>3. UserSays[t] = Talk!Of("text", t.blocks)
    BY <1>2, <1>4 DEF UserSays
  <2> QED  BY <1>3, <2>1, <2>2, <2>3, TextsByIsMaps
<1>11. Tell(<<>>, instructions)
  <2>1. instructions = <<>>
    BY DEF ShortOnes
  <2> QED  BY <2>1, EmptyMessages, Zenon DEF Tell
<1>12. <<m>> = <<>> \o <<m>>
  BY <1>9, EmptyEnds
<1> QED  BY <1>1, <1>5, <1>9, <1>10, <1>11, <1>12, Zenon DEF Bearing

(* Every wire's messages bear the instructions and what the user said.     *)
LEMMA MessagesBear ==
  ASSUME TalkTyped, ShortOnes, Talk!Speaker = "user", wire \notin {"responses", "completions"}
  PROVE  Bearing(Talk!Messages)
<1>0. history \in Seq(OwnTurns) /\ instructions \in Seq(Int)
  BY DEF TalkTyped
<1>s. /\ Tell(Talk!IfAny(instructions, <<Talk!Text("system", instructions)>>), instructions)
      /\ Tell([i \in DOMAIN instructions |-> Talk!Text("system", <<instructions[i]>>)], instructions)
  BY <1>0, OneSystemTells, OwnSystemsTell
<1>1. CASE wire = "openai"
  <2>1. PICK W, v : W = [t \in OwnTurns |-> Talk!OpenAIMessages(t)] /\ v = Maps(W, history)
    OBVIOUS
  <2>2. W = [t \in OwnTurns |-> W[t]] /\ \A t \in OwnTurns : Carry(W[t], t)
    BY <2>1, OpenAIMessagesCarry
  <2>3. v = Talk!FlattenSeq([i \in DOMAIN history |-> Talk!OpenAIMessages(history[i])])
    <3>1. Images(W, history) = [i \in DOMAIN history |-> Talk!OpenAIMessages(history[i])]
      BY <1>0, <2>1 DEF Images
    <3> QED  BY <2>1, <3>1, Zenon DEF Maps
  <2>4. Talk!Messages = [i \in DOMAIN instructions |-> Talk!Text("system", <<instructions[i]>>)] \o v
    BY <1>1, <2>3, Zenon DEF Talk!Messages, Talk!OwnSystem, Talk!AllOf, Talk!FlatMap
  <2>5. /\ v \in Seq(OwnMessages)
        /\ Maps(OfUser, v) = Talk!TextsBy("user", history)
        /\ Maps(OfSystem, v) = <<>>
    BY <1>0, <2>1, <2>2, AllOfCarry
  <2> QED  BY <1>s, <2>4, <2>5, Zenon DEF Bearing
<1>2. CASE wire = "items"
  <2>1. PICK W, v : W = [t \in OwnTurns |-> Talk!NormalizedItems(t)] /\ v = Maps(W, history)
    OBVIOUS
  <2>2. W = [t \in OwnTurns |-> W[t]] /\ \A t \in OwnTurns : Carry(W[t], t)
    BY <2>1, NormalizedItemsCarry
  <2>3. v = Talk!FlattenSeq([i \in DOMAIN history |-> Talk!NormalizedItems(history[i])])
    <3>1. Images(W, history) = [i \in DOMAIN history |-> Talk!NormalizedItems(history[i])]
      BY <1>0, <2>1 DEF Images
    <3> QED  BY <2>1, <3>1, Zenon DEF Maps
  <2>4. Talk!Messages = [i \in DOMAIN instructions |-> Talk!Text("system", <<instructions[i]>>)] \o v
    BY <1>2, <2>3, Zenon DEF Talk!Messages, Talk!OwnSystem, Talk!AllOf, Talk!FlatMap
  <2>5. /\ v \in Seq(OwnMessages)
        /\ Maps(OfUser, v) = Talk!TextsBy("user", history)
        /\ Maps(OfSystem, v) = <<>>
    BY <1>0, <2>1, <2>2, AllOfCarry
  <2> QED  BY <1>s, <2>4, <2>5, Zenon DEF Bearing
<1>3. CASE wire = "anthropic"
  <2>1. PICK W, v : W = [t \in OwnTurns |-> Talk!AnthropicMessages(t)] /\ v = Maps(W, history)
    OBVIOUS
  <2>2. W = [t \in OwnTurns |-> W[t]] /\ \A t \in OwnTurns : Carry(W[t], t)
    BY <2>1, AnthropicMessagesCarry
  <2>3. v = Talk!FlattenSeq([i \in DOMAIN history |-> Talk!AnthropicMessages(history[i])])
    <3>1. Images(W, history) = [i \in DOMAIN history |-> Talk!AnthropicMessages(history[i])]
      BY <1>0, <2>1 DEF Images
    <3> QED  BY <2>1, <3>1, Zenon DEF Maps
  <2>4. Talk!Messages = Talk!IfAny(instructions, <<Talk!Text("system", instructions)>>) \o v
    BY <1>3, <2>3, Zenon DEF Talk!Messages, Talk!AnthropicParse, Talk!decodeSystem, Talk!AllOf, Talk!FlatMap
  <2>5. /\ v \in Seq(OwnMessages)
        /\ Maps(OfUser, v) = Talk!TextsBy("user", history)
        /\ Maps(OfSystem, v) = <<>>
    BY <1>0, <2>1, <2>2, AllOfCarry
  <2> QED  BY <1>s, <2>4, <2>5, Zenon DEF Bearing
<1>4. CASE wire = "gemini"
  <2>1. PICK W, v : W = [t \in OwnTurns |-> Talk!GeminiMessages(t)] /\ v = Maps(W, history)
    OBVIOUS
  <2>2. W = [t \in OwnTurns |-> W[t]] /\ \A t \in OwnTurns : Carry(W[t], t)
    BY <2>1, GeminiMessagesCarry
  <2>3. v = Talk!FlattenSeq([i \in DOMAIN history |-> Talk!GeminiMessages(history[i])])
    <3>1. Images(W, history) = [i \in DOMAIN history |-> Talk!GeminiMessages(history[i])]
      BY <1>0, <2>1 DEF Images
    <3> QED  BY <2>1, <3>1, Zenon DEF Maps
  <2>4. Talk!Messages = Talk!IfAny(instructions, <<Talk!Text("system", instructions)>>) \o v
    BY <1>4, <2>3, Zenon DEF Talk!Messages, Talk!GeminiParse, Talk!joinParts, Talk!AllOf, Talk!FlatMap
  <2>5. /\ v \in Seq(OwnMessages)
        /\ Maps(OfUser, v) = Talk!TextsBy("user", history)
        /\ Maps(OfSystem, v) = <<>>
    BY <1>0, <2>1, <2>2, AllOfCarry
  <2> QED  BY <1>s, <2>4, <2>5, Zenon DEF Bearing
<1>5. CASE wire = "prompt"
  <2>1. Talk!OneShot
    BY <1>5 DEF Talk!OneShot
  <2>2. Talk!Messages = <<Talk!Text("user", Talk!Of("text", Talk!Last(history).blocks))>>
    BY <1>5 DEF Talk!Messages, Talk!extractMessagesFromAlternateFormats
  <2> QED  BY <2>1, <2>2, PromptBears
<1> QED  BY <1>1, <1>2, <1>3, <1>4, <1>5 DEF TalkTyped, AllWires

(* And those of the bridge.                                                *)
LEMMA BridgeBears ==
  ASSUME TalkTyped PROVE Bearing(Talk!convertToChatRequest)
<1>0. history \in Seq(OwnTurns) /\ instructions \in Seq(Int)
  BY DEF TalkTyped
<1>1. PICK W, v :
        /\ W = [t \in OwnTurns |-> [i \in DOMAIN Talk!Of("text", t.blocks) |->
                                      Talk!Text(t.role, <<Talk!Of("text", t.blocks)[i]>>)]]
        /\ v = Maps(W, history)
  OBVIOUS
<1>2. W = [t \in OwnTurns |-> W[t]] /\ \A t \in OwnTurns : Carry(W[t], t)
  BY <1>1, BridgedMessagesCarry
<1>3. v = Talk!FlattenSeq([j \in DOMAIN history |->
             [i \in DOMAIN Talk!Of("text", history[j].blocks) |->
                Talk!Text(history[j].role, <<Talk!Of("text", history[j].blocks)[i]>>)]])
  <2>1. Images(W, history) =
          [j \in DOMAIN history |->
             [i \in DOMAIN Talk!Of("text", history[j].blocks) |->
                Talk!Text(history[j].role, <<Talk!Of("text", history[j].blocks)[i]>>)]]
    <3>1. \A j \in DOMAIN history :
            W[history[j]] = [i \in DOMAIN Talk!Of("text", history[j].blocks) |->
                               Talk!Text(history[j].role, <<Talk!Of("text", history[j].blocks)[i]>>)]
      BY <1>0, <1>1
    <3> QED  BY <3>1 DEF Images
  <2> QED  BY <1>1, <2>1, Zenon DEF Maps
<1>4. Talk!convertToChatRequest =
        Talk!IfAny(instructions, <<Talk!Text("system", instructions)>>) \o v
  BY <1>3, Zenon DEF Talk!convertToChatRequest, Talk!AllOf, Talk!FlatMap
<1>5. Tell(Talk!IfAny(instructions, <<Talk!Text("system", instructions)>>), instructions)
  BY <1>0, OneSystemTells
<1>6. /\ v \in Seq(OwnMessages)
      /\ Maps(OfUser, v) = Talk!TextsBy("user", history)
      /\ Maps(OfSystem, v) = <<>>
  BY <1>0, <1>1, <1>2, AllOfCarry
<1> QED  BY <1>4, <1>5, <1>6, Zenon DEF Bearing

----------------------------------------------------------------------------
(* The repair.                                                             *)

(* Induction from the end of a list: a set that has n + 1, and every place *)
(* with all after it, has them all.                                        *)
LEMMA DownFrom ==
  ASSUME NEW n \in Nat, NEW T, n + 1 \in T,
         \A i \in 1..n : (\A j \in (i + 1)..(n + 1) : j \in T) => i \in T
  PROVE  1..(n + 1) \subseteq T
<1> DEFINE U == {k \in 0..n : \A j \in (n + 1 - k)..(n + 1) : j \in T}
<1>1. 0 \in U
  <2>1. \A j \in (n + 1 - 0)..(n + 1) : j = n + 1
    OBVIOUS
  <2> QED  BY <2>1
<1>2. ASSUME NEW k \in 1..n, k - 1 \in U PROVE k \in U
  <2>1. n + 1 - k \in 1..n /\ n + 1 - (k - 1) = (n + 1 - k) + 1
    OBVIOUS
  <2>2. \A j \in ((n + 1 - k) + 1)..(n + 1) : j \in T
    BY <1>2, <2>1
  <2>3. n + 1 - k \in T
    BY <2>1, <2>2
  <2>4. \A j \in (n + 1 - k)..(n + 1) : j = n + 1 - k \/ j \in ((n + 1 - k) + 1)..(n + 1)
    OBVIOUS
  <2> QED  BY <2>2, <2>3, <2>4
<1> HIDE DEF U
<1>3. 0..n \subseteq U
  BY <1>1, <1>2, UpTo
<1>4. n \in U
  BY <1>3
<1>5. \A j \in (n + 1 - n)..(n + 1) : j \in T
  BY <1>4 DEF U
<1> QED  BY <1>5

(* A function on the places of a list defined from its end: each value     *)
(* from that at a later place.                                             *)
Recedes(f, n, S, base, step, next) ==
  f \in [1..(n + 1) -> S] /\ f[n + 1] = base /\ \A i \in 1..n : f[i] = step[<<f[next[i]], i>>]

(* There is such a function, by induction on the places it is defined for. *)
LEMMA RecessionExists ==
  ASSUME NEW n \in Nat, NEW S, NEW base \in S, NEW step \in [S \X (1..n) -> S],
         NEW next, \A i \in 1..n : next[i] \in (i + 1)..(n + 1)
  PROVE  \E f : Recedes(f, n, S, base, step, next)
<1> DEFINE Of(f, k) == /\ f \in [(n + 1 - k)..(n + 1) -> S] /\ f[n + 1] = base
                       /\ \A i \in (n + 1 - k)..n : f[i] = step[<<f[next[i]], i>>]
           U == {k \in 0..n : \E f : Of(f, k)}
<1>1. 0 \in U
  <2>1. PICK f : f = [i \in (n + 1 - 0)..(n + 1) |-> base]
    OBVIOUS
  <2>2. n + 1 \in (n + 1 - 0)..(n + 1) /\ \A i \in (n + 1 - 0)..n : FALSE
    OBVIOUS
  <2>3. Of(f, 0)
    BY <2>1, <2>2
  <2> QED  BY <2>3
<1>2. ASSUME NEW k \in 1..n, k - 1 \in U PROVE k \in U
  <2>1. PICK f : Of(f, k - 1)
    BY <1>2
  <2>2. PICK m : m = n + 1 - k
    OBVIOUS
  <2>3. m \in 1..n /\ n + 1 - (k - 1) = m + 1
    BY <2>2
  <2>4. f \in [(m + 1)..(n + 1) -> S] /\ f[n + 1] = base /\ \A i \in (m + 1)..n : f[i] = step[<<f[next[i]], i>>]
    BY <2>1, <2>3
  <2> HIDE DEF Of
  <2>5. PICK g : g = [i \in m..(n + 1) |-> IF i = m THEN step[<<f[next[m]], m>>] ELSE f[i]]
    OBVIOUS
  <2>6. \A i \in (m + 1)..(n + 1) : g[i] = f[i]
    BY <2>3, <2>5
  <2>7. \A i \in m..n : next[i] \in (m + 1)..(n + 1)
    BY <2>3
  <2>8. g[m] = step[<<f[next[m]], m>>] /\ g[m] \in S
    <3>1. f[next[m]] \in S
      BY <2>3, <2>4, <2>7
    <3> QED  BY <2>3, <2>5, <3>1
  <2>9. g \in [m..(n + 1) -> S]
    <3>1. \A i \in m..(n + 1) : i = m \/ i \in (m + 1)..(n + 1)
      BY <2>3
    <3>2. \A i \in m..(n + 1) : g[i] \in S
      BY <2>4, <2>6, <2>8, <3>1
    <3> QED  BY <2>5, <3>2
  <2>10. g[n + 1] = base
    BY <2>3, <2>4, <2>6
  <2>11. \A i \in m..n : g[i] = step[<<g[next[i]], i>>]
    <3>1. \A i \in m..n : i = m \/ i \in (m + 1)..n
      BY <2>3
    <3>2. \A i \in m..n : g[next[i]] = f[next[i]]
      BY <2>6, <2>7
    <3>3. \A i \in (m + 1)..n : g[i] = f[i]
      BY <2>3, <2>6
    <3> QED  BY <2>4, <2>8, <3>1, <3>2, <3>3
  <2>12. Of(g, k)
    BY <2>2, <2>9, <2>10, <2>11 DEF Of
  <2> QED  BY <2>12
<1> HIDE DEF U
<1>3. 0..n \subseteq U
  BY <1>1, <1>2, UpTo
<1>4. n \in U
  BY <1>3
<1>5. PICK f : Of(f, n)
  BY <1>4 DEF U
<1>6. n + 1 - n = 1
  OBVIOUS
<1>7. f \in [1..(n + 1) -> S] /\ f[n + 1] = base /\ \A i \in 1..n : f[i] = step[<<f[next[i]], i>>]
  BY <1>5, <1>6
<1> QED  BY <1>7 DEF Recedes

(* Calls are answered at once, and nothing is answered that is not called. *)
CalledBy(m) == {m.calls[k] : k \in DOMAIN m.calls}

Paired(s) ==
  /\ \A i \in DOMAIN s : \A k \in 1..Len(s[i].calls) :
       i + k \in DOMAIN s /\ s[i + k].role = "tool" /\ s[i + k].answers \in CalledBy(s[i])
  /\ \A i \in DOMAIN s : s[i].role = "tool" => \E j \in 1..(i - 1) : s[i].answers \in CalledBy(s[j])

(* Nothing is paired,                                                      *)
LEMMA PairedNothing == Paired(<<>>)
BY DEF Paired

(* and so are two paired lists.                                            *)
LEMMA PairedBoth ==
  ASSUME NEW a, NEW b, a \in Seq(OwnMessages), b \in Seq(OwnMessages), Paired(a), Paired(b)
  PROVE  Paired(a \o b)
<1>1. PICK s, p, q : s = a \o b /\ p = Len(a) /\ q = Len(b)
  OBVIOUS
<1>2. /\ p \in Nat /\ q \in Nat /\ DOMAIN a = 1..p /\ DOMAIN b = 1..q /\ DOMAIN s = 1..(p + q)
      /\ \A i \in 1..p : s[i] = a[i]
      /\ \A i \in (p + 1)..(p + q) : s[i] = b[i - p]
      /\ \A i \in DOMAIN s : Len(s[i].calls) \in Nat
  <2>1. p \in Nat /\ q \in Nat /\ DOMAIN a = 1..p /\ DOMAIN b = 1..q
    BY <1>1
  <2>2. s \in Seq(OwnMessages) /\ Len(s) = p + q
    BY <1>1, ConcatProperties
  <2>3. DOMAIN s = 1..(p + q)
    BY <2>1, <2>2
  <2>4. /\ \A i \in 1..p : s[i] = a[i]
        /\ \A i \in (p + 1)..(p + q) : s[i] = b[i - p]
    <3>1. \A i \in 1..(p + q) : s[i] = IF i <= p THEN a[i] ELSE b[i - p]
      BY <1>1, <2>2, ConcatProperties
    <3> QED  BY <2>1, <3>1
  <2>5. \A i \in DOMAIN s : Len(s[i].calls) \in Nat
    <3>1. \A i \in DOMAIN s : s[i] \in OwnMessages
      BY <2>2
    <3>2. \A m \in OwnMessages : m.calls \in Seq(Int)
      BY DEF OwnMessages, AnyMessages
    <3>3. \A c \in Seq(Int) : Len(c) \in Nat
      OBVIOUS
    <3> QED  BY <3>1, <3>2, <3>3
  <2> QED  BY <2>1, <2>3, <2>4, <2>5
<1>3. ASSUME NEW i \in DOMAIN s, NEW k \in 1..Len(s[i].calls)
      PROVE  i + k \in DOMAIN s /\ s[i + k].role = "tool" /\ s[i + k].answers \in CalledBy(s[i])
  <2>0. i \in 1..(p + q) /\ k \in Nat /\ k >= 1
    BY <1>2
  <2>1. CASE i \in 1..p
    <3>1. s[i] = a[i]
      BY <1>2, <2>1
    <3>2. i + k \in 1..p /\ a[i + k].role = "tool" /\ a[i + k].answers \in CalledBy(a[i])
      BY <1>2, <2>1, <3>1 DEF Paired
    <3>3. i + k \in 1..(p + q) /\ s[i + k] = a[i + k]
      BY <1>2, <3>2
    <3> QED  BY <1>2, <3>1, <3>2, <3>3
  <2>2. CASE i \notin 1..p
    <3>1. i \in (p + 1)..(p + q) /\ i - p \in 1..q
      BY <1>2, <2>0, <2>2
    <3>2. s[i] = b[i - p]
      BY <1>2, <3>1
    <3>3. (i - p) + k \in 1..q /\ b[(i - p) + k].role = "tool" /\ b[(i - p) + k].answers \in CalledBy(b[i - p])
      BY <1>2, <3>1, <3>2 DEF Paired
    <3>4. i + k \in (p + 1)..(p + q) /\ i + k \in 1..(p + q) /\ (i - p) + k = (i + k) - p
      BY <1>2, <2>0, <3>1, <3>3
    <3>5. s[i + k] = b[(i + k) - p]
      BY <1>2, <3>4
    <3> QED  BY <1>2, <3>2, <3>3, <3>4, <3>5
  <2> QED  BY <2>1, <2>2
<1>4. ASSUME NEW i \in DOMAIN s, s[i].role = "tool"
      PROVE  \E j \in 1..(i - 1) : s[i].answers \in CalledBy(s[j])
  <2>0. i \in 1..(p + q)
    BY <1>2
  <2>1. CASE i \in 1..p
    <3>1. s[i] = a[i]
      BY <1>2, <2>1
    <3>2. PICK j \in 1..(i - 1) : a[i].answers \in CalledBy(a[j])
      BY <1>2, <1>4, <2>1, <3>1 DEF Paired
    <3>3. s[j] = a[j]
      BY <1>2, <2>1
    <3> QED  BY <3>1, <3>2, <3>3
  <2>2. CASE i \notin 1..p
    <3>1. i \in (p + 1)..(p + q) /\ i - p \in 1..q
      BY <1>2, <2>0, <2>2
    <3>2. s[i] = b[i - p]
      BY <1>2, <3>1
    <3>3. PICK j \in 1..((i - p) - 1) : b[i - p].answers \in CalledBy(b[j])
      BY <1>2, <1>4, <3>1, <3>2 DEF Paired
    <3>4. j + p \in 1..(i - 1) /\ j + p \in (p + 1)..(p + q) /\ (j + p) - p = j
      BY <1>2, <3>1
    <3>5. s[j + p] = b[j]
      BY <1>2, <3>4
    <3> QED  BY <3>2, <3>3, <3>4, <3>5
  <2> QED  BY <2>1, <2>2
<1> QED  BY <1>1, <1>3, <1>4 DEF Paired

(* A message with calls, and enough answers to them.                       *)
LEMMA PairedGroup ==
  ASSUME NEW m, m \in OwnMessages, m.role # "tool", NEW tools, tools \in Seq(Tools),
         \A k \in DOMAIN tools : tools[k].answers \in CalledBy(m), Len(m.calls) <= Len(tools)
  PROVE  <<m>> \o tools \in Seq(OwnMessages) /\ Paired(<<m>> \o tools)
<1>1. PICK s, q, c : s = <<m>> \o tools /\ q = Len(tools) /\ c = Len(m.calls)
  OBVIOUS
<1>2. q \in Nat /\ c \in Nat /\ c <= q /\ DOMAIN tools = 1..q
  BY <1>1 DEF OwnMessages, AnyMessages
<1>3. tools \in Seq(OwnMessages) /\ <<m>> \in Seq(OwnMessages)
  BY ToolsSayNothing
<1>4. s \in Seq(OwnMessages) /\ Len(s) = 1 + q /\ \A i \in 1..(1 + q) : s[i] = IF i <= 1 THEN <<m>>[i] ELSE tools[i - 1]
  <2>1. PICK a : a = <<m>>
    OBVIOUS
  <2>2. a \in Seq(OwnMessages) /\ Len(a) = 1
    BY <1>3, <2>1
  <2> QED  BY <1>1, <1>3, <2>1, <2>2, ConcatProperties
<1>5. DOMAIN s = 1..(q + 1) /\ s[1] = m /\ \A i \in 1..q : s[i + 1] = tools[i] /\ s[1 + i] = tools[i]
  BY <1>2, <1>4
<1>6. \A i \in 2..(q + 1) : i - 1 \in 1..q /\ s[i] = tools[i - 1]
  BY <1>2, <1>4
<1>7. \A i \in 1..q : tools[i].role = "tool" /\ tools[i].calls = <<>> /\ tools[i].answers \in CalledBy(m)
  <2>1. \A x \in Tools : x.role = "tool" /\ x.calls = <<>>
    BY DEF Tools, OwnMessages
  <2> QED  BY <1>2, <2>1
<1>8. ASSUME NEW i \in DOMAIN s, NEW k \in 1..Len(s[i].calls)
      PROVE  i + k \in DOMAIN s /\ s[i + k].role = "tool" /\ s[i + k].answers \in CalledBy(s[i])
  <2>1. i = 1
    <3>1. ASSUME i # 1 PROVE FALSE
      <4>1. i \in 2..(q + 1)
        BY <1>2, <1>5, <3>1
      <4>2. s[i].calls = <<>>
        BY <1>6, <1>7, <4>1
      <4> QED  BY <4>2
    <3> QED  BY <3>1
  <2>2. k \in 1..q
    BY <1>1, <1>2, <1>5, <2>1
  <2>3. 1 + k \in 1..(q + 1)
    BY <1>2, <2>2
  <2> QED  BY <1>5, <1>7, <2>1, <2>2, <2>3
<1>9. ASSUME NEW i \in DOMAIN s, s[i].role = "tool"
      PROVE  \E j \in 1..(i - 1) : s[i].answers \in CalledBy(s[j])
  <2>1. i \in 2..(q + 1)
    BY <1>2, <1>5, <1>9
  <2>2. s[i].answers \in CalledBy(s[1])
    BY <1>5, <1>6, <1>7, <2>1
  <2>3. 1 \in 1..(i - 1)
    BY <1>2, <2>1
  <2> QED  BY <2>2, <2>3
<1> QED  BY <1>1, <1>4, <1>8, <1>9 DEF Paired

----------------------------------------------------------------------------
(* What the repair makes of the messages from a place on.                  *)
EndOf(ms, i) ==
  CHOOSE j \in (i + 1)..(Len(ms) + 1) :
    /\ \A k \in (i + 1)..(j - 1) : ms[k].role = "tool"
    /\ j <= Len(ms) => ms[j].role # "tool"

Required(m) == Talk!ToSet(m.calls) \ {Talk!NoId}

Answering(required, l) ==
  Talk!FlattenSeq([k \in DOMAIN l |-> IF l[k].answers \in required THEN <<l[k]>> ELSE <<>>])

ToolsAt(ms, i) == Answering(Required(ms[i]), SubSeq(ms, i + 1, EndOf(ms, i) - 1))

GroupAt(ms, i) ==
  IF Required(ms[i]) # {} /\ Talk!AllSatisfied(Required(ms[i]), ToolsAt(ms, i))
    THEN <<ms[i]>> \o ToolsAt(ms, i) ELSE <<>>

RepairedFrom(f, ms, i) ==
  IF i > Len(ms) THEN <<>>
  ELSE IF ms[i].role = "tool" THEN f[i + 1]
  ELSE IF ms[i].calls = <<>> THEN <<ms[i]>> \o f[i + 1]
  ELSE GroupAt(ms, i) \o f[EndOf(ms, i)]

Repairs(f, ms) == f = [i \in 1..(Len(ms) + 1) |-> RepairedFrom(f, ms, i)]

(* The repair is the value of that function at the first place.            *)
LEMMA RepairedIsItsFirst ==
  ASSUME NEW ms PROVE Talk!Repaired(ms) = (CHOOSE f : Repairs(f, ms))[1]
BY Zenon DEF Talk!Repaired, Talk!FlatMap, Repairs, RepairedFrom, GroupAt, ToolsAt, Answering, Required, EndOf

(* The tool messages after a message with calls come to an end.            *)
LEMMA EndExists ==
  ASSUME NEW ms, ms \in Seq(OwnMessages), NEW n, n = Len(ms), NEW i \in 1..n
  PROVE  /\ EndOf(ms, i) \in (i + 1)..(n + 1)
         /\ \A k \in (i + 1)..(EndOf(ms, i) - 1) : ms[k].role = "tool"
<1>0. n \in Nat
  OBVIOUS
<1> DEFINE K == {j \in (i + 1)..(n + 1) : j = n + 1 \/ ms[j].role # "tool"}
           Ends(j) == /\ \A k \in (i + 1)..(j - 1) : ms[k].role = "tool"
                      /\ j <= Len(ms) => ms[j].role # "tool"
<1>1. PICK x \in K : \A y \in K : x <= y
  <2>1. n + 1 \in K /\ K \subseteq Nat
    BY <1>0
  <2> HIDE DEF K
  <2> QED  BY <2>1, LeastElement
<1>2. x \in (i + 1)..(n + 1) /\ Ends(x)
  <2>1. ASSUME NEW k \in (i + 1)..(x - 1) PROVE ms[k].role = "tool"
    <3>1. k \in (i + 1)..(n + 1) /\ k # n + 1 /\ k < x
      BY <1>0, <1>1
    <3>2. k \notin K
      <4>1. x \in Nat /\ k \in Nat
        BY <1>0, <1>1
      <4> HIDE DEF K
      <4> QED  BY <1>1, <3>1, <4>1
    <3> QED  BY <3>1, <3>2
  <2>2. x <= Len(ms) => ms[x].role # "tool"
    BY <1>0, <1>1
  <2> QED  BY <1>1, <2>1, <2>2
<1>3. EndOf(ms, i) = CHOOSE j \in (i + 1)..(n + 1) : Ends(j)
  BY Zenon DEF EndOf
<1> HIDE DEF Ends
<1>4. EndOf(ms, i) \in (i + 1)..(n + 1) /\ Ends(EndOf(ms, i))
  BY <1>2, <1>3, Zenon
<1> QED  BY <1>4 DEF Ends

(* The answers that are wanted are among the tools.                        *)
LEMMA AnsweringAreTools ==
  ASSUME NEW R, NEW l, l \in Seq(Tools)
  PROVE  /\ Answering(R, l) \in Seq(Tools)
         /\ \A k \in DOMAIN Answering(R, l) : Answering(R, l)[k].answers \in R
<1>1. PICK Q : Q = {m \in Tools : m.answers \in R}
  OBVIOUS
<1>2. PICK h : h = [m \in Tools |-> IF m.answers \in R THEN <<m>> ELSE <<>>]
  OBVIOUS
<1>3. h \in [Tools -> Seq(Q)]
  <2>1. \A m \in Tools : (IF m.answers \in R THEN <<m>> ELSE <<>>) \in Seq(Q)
    <3>1. \A m \in Q : <<m>> \in Seq(Q)
      OBVIOUS
    <3>2. <<>> \in Seq(Q)
      OBVIOUS
    <3>3. \A m \in Tools : m.answers \in R => m \in Q
      BY <1>1
    <3> QED  BY <3>1, <3>2, <3>3, Zenon
  <2> QED  BY <1>2, <2>1, Zenon
<1>4. Images(h, l) = [k \in DOMAIN l |-> IF l[k].answers \in R THEN <<l[k]>> ELSE <<>>]
  BY <1>2 DEF Images
<1>5. Answering(R, l) = Maps(h, l)
  BY <1>4, Zenon DEF Answering, Maps
<1>6. Maps(h, l) \in Seq(Q)
  BY <1>3, MapsHasItsLaws DEF MapLaws
<1> QED  BY <1>1, <1>5, <1>6

(* To answer calls that all have ids of their own it takes as many answers. *)
LEMMA EnoughAnswers ==
  ASSUME NEW calls, calls \in Seq(Int), Numbered(calls), NEW R, R = Talk!ToSet(calls) \ {Talk!NoId},
         R # {}, NEW tools, tools \in Seq(Tools), Talk!AllSatisfied(R, tools)
  PROVE  Len(calls) <= Len(tools)
<1>1. R = {calls[k] : k \in DOMAIN calls} \ {NoId}
  BY DEF Talk!ToSet, NoId
<1>2. /\ \A i \in DOMAIN calls : calls[i] # NoId
      /\ \A i, j \in DOMAIN calls : calls[i] = calls[j] => i = j
  BY <1>1 DEF Numbered
<1>3. \A id \in R : \E k \in DOMAIN tools : tools[k].answers = id
  BY DEF Talk!AllSatisfied
<1>4. PICK p, q, c : p = Len(calls) /\ q = Len(tools) /\ c = [i \in 1..p |-> calls[i]]
  OBVIOUS
<1>5. p \in Nat /\ q \in Nat /\ DOMAIN calls = 1..p /\ DOMAIN tools = 1..q
  BY <1>4
<1>6. \A i \in 1..p : \E k \in 1..q : tools[k].answers = calls[i]
  BY <1>1, <1>2, <1>3, <1>5
<1>7. PICK f : f = [i \in 1..p |-> CHOOSE k \in 1..q : tools[k].answers = calls[i]]
  OBVIOUS
<1>8. \A i \in 1..p : f[i] \in 1..q /\ tools[f[i]].answers = calls[i]
  BY <1>6, <1>7, Zenon
<1>9. \A i, j \in 1..p : f[i] = f[j] => i = j
  BY <1>2, <1>5, <1>8
<1>10. f \in Injection(1..p, 1..q)
  <2>1. f \in [1..p -> 1..q]
    BY <1>7, <1>8
  <2>2. IsInjective(f)
    BY <1>7, <1>9 DEF IsInjective
  <2> QED  BY <2>1, <2>2 DEF Injection
<1>11. IsFiniteSet(1..q) /\ Cardinality(1..q) = q /\ Cardinality(1..p) = p
  BY <1>5, FS_Interval
<1>12. Cardinality(1..p) <= Cardinality(1..q)
  BY <1>10, <1>11, FS_Injection
<1> QED  BY <1>4, <1>11, <1>12

(* What is neither the user's nor the system's.                            *)
Quiet == {m \in OwnMessages : m.role = "tool" \/ m.calls # <<>>}

(* A message kept with its answers is paired.                              *)
LEMMA GroupIsPaired ==
  ASSUME NEW ms, ms \in Seq(OwnMessages), NEW n, n = Len(ms), NEW i \in 1..n,
         ms[i].role # "tool", ms[i].calls # <<>>
  PROVE  GroupAt(ms, i) \in Seq(OwnMessages) /\ Paired(GroupAt(ms, i)) /\ GroupAt(ms, i) \in Seq(Quiet)
<1>1. PICK e, l, R, m : e = EndOf(ms, i) /\ l = SubSeq(ms, i + 1, e - 1) /\ R = Required(ms[i]) /\ m = ms[i]
  OBVIOUS
<1>2. n \in Nat /\ e \in (i + 1)..(n + 1) /\ \A k \in (i + 1)..(e - 1) : ms[k].role = "tool"
  BY <1>1, EndExists
<1>3. m \in OwnMessages /\ m.role # "tool" /\ m.calls # <<>> /\ m.calls \in Seq(Int) /\ Numbered(m.calls)
  BY <1>1 DEF OwnMessages, AnyMessages
<1>4. l \in Seq(Tools)
  <2>1. \A k \in (i + 1)..(e - 1) : ms[k] \in Tools
    BY <1>2 DEF Tools
  <2>2. i + 1 \in Int /\ e - 1 \in Int
    BY <1>2
  <2> QED  BY <1>1, <2>1, <2>2, SubSeqProperties
<1>5. PICK tools : tools = Answering(R, l)
  OBVIOUS
<1>6. tools = ToolsAt(ms, i)
  BY <1>1, <1>5, Zenon DEF ToolsAt
<1>7. tools \in Seq(Tools) /\ \A k \in DOMAIN tools : tools[k].answers \in R
  BY <1>4, <1>5, AnsweringAreTools
<1>8. CASE R # {} /\ Talk!AllSatisfied(R, tools)
  <2>1. GroupAt(ms, i) = <<m>> \o tools
    BY <1>1, <1>6, <1>8, Zenon DEF GroupAt
  <2>2. R = Talk!ToSet(m.calls) \ {Talk!NoId}
    BY <1>1 DEF Required
  <2>3. Len(m.calls) <= Len(tools)
    BY <1>3, <1>7, <1>8, <2>2, EnoughAnswers
  <2>4. \A k \in DOMAIN tools : tools[k].answers \in CalledBy(m)
    BY <1>7, <2>2 DEF CalledBy, Talk!ToSet
  <2>5. <<m>> \o tools \in Seq(OwnMessages) /\ Paired(<<m>> \o tools)
    BY <1>3, <1>7, <2>3, <2>4, PairedGroup
  <2>6. <<m>> \o tools \in Seq(Quiet)
    <3>1. m \in Quiet /\ Tools \subseteq Quiet
      BY <1>3 DEF Quiet, Tools
    <3>2. <<m>> \in Seq(Quiet) /\ tools \in Seq(Quiet)
      BY <1>7, <3>1
    <3> QED  BY <3>2, ConcatProperties
  <2> QED  BY <2>1, <2>5, <2>6
<1>9. CASE ~(R # {} /\ Talk!AllSatisfied(R, tools))
  <2>1. GroupAt(ms, i) = <<>>
    BY <1>1, <1>6, <1>9, Zenon DEF GroupAt
  <2> QED  BY <2>1, PairedNothing
<1> QED  BY <1>8, <1>9

(* What the repair keeps at a place, and where it goes on.                 *)
PieceAt(ms, i) ==
  IF ms[i].role = "tool" THEN <<>> ELSE IF ms[i].calls = <<>> THEN <<ms[i]>> ELSE GroupAt(ms, i)

PlaceAfter(ms, i) == IF ms[i].role = "tool" \/ ms[i].calls = <<>> THEN i + 1 ELSE EndOf(ms, i)

(* So is one message without calls.                                        *)
LEMMA PairedOne ==
  ASSUME NEW m, m \in OwnMessages, m.role # "tool", m.calls = <<>>
  PROVE  <<m>> \in Seq(OwnMessages) /\ Paired(<<m>>)
<1>1. PICK s : s = <<m>>
  OBVIOUS
<1>2. s \in Seq(OwnMessages) /\ DOMAIN s = 1..1 /\ s[1] = m
  BY <1>1
<1>3. \A i \in DOMAIN s : s[i].role # "tool" /\ Len(s[i].calls) = 0
  BY <1>2
<1> QED  BY <1>1, <1>2, <1>3 DEF Paired

(* The repair goes on at a later place.                                    *)
LEMMA PlacesAreLater ==
  ASSUME NEW ms, ms \in Seq(OwnMessages), NEW n, n = Len(ms), NEW i \in 1..n
  PROVE  PlaceAfter(ms, i) \in (i + 1)..(n + 1)
<1>1. n \in Nat
  OBVIOUS
<1>2. EndOf(ms, i) \in (i + 1)..(n + 1)
  BY EndExists
<1> QED  BY <1>1, <1>2 DEF PlaceAfter

(* The piece of a place stands for the messages up to the next.            *)
LEMMA PiecesStand ==
  ASSUME NEW ms, ms \in Seq(OwnMessages), NEW n, n = Len(ms), NEW i \in 1..n, NEW j, j = PlaceAfter(ms, i)
  PROVE  /\ PieceAt(ms, i) \in Seq(OwnMessages) /\ Paired(PieceAt(ms, i))
         /\ \/ PieceAt(ms, i) = SubSeq(ms, i, j - 1)
            \/ PieceAt(ms, i) \in Seq(Quiet) /\ SubSeq(ms, i, j - 1) \in Seq(Quiet)
<1>1. n \in Nat /\ j \in (i + 1)..(n + 1) /\ ms[i] \in OwnMessages
  BY PlacesAreLater
<1>2. SubSeq(ms, i, i) = <<ms[i]>>
  <2>1. SubSeq(ms, i, i) \in Seq(OwnMessages) /\ Len(SubSeq(ms, i, i)) = 1 /\ SubSeq(ms, i, i)[1] = ms[i]
    <3>1. \A k \in i..i : ms[k] \in OwnMessages
      BY <1>1
    <3>2. i \in Int /\ i <= i /\ i - i + 1 = 1 /\ i + 1 - 1 = i
      BY <1>1
    <3> QED  BY <3>1, <3>2, SubSeqProperties
  <2>2. PICK s : s = SubSeq(ms, i, i)
    OBVIOUS
  <2>3. Len(s) = 1 /\ s[1] = ms[i] /\ s \in Seq(OwnMessages)
    BY <2>1, <2>2
  <2>4. s = <<ms[i]>>
    BY ONLY <2>3
  <2> QED  BY <2>2, <2>4
<1>3. CASE ms[i].role = "tool"
  <2>1. PieceAt(ms, i) = <<>> /\ j = i + 1 /\ j - 1 = i
    BY <1>1, <1>3 DEF PieceAt, PlaceAfter
  <2>2. ms[i] \in Quiet
    BY <1>1, <1>3 DEF Quiet
  <2>3. <<ms[i]>> \in Seq(Quiet) /\ <<>> \in Seq(Quiet) /\ <<>> \in Seq(OwnMessages)
    BY <2>2
  <2> QED  BY <1>2, <2>1, <2>3, PairedNothing
<1>4. CASE ms[i].role # "tool" /\ ms[i].calls = <<>>
  <2>1. PieceAt(ms, i) = <<ms[i]>> /\ j = i + 1 /\ j - 1 = i
    BY <1>1, <1>4 DEF PieceAt, PlaceAfter
  <2> QED  BY <1>1, <1>2, <1>4, <2>1, PairedOne
<1>5. CASE ms[i].role # "tool" /\ ms[i].calls # <<>>
  <2>1. PieceAt(ms, i) = GroupAt(ms, i) /\ j = EndOf(ms, i)
    BY <1>5 DEF PieceAt, PlaceAfter
  <2>2. GroupAt(ms, i) \in Seq(OwnMessages) /\ Paired(GroupAt(ms, i)) /\ GroupAt(ms, i) \in Seq(Quiet)
    BY <1>5, GroupIsPaired
  <2>3. \A k \in i..(j - 1) : ms[k] \in Quiet
    <3>1. \A k \in (i + 1)..(j - 1) : ms[k].role = "tool"
      BY <2>1, EndExists
    <3>2. ASSUME NEW k \in i..(j - 1) PROVE ms[k] \in Quiet
      <4>1. k \in 1..n /\ (k = i \/ k \in (i + 1)..(j - 1))
        BY <1>1
      <4>2. ms[k] \in OwnMessages
        BY <4>1
      <4> QED  BY <1>5, <3>1, <4>1, <4>2 DEF Quiet
    <3> QED  BY <3>2
  <2>4. SubSeq(ms, i, j - 1) \in Seq(Quiet)
    <3>1. i \in Int /\ j - 1 \in Int
      BY <1>1
    <3> QED  BY <2>3, <3>1, SubSeqProperties
  <2> QED  BY <2>1, <2>2, <2>4
<1> QED  BY <1>3, <1>4, <1>5

(* There is a function as the repair's.                                    *)
LEMMA RepairExists ==
  ASSUME NEW ms, ms \in Seq(OwnMessages)
  PROVE  \E f : Repairs(f, ms)
<1>1. PICK n, S : n = Len(ms) /\ S = Seq(OwnMessages)
  OBVIOUS
<1>2. n \in Nat
  BY <1>1
<1>3. PICK step : step = [p \in S \X (1..n) |-> PieceAt(ms, p[2]) \o p[1]]
  OBVIOUS
<1>4. PICK next : next = [i \in 1..n |-> PlaceAfter(ms, i)]
  OBVIOUS
<1>5. \A i \in 1..n : next[i] = PlaceAfter(ms, i) /\ next[i] \in (i + 1)..(n + 1)
  BY <1>1, <1>4, PlacesAreLater
<1>6. \A i \in 1..n : PieceAt(ms, i) \in S
  BY <1>1, PiecesStand
<1>7. step \in [S \X (1..n) -> S]
  <2>1. ASSUME NEW p \in S \X (1..n) PROVE PieceAt(ms, p[2]) \o p[1] \in S
    <3>1. p[1] \in S /\ PieceAt(ms, p[2]) \in S
      BY <1>6
    <3> QED  BY <1>1, <3>1, ConcatProperties
  <2> QED  BY <1>3, <2>1
<1>8. <<>> \in S
  BY <1>1
<1>9. PICK f : Recedes(f, n, S, <<>>, step, next)
  BY <1>2, <1>5, <1>7, <1>8, RecessionExists
<1>10. f \in [1..(n + 1) -> S] /\ f[n + 1] = <<>> /\ \A i \in 1..n : f[i] = step[<<f[next[i]], i>>]
  BY <1>9 DEF Recedes
<1>11. ASSUME NEW i \in 1..n PROVE f[i] = PieceAt(ms, i) \o f[PlaceAfter(ms, i)] /\ f[PlaceAfter(ms, i)] \in S
  <2>1. next[i] \in 1..(n + 1) /\ next[i] = PlaceAfter(ms, i)
    BY <1>2, <1>5
  <2>2. f[next[i]] \in S
    BY <1>10, <2>1
  <2>3. step[<<f[next[i]], i>>] = PieceAt(ms, i) \o f[next[i]]
    BY <1>3, <2>2
  <2> QED  BY <1>10, <2>1, <2>2, <2>3
<1>12. ASSUME NEW i \in 1..(n + 1) PROVE f[i] = RepairedFrom(f, ms, i)
  <2>1. CASE i > n
    <3>1. i = n + 1
      BY <1>2, <2>1
    <3>2. RepairedFrom(f, ms, i) = <<>>
      BY <1>1, <2>1 DEF RepairedFrom
    <3> QED  BY <1>10, <3>1, <3>2
  <2>2. CASE ~(i > n)
    <3>1. i \in 1..n
      BY <1>2, <2>2
    <3>2. PICK v : v = f[PlaceAfter(ms, i)]
      OBVIOUS
    <3>3. v \in S /\ f[i] = PieceAt(ms, i) \o v
      BY <1>11, <3>1, <3>2
    <3>4. <<>> \o v = v
      BY <1>1, <3>3, EmptyEnds
    <3>5. CASE ms[i].role = "tool"
      <4>1. RepairedFrom(f, ms, i) = f[i + 1] /\ PieceAt(ms, i) = <<>> /\ PlaceAfter(ms, i) = i + 1
        BY <1>1, <2>2, <3>5, Zenon DEF RepairedFrom, PieceAt, PlaceAfter
      <4> QED  BY <3>2, <3>3, <3>4, <4>1
    <3>6. CASE ms[i].role # "tool" /\ ms[i].calls = <<>>
      <4>1. /\ RepairedFrom(f, ms, i) = <<ms[i]>> \o f[i + 1]
            /\ PieceAt(ms, i) = <<ms[i]>> /\ PlaceAfter(ms, i) = i + 1
        BY <1>1, <2>2, <3>6, Zenon DEF RepairedFrom, PieceAt, PlaceAfter
      <4> QED  BY <3>2, <3>3, <4>1, Zenon
    <3>7. CASE ms[i].role # "tool" /\ ms[i].calls # <<>>
      <4>1. /\ RepairedFrom(f, ms, i) = GroupAt(ms, i) \o f[EndOf(ms, i)]
            /\ PieceAt(ms, i) = GroupAt(ms, i) /\ PlaceAfter(ms, i) = EndOf(ms, i)
        BY <1>1, <2>2, <3>7, Zenon DEF RepairedFrom, PieceAt, PlaceAfter
      <4> QED  BY <3>2, <3>3, <4>1, Zenon
    <3> QED  BY <3>5, <3>6, <3>7
  <2> QED  BY <2>1, <2>2
<1>13. f = [i \in 1..(n + 1) |-> f[i]]
  BY <1>10
<1>14. Repairs(f, ms)
  BY <1>1, <1>12, <1>13, Zenon DEF Repairs
<1> QED  BY <1>14

(* The repair, a piece at a time.                                          *)
LEMMA RepairHasPieces ==
  ASSUME NEW ms, ms \in Seq(OwnMessages), NEW n, n = Len(ms)
  PROVE  \E g : /\ Talk!Repaired(ms) = g[1] /\ g[n + 1] = <<>>
                /\ \A i \in 1..n : g[PlaceAfter(ms, i)] \in Seq(OwnMessages) =>
                                     g[i] = PieceAt(ms, i) \o g[PlaceAfter(ms, i)]
<1>1. PICK g : g = CHOOSE f : Repairs(f, ms)
  OBVIOUS
<1>2. Repairs(g, ms)
  BY <1>1, RepairExists, Zenon
<1>3. n \in Nat
  OBVIOUS
<1>4. \A i \in 1..(n + 1) : g[i] = RepairedFrom(g, ms, i)
  BY <1>2 DEF Repairs
<1>5. g[n + 1] = <<>>
  <2>1. n + 1 \in 1..(n + 1) /\ n + 1 > Len(ms)
    BY <1>3
  <2>2. RepairedFrom(g, ms, n + 1) = <<>>
    BY <2>1, Zenon DEF RepairedFrom
  <2> QED  BY <1>4, <2>1, <2>2
<1>6. ASSUME NEW i \in 1..n, g[PlaceAfter(ms, i)] \in Seq(OwnMessages)
      PROVE  g[i] = PieceAt(ms, i) \o g[PlaceAfter(ms, i)]
  <2>1. i \in 1..(n + 1) /\ ~(i > Len(ms))
    BY <1>3
  <2>2. PICK v : v = g[PlaceAfter(ms, i)]
    OBVIOUS
  <2>3. v \in Seq(OwnMessages) /\ <<>> \o v = v
    BY <1>6, <2>2, EmptyEnds
  <2>5. CASE ms[i].role = "tool"
    <3>1. g[i] = g[i + 1] /\ PieceAt(ms, i) = <<>> /\ PlaceAfter(ms, i) = i + 1
      BY <1>4, <2>1, <2>5, Zenon DEF RepairedFrom, PieceAt, PlaceAfter
    <3> QED  BY <2>2, <2>3, <3>1
  <2>6. CASE ms[i].role # "tool" /\ ms[i].calls = <<>>
    <3>1. g[i] = <<ms[i]>> \o g[i + 1] /\ PieceAt(ms, i) = <<ms[i]>> /\ PlaceAfter(ms, i) = i + 1
      BY <1>4, <2>1, <2>6, Zenon DEF RepairedFrom, PieceAt, PlaceAfter
    <3> QED  BY <3>1, Zenon
  <2>7. CASE ms[i].role # "tool" /\ ms[i].calls # <<>>
    <3>1. g[i] = GroupAt(ms, i) \o g[EndOf(ms, i)] /\ PieceAt(ms, i) = GroupAt(ms, i) /\ PlaceAfter(ms, i) = EndOf(ms, i)
      BY <1>4, <2>1, <2>7, Zenon DEF RepairedFrom, PieceAt, PlaceAfter
    <3> QED  BY <3>1, Zenon
  <2> QED  BY <2>5, <2>6, <2>7
<1>7. Talk!Repaired(ms) = g[1]
  BY <1>1, RepairedIsItsFirst
<1> QED  BY <1>5, <1>6, <1>7

(* After the repair calls are answered, and it drops only the quiet ones.  *)
LEMMA RepairLaws ==
  ASSUME NEW ms, ms \in Seq(OwnMessages)
  PROVE  /\ Talk!Repaired(ms) \in Seq(OwnMessages) /\ Paired(Talk!Repaired(ms))
         /\ \A S, h : MapLaws(h, OwnMessages, S) /\ (\A m \in Quiet : h[m] = <<>>) =>
                        Maps(h, Talk!Repaired(ms)) = Maps(h, ms)
<1>1. PICK n : n = Len(ms)
  OBVIOUS
<1>2. PICK g : /\ Talk!Repaired(ms) = g[1] /\ g[n + 1] = <<>>
               /\ \A i \in 1..n : g[PlaceAfter(ms, i)] \in Seq(OwnMessages) =>
                                    g[i] = PieceAt(ms, i) \o g[PlaceAfter(ms, i)]
  BY <1>1, RepairHasPieces
<1>3. n \in Nat /\ 1 \in 1..(n + 1)
  BY <1>1
<1>4. ASSUME NEW S, NEW h, MapLaws(h, OwnMessages, S), \A m \in Quiet : h[m] = <<>>
      PROVE  /\ g[1] \in Seq(OwnMessages) /\ Paired(g[1]) /\ Maps(h, g[1]) = Maps(h, ms)
  <2> DEFINE Good(i) == /\ g[i] \in Seq(OwnMessages) /\ Paired(g[i])
                        /\ Maps(h, g[i]) = Maps(h, SubSeq(ms, i, n))
             T == {i \in 1..(n + 1) : Good(i)}
  <2>1. Good(n + 1)
    <3>1. SubSeq(ms, n + 1, n) = <<>>
      BY <1>3, SubSeqEmpty
    <3> QED  BY <1>2, <3>1, PairedNothing, EmptyMessages
  <2>2. MapLaws(h, Quiet, S)
    <3>1. Quiet \subseteq OwnMessages
      BY DEF Quiet
    <3> QED  BY <1>4, <3>1, LawsOfFewer
  <2>3. ASSUME NEW s, s \in Seq(Quiet) PROVE Maps(h, s) = <<>>
    BY <1>4, <2>2, <2>3, MapsToNothing
  <2>4. ASSUME NEW i \in 1..n, \A j \in (i + 1)..(n + 1) : j \in T PROVE Good(i)
    <3>1. PICK j, p, a, b : j = PlaceAfter(ms, i) /\ p = PieceAt(ms, i) /\ a = SubSeq(ms, i, j - 1) /\ b = SubSeq(ms, j, n)
      OBVIOUS
    <3>2. j \in (i + 1)..(n + 1)
      BY <1>1, <3>1, PlacesAreLater
    <3>3. Good(j)
      BY <2>4, <3>2
    <3>4. p \in Seq(OwnMessages) /\ Paired(p) /\ (p = a \/ (p \in Seq(Quiet) /\ a \in Seq(Quiet)))
      <4>1. /\ PieceAt(ms, i) \in Seq(OwnMessages) /\ Paired(PieceAt(ms, i))
            /\ \/ PieceAt(ms, i) = SubSeq(ms, i, j - 1)
               \/ PieceAt(ms, i) \in Seq(Quiet) /\ SubSeq(ms, i, j - 1) \in Seq(Quiet)
        BY <1>1, <3>1, PiecesStand
      <4> QED  BY <3>1, <4>1, Zenon
    <3>5. PICK v : v = g[j]
      OBVIOUS
    <3>6. v \in Seq(OwnMessages) /\ Paired(v) /\ Maps(h, v) = Maps(h, b)
      BY <3>1, <3>3, <3>5
    <3>7. g[i] = p \o v
      BY <1>2, <3>1, <3>5, <3>6
    <3>8. p \o v \in Seq(OwnMessages) /\ Paired(p \o v)
      BY <3>4, <3>6, PairedBoth, ConcatProperties
    <3>9. a \in Seq(OwnMessages) /\ b \in Seq(OwnMessages) /\ SubSeq(ms, i, n) = a \o b
      <4>1. \A k \in 1..n : ms[k] \in OwnMessages
        BY <1>1
      <4>2. i \in Int /\ j - 1 \in Int /\ j \in Int /\ n \in Int
        BY <1>3, <3>2
      <4>3. (\A k \in i..(j - 1) : ms[k] \in OwnMessages) /\ (\A k \in j..n : ms[k] \in OwnMessages)
        BY <1>3, <3>2, <4>1
      <4>4. a \in Seq(OwnMessages) /\ b \in Seq(OwnMessages)
        BY <3>1, <4>2, <4>3, SubSeqProperties
      <4>5. i \in 1..(n + 1) /\ j - 1 \in (i - 1)..n /\ n \in (j - 1)..n /\ (j - 1) + 1 = j
        BY <1>3, <3>2
      <4>6. SubSeq(ms, i, j - 1) \o SubSeq(ms, (j - 1) + 1, n) = SubSeq(ms, i, n)
        BY <1>1, <4>5, ConcatAdjacentSubSeq
      <4> QED  BY <3>1, <4>4, <4>5, <4>6
    <3>10. Maps(h, p) = Maps(h, a)
      BY <2>3, <3>4
    <3>11. Maps(h, p \o v) = Maps(h, p) \o Maps(h, v) /\ Maps(h, a \o b) = Maps(h, a) \o Maps(h, b)
      BY <1>4, <3>4, <3>6, <3>9 DEF MapLaws
    <3>12. Maps(h, g[i]) = Maps(h, SubSeq(ms, i, n))
      BY <3>6, <3>7, <3>9, <3>10, <3>11, Zenon
    <3> QED  BY <3>7, <3>8, <3>12
  <2>5. n + 1 \in T /\ \A i \in 1..n : (\A j \in (i + 1)..(n + 1) : j \in T) => i \in T
    <3> HIDE DEF Good
    <3>1. n + 1 \in T
      BY <1>3, <2>1
    <3>2. ASSUME NEW i \in 1..n, \A j \in (i + 1)..(n + 1) : j \in T PROVE i \in T
      <4>1. Good(i)
        BY <2>4, <3>2
      <4>2. i \in 1..(n + 1)
        BY <1>3
      <4> QED  BY <4>1, <4>2
    <3> QED  BY <3>1, <3>2
  <2>6. 1 \in T
    <3> HIDE DEF T
    <3> QED  BY <1>3, <2>5, DownFrom
  <2>7. SubSeq(ms, 1, n) = ms
    BY <1>1, SubSeqFull
  <2>8. Good(1)
    BY <2>6
  <2> QED  BY <2>7, <2>8
<1>5. MapLaws(OfUser, OwnMessages, Int) /\ \A m \in Quiet : OfUser[m] = <<>>
  <2>1. ASSUME NEW m \in Quiet PROVE OfUser[m] = <<>>
    <3>1. m \in AnyMessages /\ m.role # "user"
      BY DEF Quiet, OwnMessages
    <3> QED  BY <3>1 DEF OfUser
  <2> QED  BY <2>1, MessageLaws, LawsOfFewer
<1>6. g[1] \in Seq(OwnMessages) /\ Paired(g[1])
  BY <1>4, <1>5
<1>7. ASSUME NEW S, NEW h, MapLaws(h, OwnMessages, S), \A m \in Quiet : h[m] = <<>>
      PROVE  Maps(h, g[1]) = Maps(h, ms)
  BY <1>4, <1>7
<1> QED  BY <1>2, <1>6, <1>7, Zenon

----------------------------------------------------------------------------
(* From messages to turns.                                                 *)

(* Only calls, answers and who is a tool matter.                           *)
LEMMA PairedAlike ==
  ASSUME NEW s, NEW t, s \in Seq(OwnMessages), t \in Seq(OwnMessages), Paired(s), DOMAIN s = DOMAIN t,
         \A i \in DOMAIN s : /\ t[i].calls = s[i].calls /\ (t[i].role = "tool" <=> s[i].role = "tool")
                             /\ s[i].role = "tool" => t[i].answers = s[i].answers
  PROVE  Paired(t)
<1>1. PICK n : n = Len(s)
  OBVIOUS
<1>2. n \in Nat /\ DOMAIN s = 1..n /\ DOMAIN t = 1..n
  BY <1>1
<1>3. \A i \in 1..n : CalledBy(t[i]) = CalledBy(s[i])
  BY <1>2 DEF CalledBy
<1>4. ASSUME NEW i \in DOMAIN t, NEW k \in 1..Len(t[i].calls)
      PROVE  i + k \in DOMAIN t /\ t[i + k].role = "tool" /\ t[i + k].answers \in CalledBy(t[i])
  <2>1. k \in 1..Len(s[i].calls)
    OBVIOUS
  <2>2. i + k \in DOMAIN s /\ s[i + k].role = "tool" /\ s[i + k].answers \in CalledBy(s[i])
    BY <2>1 DEF Paired
  <2> QED  BY <1>2, <1>3, <2>2
<1>5. ASSUME NEW i \in DOMAIN t, t[i].role = "tool"
      PROVE  \E j \in 1..(i - 1) : t[i].answers \in CalledBy(t[j])
  <2>1. PICK j \in 1..(i - 1) : s[i].answers \in CalledBy(s[j])
    BY <1>5 DEF Paired
  <2>2. j \in 1..n
    BY <1>2
  <2> QED  BY <1>3, <1>5, <2>1, <2>2
<1> QED  BY <1>4, <1>5 DEF Paired

(* A message that neither calls nor answers may go.                        *)
LEMMA Dropping ==
  ASSUME NEW x, NEW e, NEW y, x \in Seq(OwnMessages), e \in OwnMessages, y \in Seq(OwnMessages),
         Paired((x \o <<e>>) \o y), e.role # "tool", e.calls = <<>>
  PROVE  Paired(x \o y)
<1>1. PICK a, s, t, p, q : a = x \o <<e>> /\ s = a \o y /\ t = x \o y /\ p = Len(x) /\ q = Len(y)
  OBVIOUS
<1>2. /\ p \in Nat /\ q \in Nat
      /\ DOMAIN s = 1..(p + 1 + q) /\ DOMAIN t = 1..(p + q)
      /\ \A i \in 1..p : t[i] = s[i]
      /\ \A i \in (p + 1)..(p + q) : t[i] = s[i + 1]
      /\ s[p + 1] = e
  <2>1. PICK l : l = <<e>>
    OBVIOUS
  <2>2. l \in Seq(OwnMessages) /\ Len(l) = 1 /\ l[1] = e
    BY <2>1
  <2>3. p \in Nat /\ q \in Nat
    BY <1>1
  <2>4. a \in Seq(OwnMessages) /\ Len(a) = p + 1 /\ \A i \in 1..(p + 1) : a[i] = IF i <= p THEN x[i] ELSE l[i - p]
    BY <1>1, <2>1, <2>2, ConcatProperties
  <2>5. s \in Seq(OwnMessages) /\ Len(s) = p + 1 + q /\ \A i \in 1..(p + 1 + q) : s[i] = IF i <= p + 1 THEN a[i] ELSE y[i - (p + 1)]
    BY <1>1, <2>4, ConcatProperties
  <2>6. t \in Seq(OwnMessages) /\ Len(t) = p + q /\ \A i \in 1..(p + q) : t[i] = IF i <= p THEN x[i] ELSE y[i - p]
    BY <1>1, ConcatProperties
  <2>7. DOMAIN s = 1..(p + 1 + q) /\ DOMAIN t = 1..(p + q)
    BY <2>5, <2>6
  <2>8. ASSUME NEW i \in 1..p PROVE t[i] = s[i]
    BY <2>3, <2>4, <2>5, <2>6
  <2>9. ASSUME NEW i \in (p + 1)..(p + q) PROVE t[i] = s[i + 1]
    <3>1. i \in 1..(p + q) /\ ~(i <= p) /\ i + 1 \in 1..(p + 1 + q) /\ ~(i + 1 <= p + 1) /\ (i + 1) - (p + 1) = i - p
      BY <2>3
    <3> QED  BY <2>5, <2>6, <3>1
  <2>10. s[p + 1] = e
    <3>1. p + 1 \in 1..(p + 1 + q) /\ p + 1 <= p + 1 /\ p + 1 \in 1..(p + 1) /\ ~(p + 1 <= p) /\ (p + 1) - p = 1
      BY <2>3
    <3> QED  BY <2>2, <2>4, <2>5, <3>1
  <2> QED  BY <2>3, <2>7, <2>8, <2>9, <2>10
<1>3. Paired(s) /\ e.role # "tool" /\ Len(e.calls) = 0 /\ CalledBy(e) = {}
  BY <1>1 DEF CalledBy
<1>4. \A i \in DOMAIN t : Len(t[i].calls) \in Nat
  <2>1. t \in Seq(OwnMessages)
    BY <1>1, ConcatProperties
  <2>2. \A i \in DOMAIN t : t[i] \in OwnMessages
    BY <2>1
  <2>3. \A m \in OwnMessages : m.calls \in Seq(Int)
    BY DEF OwnMessages, AnyMessages
  <2>4. \A c \in Seq(Int) : Len(c) \in Nat
    OBVIOUS
  <2> QED  BY <2>2, <2>3, <2>4
<1>5. ASSUME NEW i \in DOMAIN t, NEW k \in 1..Len(t[i].calls)
      PROVE  i + k \in DOMAIN t /\ t[i + k].role = "tool" /\ t[i + k].answers \in CalledBy(t[i])
  <2>0. i \in 1..(p + q) /\ k \in Nat /\ k >= 1
    BY <1>2, <1>4
  <2>1. CASE i <= p
    <3>1. i \in 1..p /\ i \in DOMAIN s /\ t[i] = s[i]
      BY <1>2, <2>0, <2>1
    <3>2. \A l \in 1..Len(s[i].calls) : i + l \in DOMAIN s /\ s[i + l].role = "tool" /\ s[i + l].answers \in CalledBy(s[i])
      BY <1>3, <3>1 DEF Paired
    <3>3. ~(i + k > p)
      <4> SUFFICES ASSUME i + k > p PROVE FALSE
        OBVIOUS
      <4>1. (p + 1) - i \in 1..k /\ i + ((p + 1) - i) = p + 1
        BY <1>2, <2>0, <2>1
      <4>2. (p + 1) - i \in 1..Len(s[i].calls)
        <5>1. PICK c : c = Len(t[i].calls)
          OBVIOUS
        <5>2. c \in Nat /\ k \in 1..c
          BY <1>4, <5>1
        <5>3. (p + 1) - i \in 1..c
          BY <4>1, <5>2
        <5> QED  BY <3>1, <5>1, <5>3
      <4>3. s[p + 1].role = "tool"
        BY <3>2, <4>1, <4>2
      <4> QED  BY <1>2, <1>3, <4>3
    <3>4. i + k \in 1..p /\ i + k \in 1..(p + q)
      BY <1>2, <2>0, <3>3
    <3> QED  BY <1>2, <3>1, <3>2, <3>4
  <2>2. CASE ~(i <= p)
    <3>1. i \in (p + 1)..(p + q) /\ i + 1 \in DOMAIN s
      BY <1>2, <2>0, <2>2
    <3>2. t[i] = s[i + 1]
      BY <1>2, <3>1
    <3>3. (i + 1) + k \in DOMAIN s /\ s[(i + 1) + k].role = "tool" /\ s[(i + 1) + k].answers \in CalledBy(s[i + 1])
      BY <1>3, <3>1, <3>2 DEF Paired
    <3>4. (i + 1) + k = (i + k) + 1 /\ i + k \in (p + 1)..(p + q) /\ i + k \in 1..(p + q)
      BY <1>2, <2>0, <3>1, <3>3
    <3>5. t[i + k] = s[(i + 1) + k]
      BY <1>2, <3>4
    <3> QED  BY <1>2, <3>2, <3>3, <3>4, <3>5
  <2> QED  BY <2>1, <2>2
<1>6. ASSUME NEW i \in DOMAIN t, t[i].role = "tool"
      PROVE  \E j \in 1..(i - 1) : t[i].answers \in CalledBy(t[j])
  <2>0. i \in 1..(p + q)
    BY <1>2
  <2>1. CASE i <= p
    <3>1. i \in 1..p /\ i \in DOMAIN s /\ t[i] = s[i]
      BY <1>2, <2>0, <2>1
    <3>2. PICK j \in 1..(i - 1) : s[i].answers \in CalledBy(s[j])
      BY <1>3, <1>6, <3>1 DEF Paired
    <3>3. t[j] = s[j]
      <4>1. j \in 1..p
        BY <1>2, <3>1
      <4> QED  BY <1>2, <4>1
    <3> QED  BY <3>1, <3>2, <3>3
  <2>2. CASE ~(i <= p)
    <3>0. i \in (p + 1)..(p + q) /\ i + 1 \in 1..(p + 1 + q) /\ (i + 1) - 1 = i
      <4>1. p \in Nat /\ q \in Nat
        BY <1>2
      <4> QED  BY ONLY <2>0, <2>2, <4>1
    <3>1. i \in (p + 1)..(p + q) /\ i + 1 \in DOMAIN s /\ (i + 1) - 1 = i
      BY <1>2, <3>0
    <3>2. t[i] = s[i + 1]
      BY <1>2, <3>1
    <3>3. PICK j \in 1..i : s[i + 1].answers \in CalledBy(s[j])
      <4>1. s[i + 1].role = "tool"
        BY <1>6, <3>2
      <4>2. \E j \in 1..((i + 1) - 1) : s[i + 1].answers \in CalledBy(s[j])
        BY <1>3, <3>1, <4>1 DEF Paired
      <4> QED  BY <3>1, <4>2
    <3>4. j # p + 1
      BY <1>2, <1>3, <3>3
    <3>5. CASE j <= p
      <4>1. j \in 1..p /\ j \in 1..(i - 1)
        BY <1>2, <3>1, <3>5
      <4>2. t[j] = s[j]
        BY <1>2, <4>1
      <4> QED  BY <3>2, <3>3, <4>1, <4>2
    <3>6. CASE ~(j <= p)
      <4>1. j - 1 \in (p + 1)..(p + q) /\ j - 1 \in 1..(i - 1) /\ (j - 1) + 1 = j
        BY <1>2, <3>1, <3>4, <3>6
      <4>2. t[j - 1] = s[j]
        BY <1>2, <4>1
      <4> QED  BY <3>2, <3>3, <4>1, <4>2
    <3> QED  BY <3>5, <3>6
  <2> QED  BY <2>1, <2>2
<1> QED  BY <1>1, <1>5, <1>6 DEF Paired

(* Nor is a system message one of them.                                    *)
Others == {m \in OwnMessages : m.role # "system"}

(* System messages go, and calls stay answered.                            *)
LEMMA SpokenIsPaired ==
  ASSUME NEW ms, ms \in Seq(OwnMessages)
  PROVE  Maps(OfOthers, ms) \in Seq(Others) /\ (Paired(ms) => Paired(Maps(OfOthers, ms)))
<1>1. PICK S : S = Seq(OwnMessages)
  OBVIOUS
<1>2. PICK T : T = {w \in S : Maps(OfOthers, w) \in Seq(Others) /\
                              \A rest \in S : Paired(w \o rest) => Paired(Maps(OfOthers, w) \o rest)}
  OBVIOUS
<1>3. Others \subseteq OwnMessages /\ Seq(Others) \subseteq Seq(OwnMessages)
  BY DEF Others
<1>4. <<>> \in T
  <2>1. <<>> \in S /\ <<>> \in Seq(Others) /\ Maps(OfOthers, <<>>) = <<>>
    BY <1>1, EmptyMessages
  <2> QED  BY <1>2, <2>1, Zenon
<1>5. ASSUME NEW w \in S, NEW e \in OwnMessages, w \in T PROVE Append(w, e) \in T
  <2>1. PICK v, l, o : v = Append(w, e) /\ l = <<e>> /\ o = Maps(OfOthers, w)
    OBVIOUS
  <2>2. v \in S /\ l \in S /\ v = w \o l
    <3>1. <<e>> \in Seq(OwnMessages)
      OBVIOUS
    <3>2. w \in Seq(OwnMessages)
      BY <1>1
    <3>3. Append(w, e) = w \o <<e>>
      BY <3>2, AppendIsConcat
    <3>4. Append(w, e) \in Seq(OwnMessages)
      BY <3>2, AppendProperties
    <3> QED  BY <1>1, <2>1, <3>1, <3>3, <3>4, Zenon
  <2>3. Maps(OfOthers, v) = o \o OfOthers[e] /\ o \in S /\ o \in Seq(Others)
    BY <1>1, <1>2, <1>3, <1>5, <2>1, MessageLaws DEF MapLaws
  <2>4. ASSUME NEW rest \in S, Paired(v \o rest)
        PROVE  Paired((o \o l) \o rest)
    <3>1. (w \o l) \o rest = w \o (l \o rest) /\ (o \o l) \o rest = o \o (l \o rest) /\ l \o rest \in S
      <4>1. w \in Seq(OwnMessages) /\ l \in Seq(OwnMessages) /\ o \in Seq(OwnMessages) /\ rest \in Seq(OwnMessages)
        BY <1>1, <2>2, <2>3, <2>4
      <4>2. (w \o l) \o rest = w \o (l \o rest)
        BY <4>1, Associates, SMTT(30)
      <4>3. (o \o l) \o rest = o \o (l \o rest)
        BY <4>1, Associates
      <4>4. l \o rest \in Seq(OwnMessages)
        BY <4>1, ConcatProperties
      <4> QED  BY <1>1, <4>2, <4>3, <4>4, Zenon
    <3>2. Paired(w \o (l \o rest))
      BY <2>2, <2>4, <3>1
    <3>3. Paired(o \o (l \o rest))
      BY <1>2, <1>5, <2>1, <3>1, <3>2
    <3> QED  BY <3>1, <3>3
  <2>5. CASE e.role # "system"
    <3>1. OfOthers[e] = l /\ e \in Others
      BY <2>1, <2>5 DEF OfOthers, OwnMessages, Others
    <3>2. l \in Seq(Others)
      BY <2>1, <3>1
    <3>3. Maps(OfOthers, v) = o \o l /\ o \o l \in Seq(Others)
      BY <2>3, <3>1, <3>2, ConcatProperties
    <3> QED  BY <1>2, <2>1, <2>2, <2>4, <3>3
  <2>6. CASE e.role = "system"
    <3>1. OfOthers[e] = <<>>
      BY <2>6 DEF OfOthers, OwnMessages
    <3>2. Maps(OfOthers, v) = o
      BY <1>1, <2>3, <3>1, EmptyEnds
    <3>3. ASSUME NEW rest \in S, Paired(v \o rest) PROVE Paired(o \o rest)
      <4>1. Paired((o \o <<e>>) \o rest)
        BY <2>1, <2>4, <3>3
      <4>2. e.role # "tool" /\ e.calls = <<>>
        BY <2>6 DEF OwnMessages
      <4> QED  BY <1>1, <2>3, <4>1, <4>2, Dropping
    <3> QED  BY <1>2, <2>1, <2>2, <2>3, <3>2, <3>3
  <2> QED  BY <2>5, <2>6
<1>6. ms \in T
  BY <1>1, <1>4, <1>5, ListInduction
<1>7. PICK o : o = Maps(OfOthers, ms)
  OBVIOUS
<1>8. o \in Seq(Others) /\ \A rest \in S : Paired(ms \o rest) => Paired(o \o rest)
  BY <1>2, <1>6, <1>7
<1>9. <<>> \in S /\ ms \o <<>> = ms /\ o \o <<>> = o
  BY <1>1, <1>3, <1>8, EmptyEnds, EmptyMessages
<1> QED  BY <1>7, <1>8, <1>9

(* And one that neither calls nor answers may say something else.          *)
LEMMA Replacing ==
  ASSUME NEW x, NEW l, NEW j, NEW y, x \in Seq(OwnMessages), l \in OwnMessages, j \in OwnMessages,
         y \in Seq(OwnMessages), Paired((x \o <<l>>) \o y), l.role # "tool", j.role # "tool", l.calls = <<>>, j.calls = <<>>
  PROVE  Paired((x \o <<j>>) \o y)
<1>1. PICK u, v, a, b, s, t, p, q : /\ u = <<l>> /\ v = <<j>> /\ a = x \o u /\ b = x \o v /\ s = a \o y /\ t = b \o y
                                    /\ p = Len(x) /\ q = Len(y)
  OBVIOUS
<1>2. p \in Nat /\ q \in Nat
  BY <1>1
<1>3. u \in Seq(OwnMessages) /\ Len(u) = 1 /\ u[1] = l /\ v \in Seq(OwnMessages) /\ Len(v) = 1 /\ v[1] = j
  BY <1>1
<1>4. a \in Seq(OwnMessages) /\ Len(a) = p + 1 /\ \A i \in 1..(p + 1) : a[i] = IF i <= p THEN x[i] ELSE u[i - p]
  BY <1>1, <1>3, ConcatProperties
<1>5. b \in Seq(OwnMessages) /\ Len(b) = p + 1 /\ \A i \in 1..(p + 1) : b[i] = IF i <= p THEN x[i] ELSE v[i - p]
  BY <1>1, <1>3, ConcatProperties
<1>6. s \in Seq(OwnMessages) /\ Len(s) = p + 1 + q /\ \A i \in 1..(p + 1 + q) : s[i] = IF i <= p + 1 THEN a[i] ELSE y[i - (p + 1)]
  BY <1>1, <1>4, ConcatProperties
<1>7. t \in Seq(OwnMessages) /\ Len(t) = p + 1 + q /\ \A i \in 1..(p + 1 + q) : t[i] = IF i <= p + 1 THEN b[i] ELSE y[i - (p + 1)]
  BY <1>1, <1>5, ConcatProperties
<1>8. DOMAIN s = 1..(p + 1 + q) /\ DOMAIN t = 1..(p + 1 + q)
  BY <1>6, <1>7
<1>9. ASSUME NEW i \in DOMAIN s
      PROVE  /\ t[i].calls = s[i].calls /\ (t[i].role = "tool" <=> s[i].role = "tool")
             /\ s[i].role = "tool" => t[i].answers = s[i].answers
  <2>0. i \in 1..(p + 1 + q)
    BY <1>8
  <2>1. CASE i <= p
    <3>1. i \in 1..(p + 1) /\ i <= p + 1
      BY <1>2, <2>0, <2>1
    <3>2. s[i] = x[i] /\ t[i] = x[i]
      BY <1>4, <1>5, <1>6, <1>7, <2>0, <2>1, <3>1
    <3> QED  BY <3>2
  <2>2. CASE i = p + 1
    <3>1. i \in 1..(p + 1) /\ i <= p + 1 /\ ~(i <= p) /\ i - p = 1
      BY <1>2, <2>0, <2>2
    <3>2. s[i] = l /\ t[i] = j
      BY <1>3, <1>4, <1>5, <1>6, <1>7, <2>0, <3>1
    <3> QED  BY <3>2
  <2>3. CASE ~(i <= p + 1)
    <3>1. s[i] = y[i - (p + 1)] /\ t[i] = y[i - (p + 1)]
      BY <1>6, <1>7, <2>0, <2>3
    <3> QED  BY <3>1
  <2>4. i <= p \/ i = p + 1 \/ ~(i <= p + 1)
    BY <1>2, <2>0
  <2> QED  BY <2>1, <2>2, <2>3, <2>4
<1>10. Paired(s)
  BY <1>1
<1>11. Paired(t)
  BY <1>6, <1>7, <1>8, <1>9, <1>10, PairedAlike
<1> QED  BY <1>1, <1>11

(* One message after those already merged.                                 *)
Merged(done, m) ==
  IF done # <<>> /\ Talk!canMergeAdjacentMessages(Talk!Last(done), m)
    THEN Talk!Front(done) \o <<Talk!Joined(Talk!Last(done), m)>>
    ELSE Append(done, m)

Merges == [p \in Seq(Others) \X Others |-> Merged(p[1], p[2])]

(* Merging a message keeps what users say, and the answers in place.       *)
LEMMA MergedKeeps ==
  ASSUME NEW d, d \in Seq(Others), NEW e, e \in Others
  PROVE  /\ Merged(d, e) \in Seq(Others)
         /\ Maps(OfUser, Merged(d, e)) = Maps(OfUser, d) \o OfUser[e]
         /\ \A rest \in Seq(OwnMessages) : Paired((d \o <<e>>) \o rest) => Paired(Merged(d, e) \o rest)
<1>1. Others \subseteq OwnMessages /\ Seq(Others) \subseteq Seq(OwnMessages) /\ OwnMessages \subseteq AnyMessages
  BY DEF Others, OwnMessages
<1>2. /\ \A s, t \in Seq(OwnMessages) : Maps(OfUser, s \o t) = Maps(OfUser, s) \o Maps(OfUser, t)
      /\ \A s \in Seq(OwnMessages) : Maps(OfUser, s) \in Seq(Int)
      /\ \A m \in OwnMessages : Maps(OfUser, <<m>>) = OfUser[m]
  <2>1. MapLaws(OfUser, OwnMessages, Int)
    BY <1>1, MessageLaws, LawsOfFewer
  <2> QED  BY <2>1 DEF MapLaws
<1>3. CASE d # <<>> /\ Talk!canMergeAdjacentMessages(Talk!Last(d), e)
  <2>1. PICK n, f, l, j, u, v : /\ n = Len(d) /\ f = SubSeq(d, 1, n - 1) /\ l = d[n] /\ j = Talk!Joined(l, e)
                                /\ u = <<l>> /\ v = <<j>>
    OBVIOUS
  <2>2. Talk!Last(d) = l /\ Talk!Front(d) = f
    BY <2>1, Zenon DEF Talk!Last, Talk!Front
  <2>3. n \in Nat /\ n # 0 /\ n \in 1..n
    <3>1. n \in Nat /\ n # 0
      BY <1>3, <2>1, EmptySeq
    <3> QED  BY <3>1
  <2>4. l \in Others /\ f \in Seq(Others)
    <3>1. \A i \in 1..n : d[i] \in Others
      BY <2>1
    <3>2. \A i \in 1..(n - 1) : d[i] \in Others
      BY <2>3, <3>1
    <3>3. 1 \in Int /\ n - 1 \in Int
      BY <2>3
    <3> QED  BY <2>1, <2>3, <3>1, <3>2, <3>3, SubSeqProperties
  <2>5. d = f \o u
    <3>1. 1 \in 1..Len(d) /\ n \in 1..Len(d)
      BY <2>1, <2>3
    <3>2. SubSeq(d, 1, n) = SubSeq(d, 1, n - 1) \o <<d[n]>>
      BY <2>1, <3>1, SubSeqRecursiveSecond
    <3>3. SubSeq(d, 1, n) = d
      BY <2>1, SubSeqFull
    <3> QED  BY <2>1, <3>2, <3>3
  <2>6. l.role = e.role /\ l.role \in {"user", "assistant"} /\ l.calls = <<>> /\ e.calls = <<>>
    BY <1>3, <2>2 DEF Talk!canMergeAdjacentMessages
  <2>7. l.text \in Seq(Int) /\ e.text \in Seq(Int)
    BY <2>4 DEF Others, OwnMessages, AnyMessages
  <2>8. PICK x : x = l.text \o e.text
    OBVIOUS
  <2>9. x \in Seq(Int)
    BY <2>7, <2>8, ConcatProperties
  <2>10. j = [role |-> l.role, text |-> x, calls |-> <<>>, answers |-> NoId]
    BY <2>1, <2>8, Zenon DEF Talk!Joined, Talk!Text, Talk!Message, NoId
  <2>11. j \in Others
    <3>1. <<>> \in Seq(Int) /\ NoId \in Int /\ Numbered(<<>>)
      BY DEF NoId, Talk!NoId, Numbered
    <3>2. j \in AnyMessages /\ j.role # "tool" /\ j.calls = <<>> /\ j.role # "system"
      BY <2>6, <2>9, <2>10, <3>1 DEF AnyMessages
    <3> QED  BY <3>1, <3>2 DEF Others, OwnMessages
  <2>12. Merged(d, e) = f \o v
    BY <1>3, <2>1, <2>2, Zenon DEF Merged
  <2>13. u \in Seq(Others) /\ v \in Seq(Others)
    BY <2>1, <2>4, <2>11
  <2>14. f \o v \in Seq(Others)
    BY <2>4, <2>13, ConcatProperties
  <2>15. OfUser[j] = OfUser[l] \o OfUser[e] /\ OfUser[l] \in Seq(Int) /\ OfUser[e] \in Seq(Int)
    <3>1. j \in AnyMessages /\ l \in AnyMessages /\ e \in AnyMessages
      BY <1>1, <2>4, <2>11
    <3>2. OfUser[j] = (IF j.role = "user" THEN j.text ELSE <<>>) /\ OfUser[l] = (IF l.role = "user" THEN l.text ELSE <<>>)
          /\ OfUser[e] = (IF e.role = "user" THEN e.text ELSE <<>>)
      BY <3>1 DEF OfUser
    <3>3. j.role = l.role /\ j.text = x
      BY <2>10
    <3>4. <<>> \in Seq(Int) /\ <<>> \o <<>> = <<>>
      OBVIOUS
    <3> QED  BY <2>6, <2>7, <2>8, <3>2, <3>3, <3>4, Zenon
  <2>16. Maps(OfUser, f \o v) = Maps(OfUser, d) \o OfUser[e]
    <3>1. f \in Seq(OwnMessages) /\ u \in Seq(OwnMessages) /\ v \in Seq(OwnMessages) /\ l \in OwnMessages /\ j \in OwnMessages
      BY <1>1, <2>4, <2>11, <2>13
    <3>2. PICK a : a = Maps(OfUser, f)
      OBVIOUS
    <3>3. a \in Seq(Int) /\ Maps(OfUser, f \o v) = a \o OfUser[j] /\ Maps(OfUser, d) = a \o OfUser[l]
      <4>1. Maps(OfUser, u) = OfUser[l] /\ Maps(OfUser, v) = OfUser[j]
        BY <1>2, <2>1, <3>1, Zenon
      <4>2. Maps(OfUser, f \o v) = a \o Maps(OfUser, v) /\ Maps(OfUser, d) = a \o Maps(OfUser, u)
        BY <1>2, <2>5, <3>1, <3>2, Zenon
      <4>3. a \in Seq(Int)
        BY <1>2, <3>1, <3>2, Zenon
      <4> QED  BY <4>1, <4>2, <4>3, Zenon
    <3>4. (a \o OfUser[l]) \o OfUser[e] = a \o (OfUser[l] \o OfUser[e])
      <4>1. PICK b, c : b = OfUser[l] /\ c = OfUser[e]
        OBVIOUS
      <4>2. PICK I : I = Seq(Int)
        OBVIOUS
      <4>3. a \in I /\ b \in I /\ c \in I
        BY <2>15, <3>3, <4>1, <4>2, Zenon
      <4>4. PICK N : N = Int
        OBVIOUS
      <4>5. a \in Seq(N) /\ b \in Seq(N) /\ c \in Seq(N)
        BY <4>2, <4>3, <4>4, Zenon
      <4>6. (a \o b) \o c = a \o (b \o c)
        BY ONLY <4>5, Associates
      <4> QED  BY <4>1, <4>6
    <3> QED  BY <2>15, <3>3, <3>4, Zenon
  <2>17. ASSUME NEW rest \in Seq(OwnMessages), Paired((d \o <<e>>) \o rest) PROVE Paired((f \o v) \o rest)
    <3>1. e \in OwnMessages /\ d \in Seq(OwnMessages) /\ e.role # "tool"
      BY <1>1, <2>6
    <3>2. Paired(d \o rest)
      BY <2>6, <2>17, <3>1, Dropping
    <3>3. Paired((f \o <<l>>) \o rest)
      BY <2>1, <2>5, <3>2
    <3>4. l \in OwnMessages /\ j \in OwnMessages /\ f \in Seq(OwnMessages) /\ l.role # "tool" /\ j.role # "tool" /\ j.calls = <<>>
      BY <1>1, <2>4, <2>6, <2>10, <2>11
    <3>5. Paired((f \o <<j>>) \o rest)
      BY <2>6, <3>3, <3>4, Replacing
    <3> QED  BY <2>1, <3>5
  <2> QED  BY <2>12, <2>14, <2>16, <2>17, Zenon
<1>4. CASE ~(d # <<>> /\ Talk!canMergeAdjacentMessages(Talk!Last(d), e))
  <2>1. Merged(d, e) = Append(d, e)
    BY <1>4, Zenon DEF Merged
  <2>2. PICK v, u : v = Append(d, e) /\ u = <<e>>
    OBVIOUS
  <2>3. v = d \o u /\ v \in Seq(Others)
    BY <2>2, AppendIsConcat, AppendProperties
  <2>4. d \in Seq(OwnMessages) /\ e \in OwnMessages /\ u \in Seq(OwnMessages)
    BY <1>1, <2>2
  <2>5. Maps(OfUser, v) = Maps(OfUser, d) \o OfUser[e]
    BY <1>2, <2>2, <2>3, <2>4
  <2> QED  BY <2>1, <2>2, <2>3, <2>5
<1> QED  BY <1>3, <1>4

(* Merging is a fold.                                                      *)
LEMMA MergeIsFolded ==
  ASSUME NEW w, w \in Seq(Others)
  PROVE  Talk!mergeConversationTurns(w) = Folded(w, Seq(Others), <<>>, Merges)
<1> DEFINE Says(g) == g = [s \in SUBSET (DOMAIN w) |->
                             IF s = {} THEN <<>> ELSE Merged(g[s \ {Greatest(s)}], w[Greatest(s)])]
<1>1. Talk!mergeConversationTurns(w) = (CHOOSE g : Says(g))[DOMAIN w]
  BY Zenon DEF Talk!mergeConversationTurns, Talk!FoldLeft, Talk!MapThenFoldSet, Talk!Max, Greatest, Merged
<1>2. PICK S : S = Seq(Others)
  OBVIOUS
<1>3. <<>> \in S /\ Merges \in [S \X Others -> S] /\ \A d \in S, e \in Others : Merges[<<d, e>>] = Merged(d, e)
  <2>1. ASSUME NEW p \in S \X Others PROVE Merged(p[1], p[2]) \in S
    BY <1>2, MergedKeeps
  <2>2. Merges = [p \in S \X Others |-> Merged(p[1], p[2])]
    BY <1>2 DEF Merges
  <2>3. <<>> \in S
    BY <1>2
  <2> QED  BY <2>1, <2>2, <2>3
<1>4. PICK g \in [SUBSET (DOMAIN w) -> S] : FoldsBack(g, w, S, <<>>, Merges)
  BY <1>3, FoldExists
<1>5. \A s \in SUBSET (DOMAIN w) : s # {} => Greatest(s) \in s
  BY HasGreatest
<1>5a. \A i \in DOMAIN w : w[i] \in Others
  OBVIOUS
<1>6. Says(g)
  <2>1. ASSUME NEW s \in SUBSET (DOMAIN w)
        PROVE  g[s] = IF s = {} THEN <<>> ELSE Merged(g[s \ {Greatest(s)}], w[Greatest(s)])
    <3>1. CASE s = {}
      BY <1>4, <3>1 DEF FoldsBack
    <3>2. CASE s # {}
      <4>1. PICK x : x = Greatest(s)
        OBVIOUS
      <4>2. x \in DOMAIN w /\ s \ {x} \in SUBSET (DOMAIN w)
        BY <1>5, <3>2, <4>1
      <4>3. g[s \ {x}] \in S /\ w[x] \in Others
        BY <1>4, <1>5a, <4>2
      <4>4. g[s] = Merges[<<g[s \ {x}], w[x]>>]
        BY <1>4, <3>2, <4>1, <4>3 DEF FoldsBack
      <4> QED  BY <1>3, <3>2, <4>1, <4>3, <4>4
    <3> QED  BY <3>1, <3>2
  <2>2. g = [s \in SUBSET (DOMAIN w) |-> g[s]]
    BY <1>4
  <2> QED  BY <2>1, <2>2, Zenon
<1>7. PICK c : c = CHOOSE h : Says(h)
  OBVIOUS
<1>8. Says(c)
  <2> HIDE DEF Says
  <2> QED  BY <1>6, <1>7, Zenon
<1>9. FoldsBack(c, w, S, <<>>, Merges)
  <2>1. c[{}] = <<>>
    BY <1>8
  <2>2. ASSUME NEW s \in SUBSET (DOMAIN w), s # {}, c[s \ {Greatest(s)}] \in S
        PROVE  c[s] = Merges[<<c[s \ {Greatest(s)}], w[Greatest(s)]>>]
    <3>1. PICK x : x = Greatest(s)
      OBVIOUS
    <3>2. x \in DOMAIN w /\ w[x] \in Others
      BY <1>5, <1>5a, <2>2, <3>1
    <3>3. c[s] = Merged(c[s \ {x}], w[x])
      BY <1>8, <2>2, <3>1
    <3> HIDE DEF Says
    <3> QED  BY <1>3, <2>2, <3>1, <3>2, <3>3
  <2> QED  BY <2>1, <2>2 DEF FoldsBack
<1>10. Folded(w, S, <<>>, Merges) = c[DOMAIN w]
  <2>1. Steps(Merges, S, Others) /\ <<>> \in S
    BY <1>3 DEF Steps
  <2>2. c[DOMAIN w] = Folded(w, S, <<>>, Merges)
    BY <1>9, <2>1, FoldIsLoop
  <2> QED  BY <2>2
<1> QED  BY <1>1, <1>2, <1>7, <1>10, Zenon

(* Merging loses nothing, and calls stay answered.                         *)
LEMMA MergeLaws ==
  ASSUME NEW w, w \in Seq(Others)
  PROVE  /\ Talk!mergeConversationTurns(w) \in Seq(Others)
         /\ Paired(w) => Paired(Talk!mergeConversationTurns(w))
         /\ Maps(OfUser, Talk!mergeConversationTurns(w)) = Maps(OfUser, w)
<1>1. PICK S, R : S = Seq(Others) /\ R = Seq(OwnMessages)
  OBVIOUS
<1>2. Others \subseteq OwnMessages /\ S \subseteq R /\ OwnMessages \subseteq AnyMessages /\ R \subseteq Seq(AnyMessages)
  BY <1>1, MessageLaws DEF Others
<1>3. /\ Folded(<<>>, S, <<>>, Merges) = <<>>
      /\ \A v \in S : Folded(v, S, <<>>, Merges) \in S
      /\ \A v \in S, e \in Others : Folded(Append(v, e), S, <<>>, Merges) = Merged(Folded(v, S, <<>>, Merges), e)
  <2>1. Merges \in [S \X Others -> S] /\ <<>> \in S /\ \A d \in S, e \in Others : Merges[<<d, e>>] = Merged(d, e)
    <3>1. ASSUME NEW p \in S \X Others PROVE Merged(p[1], p[2]) \in S
      BY <1>1, MergedKeeps
    <3>2. Merges = [p \in S \X Others |-> Merged(p[1], p[2])]
      BY <1>1 DEF Merges
    <3>3. <<>> \in S
      BY <1>1
    <3> QED  BY <3>1, <3>2, <3>3
  <2>2. LoopLaws(Others, S, <<>>, Merges)
    <3>1. Steps(Merges, S, Others) /\ <<>> \in S
      BY <2>1 DEF Steps
    <3>2. PICK E, c, b : E = Others /\ c = Merges /\ b = <<>>
      OBVIOUS
    <3>3. Steps(c, S, E) /\ b \in S
      BY <3>1, <3>2
    <3>4. LoopLaws(E, S, b, c)
      BY ONLY <3>3, FoldedLaws
    <3> QED  BY <3>2, <3>4
  <2>3. /\ Folded(<<>>, S, <<>>, Merges) = <<>>
        /\ \A v \in Seq(Others) : Folded(v, S, <<>>, Merges) \in S
        /\ \A v \in Seq(Others), e \in Others :
             Folded(Append(v, e), S, <<>>, Merges) = Merges[<<Folded(v, S, <<>>, Merges), e>>]
    BY <2>2, Zenon DEF LoopLaws
  <2>4. ASSUME NEW v \in S, NEW e \in Others
        PROVE  Folded(Append(v, e), S, <<>>, Merges) = Merged(Folded(v, S, <<>>, Merges), e)
    <3>1. v \in Seq(Others)
      BY <1>1
    <3>2. Folded(v, S, <<>>, Merges) \in S
      BY <2>3, <3>1, Zenon
    <3>3. Merges[<<Folded(v, S, <<>>, Merges), e>>] = Merged(Folded(v, S, <<>>, Merges), e)
      BY <2>1, <3>2, Zenon
    <3> QED  BY <2>3, <3>1, <3>3, Zenon
  <2>5. \A v \in S : Folded(v, S, <<>>, Merges) \in S
    BY <1>1, <2>3, Zenon
  <2> QED  BY <2>3, <2>4, <2>5, Zenon
<1>4. PICK F : F = [v \in S |-> Folded(v, S, <<>>, Merges)]
  OBVIOUS
<1>5. F[<<>>] = <<>> /\ (\A v \in S : F[v] \in S) /\ \A v \in S, e \in Others : F[Append(v, e)] = Merged(F[v], e)
  <2>1. <<>> \in S /\ \A v \in S, e \in Others : Append(v, e) \in S
    BY <1>1
  <2> QED  BY <1>3, <1>4, <2>1
<1>6. PICK T : T = {v \in S : Maps(OfUser, F[v]) = Maps(OfUser, v) /\
                              \A rest \in R : Paired(v \o rest) => Paired(F[v] \o rest)}
  OBVIOUS
<1>7. <<>> \in T
  <2>1. <<>> \in S
    BY <1>1
  <2> QED  BY <1>5, <1>6, <2>1, Zenon
<1>8. ASSUME NEW v \in S, NEW e \in Others, v \in T PROVE Append(v, e) \in T
  <2>1. PICK a, u, d : a = Append(v, e) /\ u = <<e>> /\ d = F[v]
    OBVIOUS
  <2>2. v \in Seq(OwnMessages) /\ e \in OwnMessages /\ d \in Seq(OwnMessages) /\ d \in Seq(Others) /\ u \in Seq(OwnMessages)
    <3>1. v \in R /\ e \in OwnMessages /\ d \in S /\ d \in R
      BY <1>2, <1>5, <2>1
    <3>2. u \in Seq(OwnMessages)
      BY <2>1, <3>1
    <3> QED  BY <1>1, <3>1, <3>2, Zenon
  <2>3. a = v \o u /\ a \in S
    <3>1. v \in Seq(Others)
      BY <1>1
    <3> QED  BY <1>1, <2>1, <3>1, AppendIsConcat, AppendProperties
  <2>4. F[a] = Merged(d, e)
    BY <1>5, <2>1
  <2>5. Maps(OfUser, Merged(d, e)) = Maps(OfUser, d) \o OfUser[e]
    BY <2>2, MergedKeeps
  <2>6. Maps(OfUser, a) = Maps(OfUser, v) \o OfUser[e]
    <3>1. v \in Seq(AnyMessages) /\ e \in AnyMessages
      BY <1>2, <2>2, MessageLaws
    <3> QED  BY <2>1, <3>1, MessageLaws DEF MapLaws
  <2>7. Maps(OfUser, d) = Maps(OfUser, v) /\ \A rest \in R : Paired(v \o rest) => Paired(d \o rest)
    BY <1>6, <1>8, <2>1
  <2>8. ASSUME NEW rest \in R, Paired(a \o rest) PROVE Paired(F[a] \o rest)
    <3>1. rest \in Seq(OwnMessages)
      BY <1>1
    <3>2. (v \o u) \o rest = v \o (u \o rest)
      BY <2>2, <3>1, Associates
    <3>3. (d \o u) \o rest = d \o (u \o rest)
      <4>1. d \in Seq(OwnMessages) /\ u \in Seq(OwnMessages) /\ rest \in Seq(OwnMessages)
        BY <2>2, <3>1, Zenon
      <4> QED  BY ONLY <4>1, Associates
    <3>4. u \o rest \in R
      BY <1>1, <2>2, <3>1, ConcatProperties
    <3>5. Paired((d \o <<e>>) \o rest)
      BY <2>1, <2>3, <2>7, <2>8, <3>2, <3>3, <3>4
    <3> QED  BY <2>2, <2>4, <3>1, <3>5, MergedKeeps
  <2> QED  BY <1>6, <2>1, <2>3, <2>4, <2>5, <2>6, <2>7, <2>8
<1>9. w \in T
  BY <1>1, <1>7, <1>8, ListInduction
<1>10. PICK m : m = Talk!mergeConversationTurns(w)
  OBVIOUS
<1>11. m = F[w] /\ m \in S
  <2>1. w \in S
    BY <1>1
  <2>2. m = Folded(w, S, <<>>, Merges)
    BY <1>1, <1>10, MergeIsFolded
  <2> QED  BY <1>4, <1>5, <2>1, <2>2
<1>12. Paired(w) => Paired(m)
  <2>1. <<>> \in R /\ w \o <<>> = w /\ m \o <<>> = m
    <3>1. w \in Seq(Others) /\ m \in Seq(Others) /\ <<>> \in R
      BY <1>1, <1>11
    <3> QED  BY <3>1, EmptyEnds
  <2> QED  BY <1>6, <1>9, <1>11, <2>1
<1>13. Maps(OfUser, m) = Maps(OfUser, w)
  BY <1>6, <1>9, <1>11
<1> QED  BY <1>1, <1>10, <1>11, <1>12, <1>13

(* What a turn a provider is sent says, calls and answers: what the        *)
(* message it is made of does, ids changed by h.                           *)
Conveys(C, h) ==
  \A m \in Others :
    /\ C[m] \in AnyTurns
    /\ UserSays[C[m]] = OfUser[m]
    /\ Talk!Of("call", C[m].blocks) = Images(h, m.calls)
    /\ Talk!Of("result", C[m].blocks) = IF m.role = "tool" THEN <<h[m.answers]>> ELSE <<>>

OwnOf(m) ==
  IF m.role = "tool" THEN Talk!Turn("user", <<Talk!Block("result", m.answers)>>)
  ELSE Talk!Turn(m.role, Talk!Blocks("text", m.text) \o Talk!Blocks("call", m.calls))

GeminiOf(m) ==
  CASE m.role = "assistant" -> Talk!openAIAssistantToGemini(m)
    [] m.role = "tool"      -> Talk!openAIToolToGemini(m)
    [] OTHER                -> Talk!openAIMessageToGeminiUser(m)

OthersTyped(m) ==
  /\ m \in AnyMessages /\ m.text \in Seq(Int) /\ m.calls \in Seq(Int) /\ m.answers \in Int
  /\ m.role \in {"user", "assistant", "tool"}
  /\ m.role = "tool" => m.text = <<>> /\ m.calls = <<>>
  /\ m.calls # <<>> => m.role = "assistant"

(* All messages but those of the system have a type.                       *)
LEMMA OthersAreTyped == \A m \in Others : OthersTyped(m) /\ OfUser[m] = IF m.role = "user" THEN m.text ELSE <<>>
<1>1. ASSUME NEW m \in Others PROVE OthersTyped(m)
  BY DEF Others, OwnMessages, AnyMessages, OthersTyped
<1>2. ASSUME NEW m \in Others PROVE OfUser[m] = IF m.role = "user" THEN m.text ELSE <<>>
  BY <1>1 DEF OthersTyped, OfUser
<1> QED  BY <1>1, <1>2

(* A turn of texts and calls.                                              *)
LEMMA TurnOfBoth ==
  ASSUME NEW role \in {"user", "assistant"}, NEW text \in Seq(Int), NEW calls \in Seq(Int),
         NEW t, t = Talk!Turn(role, Talk!Blocks("text", text) \o Talk!Blocks("call", calls))
  PROVE  /\ t \in AnyTurns /\ t.role = role
         /\ Talk!Of("text", t.blocks) = text /\ Talk!Of("call", t.blocks) = calls /\ Talk!Of("result", t.blocks) = <<>>
         /\ UserSays[t] = IF role = "user" THEN text ELSE <<>>
<1>1. PICK a, b : a = Talk!Blocks("text", text) /\ b = Talk!Blocks("call", calls)
  OBVIOUS
<1>2. /\ a \in Seq(AnyBlocks) /\ b \in Seq(AnyBlocks)
      /\ \A other : Talk!Of(other, a) = IF other = "text" THEN text ELSE <<>>
      /\ \A other : Talk!Of(other, b) = IF other = "call" THEN calls ELSE <<>>
  BY <1>1, OfBlocks
<1>3. a \o b \in Seq(AnyBlocks)
  BY <1>2, ConcatProperties
<1>4. t = [role |-> role, blocks |-> a \o b]
  BY <1>1 DEF Talk!Turn
<1>5. t \in AnyTurns /\ t.role = role /\ t.blocks = a \o b
  <2>1. PICK B : B = Seq(AnyBlocks)
    OBVIOUS
  <2>2. AnyTurns = [role : {"user", "assistant"}, blocks : B]
    BY <2>1 DEF AnyTurns
  <2>3. PICK c, r : c = a \o b /\ r = role
    OBVIOUS
  <2>4. c \in B /\ r \in {"user", "assistant"} /\ t = [role |-> r, blocks |-> c]
    BY <1>3, <1>4, <2>1, <2>3
  <2>5. t \in [role : {"user", "assistant"}, blocks : B] /\ t.role = r /\ t.blocks = c
    BY ONLY <2>4
  <2> QED  BY <2>2, <2>3, <2>5
<1>6. \A other : Talk!Of(other, a \o b) = Talk!Of(other, a) \o Talk!Of(other, b)
  BY <1>2, OfLaws
<1>7. text \o <<>> = text /\ <<>> \o calls = calls /\ <<>> \o <<>> = <<>>
  BY EmptyEnds
<1>8. Talk!Of("text", a \o b) = text /\ Talk!Of("call", a \o b) = calls /\ Talk!Of("result", a \o b) = <<>>
  BY <1>2, <1>6, <1>7
<1>9. UserSays[t] = IF t.role = "user" THEN Talk!Of("text", t.blocks) ELSE <<>>
  BY <1>5 DEF UserSays
<1> QED  BY <1>5, <1>8, <1>9

(* A turn of one block that is not a text, and says nothing.               *)
LEMMA TurnOfOne ==
  ASSUME NEW kind \in {"result", "output"}, NEW of \in Int,
         NEW t, t = Talk!Turn("user", <<Talk!Block(kind, of)>>)
  PROVE  /\ t \in AnyTurns /\ t.role = "user" /\ UserSays[t] = <<>> /\ Talk!Of("call", t.blocks) = <<>>
         /\ Talk!Of("result", t.blocks) = IF kind = "result" THEN <<of>> ELSE <<>>
<1>1. PICK b : b = Talk!Block(kind, of)
  OBVIOUS
<1>2. b \in AnyBlocks /\ b.kind = kind /\ b.of = of
  BY <1>1 DEF Talk!Block, AnyBlocks
<1>3. t = [role |-> "user", blocks |-> <<b>>]
  BY <1>1 DEF Talk!Turn
<1>4. t \in AnyTurns /\ t.role = "user" /\ t.blocks = <<b>>
  <2>1. PICK B : B = Seq(AnyBlocks)
    OBVIOUS
  <2>2. AnyTurns = [role : {"user", "assistant"}, blocks : B]
    BY <2>1 DEF AnyTurns
  <2>3. <<b>> \in B
    BY <1>2, <2>1
  <2> QED  BY <1>3, <2>2, <2>3
<1>5. ASSUME NEW other PROVE Talk!Of(other, <<b>>) = IF kind = other THEN <<of>> ELSE <<>>
  <2>1. <<b>> \in Seq(AnyBlocks)
    BY <1>2
  <2>2. Talk!Of(other, <<b>>) = Maps(OfKind(other), <<b>>)
    BY <2>1, OfIsMaps
  <2>3. Maps(OfKind(other), <<b>>) = OfKind(other)[b]
    BY <1>2, OfIsMaps DEF MapLaws
  <2>4. OfKind(other)[b] = IF b.kind = other THEN <<b.of>> ELSE <<>>
    BY <1>2 DEF OfKind
  <2> QED  BY <1>2, <2>2, <2>3, <2>4
<1>6. UserSays[t] = Talk!Of("text", t.blocks)
  BY <1>4 DEF UserSays
<1> QED  BY <1>4, <1>5, <1>6

Same == [x \in Int |-> x]
ToNoId == [x \in Int |-> NoId]

(* Ids kept and ids dropped.                                               *)
LEMMA ImagesOfIds ==
  ASSUME NEW ids, ids \in Seq(Int)
  PROVE  /\ Images(Same, ids) = ids
         /\ Images(ToNoId, ids) \in Seq(Int) /\ Images(ToNoId, ids) = [i \in DOMAIN ids |-> NoId]
         /\ Images(Same, <<>>) = <<>> /\ Images(ToNoId, <<>>) = <<>>
<1>1. PICK N : N = Int
  OBVIOUS
<1>2. \A i \in DOMAIN ids : ids[i] \in N
  BY <1>1
<1>3. Images(Same, ids) = [i \in DOMAIN ids |-> ids[i]] /\ Images(ToNoId, ids) = [i \in DOMAIN ids |-> NoId]
  BY <1>1, <1>2 DEF Images, Same, ToNoId
<1>4. ids = [i \in DOMAIN ids |-> ids[i]]
  OBVIOUS
<1>5. Images(Same, <<>>) = <<>> /\ Images(ToNoId, <<>>) = <<>>
  BY DEF Images
<1>6. [i \in DOMAIN ids |-> NoId] \in Seq(Int)
  BY DEF NoId, Talk!NoId
<1> QED  BY <1>3, <1>4, <1>5, <1>6

(* The turns of OpenAI's and Anthropic's requests are such ...             *)
LEMMA OwnConveys == Conveys([m \in Others |-> OwnOf(m)], Same)
<1>1. ASSUME NEW m \in Others
      PROVE  LET t == OwnOf(m)
             IN  /\ t \in AnyTurns /\ UserSays[t] = OfUser[m] /\ Talk!Of("call", t.blocks) = Images(Same, m.calls)
                 /\ Talk!Of("result", t.blocks) = IF m.role = "tool" THEN <<Same[m.answers]>> ELSE <<>>
  <2>1. OthersTyped(m) /\ OfUser[m] = IF m.role = "user" THEN m.text ELSE <<>>
    BY OthersAreTyped
  <2>2. PICK t : t = OwnOf(m)
    OBVIOUS
  <2>3. Images(Same, m.calls) = m.calls /\ Same[m.answers] = m.answers
    BY <2>1, ImagesOfIds DEF OthersTyped, Same
  <2>4. CASE m.role = "tool"
    <3>1. t = Talk!Turn("user", <<Talk!Block("result", m.answers)>>)
      BY <2>2, <2>4, Zenon DEF OwnOf
    <3>2. m.answers \in Int /\ m.calls = <<>>
      BY <2>1, <2>4 DEF OthersTyped
    <3>3. /\ t \in AnyTurns /\ UserSays[t] = <<>> /\ Talk!Of("call", t.blocks) = <<>>
          /\ Talk!Of("result", t.blocks) = <<m.answers>>
      BY <3>1, <3>2, TurnOfOne
    <3> QED  BY <2>1, <2>2, <2>3, <2>4, <3>2, <3>3
  <2>5. CASE m.role # "tool"
    <3>1. t = Talk!Turn(m.role, Talk!Blocks("text", m.text) \o Talk!Blocks("call", m.calls))
      BY <2>2, <2>5, Zenon DEF OwnOf
    <3>2. m.role \in {"user", "assistant"} /\ m.text \in Seq(Int) /\ m.calls \in Seq(Int)
      BY <2>1, <2>5 DEF OthersTyped
    <3>3. /\ t \in AnyTurns /\ UserSays[t] = (IF m.role = "user" THEN m.text ELSE <<>>)
          /\ Talk!Of("call", t.blocks) = m.calls /\ Talk!Of("result", t.blocks) = <<>>
      BY <3>1, <3>2, TurnOfBoth
    <3> QED  BY <2>1, <2>2, <2>3, <2>5, <3>3
  <2> QED  BY <2>4, <2>5
<1> QED  BY <1>1 DEF Conveys

(* ... and so are Gemini's, without ids.                                   *)
LEMMA GeminiConveys == Conveys([m \in Others |-> GeminiOf(m)], ToNoId)
<1>1. ASSUME NEW m \in Others
      PROVE  LET t == GeminiOf(m)
             IN  /\ t \in AnyTurns /\ UserSays[t] = OfUser[m] /\ Talk!Of("call", t.blocks) = Images(ToNoId, m.calls)
                 /\ Talk!Of("result", t.blocks) = IF m.role = "tool" THEN <<ToNoId[m.answers]>> ELSE <<>>
  <2>1. OthersTyped(m) /\ OfUser[m] = IF m.role = "user" THEN m.text ELSE <<>>
    BY OthersAreTyped
  <2>2. PICK t, c : t = GeminiOf(m) /\ c = Images(ToNoId, m.calls)
    OBVIOUS
  <2>3. /\ c \in Seq(Int) /\ c = [i \in DOMAIN m.calls |-> NoId] /\ (m.calls = <<>> => c = <<>>)
        /\ ToNoId[m.answers] = NoId /\ NoId \in Int
    BY <2>1, <2>2, ImagesOfIds DEF OthersTyped, ToNoId, NoId, Talk!NoId
  <2>4. CASE m.role = "tool"
    <3>1. t = Talk!Turn("user", <<Talk!Block("result", NoId)>>)
      BY <2>2, <2>4 DEF GeminiOf, Talk!openAIToolToGemini, NoId
    <3>2. m.calls = <<>>
      BY <2>1, <2>4 DEF OthersTyped
    <3>3. /\ t \in AnyTurns /\ UserSays[t] = <<>> /\ Talk!Of("call", t.blocks) = <<>>
          /\ Talk!Of("result", t.blocks) = <<NoId>>
      BY <2>3, <3>1, TurnOfOne
    <3> QED  BY <2>1, <2>2, <2>3, <2>4, <3>2, <3>3
  <2>5. CASE m.role # "tool"
    <3>1. t = Talk!Turn(m.role, Talk!Blocks("text", m.text) \o Talk!Blocks("call", c))
      <4>1. CASE m.role = "assistant"
        <5>1. t = Talk!Turn("assistant", Talk!Blocks("text", m.text) \o [i \in DOMAIN m.calls |-> Talk!Block("call", Talk!NoId)])
          BY <2>2, <4>1 DEF GeminiOf, Talk!openAIAssistantToGemini
        <5>2. Talk!Blocks("call", c) = [i \in DOMAIN m.calls |-> Talk!Block("call", Talk!NoId)]
          BY <2>3 DEF Talk!Blocks, NoId
        <5> QED  BY <4>1, <5>1, <5>2
      <4>2. CASE m.role = "user"
        <5>1. t = Talk!Turn("user", Talk!Blocks("text", m.text))
          BY <2>2, <4>2 DEF GeminiOf, Talk!openAIMessageToGeminiUser
        <5>2. m.calls = <<>> /\ m.text \in Seq(Int)
          BY <2>1, <4>2 DEF OthersTyped
        <5>3. PICK a : a = Talk!Blocks("text", m.text)
          OBVIOUS
        <5>4. a \in Seq(AnyBlocks)
          BY <5>2, <5>3, OfBlocks
        <5>5. Talk!Blocks("call", c) = <<>> /\ a \o <<>> = a
          BY <2>3, <5>2, <5>4, EmptyEnds DEF Talk!Blocks
        <5> QED  BY <4>2, <5>1, <5>3, <5>5
      <4> QED  BY <2>1, <2>5, <4>1, <4>2 DEF OthersTyped
    <3>2. m.role \in {"user", "assistant"} /\ m.text \in Seq(Int)
      BY <2>1, <2>5 DEF OthersTyped
    <3>3. /\ t \in AnyTurns /\ UserSays[t] = (IF m.role = "user" THEN m.text ELSE <<>>)
          /\ Talk!Of("call", t.blocks) = c /\ Talk!Of("result", t.blocks) = <<>>
      BY <2>3, <3>1, <3>2, TurnOfBoth
    <3> QED  BY <2>1, <2>2, <2>5, <3>3
  <2> QED  BY <2>4, <2>5
<1> QED  BY <1>1 DEF Conveys

(* Bedrock and Vertex AI get no calls and no results.                      *)
LEMMA TextOnlyConveys ==
  ASSUME NEW m \in Others
  PROVE  /\ Talk!TextOnly(m) \in AnyTurns /\ UserSays[Talk!TextOnly(m)] = OfUser[m]
         /\ Talk!Of("call", Talk!TextOnly(m).blocks) = <<>> /\ Talk!Of("result", Talk!TextOnly(m).blocks) = <<>>
<1>1. OthersTyped(m) /\ OfUser[m] = IF m.role = "user" THEN m.text ELSE <<>>
  BY OthersAreTyped
<1>2. PICK t : t = Talk!TextOnly(m)
  OBVIOUS
<1>3. CASE m.role = "tool"
  <2>1. t = Talk!Turn("user", <<Talk!Block("output", m.answers)>>)
    BY <1>2, <1>3, Zenon DEF Talk!TextOnly
  <2>2. m.answers \in Int
    BY <1>1 DEF OthersTyped
  <2>3. /\ t \in AnyTurns /\ UserSays[t] = <<>> /\ Talk!Of("call", t.blocks) = <<>> /\ Talk!Of("result", t.blocks) = <<>>
    BY <2>1, <2>2, TurnOfOne
  <2> QED  BY <1>1, <1>2, <1>3, <2>3
<1>4. CASE m.role # "tool"
  <2>1. t = Talk!Turn(m.role, Talk!Blocks("text", m.text))
    BY <1>2, <1>4, Zenon DEF Talk!TextOnly
  <2>2. m.role \in {"user", "assistant"} /\ m.text \in Seq(Int) /\ <<>> \in Seq(Int)
    BY <1>1, <1>4 DEF OthersTyped
  <2>3. PICK a : a = Talk!Blocks("text", m.text)
    OBVIOUS
  <2>4. a \in Seq(AnyBlocks)
    BY <2>2, <2>3, OfBlocks
  <2>5. Talk!Blocks("call", <<>>) = <<>> /\ a \o <<>> = a
    BY <2>4, EmptyEnds DEF Talk!Blocks
  <2>6. t = Talk!Turn(m.role, Talk!Blocks("text", m.text) \o Talk!Blocks("call", <<>>))
    BY <2>1, <2>3, <2>5
  <2>7. /\ t \in AnyTurns /\ UserSays[t] = (IF m.role = "user" THEN m.text ELSE <<>>)
        /\ Talk!Of("call", t.blocks) = <<>> /\ Talk!Of("result", t.blocks) = <<>>
    <3>1. PICK c, x, r : c = <<>> /\ x = m.text /\ r = m.role
      OBVIOUS
    <3>2. c \in Seq(Int) /\ x \in Seq(Int) /\ r \in {"user", "assistant"}
      BY <2>2, <3>1
    <3>3. t = Talk!Turn(r, Talk!Blocks("text", x) \o Talk!Blocks("call", c))
      BY <2>6, <3>1
    <3>4. /\ t \in AnyTurns /\ UserSays[t] = (IF r = "user" THEN x ELSE <<>>)
          /\ Talk!Of("call", t.blocks) = c /\ Talk!Of("result", t.blocks) = <<>>
      BY <3>2, <3>3, TurnOfBoth
    <3> QED  BY <3>1, <3>4
  <2> QED  BY <1>1, <1>2, <2>7
<1> QED  BY <1>3, <1>4

(* What RequestsArePaired says of a request.                               *)
PairedTurns(s) ==
  \A i \in DOMAIN s :
    /\ Talk!Calls(s[i]) # {} =>
         LET n == Len(Talk!Of("call", s[i].blocks))
         IN  \A k \in 1..n : /\ i + k \in DOMAIN s
                             /\ Talk!Results(s[i + k]) # {}
                             /\ Talk!Results(s[i + k]) \subseteq Talk!Calls(s[i])
    /\ Talk!Results(s[i]) # {} => \E j \in 1..(i - 1) : Talk!Results(s[i]) \subseteq Talk!Calls(s[j])

(* Turns that convey paired messages are paired.                           *)
LEMMA ConveyedArePaired ==
  ASSUME NEW h, NEW C, Conveys(C, h), NEW s, s \in Seq(Others), NEW t, t = Images(C, s), Paired(s)
  PROVE  PairedTurns(t)
<1>1. PICK n : n = Len(s)
  OBVIOUS
<1>2. n \in Nat /\ DOMAIN s = 1..n /\ DOMAIN t = 1..n /\ \A i \in 1..n : s[i] \in Others /\ t[i] = C[s[i]]
  BY <1>1 DEF Images
<1>3. ASSUME NEW i \in 1..n
      PROVE  /\ Talk!Of("call", t[i].blocks) = Images(h, s[i].calls)
             /\ Len(Talk!Of("call", t[i].blocks)) = Len(s[i].calls)
             /\ Talk!Calls(t[i]) = {h[x] : x \in CalledBy(s[i])}
             /\ Talk!Results(t[i]) = IF s[i].role = "tool" THEN {h[s[i].answers]} ELSE {}
  <2>1. PICK m, c, r : m = s[i] /\ c = Talk!Of("call", t[i].blocks) /\ r = Talk!Of("result", t[i].blocks)
    OBVIOUS
  <2>2. m \in Others /\ t[i] = C[m]
    BY <1>2, <2>1
  <2>3. c = Images(h, m.calls) /\ r = IF m.role = "tool" THEN <<h[m.answers]>> ELSE <<>>
    BY <2>1, <2>2, Zenon DEF Conveys
  <2>4. m.calls \in Seq(Int)
    BY <2>2, OthersAreTyped DEF OthersTyped
  <2>5. c = [k \in DOMAIN m.calls |-> h[m.calls[k]]]
    BY <2>3 DEF Images
  <2>6. Len(c) = Len(m.calls) /\ DOMAIN c = DOMAIN m.calls
    BY <2>4, <2>5
  <2>7. Talk!Calls(t[i]) = {c[k] : k \in DOMAIN c} /\ Talk!Results(t[i]) = {r[k] : k \in DOMAIN r}
    BY <2>1, Zenon DEF Talk!Calls, Talk!Results, Talk!ToSet
  <2>8. {c[k] : k \in DOMAIN c} = {h[x] : x \in CalledBy(m)}
    <3>1. \A k \in DOMAIN c : c[k] = h[m.calls[k]] /\ m.calls[k] \in CalledBy(m)
      BY <2>5, <2>6 DEF CalledBy
    <3>2. \A x \in CalledBy(m) : \E k \in DOMAIN c : x = m.calls[k]
      BY <2>6 DEF CalledBy
    <3> QED  BY <3>1, <3>2
  <2>9. {r[k] : k \in DOMAIN r} = IF m.role = "tool" THEN {h[m.answers]} ELSE {}
    <3>1. CASE m.role = "tool"
      <4>1. DOMAIN r = {1} /\ r[1] = h[m.answers]
        BY <2>3, <3>1
      <4> QED  BY <3>1, <4>1
    <3>2. CASE m.role # "tool"
      <4>1. DOMAIN r = {}
        BY <2>3, <3>2
      <4> QED  BY <3>2, <4>1
    <3> QED  BY <3>1, <3>2
  <2> QED  BY <2>1, <2>3, <2>6, <2>7, <2>8, <2>9
<1>4. ASSUME NEW i \in 1..n, NEW k \in 1..Len(s[i].calls)
      PROVE  i + k \in 1..n /\ Talk!Results(t[i + k]) # {} /\ Talk!Results(t[i + k]) \subseteq Talk!Calls(t[i])
  <2>1. i + k \in 1..n /\ s[i + k].role = "tool" /\ s[i + k].answers \in CalledBy(s[i])
    BY <1>2 DEF Paired
  <2>2. Talk!Results(t[i + k]) = {h[s[i + k].answers]} /\ Talk!Calls(t[i]) = {h[x] : x \in CalledBy(s[i])}
    BY <1>3, <2>1
  <2> QED  BY <2>1, <2>2
<1>5. ASSUME NEW i \in 1..n, Talk!Results(t[i]) # {}
      PROVE  \E j \in 1..(i - 1) : Talk!Results(t[i]) \subseteq Talk!Calls(t[j])
  <2>1. s[i].role = "tool" /\ Talk!Results(t[i]) = {h[s[i].answers]}
    BY <1>3, <1>5
  <2>2. PICK j \in 1..(i - 1) : s[i].answers \in CalledBy(s[j])
    BY <1>2, <2>1 DEF Paired
  <2>3. j \in 1..n
    BY <1>2
  <2>4. Talk!Calls(t[j]) = {h[x] : x \in CalledBy(s[j])}
    BY <1>3, <2>3
  <2>5. Talk!Results(t[i]) \subseteq Talk!Calls(t[j])
    BY <2>1, <2>2, <2>4
  <2> QED  BY <2>5
<1>6. \A i \in 1..n : \A k \in 1..Len(Talk!Of("call", t[i].blocks)) : k \in 1..Len(s[i].calls)
  BY <1>3
<1> QED  BY <1>2, <1>4, <1>5, <1>6 DEF PairedTurns

(* Turns that convey messages say what users say in them.                  *)
LEMMA ConveyedSay ==
  ASSUME NEW C, NEW s, s \in Seq(Others), NEW t, t = Images(C, s),
         \A m \in Others : C[m] \in AnyTurns /\ UserSays[C[m]] = OfUser[m]
  PROVE  Talk!TextsBy("user", t) = Maps(OfUser, s)
<1>1. t \in Seq(AnyTurns)
  <2>1. \A i \in DOMAIN s : s[i] \in Others
    OBVIOUS
  <2>2. PICK n : n = Len(s)
    OBVIOUS
  <2>3. n \in Nat /\ DOMAIN s = 1..n
    BY <2>2
  <2>4. t = [i \in 1..n |-> C[s[i]]] /\ \A i \in 1..n : C[s[i]] \in AnyTurns
    BY <2>1, <2>3 DEF Images
  <2> QED  BY <2>3, <2>4
<1>2. Talk!TextsBy("user", t) = Maps(UserSays, t)
  BY <1>1, TextsByIsMaps
<1>3. \A m \in Others : UserSays[C[m]] = OfUser[m]
  OBVIOUS
<1>4. Maps(UserSays, Images(C, s)) = Maps(OfUser, s)
  BY ONLY s \in Seq(Others), <1>3, MapsOfImages
<1> QED  BY <1>2, <1>4

(* Without calls and results nothing is to be paired.                      *)
LEMMA SilentArePaired ==
  ASSUME NEW t, \A i \in DOMAIN t : Talk!Of("call", t[i].blocks) = <<>> /\ Talk!Of("result", t[i].blocks) = <<>>
  PROVE  PairedTurns(t)
<1>1. ASSUME NEW i \in DOMAIN t PROVE Talk!Calls(t[i]) = {} /\ Talk!Results(t[i]) = {}
  <2>1. Talk!Calls(t[i]) = Talk!ToSet(<<>>) /\ Talk!Results(t[i]) = Talk!ToSet(<<>>)
    BY Zenon DEF Talk!Calls, Talk!Results
  <2>2. Talk!ToSet(<<>>) = {}
    BY DEF Talk!ToSet
  <2> QED  BY <2>1, <2>2
<1> QED  BY <1>1, Zenon DEF PairedTurns

(* What the others say is what all do, but the system.                     *)
LEMMA SpokenSay ==
  ASSUME NEW r, r \in Seq(OwnMessages)
  PROVE  Maps(OfUser, Maps(OfOthers, r)) = Maps(OfUser, r)
<1>1. r \in Seq(AnyMessages)
  BY MessageLaws
<1>2. ASSUME NEW m \in AnyMessages PROVE OfOthers[m] \in Seq(AnyMessages) /\ Maps(OfUser, OfOthers[m]) = OfUser[m]
  <2>1. CASE m.role # "system"
    <3>1. OfOthers[m] = <<m>> /\ <<m>> \in Seq(AnyMessages)
      BY <2>1 DEF OfOthers
    <3>2. Maps(OfUser, <<m>>) = OfUser[m]
      BY MessageLaws DEF MapLaws
    <3> QED  BY <3>1, <3>2
  <2>2. CASE m.role = "system"
    <3>1. OfOthers[m] = <<>> /\ OfUser[m] = <<>> /\ <<>> \in Seq(AnyMessages)
      BY <2>2 DEF OfOthers, OfUser
    <3> QED  BY <3>1, EmptyMessages
  <2> QED  BY <2>1, <2>2
<1>3. PICK E, S : E = AnyMessages /\ S = Int
  OBVIOUS
<1>4. MapLaws(OfOthers, E, E) /\ MapLaws(OfUser, E, S)
  BY <1>3, MessageLaws
<1>5. \A m \in E : OfOthers[m] \in Seq(E) /\ Maps(OfUser, OfOthers[m]) = OfUser[m]
  BY <1>2, <1>3
<1>6. \A q \in Seq(E) : Maps(OfUser, Maps(OfOthers, q)) = Maps(OfUser, q)
  BY ONLY <1>4, <1>5, MapsOfMaps
<1> QED  BY <1>1, <1>3, <1>6

(* The turns a provider is sent.                                           *)
LEMMA OpenAIRequestConveys ==
  ASSUME NEW r, r \in Seq(OwnMessages)
  PROVE  /\ Talk!TextsBy("user", Talk!OpenAIRequest(r)) = Maps(OfUser, r)
         /\ Paired(r) => PairedTurns(Talk!OpenAIRequest(r))
<1>1. PICK sp, C, t : sp = Maps(OfOthers, r) /\ C = [m \in Others |-> OwnOf(m)] /\ t = Images(C, sp)
  OBVIOUS
<1>2. sp \in Seq(Others) /\ (Paired(r) => Paired(sp)) /\ Maps(OfUser, sp) = Maps(OfUser, r)
  BY <1>1, SpokenIsPaired, SpokenSay
<1>3. Conveys(C, Same)
  BY <1>1, OwnConveys
<1>4. Talk!Spoken(r) = sp
  BY <1>1, SystemsIsMaps, MessageLaws
<1>5. Talk!OpenAIRequest(r) = [i \in DOMAIN sp |-> OwnOf(sp[i])]
  BY <1>4, Zenon DEF Talk!OpenAIRequest, OwnOf
<1>6. \A i \in DOMAIN sp : OwnOf(sp[i]) = C[sp[i]]
  BY <1>1, <1>2
<1>7. Talk!OpenAIRequest(r) = t
  BY <1>1, <1>5, <1>6, Zenon DEF Images
<1>8. \A m \in Others : C[m] \in AnyTurns /\ UserSays[C[m]] = OfUser[m]
  BY <1>3, Zenon DEF Conveys
<1>9. Talk!TextsBy("user", t) = Maps(OfUser, sp)
  BY <1>1, <1>2, <1>8, ConveyedSay
<1>10. Paired(sp) => PairedTurns(t)
  BY <1>1, <1>2, <1>3, ConveyedArePaired
<1> QED  BY <1>2, <1>7, <1>9, <1>10

(* Gemini's,                                                               *)
LEMMA GeminiRequestConveys ==
  ASSUME NEW r, r \in Seq(OwnMessages)
  PROVE  /\ Talk!TextsBy("user", Talk!buildGeminiRequest(r)) = Maps(OfUser, r)
         /\ Paired(r) => PairedTurns(Talk!buildGeminiRequest(r))
<1>1. PICK sp, C, t : sp = Maps(OfOthers, r) /\ C = [m \in Others |-> GeminiOf(m)] /\ t = Images(C, sp)
  OBVIOUS
<1>2. sp \in Seq(Others) /\ (Paired(r) => Paired(sp)) /\ Maps(OfUser, sp) = Maps(OfUser, r)
  BY <1>1, SpokenIsPaired, SpokenSay
<1>3. Conveys(C, ToNoId)
  BY <1>1, GeminiConveys
<1>4. Talk!Spoken(r) = sp
  BY <1>1, SystemsIsMaps, MessageLaws
<1>5. Talk!buildGeminiRequest(r) = [i \in DOMAIN sp |-> GeminiOf(sp[i])]
  BY <1>4, Zenon DEF Talk!buildGeminiRequest, GeminiOf
<1>6. \A i \in DOMAIN sp : GeminiOf(sp[i]) = C[sp[i]]
  BY <1>1, <1>2
<1>7. Talk!buildGeminiRequest(r) = t
  BY <1>1, <1>5, <1>6, Zenon DEF Images
<1>8. \A m \in Others : C[m] \in AnyTurns /\ UserSays[C[m]] = OfUser[m]
  BY <1>3, Zenon DEF Conveys
<1>9. Talk!TextsBy("user", t) = Maps(OfUser, sp)
  BY <1>1, <1>2, <1>8, ConveyedSay
<1>10. Paired(sp) => PairedTurns(t)
  BY <1>1, <1>2, <1>3, ConveyedArePaired
<1> QED  BY <1>2, <1>7, <1>9, <1>10

(* Anthropic's, with adjacent messages merged,                             *)
LEMMA AnthropicRequestConveys ==
  ASSUME NEW r, r \in Seq(OwnMessages)
  PROVE  /\ Talk!TextsBy("user", Talk!openAIToAnthropicMessages(r)) = Maps(OfUser, r)
         /\ Paired(r) => PairedTurns(Talk!openAIToAnthropicMessages(r))
<1>1. PICK sp, mg, C, t : /\ sp = Maps(OfOthers, r) /\ mg = Talk!mergeConversationTurns(sp)
                          /\ C = [m \in Others |-> OwnOf(m)] /\ t = Images(C, mg)
  OBVIOUS
<1>2. sp \in Seq(Others) /\ (Paired(r) => Paired(sp)) /\ Maps(OfUser, sp) = Maps(OfUser, r)
  BY <1>1, SpokenIsPaired, SpokenSay
<1>2a. mg \in Seq(Others) /\ (Paired(sp) => Paired(mg)) /\ Maps(OfUser, mg) = Maps(OfUser, sp)
  BY <1>1, <1>2, MergeLaws
<1>3. Conveys(C, Same)
  BY <1>1, OwnConveys
<1>4. Talk!Spoken(r) = sp
  BY <1>1, SystemsIsMaps, MessageLaws
<1>5. Talk!openAIToAnthropicMessages(r) = [i \in DOMAIN mg |-> Talk!convertOpenAIMessage(mg[i])]
  BY <1>1, <1>4, Zenon DEF Talk!openAIToAnthropicMessages
<1>6. ASSUME NEW m \in Others PROVE Talk!convertOpenAIMessage(m) = C[m]
  <2>1. C[m] = OwnOf(m) /\ OthersTyped(m)
    BY <1>1, OthersAreTyped
  <2>2. CASE m.role = "user"
    <3>1. Talk!convertOpenAIMessage(m) = Talk!Turn("user", Talk!Blocks("text", m.text))
      BY <2>2 DEF Talk!convertOpenAIMessage, Talk!openAIUserContent
    <3>2. m.calls = <<>> /\ m.text \in Seq(Int)
      BY <2>1, <2>2 DEF OthersTyped
    <3>3. PICK a : a = Talk!Blocks("text", m.text)
      OBVIOUS
    <3>4. a \in Seq(AnyBlocks)
      BY <3>2, <3>3, OfBlocks
    <3>5. Talk!Blocks("call", m.calls) = <<>> /\ a \o <<>> = a
      BY <3>2, <3>4, EmptyEnds DEF Talk!Blocks
    <3>6. OwnOf(m) = Talk!Turn("user", Talk!Blocks("text", m.text) \o Talk!Blocks("call", m.calls))
      BY <2>2 DEF OwnOf
    <3> QED  BY <2>1, <3>1, <3>3, <3>5, <3>6
  <2>3. CASE m.role = "assistant"
    <3>1. Talk!convertOpenAIMessage(m) = Talk!Turn("assistant", Talk!Blocks("text", m.text) \o Talk!Blocks("call", m.calls))
      BY <2>3 DEF Talk!convertOpenAIMessage, Talk!openAIAssistantBlocks
    <3>2. OwnOf(m) = Talk!Turn("assistant", Talk!Blocks("text", m.text) \o Talk!Blocks("call", m.calls))
      BY <2>3 DEF OwnOf
    <3> QED  BY <2>1, <3>1, <3>2
  <2>4. CASE m.role = "tool"
    <3>1. Talk!convertOpenAIMessage(m) = Talk!Turn("user", <<Talk!Block("result", m.answers)>>)
      BY <2>4 DEF Talk!convertOpenAIMessage
    <3>2. OwnOf(m) = Talk!Turn("user", <<Talk!Block("result", m.answers)>>)
      BY <2>4 DEF OwnOf
    <3> QED  BY <2>1, <3>1, <3>2
  <2> QED  BY <2>1, <2>2, <2>3, <2>4 DEF OthersTyped
<1>6a. \A i \in DOMAIN mg : Talk!convertOpenAIMessage(mg[i]) = C[mg[i]]
  BY <1>2a, <1>6
<1>7. Talk!openAIToAnthropicMessages(r) = t
  BY <1>1, <1>5, <1>6a, Zenon DEF Images
<1>8. \A m \in Others : C[m] \in AnyTurns /\ UserSays[C[m]] = OfUser[m]
  BY <1>3, Zenon DEF Conveys
<1>9. Talk!TextsBy("user", t) = Maps(OfUser, mg)
  BY <1>1, <1>2a, <1>8, ConveyedSay
<1>10. Paired(mg) => PairedTurns(t)
  BY <1>1, <1>2a, <1>3, ConveyedArePaired
<1> QED  BY <1>2, <1>2a, <1>7, <1>9, <1>10

(* and those of texts only.                                                *)
LEMMA TextRequestConveys ==
  ASSUME NEW r, r \in Seq(OwnMessages), NEW t, t = Talk!BedrockRequest(r) \/ t = Talk!VertexRequest(r)
  PROVE  Talk!TextsBy("user", t) = Maps(OfUser, r) /\ PairedTurns(t)
<1>1. PICK sp, C : sp = Maps(OfOthers, r) /\ C = [m \in Others |-> Talk!TextOnly(m)]
  OBVIOUS
<1>2. sp \in Seq(Others) /\ Maps(OfUser, sp) = Maps(OfUser, r)
  BY <1>1, SpokenIsPaired, SpokenSay
<1>3. Talk!Spoken(r) = sp
  BY <1>1, SystemsIsMaps, MessageLaws
<1>4. t = [i \in DOMAIN sp |-> Talk!TextOnly(sp[i])]
  BY <1>3, Zenon DEF Talk!BedrockRequest, Talk!VertexRequest
<1>5. \A i \in DOMAIN sp : sp[i] \in Others /\ Talk!TextOnly(sp[i]) = C[sp[i]]
  BY <1>1, <1>2
<1>6. t = Images(C, sp)
  BY <1>4, <1>5, Zenon DEF Images
<1>7. \A m \in Others : C[m] \in AnyTurns /\ UserSays[C[m]] = OfUser[m]
  BY <1>1, TextOnlyConveys
<1>8. Talk!TextsBy("user", t) = Maps(OfUser, sp)
  BY <1>2, <1>6, <1>7, ConveyedSay
<1>9. \A i \in DOMAIN t : Talk!Of("call", t[i].blocks) = <<>> /\ Talk!Of("result", t[i].blocks) = <<>>
  BY <1>4, <1>5, TextOnlyConveys
<1> QED  BY <1>2, <1>8, <1>9, SilentArePaired

(* And the system texts.                                                   *)
LEMMA GuidanceTells ==
  ASSUME NEW r, r \in Seq(OwnMessages), NEW sys, sys = Maps(OfSystem, r), NEW ins, Tell(sys, ins),
         NEW g, g = Talk!SystemOf(r)
  PROVE  g = ins \/ (provider = "vertexai" /\ Len(ins) > 1 /\ g = <<Talk!Last(ins)>>)
<1>1. Talk!Systems(r) = sys
  BY SystemsIsMaps, MessageLaws
<1>2. g = IF provider = "vertexai" /\ sys # <<>> THEN Talk!Last(sys).text
          ELSE Talk!FlattenSeq([i \in DOMAIN sys |-> sys[i].text])
  BY <1>1, Zenon DEF Talk!SystemOf, Talk!FlatMap
<1>3. Talk!FlattenSeq([i \in DOMAIN sys |-> sys[i].text]) = ins
  <2>1. \A i \in DOMAIN sys : sys[i] \in AnyMessages
    BY MessageLaws DEF Tell
  <2>2. \A i \in DOMAIN sys : sys[i].text = OfText[sys[i]]
    BY <2>1 DEF OfText
  <2>3. Images(OfText, sys) = [i \in DOMAIN sys |-> sys[i].text]
    BY <2>2, Zenon DEF Images
  <2>4. Maps(OfText, sys) = ins
    BY DEF Tell
  <2> QED  BY <2>3, <2>4, Zenon DEF Maps
<1> QED  BY <1>2, <1>3 DEF Tell

(* Every provider gets texts and instructions, and its calls answered.     *)
LEMMA Delivered ==
  ASSUME provider \in AllProviders, NEW r, r \in Seq(OwnMessages), NEW sys, sys = Maps(OfSystem, r),
         NEW ins, Tell(sys, ins), NEW s, s = Talk!TransformChatRequest(r), NEW g, g = Talk!SystemOf(r)
  PROVE  /\ Talk!TextsBy("user", s) = Maps(OfUser, r)
         /\ Paired(r) => PairedTurns(s)
         /\ g = ins \/ (provider = "vertexai" /\ Len(ins) > 1 /\ g = <<Talk!Last(ins)>>)
<1>1. g = ins \/ (provider = "vertexai" /\ Len(ins) > 1 /\ g = <<Talk!Last(ins)>>)
  BY GuidanceTells
<1>2. CASE provider = "openai"
  <2>1. s = Talk!OpenAIRequest(r)
    BY <1>2 DEF Talk!TransformChatRequest
  <2> QED  BY <1>1, <2>1, OpenAIRequestConveys
<1>3. CASE provider = "anthropic"
  <2>1. s = Talk!openAIToAnthropicMessages(r)
    BY <1>3 DEF Talk!TransformChatRequest
  <2> QED  BY <1>1, <2>1, AnthropicRequestConveys
<1>4. CASE provider = "gemini"
  <2>1. s = Talk!buildGeminiRequest(r)
    BY <1>4 DEF Talk!TransformChatRequest
  <2> QED  BY <1>1, <2>1, GeminiRequestConveys
<1>5. CASE provider \in {"bedrock", "vertexai"}
  <2>1. s = Talk!BedrockRequest(r) \/ s = Talk!VertexRequest(r)
    BY <1>5 DEF Talk!TransformChatRequest
  <2> QED  BY <1>1, <2>1, TextRequestConveys
<1> QED  BY <1>2, <1>3, <1>4, <1>5 DEF AllProviders

----------------------------------------------------------------------------
(* From replies to turns.                                                  *)

(* A turn made of two kinds of blocks is a client's own.                   *)
LEMMA TurnIsOwn ==
  ASSUME NEW t, t \in AnyTurns, NEW first \in {"text", "result"}, NEW second \in {"text", "call"},
         NEW x, x \in Seq(Int), NEW y, y \in Seq(Int),
         t.blocks = Talk!Blocks(first, x) \o Talk!Blocks(second, y),
         t.role = "user" => second = "text", Numbered(Talk!Of("call", t.blocks))
  PROVE  t \in OwnTurns
<1>1. PICK a, b, s : a = Talk!Blocks(first, x) /\ b = Talk!Blocks(second, y) /\ s = a \o b
  OBVIOUS
<1>2. /\ a \in Seq(AnyBlocks) /\ DOMAIN a = DOMAIN x /\ \A i \in DOMAIN a : a[i].kind = first
      /\ b \in Seq(AnyBlocks) /\ DOMAIN b = DOMAIN y /\ \A i \in DOMAIN b : b[i].kind = second
  <2>1. first \in {"text", "call", "result", "output"} /\ second \in {"text", "call", "result", "output"}
    OBVIOUS
  <2>2. /\ Talk!Blocks(first, x) \in Seq(AnyBlocks) /\ DOMAIN Talk!Blocks(first, x) = DOMAIN x
        /\ \A i \in DOMAIN x : Talk!Blocks(first, x)[i].kind = first
        /\ Talk!Of(first, Talk!Blocks(first, x)) = IF first = first THEN x ELSE <<>>
    BY <2>1, OfBlocks
  <2>3. /\ Talk!Blocks(second, y) \in Seq(AnyBlocks) /\ DOMAIN Talk!Blocks(second, y) = DOMAIN y
        /\ \A i \in DOMAIN y : Talk!Blocks(second, y)[i].kind = second
        /\ Talk!Of(second, Talk!Blocks(second, y)) = IF second = second THEN y ELSE <<>>
    BY <2>1, OfBlocks
  <2> QED  BY <1>1, <2>2, <2>3
<1>3. PICK p, q : p = Len(a) /\ q = Len(b)
  OBVIOUS
<1>4. p \in Nat /\ q \in Nat /\ DOMAIN a = 1..p /\ DOMAIN b = 1..q
  BY <1>2, <1>3
<1>5. s \in Seq(AnyBlocks) /\ Len(s) = p + q /\ \A i \in 1..(p + q) : s[i] = IF i <= p THEN a[i] ELSE b[i - p]
  BY <1>1, <1>2, <1>3, ConcatProperties
<1>6. ASSUME NEW i \in DOMAIN s PROVE s[i].kind \in {first, second}
  <2>1. i \in 1..(p + q)
    BY <1>5
  <2>2. CASE i <= p
    <3>1. i \in 1..p
      BY <1>4, <2>1, <2>2
    <3> QED  BY <1>2, <1>4, <1>5, <2>1, <2>2, <3>1
  <2>3. CASE ~(i <= p)
    <3>1. i - p \in 1..q
      BY <1>4, <2>1, <2>3
    <3> QED  BY <1>2, <1>4, <1>5, <2>1, <2>3, <3>1
  <2> QED  BY <2>2, <2>3
<1>7. t.blocks = s
  BY <1>1
<1>8. \A i \in DOMAIN t.blocks : t.blocks[i].kind # "output" /\ (t.role = "user" => t.blocks[i].kind # "call")
  BY <1>6, <1>7
<1> QED  BY <1>8, Zenon DEF OwnTurns

(* A reply, as a client keeps it.                                          *)
LEMMA ReplyTurn ==
  ASSUME NEW text, text \in Seq(Int), NEW calls, calls \in Seq(Int), Numbered(calls),
         NEW blocks, blocks = Talk!Blocks("text", text) \o Talk!Blocks("call", calls)
  PROVE  Talk!Turn("assistant", blocks) \in OwnTurns
<1>1. PICK t, r : t = Talk!Turn("assistant", blocks) /\ r = "assistant"
  OBVIOUS
<1>2. t.role = "assistant" /\ t.blocks = blocks
  BY <1>1 DEF Talk!Turn
<1>3. r \in {"user", "assistant"} /\ t = Talk!Turn(r, Talk!Blocks("text", text) \o Talk!Blocks("call", calls))
  BY <1>1
<1>4. /\ t \in AnyTurns /\ Talk!Of("text", t.blocks) = text /\ Talk!Of("call", t.blocks) = calls
      /\ UserSays[t] = IF r = "user" THEN text ELSE <<>>
  BY <1>3, TurnOfBoth
<1>5. t \in OwnTurns
  <2>1. PICK f, s : f = "text" /\ s = "call"
    OBVIOUS
  <2>2. f \in {"text", "result"} /\ s \in {"text", "call"} /\ (t.role = "user" => s = "text")
    BY <1>2, <2>1
  <2>3. t.blocks = Talk!Blocks(f, text) \o Talk!Blocks(s, calls)
    BY <1>2, <2>1
  <2>4. Numbered(Talk!Of("call", t.blocks))
    BY <1>4
  <2> QED  BY <1>4, <2>2, <2>3, <2>4, TurnIsOwn
<1> QED  BY <1>1, <1>2, <1>4, <1>5

(* It says what the model said ...                                         *)
LEMMA ReplySays ==
  ASSUME NEW text, text \in Seq(Int), NEW calls, calls \in Seq(Int),
         NEW blocks, blocks = Talk!Blocks("text", text) \o Talk!Blocks("call", calls)
  PROVE  Talk!Of("text", blocks) = text
<1>1. PICK t, r : t = Talk!Turn("assistant", blocks) /\ r = "assistant"
  OBVIOUS
<1>2. t.blocks = blocks
  BY <1>1 DEF Talk!Turn
<1>3. r \in {"user", "assistant"} /\ t = Talk!Turn(r, Talk!Blocks("text", text) \o Talk!Blocks("call", calls))
  BY <1>1
<1>4. Talk!Of("text", t.blocks) = text
  BY <1>3, TurnOfBoth
<1> QED  BY <1>2, <1>4

(* ... and calls what it called.                                           *)
LEMMA ReplyCalls ==
  ASSUME NEW text, text \in Seq(Int), NEW calls, calls \in Seq(Int),
         NEW blocks, blocks = Talk!Blocks("text", text) \o Talk!Blocks("call", calls)
  PROVE  Talk!Of("call", blocks) = calls
<1>1. PICK t, r : t = Talk!Turn("assistant", blocks) /\ r = "assistant"
  OBVIOUS
<1>2. t.blocks = blocks
  BY <1>1 DEF Talk!Turn
<1>3. r \in {"user", "assistant"} /\ t = Talk!Turn(r, Talk!Blocks("text", text) \o Talk!Blocks("call", calls))
  BY <1>1
<1>4. Talk!Of("call", t.blocks) = calls
  BY <1>3, TurnOfBoth
<1> QED  BY <1>2, <1>4

(* What the model replies.                                                 *)
LEMMA ReplyIsNumbered ==
  ASSUME said \in Nat, issued \in Nat, NEW r, r \in Talk!Replies,
         NEW m, m = Talk!ReplyMessage(r.texts, r.calls)
  PROVE  /\ r.texts \in Nat /\ r.calls \in Nat /\ r.why \in {"end", "cut", "filter"}
         /\ r.calls > 0 => provider \notin {"bedrock", "vertexai"} /\ wire # "completions"
         /\ m.text \in Seq(Int) /\ Len(m.text) = r.texts
         /\ m.calls \in Seq(Int) /\ Len(m.calls) = r.calls /\ Numbered(m.calls)
<1>0. MaxCalls \in Nat
  BY TalkAssumption DEF Talk!ConstantsOK
<1>1. /\ r \in [texts : 0..1, calls : 0..MaxCalls, why : {"end", "cut", "filter"}]
      /\ r.calls > 0 => provider \notin {"bedrock", "vertexai"} /\ wire # "completions"
  BY Zenon DEF Talk!Replies
<1>2. PICK p, q : p = r.texts /\ q = r.calls
  OBVIOUS
<1>3. p \in Nat /\ q \in Nat /\ r.why \in {"end", "cut", "filter"}
  BY <1>0, <1>1, <1>2
<1>4. m.text = [i \in 1..p |-> said + i] /\ m.calls = [i \in 1..q |-> Talk!CallId(i, p)]
  BY <1>2 DEF Talk!ReplyMessage, Talk!Message
<1>5. m.text \in Seq(Int) /\ Len(m.text) = p
  <2>1. \A i \in 1..p : said + i \in Int
    BY <1>3
  <2> QED  BY <1>3, <1>4, <2>1
<1>6. \A i \in 1..q : Talk!CallId(i, p) \in Nat
  BY <1>3 DEF Talk!CallId
<1>7. \A i, j \in 1..q : Talk!CallId(i, p) = Talk!CallId(j, p) => i = j
  BY <1>3 DEF Talk!CallId
<1>8. m.calls \in Seq(Int) /\ Len(m.calls) = q
  <2>1. \A i \in 1..q : Talk!CallId(i, p) \in Int
    BY <1>6
  <2> QED  BY <1>3, <1>4, <2>1
<1>9. Numbered(m.calls)
  <2>1. DOMAIN m.calls = 1..q /\ \A i \in 1..q : m.calls[i] = Talk!CallId(i, p)
    BY <1>4
  <2>2. \A i \in DOMAIN m.calls : m.calls[i] # NoId
    BY <1>6, <2>1 DEF NoId, Talk!NoId
  <2>3. \A i, j \in DOMAIN m.calls : m.calls[i] = m.calls[j] => i = j
    BY <1>7, <2>1
  <2> QED  BY <2>2, <2>3 DEF Numbered
<1> QED  BY <1>1, <1>2, <1>3, <1>5, <1>8, <1>9

(* The three ways it is given to clients.                                  *)
LEMMA RepliesAreGiven ==
  ASSUME NEW m, m.text \in Seq(Int), m.calls \in Seq(Int), Numbered(m.calls)
  PROVE  /\ Talk!Formatted(m) = Talk!Blocks("text", m.text) \o Talk!Blocks("call", m.calls)
         /\ \E ids \in Seq(Int) : /\ Numbered(ids) /\ Len(ids) = Len(m.calls)
                                  /\ Talk!messageToParts(m) = Talk!Blocks("text", m.text) \o Talk!Blocks("call", ids)
         /\ Talk!Blocks("text", m.text) = Talk!Blocks("text", m.text) \o Talk!Blocks("call", <<>>)
         /\ <<>> \in Seq(Int) /\ Numbered(<<>>)
<1>1. Talk!Formatted(m) = Talk!Blocks("text", m.text) \o Talk!Blocks("call", m.calls)
  BY Zenon DEF Talk!Formatted
<1>2. PICK ids : ids = Images(ToNoId, m.calls)
  OBVIOUS
<1>3. ids \in Seq(Int) /\ ids = [i \in DOMAIN m.calls |-> NoId]
  BY <1>2, ImagesOfIds
<1>4. Numbered(ids) /\ Len(ids) = Len(m.calls)
  <2>1. Numbered(ids)
    BY <1>3 DEF Numbered
  <2>2. PICK n : n = Len(m.calls)
    OBVIOUS
  <2>3. n \in Nat /\ DOMAIN m.calls = 1..n
    BY <2>2
  <2>4. Len(ids) = n
    BY <1>3, <2>3
  <2> QED  BY <2>1, <2>2, <2>4
<1>5. Talk!messageToParts(m) = Talk!Blocks("text", m.text) \o Talk!Blocks("call", ids)
  <2>1. Talk!Blocks("call", ids) = [i \in DOMAIN m.calls |-> Talk!Block("call", Talk!NoId)]
    <3>1. DOMAIN ids = DOMAIN m.calls /\ \A i \in DOMAIN m.calls : ids[i] = Talk!NoId
      BY <1>3 DEF NoId
    <3> QED  BY <3>1 DEF Talk!Blocks
  <2> QED  BY <2>1, Zenon DEF Talk!messageToParts
<1>6. PICK a : a = Talk!Blocks("text", m.text)
  OBVIOUS
<1>7. a \in Seq(AnyBlocks)
  BY <1>6, OfBlocks
<1>8. Talk!Blocks("call", <<>>) = <<>> /\ a \o <<>> = a
  BY <1>7, EmptyEnds DEF Talk!Blocks
<1>9. <<>> \in Seq(Int) /\ Numbered(<<>>)
  BY DEF Numbered
<1> QED  BY <1>1, <1>3, <1>4, <1>5, <1>6, <1>8, <1>9

(* The results a client gives are among the ids it was given.              *)
Given(pending, ids, answered) ==
  Talk!FlattenSeq([i \in DOMAIN ids |-> IF ids[i] \in answered THEN <<pending[ids[i]]>> ELSE <<>>])

(* They are ids.                                                           *)
LEMMA ResultsAreIds ==
  ASSUME NEW pending, pending \in Seq(Int), NEW answered, answered \subseteq DOMAIN pending,
         NEW ids, ids = [i \in DOMAIN pending |-> i]
  PROVE  Given(pending, ids, answered) \in Seq(Int)
<1>1. PICK D, f : D = DOMAIN pending /\ f = [i \in D |-> IF i \in answered THEN <<pending[i]>> ELSE <<>>]
  OBVIOUS
<1>2. f \in [D -> Seq(Int)]
  <2>1. \A i \in D : <<pending[i]>> \in Seq(Int)
    BY <1>1
  <2>2. <<>> \in Seq(Int)
    OBVIOUS
  <2>3. \A i \in D : (IF i \in answered THEN <<pending[i]>> ELSE <<>>) \in Seq(Int)
    BY <2>1, <2>2, Zenon
  <2> QED  BY <1>1, <2>3, Zenon
<1>3. ids \in Seq(D)
  <2>1. PICK n : n = Len(pending)
    OBVIOUS
  <2>2. n \in Nat /\ D = 1..n
    BY <1>1, <2>1
  <2> QED  BY <1>1, <2>2
<1>4. MapLaws(f, D, Int)
  BY <1>2, MapsHasItsLaws
<1>5. Maps(f, ids) \in Seq(Int)
  BY <1>3, <1>4 DEF MapLaws
<1>6. Images(f, ids) = [i \in DOMAIN ids |-> IF ids[i] \in answered THEN <<pending[ids[i]]>> ELSE <<>>]
  <2>1. DOMAIN ids = D /\ \A i \in D : ids[i] = i
    BY <1>1
  <2> QED  BY <1>1, <2>1 DEF Images
<1> QED  BY <1>5, <1>6, Zenon DEF Maps, Given

(* What a client asks.                                                     *)
LEMMA AskedTurn ==
  ASSUME NEW results, results \in Seq(Int), NEW text, text \in Seq(Int),
         NEW blocks, blocks = Talk!Blocks("result", results) \o Talk!Blocks("text", text)
  PROVE  Talk!Turn("user", blocks) \in OwnTurns /\ Talk!Turn("user", blocks).role = "user"
<1>1. PICK t, k, x : t = Talk!Turn("user", blocks) /\ k = "result" /\ x = "text"
  OBVIOUS
<1>2. t.role = "user" /\ t.blocks = blocks
  BY <1>1 DEF Talk!Turn
<1>3. PICK a, b : a = Talk!Blocks("result", results) /\ b = Talk!Blocks("text", text)
  OBVIOUS
<1>4. /\ a \in Seq(AnyBlocks) /\ b \in Seq(AnyBlocks)
      /\ Talk!Of("call", a) = <<>> /\ Talk!Of("call", b) = <<>>
  BY <1>3, OfBlocks
<1>5. blocks = a \o b /\ blocks \in Seq(AnyBlocks)
  BY <1>3, <1>4, ConcatProperties
<1>6. Talk!Of("call", blocks) = <<>>
  <2>1. Talk!Of("call", a \o b) = Talk!Of("call", a) \o Talk!Of("call", b)
    BY <1>4, OfLaws
  <2>2. <<>> \o <<>> = <<>>
    OBVIOUS
  <2> QED  BY <1>4, <1>5, <2>1, <2>2, Zenon
<1>7. t \in AnyTurns
  <2>1. PICK B : B = Seq(AnyBlocks)
    OBVIOUS
  <2>2. AnyTurns = [role : {"user", "assistant"}, blocks : B]
    BY <2>1 DEF AnyTurns
  <2>3. blocks \in B /\ t = [role |-> "user", blocks |-> blocks]
    BY <1>1, <1>5, <2>1 DEF Talk!Turn
  <2> QED  BY <2>2, <2>3
<1>8. t \in OwnTurns
  <2>1. k \in {"text", "result"} /\ x \in {"text", "call"} /\ (t.role = "user" => x = "text")
    BY <1>1
  <2>2. t.blocks = Talk!Blocks(k, results) \o Talk!Blocks(x, text)
    BY <1>1, <1>2
  <2>3. Numbered(Talk!Of("call", t.blocks))
    BY <1>2, <1>6 DEF Numbered
  <2> QED  BY <1>7, <2>1, <2>2, <2>3, TurnIsOwn
<1> QED  BY <1>1, <1>2, <1>8

----------------------------------------------------------------------------
(* A request and its reply.                                                *)

(* What a list of messages brings of the client's texts.                   *)
Brings(r) ==
  /\ r \in Seq(OwnMessages)
  /\ Maps(OfUser, r) = Talk!TextsBy("user", history)
  /\ Tell(Maps(OfSystem, r), instructions)

(* Messages that bear a conversation bring its texts.                      *)
LEMMA BearingBrings ==
  ASSUME NEW ms, Bearing(ms)
  PROVE  Brings(ms)
<1>1. PICK sys, rest : /\ ms = sys \o rest /\ Tell(sys, instructions) /\ rest \in Seq(OwnMessages)
                       /\ Maps(OfUser, rest) = Talk!TextsBy("user", history) /\ Maps(OfSystem, rest) = <<>>
  BY Zenon DEF Bearing
<1>2. sys \in Seq(OwnMessages) /\ Maps(OfUser, sys) = <<>> /\ Maps(OfSystem, sys) = sys
  BY <1>1 DEF Tell
<1>3. /\ sys \o rest \in Seq(OwnMessages)
      /\ Maps(OfUser, sys \o rest) = Maps(OfUser, sys) \o Maps(OfUser, rest)
      /\ Maps(OfSystem, sys \o rest) = Maps(OfSystem, sys) \o Maps(OfSystem, rest)
      /\ Maps(OfUser, rest) \in Seq(Int)
  BY <1>1, <1>2, BothMessages
<1>4. PICK u : u = Maps(OfUser, rest)
  OBVIOUS
<1>5. <<>> \o u = u /\ sys \o <<>> = sys
  BY <1>2, <1>3, <1>4, EmptyEnds
<1>6. Maps(OfUser, ms) = u /\ Maps(OfSystem, ms) = sys
  BY <1>1, <1>2, <1>3, <1>4, <1>5, Zenon
<1> QED  BY <1>1, <1>3, <1>4, <1>6, Zenon DEF Brings

(* The repair loses none of them.                                          *)
LEMMA RepairedBrings ==
  ASSUME NEW ms, Brings(ms)
  PROVE  Brings(Talk!Repaired(ms)) /\ Paired(Talk!Repaired(ms))
<1>1. ms \in Seq(OwnMessages)
  BY DEF Brings
<1>2. /\ Talk!Repaired(ms) \in Seq(OwnMessages) /\ Paired(Talk!Repaired(ms))
      /\ \A S, h : MapLaws(h, OwnMessages, S) /\ (\A m \in Quiet : h[m] = <<>>) =>
                     Maps(h, Talk!Repaired(ms)) = Maps(h, ms)
  BY <1>1, RepairLaws
<1>3. ASSUME NEW m \in Quiet PROVE OfUser[m] = <<>> /\ OfSystem[m] = <<>>
  <2>1. m \in AnyMessages /\ m.role # "user" /\ m.role # "system"
    BY DEF Quiet, OwnMessages
  <2> QED  BY <2>1 DEF OfUser, OfSystem
<1>4. MapLaws(OfUser, OwnMessages, Int) /\ MapLaws(OfSystem, OwnMessages, AnyMessages)
  BY MessageLaws, LawsOfFewer
<1>5. Maps(OfUser, Talk!Repaired(ms)) = Maps(OfUser, ms) /\ Maps(OfSystem, Talk!Repaired(ms)) = Maps(OfSystem, ms)
  BY <1>2, <1>3, <1>4, Zenon
<1> QED  BY <1>2, <1>5, Zenon DEF Brings

(* What the provider is asked.                                             *)
GoodRequest(s, g) ==
  /\ Talk!TextsBy("user", s) = Talk!TextsBy("user", history)
  /\ g = instructions \/ (provider = "vertexai" /\ Len(instructions) > 1 /\ g = <<Talk!Last(instructions)>>)

(* A request of messages that bring them is good.                          *)
LEMMA AskedIsGood ==
  ASSUME provider \in AllProviders, NEW r, Brings(r), NEW s, s = Talk!TransformChatRequest(r), NEW g, g = Talk!SystemOf(r)
  PROVE  GoodRequest(s, g) /\ (Paired(r) => PairedTurns(s))
<1>1. PICK sys, ins : sys = Maps(OfSystem, r) /\ ins = instructions
  OBVIOUS
<1>2. r \in Seq(OwnMessages) /\ Tell(sys, ins) /\ Maps(OfUser, r) = Talk!TextsBy("user", history)
  BY <1>1 DEF Brings
<1>3. /\ Talk!TextsBy("user", s) = Maps(OfUser, r)
      /\ Paired(r) => PairedTurns(s)
      /\ g = ins \/ (provider = "vertexai" /\ Len(ins) > 1 /\ g = <<Talk!Last(ins)>>)
  BY <1>1, <1>2, Delivered
<1> QED  BY <1>1, <1>2, <1>3 DEF GoodRequest

(* A replay asks the same.                                                 *)
LEMMA ReplaysAgain ==
  ASSUME TalkTyped, ShortOnes
  PROVE  Talk!ReplaysAskTheSame
<1> SUFFICES ASSUME Talk!Speaker = "user", wire \notin {"responses", "completions"}
             PROVE  Talk!ToOpenAI(Talk!FromOpenAI(Talk!Repaired(Talk!Messages))) = Talk!Repaired(Talk!Messages)
  BY Zenon DEF Talk!ReplaysAskTheSame
<1>1. PICK r : r = Talk!Repaired(Talk!Messages)
  OBVIOUS
<1>2. r \in Seq(OwnMessages)
  BY <1>1, MessagesBear, BearingBrings, RepairedBrings DEF Brings
<1>3. PICK n, q : n = Len(r) /\ q = Talk!FromOpenAI(r)
  OBVIOUS
<1>4. n \in Nat /\ DOMAIN r = 1..n /\ \A i \in 1..n : r[i] \in AnyMessages
  BY <1>2, <1>3, MessageLaws
<1>5. q = [i \in 1..n |-> Talk!messageFromOpenAI(r[i])]
  BY <1>3, <1>4, Zenon DEF Talk!FromOpenAI
<1>6. Talk!ToOpenAI(q) = [i \in DOMAIN q |-> Talk!messageToOpenAI(q[i])]
  BY Zenon DEF Talk!ToOpenAI
<1>7. ASSUME NEW m \in AnyMessages PROVE Talk!messageToOpenAI(Talk!messageFromOpenAI(m)) = m
  <2>1. PICK role, text, calls, answers : role = m.role /\ text = m.text /\ calls = m.calls /\ answers = m.answers
    OBVIOUS
  <2>2. text \in Seq(Int) /\ m = [role |-> role, text |-> text, calls |-> calls, answers |-> answers]
    BY <2>1 DEF AnyMessages
  <2>3. PICK x, y : x = (IF Len(text) = 1 THEN text ELSE <<>>) /\ y = (IF Len(text) = 1 THEN <<>> ELSE text)
    OBVIOUS
  <2>4. (IF x # <<>> THEN x ELSE y) = text
    <3>1. CASE Len(text) = 1
      <4>1. text # <<>>
        BY <3>1
      <4> QED  BY <2>3, <3>1, <4>1
    <3>2. CASE Len(text) # 1
      BY <2>3, <3>2
    <3> QED  BY <3>1, <3>2
  <2>5. PICK w : w = Talk!messageFromOpenAI(m)
    OBVIOUS
  <2>6. w = [role |-> role, calls |-> calls, answers |-> answers, contentText |-> x, contentParts |-> y]
    BY <2>1, <2>3, <2>5, Zenon DEF Talk!messageFromOpenAI
  <2>7. w.role = role /\ w.calls = calls /\ w.answers = answers /\ w.contentText = x /\ w.contentParts = y
    BY ONLY <2>6
  <2>8. Talk!messageToOpenAI(w) = [role |-> role, text |-> text, calls |-> calls, answers |-> answers]
    BY <2>4, <2>7, Zenon DEF Talk!messageToOpenAI, Talk!Message
  <2> QED  BY <2>2, <2>5, <2>8
<1>8. DOMAIN q = 1..n /\ \A i \in 1..n : Talk!messageToOpenAI(q[i]) = r[i]
  BY <1>4, <1>5, <1>7
<1>9. Talk!ToOpenAI(q) = [i \in 1..n |-> r[i]]
  BY <1>6, <1>8
<1>10. r = [i \in 1..n |-> r[i]]
  BY <1>2, <1>4
<1> QED  BY <1>1, <1>3, <1>9, <1>10

(* What a finish reason tells.                                             *)
LEMMA FinishTells ==
  ASSUME provider \in AllProviders, NEW why \in {"end", "cut", "filter"}, NEW calls \in Nat,
         NEW reason, reason = Talk!FinishOf(why, calls)
  PROVE  /\ reason \in {"length", "tool_calls", "stop", "content_filter"}
         /\ reason = "length" <=> why = "cut"
         /\ calls > 0 /\ why = "end" /\ provider \in {"openai", "anthropic"} => reason = "tool_calls"
<1>1. CASE provider = "openai"
  BY <1>1 DEF Talk!FinishOf, Talk!OpenAIFinish
<1>2. CASE provider = "anthropic"
  BY <1>2 DEF Talk!FinishOf, Talk!mapStopReason
<1>3. CASE provider = "gemini"
  BY <1>3 DEF Talk!FinishOf, Talk!mapFinishReason
<1>4. CASE provider = "bedrock"
  BY <1>4 DEF Talk!FinishOf, Talk!BedrockFinish
<1>5. CASE provider = "vertexai"
  BY <1>5 DEF Talk!FinishOf, Talk!VertexFinish
<1> QED  BY <1>1, <1>2, <1>3, <1>4, <1>5 DEF AllProviders

(* What the client is told of it.                                          *)
Tells(r, reason) ==
  /\ r.why = "cut" <=> reason \in {"length", "max_tokens", "MAX_TOKENS"}
  /\ r.calls > 0 /\ r.why = "end" /\ provider # "gemini" /\ wire # "gemini" => reason \in {"tool_calls", "tool_use"}

(* A finish reason tells it, in the terms of every wire.                   *)
LEMMA StopsTell ==
  ASSUME provider \in AllProviders, NEW r, r.why \in {"end", "cut", "filter"}, r.calls \in Nat,
         r.calls > 0 => provider \notin {"bedrock", "vertexai"},
         NEW reason, reason = Talk!FinishOf(r.why, r.calls)
  PROVE  /\ Tells(r, reason) /\ Tells(r, Talk!AnthropicStop(reason))
         /\ wire = "gemini" => Tells(r, Talk!GeminiStop(reason))
<1>1. /\ reason \in {"length", "tool_calls", "stop", "content_filter"}
      /\ reason = "length" <=> r.why = "cut"
      /\ r.calls > 0 /\ r.why = "end" /\ provider \in {"openai", "anthropic"} => reason = "tool_calls"
  BY FinishTells
<1>2. r.calls > 0 /\ r.why = "end" /\ provider # "gemini" => reason = "tool_calls"
  BY <1>1 DEF AllProviders
<1>3. Tells(r, reason)
  BY <1>1, <1>2 DEF Tells
<1>4. Tells(r, Talk!AnthropicStop(reason))
  BY <1>1, <1>2 DEF Tells, Talk!AnthropicStop
<1>5. wire = "gemini" => Tells(r, Talk!GeminiStop(reason))
  BY <1>1, <1>2 DEF Tells, Talk!GeminiStop
<1> QED  BY <1>3, <1>4, <1>5

----------------------------------------------------------------------------
(* The steps.                                                              *)

(* The inductive invariant of a conversation.                              *)
TalkGood ==
  /\ TalkTyped /\ ShortOnes
  /\ Talk!RequestsArePaired /\ Talk!UserTextsReachTheModel /\ Talk!RepliesReachTheClient

(* A turn more.                                                            *)
LEMMA OneTurnMore ==
  ASSUME TalkTyped, NEW t, t \in OwnTurns, history' = Append(history, t)
  PROVE  /\ history' \in Seq(OwnTurns) /\ Len(history') = Len(history) + 1 /\ history' # <<>>
         /\ Talk!Last(history') = t /\ history'[Len(history) + 1] = t
         /\ Talk!Speaker' = t.role
         /\ Talk!TextsBy("user", history') = Talk!TextsBy("user", history) \o UserSays[t]
         /\ Talk!TextsBy("user", history) \in Seq(Int)
<1>1. PICK w, v, n : w = history /\ v = history' /\ n = Len(history)
  OBVIOUS
<1>2. w \in Seq(OwnTurns) /\ v = Append(w, t) /\ n = Len(w) /\ n \in Nat
  BY <1>1 DEF TalkTyped
<1>3. v \in Seq(OwnTurns) /\ Len(v) = n + 1 /\ v # <<>> /\ v[n + 1] = t
  BY <1>2, AppendProperties
<1>4. Talk!Last(v) = t
  BY <1>3, Zenon DEF Talk!Last
<1>5. Talk!Speaker' = t.role
  BY <1>1, <1>3, <1>4, Zenon DEF Talk!Speaker
<1>6. w \in Seq(AnyTurns) /\ v \in Seq(AnyTurns) /\ t \in AnyTurns
  BY <1>2, <1>3, TurnLaws
<1>7. Talk!TextsBy("user", w) = Maps(UserSays, w) /\ Talk!TextsBy("user", v) = Maps(UserSays, v)
  BY <1>6, TextsByIsMaps
<1>8. Maps(UserSays, Append(w, t)) = Maps(UserSays, w) \o UserSays[t] /\ Maps(UserSays, w) \in Seq(Int)
  BY <1>6, TurnLaws DEF MapLaws
<1> QED  BY <1>1, <1>2, <1>3, <1>4, <1>5, <1>7, <1>8

(* The reply comes back.                                                   *)
LEMMA RepliedKeeps ==
  ASSUME TalkTyped, ShortOnes, Talk!Speaker = "user",
         NEW r, r.texts \in Nat, r.calls \in Nat,
         NEW text, text \in Seq(Int), Len(text) = r.texts, NEW ids, ids \in Seq(Int), Numbered(ids),
         NEW blocks, blocks = Talk!Blocks("text", text) \o Talk!Blocks("call", ids),
         NEW reason, Talk!Replied(r, blocks, reason),
         GoodRequest(sent', guidance'), wire # "responses" => PairedTurns(sent'),
         ~Talk!Bridged => Len(ids) = r.calls /\ Tells(r, reason)
  PROVE  TalkGood'
<1>1. PICK t : t = Talk!Turn("assistant", blocks)
  OBVIOUS
<1>2. /\ t \in OwnTurns /\ t.role = "assistant" /\ t.blocks = blocks /\ UserSays[t] = <<>>
      /\ Talk!Of("text", blocks) = text /\ Talk!Of("call", blocks) = ids
  <2>1. Talk!Turn("assistant", blocks) \in OwnTurns
    BY ReplyTurn
  <2>1a. Talk!Of("text", blocks) = text /\ Talk!Of("call", blocks) = ids
    <3>1. Talk!Of("text", blocks) = text
      BY ReplySays
    <3>2. Talk!Of("call", blocks) = ids
      BY ReplyCalls
    <3> QED  BY <3>1, <3>2
  <2>2. t.role = "assistant" /\ t.blocks = blocks
    BY <1>1 DEF Talk!Turn
  <2>3. t \in AnyTurns
    BY <1>1, <2>1, TurnLaws
  <2>4. UserSays[t] = <<>>
    BY <2>2, <2>3 DEF UserSays
  <2> QED  BY <1>1, <2>1, <2>1a, <2>2, <2>4, Zenon
<1>3. /\ reply' = r /\ history' = Append(history, t) /\ finish' = reason
      /\ said' = said + r.texts /\ issued' = issued + r.calls
      /\ wire' = wire /\ provider' = provider /\ instructions' = instructions
  BY <1>1, Zenon DEF Talk!Replied
<1>4. /\ history' \in Seq(OwnTurns) /\ Len(history') = Len(history) + 1
      /\ Talk!Last(history') = t /\ history'[Len(history) + 1] = t
      /\ Talk!Speaker' = "assistant"
      /\ Talk!TextsBy("user", history') = Talk!TextsBy("user", history) \o <<>>
      /\ Talk!TextsBy("user", history) \in Seq(Int)
  BY <1>2, <1>3, OneTurnMore
<1>5. Talk!TextsBy("user", history') = Talk!TextsBy("user", history)
  <2>1. PICK u : u = Talk!TextsBy("user", history)
    OBVIOUS
  <2>2. u \o <<>> = u
    BY <1>4, <2>1, EmptyEnds
  <2> QED  BY <1>4, <2>1, <2>2
<1>6. TalkTyped'
  <2>1. /\ wire \in AllWires /\ provider \in AllProviders /\ instructions \in Seq(Nat)
        /\ said \in Nat /\ issued \in Nat
    BY Zenon DEF TalkTyped
  <2>2. said' \in Nat /\ issued' \in Nat
    BY <1>3, <2>1, SMTT(30)
  <2> QED  BY <1>3, <1>4, <2>1, <2>2, Zenon DEF TalkTyped, AllWires, AllProviders
<1>7. ShortOnes'
  <2> SUFFICES ASSUME Talk!OneShot'
               PROVE  instructions' = <<>> /\ Len(history') <= 2 /\ (Len(history') = 2 => history'[2].role = "assistant")
    BY Zenon DEF ShortOnes
  <2>1. Talk!OneShot
    BY <1>3, Zenon DEF Talk!OneShot
  <2>2. instructions = <<>> /\ Len(history) <= 2 /\ (Len(history) = 2 => history[2].role = "assistant")
    BY <2>1, Zenon DEF ShortOnes
  <2>3. Talk!Last(history).role = "user" /\ Talk!Last(history) = history[Len(history)] /\ history # <<>>
    BY SpeakerIsLast
  <2>4. Len(history) # 2
    BY <2>2, <2>3
  <2>5. Len(history) \in Nat
    BY DEF TalkTyped
  <2>6. Len(history') <= 2 /\ (Len(history') = 2 => Len(history) + 1 = 2)
    <3>1. PICK n, k : n = Len(history) /\ k = Len(history')
      OBVIOUS
    <3>2. n \in Nat /\ k = n + 1 /\ n <= 2 /\ n # 2
      BY <1>4, <2>2, <2>4, <2>5, <3>1
    <3>3. k <= 2 /\ (k = 2 => n + 1 = 2)
      BY ONLY <3>2
    <3> QED  BY <3>1, <3>3
  <2> QED  BY <1>2, <1>3, <1>4, <2>2, <2>6
<1>8. Talk!RequestsArePaired'
  <2>1. wire' # "responses" => PairedTurns(sent')
    BY <1>3
  <2> QED  BY <2>1, Zenon DEF Talk!RequestsArePaired, PairedTurns
<1>9. Talk!UserTextsReachTheModel'
  <2>1. Talk!TextsBy("user", sent') = Talk!TextsBy("user", history')
    BY <1>5 DEF GoodRequest
  <2>2. \/ guidance' = instructions'
        \/ provider' = "vertexai" /\ Len(instructions') > 1 /\ guidance' = <<Talk!Last(instructions')>>
    BY <1>3 DEF GoodRequest
  <2> QED  BY <2>1, <2>2, Zenon DEF Talk!UserTextsReachTheModel
<1>10. Talk!RepliesReachTheClient'
  <2>1. Talk!Of("text", Talk!Last(history').blocks) = text /\ Talk!Of("call", Talk!Last(history').blocks) = ids
    BY <1>2, <1>4
  <2>2. Len(Talk!Of("text", Talk!Last(history').blocks)) = reply'.texts
    BY <1>3, <2>1
  <2>3. ~Talk!Bridged' => ~Talk!Bridged
    BY <1>3, Zenon DEF Talk!Bridged
  <2>4. ASSUME ~Talk!Bridged'
        PROVE  /\ Len(Talk!Of("call", Talk!Last(history').blocks)) = reply'.calls
               /\ reply'.why = "cut" <=> finish' \in {"length", "max_tokens", "MAX_TOKENS"}
               /\ reply'.calls > 0 /\ reply'.why = "end" /\ provider' # "gemini" /\ wire' # "gemini" =>
                    finish' \in {"tool_calls", "tool_use"}
    <3>1. Len(ids) = r.calls /\ Tells(r, reason)
      BY <2>3, <2>4
    <3>2. /\ r.why = "cut" <=> reason \in {"length", "max_tokens", "MAX_TOKENS"}
          /\ r.calls > 0 /\ r.why = "end" /\ provider # "gemini" /\ wire # "gemini" => reason \in {"tool_calls", "tool_use"}
      BY <3>1, Zenon DEF Tells
    <3> QED  BY <1>3, <2>1, <3>1, <3>2, Zenon
  <2> QED  BY <2>2, <2>4, Zenon DEF Talk!RepliesReachTheClient
<1> QED  BY <1>6, <1>7, <1>8, <1>9, <1>10 DEF TalkGood

(* The client asks.                                                        *)
LEMMA AskKeeps ==
  ASSUME TalkGood, Talk!Ask PROVE TalkGood'
<1>1. /\ Len(history) < (IF Talk!OneShot THEN 1 ELSE MaxTurns)
      /\ UNCHANGED <<wire, provider, instructions, sent, guidance, reply, finish, issued>>
      /\ \E answered \in SUBSET DOMAIN Talk!Pending, texts \in 0..1 :
           LET ids     == [i \in DOMAIN Talk!Pending |-> i]
               results == Talk!FlattenSeq([i \in DOMAIN ids |-> IF ids[i] \in answered THEN <<Talk!Pending[ids[i]]>> ELSE <<>>])
               blocks  == Talk!Blocks("result", results) \o Talk!Blocks("text", [i \in 1..texts |-> said + i])
           IN  history' = Append(history, Talk!Turn("user", blocks)) /\ said' = said + texts
  BY Zenon DEF Talk!Ask, Talk!FlatMap
<1>2. PICK pending, ids : pending = Talk!Pending /\ ids = [i \in DOMAIN pending |-> i]
  OBVIOUS
<1>2a. PICK answered \in SUBSET DOMAIN pending, texts \in 0..1 :
        LET results == Talk!FlattenSeq([i \in DOMAIN ids |-> IF ids[i] \in answered THEN <<pending[ids[i]]>> ELSE <<>>])
            blocks  == Talk!Blocks("result", results) \o Talk!Blocks("text", [i \in 1..texts |-> said + i])
        IN  history' = Append(history, Talk!Turn("user", blocks)) /\ said' = said + texts
  BY <1>1, <1>2, Zenon
<1>2b. PICK results : results = Talk!FlattenSeq([i \in DOMAIN ids |-> IF ids[i] \in answered THEN <<pending[ids[i]]>> ELSE <<>>])
  OBVIOUS
<1>2c. PICK text, blocks :
         text = [i \in 1..texts |-> said + i] /\ blocks = Talk!Blocks("result", results) \o Talk!Blocks("text", text)
  OBVIOUS
<1>3. history' = Append(history, Talk!Turn("user", blocks)) /\ said' = said + texts
  BY <1>2a, <1>2b, <1>2c, Zenon
<1>4. TalkTyped /\ ShortOnes
  BY DEF TalkGood
<1>5. pending \in Seq(Int)
  <2>1. CASE history = <<>>
    <3>1. pending = <<>>
      BY <1>2, <2>1, Zenon DEF Talk!Pending
    <3> QED  BY <3>1
  <2>2. CASE history # <<>>
    <3>1. pending = Talk!Of("call", Talk!Last(history).blocks)
      BY <1>2, <2>2, Zenon DEF Talk!Pending
    <3>2. PICK n : n = Len(history)
      OBVIOUS
    <3>3. history \in Seq(OwnTurns)
      BY <1>4 DEF TalkTyped
    <3>4. n \in Nat /\ n # 0
      BY <2>2, <3>2, <3>3, EmptySeq
    <3>5. history[n] \in OwnTurns
      BY <3>2, <3>3, <3>4
    <3>6. Talk!Last(history) = history[n]
      BY <3>2, Zenon DEF Talk!Last
    <3>7. Talk!Last(history).blocks \in Seq(AnyBlocks)
      BY <3>5, <3>6, BlocksOfTurn
    <3> QED  BY <3>1, <3>7, OfLaws
  <2> QED  BY <2>1, <2>2
<1>6. results \in Seq(Int)
  <2>1. answered \subseteq DOMAIN pending
    OBVIOUS
  <2>2. ids = [i \in DOMAIN pending |-> i]
    BY <1>2
  <2>3. Given(pending, ids, answered) \in Seq(Int)
    BY ONLY <1>5, <2>1, <2>2, ResultsAreIds
  <2> QED  BY <1>2b, <2>3, Zenon DEF Given
<1>7. text \in Seq(Int)
  <2>1. said \in Nat
    BY <1>4 DEF TalkTyped
  <2>2. texts \in Nat /\ \A i \in 1..texts : said + i \in Int
    BY <2>1
  <2> QED  BY <1>2c, <2>2
<1>8. PICK t : t = Talk!Turn("user", blocks)
  OBVIOUS
<1>9. t \in OwnTurns /\ t.role = "user"
  BY <1>2c, <1>6, <1>7, <1>8, AskedTurn
<1>10. history' \in Seq(OwnTurns) /\ Len(history') = Len(history) + 1 /\ Talk!Speaker' = "user"
  BY <1>3, <1>4, <1>8, <1>9, OneTurnMore
<1>11. TalkTyped'
  BY <1>1, <1>3, <1>4, <1>10 DEF TalkTyped
<1>12. ShortOnes'
  <2> SUFFICES ASSUME Talk!OneShot'
               PROVE  instructions' = <<>> /\ Len(history') <= 2 /\ (Len(history') = 2 => history'[2].role = "assistant")
    BY Zenon DEF ShortOnes
  <2>1. Talk!OneShot
    BY <1>1, Zenon DEF Talk!OneShot
  <2>2. instructions = <<>>
    BY <1>4, <2>1, Zenon DEF ShortOnes
  <2>3. Len(history) < 1 /\ Len(history) \in Nat
    BY <1>1, <1>4, <2>1 DEF TalkTyped
  <2>4. Len(history') = 1
    BY <1>10, <2>3
  <2> QED  BY <1>1, <2>2, <2>4
<1>13. Talk!RequestsArePaired'
  <2>1. Talk!RequestsArePaired
    BY DEF TalkGood
  <2>2. wire' = wire /\ sent' = sent
    BY <1>1
  <2> QED  BY <2>1, <2>2, Zenon DEF Talk!RequestsArePaired
<1>14. Talk!UserTextsReachTheModel' /\ Talk!RepliesReachTheClient'
  <2>1. Talk!Speaker' # "assistant"
    BY <1>10
  <2> QED  BY <2>1, Zenon DEF Talk!UserTextsReachTheModel, Talk!RepliesReachTheClient
<1> QED  BY <1>11, <1>12, <1>13, <1>14 DEF TalkGood

(* A reply, whichever way it is given to the client.                       *)
LEMMA AnswerKeeps ==
  ASSUME TalkTyped, ShortOnes, Talk!Speaker = "user",
         NEW r, r \in Talk!Replies, NEW m, m = Talk!ReplyMessage(r.texts, r.calls),
         NEW reason, reason = Talk!FinishOf(r.why, r.calls),
         NEW blocks, NEW told, Talk!Replied(r, blocks, told),
         \/ blocks = Talk!Formatted(m) /\ told \in {reason, Talk!AnthropicStop(reason)}
         \/ blocks = Talk!messageToParts(m) /\ wire = "gemini" /\ told = Talk!GeminiStop(reason)
         \/ blocks = Talk!Blocks("text", m.text) /\ (Talk!Bridged \/ (wire = "completions" /\ told = reason)),
         GoodRequest(sent', guidance'), wire # "responses" => PairedTurns(sent')
  PROVE  TalkGood'
<1>1. said \in Nat /\ issued \in Nat /\ provider \in AllProviders
  BY DEF TalkTyped
<1>2. /\ r.texts \in Nat /\ r.calls \in Nat /\ r.why \in {"end", "cut", "filter"}
      /\ r.calls > 0 => provider \notin {"bedrock", "vertexai"} /\ wire # "completions"
      /\ m.text \in Seq(Int) /\ Len(m.text) = r.texts
      /\ m.calls \in Seq(Int) /\ Len(m.calls) = r.calls /\ Numbered(m.calls)
  BY <1>1, ReplyIsNumbered
<1>3. /\ Talk!Formatted(m) = Talk!Blocks("text", m.text) \o Talk!Blocks("call", m.calls)
      /\ \E ids \in Seq(Int) : /\ Numbered(ids) /\ Len(ids) = Len(m.calls)
                               /\ Talk!messageToParts(m) = Talk!Blocks("text", m.text) \o Talk!Blocks("call", ids)
      /\ Talk!Blocks("text", m.text) = Talk!Blocks("text", m.text) \o Talk!Blocks("call", <<>>)
      /\ <<>> \in Seq(Int) /\ Numbered(<<>>)
  BY <1>2, RepliesAreGiven
<1>4. /\ Tells(r, reason) /\ Tells(r, Talk!AnthropicStop(reason))
      /\ wire = "gemini" => Tells(r, Talk!GeminiStop(reason))
  BY <1>1, <1>2, StopsTell
<1>5. \E ids \in Seq(Int) :
        /\ Numbered(ids) /\ blocks = Talk!Blocks("text", m.text) \o Talk!Blocks("call", ids)
        /\ ~Talk!Bridged => Len(ids) = r.calls /\ Tells(r, told)
  <2>1. CASE blocks = Talk!Formatted(m) /\ told \in {reason, Talk!AnthropicStop(reason)}
    <3>1. Tells(r, told)
      BY <1>4, <2>1
    <3>2. blocks = Talk!Blocks("text", m.text) \o Talk!Blocks("call", m.calls)
      BY <1>3, <2>1
    <3> QED  BY <1>2, <3>1, <3>2, Zenon
  <2>2. CASE blocks = Talk!messageToParts(m) /\ wire = "gemini" /\ told = Talk!GeminiStop(reason)
    <3>1. Tells(r, told)
      BY <1>4, <2>2
    <3>2. PICK ids \in Seq(Int) : /\ Numbered(ids) /\ Len(ids) = Len(m.calls)
                                  /\ Talk!messageToParts(m) = Talk!Blocks("text", m.text) \o Talk!Blocks("call", ids)
      BY <1>3, Zenon
    <3>3. Len(ids) = r.calls
      BY <1>2, <3>2
    <3> QED  BY <2>2, <3>1, <3>2, <3>3, Zenon
  <2>3. CASE blocks = Talk!Blocks("text", m.text) /\ (Talk!Bridged \/ (wire = "completions" /\ told = reason))
    <3>1. ASSUME ~Talk!Bridged PROVE Len(<<>>) = r.calls /\ Tells(r, told)
      <4>1. wire = "completions" /\ told = reason
        BY <2>3, <3>1
      <4>2. ~(r.calls > 0)
        BY <1>2, <4>1
      <4>3. r.calls = 0
        BY <1>2, <4>2
      <4> QED  BY <1>4, <4>1, <4>3
    <3>2. blocks = Talk!Blocks("text", m.text) \o Talk!Blocks("call", <<>>)
      BY <1>3, <2>3
    <3> QED  BY <1>3, <3>1, <3>2, Zenon
  <2> QED  BY <2>1, <2>2, <2>3
<1>6. PICK ids \in Seq(Int) :
        /\ Numbered(ids) /\ blocks = Talk!Blocks("text", m.text) \o Talk!Blocks("call", ids)
        /\ ~Talk!Bridged => Len(ids) = r.calls /\ Tells(r, told)
  BY <1>5, Zenon
<1>7. PICK text : text = m.text
  OBVIOUS
<1>8. text \in Seq(Int) /\ Len(text) = r.texts /\ blocks = Talk!Blocks("text", text) \o Talk!Blocks("call", ids)
  BY <1>2, <1>6, <1>7
<1> QED  BY <1>2, <1>6, <1>8, RepliedKeeps

(* A request of the Chat Completions API, also behind an ingress.          *)
LEMMA ChatCompletionsKeeps ==
  ASSUME TalkGood, Talk!ChatCompletions PROVE TalkGood'
<1>1. PICK ms : ms = Talk!Repaired(Talk!Messages)
  OBVIOUS
<1>2. /\ Talk!Speaker = "user" /\ wire \notin {"responses", "completions"}
      /\ sent' = Talk!TransformChatRequest(ms) /\ guidance' = Talk!SystemOf(ms)
      /\ \E r \in Talk!Replies :
           CASE wire = "anthropic" -> Talk!Replied(r, Talk!Formatted(Talk!ReplyMessage(r.texts, r.calls)),
                                                   Talk!AnthropicStop(Talk!FinishOf(r.why, r.calls)))
             [] wire = "gemini"    -> Talk!Replied(r, Talk!messageToParts(Talk!ReplyMessage(r.texts, r.calls)),
                                                   Talk!GeminiStop(Talk!FinishOf(r.why, r.calls)))
             [] OTHER              -> Talk!Replied(r, Talk!Blocks("text", Talk!ReplyMessage(r.texts, r.calls).text)
                                                        \o Talk!Blocks("call", Talk!ReplyMessage(r.texts, r.calls).calls),
                                                   Talk!FinishOf(r.why, r.calls))
  BY <1>1, Zenon DEF Talk!ChatCompletions, Talk!Asked
<1>3. TalkTyped /\ ShortOnes /\ provider \in AllProviders
  BY DEF TalkGood, TalkTyped
<1>4. Brings(ms) /\ Paired(ms)
  BY <1>1, <1>2, <1>3, MessagesBear, BearingBrings, RepairedBrings
<1>5. GoodRequest(sent', guidance') /\ PairedTurns(sent')
  BY <1>2, <1>3, <1>4, AskedIsGood
<1>6. PICK r \in Talk!Replies :
        CASE wire = "anthropic" -> Talk!Replied(r, Talk!Formatted(Talk!ReplyMessage(r.texts, r.calls)),
                                                Talk!AnthropicStop(Talk!FinishOf(r.why, r.calls)))
          [] wire = "gemini"    -> Talk!Replied(r, Talk!messageToParts(Talk!ReplyMessage(r.texts, r.calls)),
                                                Talk!GeminiStop(Talk!FinishOf(r.why, r.calls)))
          [] OTHER              -> Talk!Replied(r, Talk!Blocks("text", Talk!ReplyMessage(r.texts, r.calls).text)
                                                     \o Talk!Blocks("call", Talk!ReplyMessage(r.texts, r.calls).calls),
                                                Talk!FinishOf(r.why, r.calls))
  BY <1>2, Zenon
<1>7. PICK m, reason : m = Talk!ReplyMessage(r.texts, r.calls) /\ reason = Talk!FinishOf(r.why, r.calls)
  OBVIOUS
<1>8. \/ Talk!Replied(r, Talk!Formatted(m), Talk!AnthropicStop(reason))
      \/ wire = "gemini" /\ Talk!Replied(r, Talk!messageToParts(m), Talk!GeminiStop(reason))
      \/ Talk!Replied(r, Talk!Formatted(m), reason)
  BY <1>6, <1>7, Zenon DEF Talk!Formatted
<1>9. CASE Talk!Replied(r, Talk!Formatted(m), Talk!AnthropicStop(reason))
  <2>1. PICK blocks, told : blocks = Talk!Formatted(m) /\ told = Talk!AnthropicStop(reason)
    OBVIOUS
  <2>2. Talk!Replied(r, blocks, told)
    BY <1>9, <2>1, Zenon
  <2> QED  BY <1>2, <1>3, <1>5, <1>7, <2>1, <2>2, AnswerKeeps
<1>10. CASE wire = "gemini" /\ Talk!Replied(r, Talk!messageToParts(m), Talk!GeminiStop(reason))
  <2>1. PICK blocks, told : blocks = Talk!messageToParts(m) /\ told = Talk!GeminiStop(reason)
    OBVIOUS
  <2>2. Talk!Replied(r, blocks, told)
    BY <1>10, <2>1, Zenon
  <2> QED  BY <1>2, <1>3, <1>5, <1>7, <1>10, <2>1, <2>2, AnswerKeeps
<1>11. CASE Talk!Replied(r, Talk!Formatted(m), reason)
  <2>1. PICK blocks, told : blocks = Talk!Formatted(m) /\ told = reason
    OBVIOUS
  <2>2. Talk!Replied(r, blocks, told)
    BY <1>11, <2>1, Zenon
  <2> QED  BY <1>2, <1>3, <1>5, <1>7, <2>1, <2>2, AnswerKeeps
<1> QED  BY <1>8, <1>9, <1>10, <1>11

(* One of the Responses API, as it is or through the bridge.               *)
LEMMA CreateResponseKeeps ==
  ASSUME TalkGood, Talk!CreateResponse PROVE TalkGood'
<1>1. /\ Talk!Speaker = "user" /\ wire = "responses"
      /\ TalkTyped /\ ShortOnes /\ provider \in AllProviders
  BY Zenon DEF TalkGood, TalkTyped, Talk!CreateResponse
<1>2. PICK r \in Talk!Replies :
        \/ /\ provider = "openai" /\ sent' = history /\ guidance' = instructions
           /\ Talk!Replied(r, Talk!Formatted(Talk!ReplyMessage(r.texts, r.calls)), Talk!FinishOf(r.why, r.calls))
        \/ /\ provider # "openai" /\ Talk!Asked(Talk!convertToChatRequest)
           /\ Talk!Replied(r, Talk!Blocks("text", Talk!ReplyMessage(r.texts, r.calls).text), "completed")
  BY Zenon DEF Talk!CreateResponse, Talk!Formatted, Talk!convertFromChatResponse
<1>3. PICK m, reason : m = Talk!ReplyMessage(r.texts, r.calls) /\ reason = Talk!FinishOf(r.why, r.calls)
  OBVIOUS
<1>4. CASE /\ provider = "openai" /\ sent' = history /\ guidance' = instructions
           /\ Talk!Replied(r, Talk!Formatted(Talk!ReplyMessage(r.texts, r.calls)), Talk!FinishOf(r.why, r.calls))
  <2>1. PICK blocks, told : blocks = Talk!Formatted(m) /\ told = reason
    OBVIOUS
  <2>2. Talk!Replied(r, blocks, told)
    BY <1>3, <1>4, <2>1, Zenon
  <2>3. GoodRequest(sent', guidance')
    BY <1>4, Zenon DEF GoodRequest
  <2> QED  BY <1>1, <1>3, <2>1, <2>2, <2>3, AnswerKeeps
<1>5. CASE /\ provider # "openai" /\ Talk!Asked(Talk!convertToChatRequest)
           /\ Talk!Replied(r, Talk!Blocks("text", Talk!ReplyMessage(r.texts, r.calls).text), "completed")
  <2>1. PICK blocks, told : blocks = Talk!Blocks("text", m.text) /\ told = "completed"
    OBVIOUS
  <2>2. Talk!Replied(r, blocks, told)
    BY <1>3, <1>5, <2>1, Zenon
  <2>3. Talk!Bridged
    BY <1>1, <1>5, Zenon DEF Talk!Bridged
  <2>4. PICK ms : ms = Talk!convertToChatRequest
    OBVIOUS
  <2>5. sent' = Talk!TransformChatRequest(ms) /\ guidance' = Talk!SystemOf(ms)
    BY <1>5, <2>4, Zenon DEF Talk!Asked
  <2>6. Brings(ms)
    BY <1>1, <2>4, BridgeBears, BearingBrings
  <2>7. GoodRequest(sent', guidance')
    BY <1>1, <2>5, <2>6, AskedIsGood
  <2> QED  BY <1>1, <1>3, <2>1, <2>2, <2>3, <2>7, AnswerKeeps
<1> QED  BY <1>2, <1>4, <1>5

(* One of the legacy completions.                                          *)
LEMMA CompletionsKeeps ==
  ASSUME TalkGood, Talk!Completions PROVE TalkGood'
<1>1. /\ Talk!Speaker = "user" /\ wire = "completions"
      /\ TalkTyped /\ ShortOnes /\ provider \in AllProviders
  BY Zenon DEF TalkGood, TalkTyped, Talk!Completions
<1>2. PICK text, m1, ms : /\ text = Talk!Of("text", Talk!Last(history).blocks)
                          /\ m1 = Talk!Text("user", text) /\ ms = <<m1>>
  OBVIOUS
<1>3. sent' = Talk!TransformChatRequest(ms) /\ guidance' = Talk!SystemOf(ms)
  BY <1>2, Zenon DEF Talk!Completions, Talk!Asked, Talk!promptToChatMessages
<1>4. Brings(ms)
  <2>1. Talk!OneShot
    BY <1>1 DEF Talk!OneShot
  <2>2. Bearing(<<Talk!Text("user", Talk!Of("text", Talk!Last(history).blocks))>>)
    BY <1>1, <2>1, PromptBears
  <2> QED  BY <1>2, <2>2, BearingBrings
<1>5. Paired(ms)
  <2>1. ms \in Seq(OwnMessages)
    BY <1>4 DEF Brings
  <2>2. ms[1] = m1 /\ DOMAIN ms = 1..1
    BY <1>2
  <2>3. m1 \in OwnMessages
    BY <2>1, <2>2
  <2>4. m1.role = "user" /\ m1.calls = <<>>
    BY <1>2 DEF Talk!Text, Talk!Message
  <2> QED  BY <1>2, <2>3, <2>4, PairedOne
<1>6. GoodRequest(sent', guidance') /\ PairedTurns(sent')
  BY <1>1, <1>3, <1>4, <1>5, AskedIsGood
<1>7. PICK r \in Talk!Replies :
        Talk!Replied(r, Talk!Blocks("text", Talk!ReplyMessage(r.texts, r.calls).text), Talk!FinishOf(r.why, r.calls))
  BY Zenon DEF Talk!Completions, Talk!TransformCompletionsResponse
<1>8. PICK m, reason : m = Talk!ReplyMessage(r.texts, r.calls) /\ reason = Talk!FinishOf(r.why, r.calls)
  OBVIOUS
<1>9. PICK blocks : blocks = Talk!Blocks("text", m.text)
  OBVIOUS
<1>10. Talk!Replied(r, blocks, reason)
  BY <1>7, <1>8, <1>9, Zenon
<1> QED  BY <1>1, <1>6, <1>8, <1>9, <1>10, AnswerKeeps

(* Nobody says anything.                                                   *)
LEMMA SilenceKeeps ==
  ASSUME TalkGood, UNCHANGED talkVars PROVE TalkGood'
<1>1. /\ wire' = wire /\ provider' = provider /\ instructions' = instructions /\ history' = history
      /\ sent' = sent /\ guidance' = guidance /\ reply' = reply /\ finish' = finish /\ said' = said /\ issued' = issued
  BY DEF talkVars
<1>2. /\ TalkTyped /\ ShortOnes /\ Talk!RequestsArePaired
      /\ Talk!UserTextsReachTheModel /\ Talk!RepliesReachTheClient
  BY DEF TalkGood
<1>3. TalkTyped'
  BY <1>1, <1>2, Zenon DEF TalkTyped, AllWires, AllProviders
<1>4. Talk!OneShot' = Talk!OneShot /\ Talk!Speaker' = Talk!Speaker /\ Talk!Bridged' = Talk!Bridged
  BY <1>1, Zenon DEF Talk!OneShot, Talk!Speaker, Talk!Bridged
<1>5. ShortOnes'
  BY <1>1, <1>2, <1>4, Zenon DEF ShortOnes
<1>6. Talk!RequestsArePaired'
  BY <1>1, <1>2, Zenon DEF Talk!RequestsArePaired
<1>7. Talk!UserTextsReachTheModel'
  BY <1>1, <1>2, <1>4, Zenon DEF Talk!UserTextsReachTheModel
<1>8. Talk!RepliesReachTheClient'
  BY <1>1, <1>2, <1>4, Zenon DEF Talk!RepliesReachTheClient
<1> QED  BY <1>3, <1>5, <1>6, <1>7, <1>8, Zenon DEF TalkGood

(* The invariant, of the behaviours with a conversation.                   *)
TalkInv == part = "talk" => TalkGood

(* Nothing is sent at the start.                                           *)
LEMMA TalkBegins ==
  ASSUME MCInit PROVE TalkInv
<1> SUFFICES ASSUME part = "talk" PROVE TalkGood
  BY DEF TalkInv
<1>1. Talk!Init
  BY DEF MCInit
<1>2. /\ wire \in Wires /\ provider \in Providers
      /\ instructions \in (IF Talk!OneShot THEN {<<>>} ELSE Instructions)
      /\ history = <<>> /\ sent = <<>> /\ said = 0 /\ issued = 0
  BY <1>1, Zenon DEF Talk!Init
<1>3. Wires \subseteq AllWires /\ Providers \subseteq AllProviders /\ Instructions \subseteq Seq(Nat)
  BY TalkAssumption DEF Talk!ConstantsOK, AllWires, AllProviders
<1>4. TalkTyped
  <2>1. <<>> \in Seq(Nat) /\ history \in Seq(OwnTurns) /\ said \in Nat /\ issued \in Nat
    BY <1>2
  <2>2. instructions \in Seq(Nat)
    BY <1>2, <1>3, <2>1
  <2> QED  BY <1>2, <1>3, <2>1, <2>2 DEF TalkTyped
<1>5. ShortOnes
  BY <1>2 DEF ShortOnes
<1>6. Talk!RequestsArePaired /\ Talk!UserTextsReachTheModel /\ Talk!RepliesReachTheClient
  <2>1. DOMAIN sent = {}
    BY <1>2
  <2> QED  BY <1>2, <2>1, Zenon DEF Talk!RequestsArePaired, Talk!UserTextsReachTheModel, Talk!RepliesReachTheClient
<1> QED  BY <1>4, <1>5, <1>6 DEF TalkGood

(* Every step of a conversation keeps the invariant.                       *)
LEMMA TalkGoesOn ==
  ASSUME TalkInv, [MCNext]_MCVars PROVE TalkInv'
<1>1. /\ part' = part
      /\ part = "talk" => Talk!Next \/ UNCHANGED talkVars
  BY DEF MCNext, CallStep, TalkStep, GateStep, ShadowStep, Rest, MCVars
<1> SUFFICES ASSUME part = "talk" PROVE TalkGood'
  BY <1>1 DEF TalkInv
<1>2. TalkGood
  BY DEF TalkInv
<1>3. CASE Talk!Ask
  BY <1>2, <1>3, AskKeeps
<1>4. CASE Talk!ChatCompletions
  BY <1>2, <1>4, ChatCompletionsKeeps
<1>5. CASE Talk!CreateResponse
  BY <1>2, <1>5, CreateResponseKeeps
<1>6. CASE Talk!Completions
  BY <1>2, <1>6, CompletionsKeeps
<1>7. CASE UNCHANGED talkVars
  BY <1>2, <1>7, SilenceKeeps
<1> QED  BY <1>1, <1>3, <1>4, <1>5, <1>6, <1>7 DEF Talk!Next

(* It holds throughout.                                                    *)
LEMMA TalkInvariant == MCSpec => []TalkInv
<1>1. MCInit => TalkInv
  BY TalkBegins
<1>2. TalkInv /\ [MCNext]_MCVars => TalkInv'
  BY TalkGoesOn
<1> QED  BY <1>1, <1>2, PTL DEF MCSpec

(* Whatever a client sends, and whichever calls of the last reply it       *)
(* answers, every tool call a provider gets is answered before anything    *)
(* else is said, and no answer comes without its call, through ingress,    *)
(* repair, merging and adapter (helpers.go:691-764), in conversations of   *)
(* any length with any number of calls in a reply; but for the Responses   *)
(* API, whose history nobody repairs.                                      *)
THEOREM RequestsPaired == MCSpec => []RequestsArePaired
<1>1. TalkInv => RequestsArePaired
  BY DEF TalkInv, TalkGood, RequestsArePaired
<1> QED  BY <1>1, TalkInvariant, PTL

(* What the user wrote reaches the model in its order, with the client's   *)
(* instructions, of which Vertex AI gets one message; what the model       *)
(* replied reaches the client, with why it stopped; and a replay asks of   *)
(* its target what the client asked, message by message.                   *)
THEOREM TextsArrive == MCSpec => []TextsGetThrough
<1>1. TalkInv => TextsGetThrough
  <2> SUFFICES ASSUME TalkInv, part = "talk"
               PROVE  /\ Talk!UserTextsReachTheModel /\ Talk!RepliesReachTheClient
                      /\ Talk!ReplaysAskTheSame
    BY Zenon DEF TextsGetThrough
  <2>1. /\ TalkTyped /\ ShortOnes
        /\ Talk!UserTextsReachTheModel /\ Talk!RepliesReachTheClient
    BY DEF TalkInv, TalkGood
  <2>2. Talk!ReplaysAskTheSame
    BY <2>1, ReplaysAgain
  <2> QED  BY <2>1, <2>2
<1> QED  BY <1>1, TalkInvariant, PTL
=============================================================================
