------------------------------ MODULE SeqFacts ------------------------------
(***************************************************************************)
(* Facts about sequences read as queues of distinct elements, used by the  *)
(* proofs of the file server and of the stream buffers.                    *)
(***************************************************************************)
EXTENDS Integers, Sequences, SequencesExt, FiniteSetTheorems, WellFoundedInduction,
        TLAPS

(* The library's definitions, which go through DOMAIN, by index.           *)
LEMMA SetView ==
  ASSUME NEW S, NEW s \in Seq(S)
  PROVE  /\ ToSet(s) = {s[i] : i \in 1 .. Len(s)}
         /\ IsInjective(s) <=>
              \A i, k \in 1 .. Len(s) : s[i] = s[k] => i = k
BY DEF ToSet, IsInjective

LEMMA ElemsIn ==
  ASSUME NEW S, NEW s \in Seq(S)
  PROVE  ToSet(s) \subseteq S
BY DEF ToSet

LEMMA ElemAt ==
  ASSUME NEW S, NEW s \in Seq(S), NEW i \in 1 .. Len(s)
  PROVE  s[i] \in S /\ s[i] \in ToSet(s)
BY SetView

LEMMA ElemsEmpty == ToSet(<<>>) = {} /\ IsInjective(<<>>)
BY DEF ToSet, IsInjective

(* A queue is empty exactly when it has no element.                        *)
LEMMA EmptyElems ==
  ASSUME NEW S, NEW s \in Seq(S)
  PROVE  s = <<>> <=> ToSet(s) = {}
<1>1. ASSUME s # <<>> PROVE s[1] \in ToSet(s)
  BY <1>1 DEF ToSet
<1>2. QED  BY <1>1, ElemsEmpty

LEMMA ElemsAppend ==
  ASSUME NEW S, NEW s \in Seq(S), NEW x \in S
  PROVE  /\ Append(s, x) \in Seq(S)
         /\ ToSet(Append(s, x)) = ToSet(s) \cup {x}
         /\ IsInjective(s) /\ x \notin ToSet(s) => IsInjective(Append(s, x))
<1> DEFINE t == Append(s, x)
<1>1. t \in Seq(S) /\ Len(t) = Len(s) + 1 /\ Len(s) \in Nat
  OBVIOUS
<1>2. \A i \in 1 .. Len(s) + 1 : t[i] = IF i = Len(s) + 1 THEN x ELSE s[i]
  OBVIOUS
<1> HIDE DEF t
<1>3. ToSet(t) = ToSet(s) \cup {x}
  <2>1. ASSUME NEW e \in ToSet(t) PROVE e \in ToSet(s) \cup {x}
    BY <1>1, <1>2 DEF ToSet
  <2>2. ASSUME NEW e \in ToSet(s) PROVE e \in ToSet(t)
    <3> PICK i \in 1 .. Len(s) : e = s[i]  BY DEF ToSet
    <3>1. i \in 1 .. Len(t) /\ t[i] = e  BY <1>1, <1>2
    <3>2. QED  BY <3>1 DEF ToSet
  <2>3. x \in ToSet(t)
    <3>1. Len(t) \in 1 .. Len(t) /\ t[Len(t)] = x  BY <1>1, <1>2
    <3>2. QED  BY <3>1 DEF ToSet
  <2>4. QED  BY <2>1, <2>2, <2>3
<1>4. ASSUME IsInjective(s), x \notin ToSet(s) PROVE IsInjective(t)
  <2> SUFFICES ASSUME NEW i \in 1 .. Len(t), NEW k \in 1 .. Len(t), t[i] = t[k]
               PROVE  i = k
    BY DEF IsInjective
  <2>1. \A m \in 1 .. Len(s) : s[m] # x  BY <1>4 DEF ToSet
  <2>2. QED  BY <1>1, <1>2, <1>4, <2>1 DEF IsInjective
<1>5. QED  BY <1>1, <1>3, <1>4 DEF t

LEMMA ElemsTail ==
  ASSUME NEW S, NEW s \in Seq(S), s # <<>>
  PROVE  /\ Head(s) \in S /\ Tail(s) \in Seq(S)
         /\ ToSet(s) = {Head(s)} \cup ToSet(Tail(s))
         /\ IsInjective(s) => IsInjective(Tail(s)) /\ Head(s) \notin ToSet(Tail(s))
<1> DEFINE t == Tail(s)
<1>1. t \in Seq(S) /\ Len(t) = Len(s) - 1 /\ Len(s) \in Nat /\ Len(s) > 0
  OBVIOUS
<1>2. (\A i \in 1 .. Len(t) : t[i] = s[i + 1]) /\ Head(s) = s[1]
  OBVIOUS
<1>3. Head(s) \in S  BY <1>1, <1>2
<1> HIDE DEF t
<1>4. ToSet(s) = {Head(s)} \cup ToSet(t)
  <2>1. ASSUME NEW e \in ToSet(s) PROVE e \in {Head(s)} \cup ToSet(t)
    <3> PICK i \in 1 .. Len(s) : e = s[i]  BY DEF ToSet
    <3>1. CASE i = 1  BY <3>1, <1>2
    <3>2. CASE i # 1
      <4>1. i - 1 \in 1 .. Len(t) /\ t[i - 1] = e  BY <3>2, <1>1, <1>2
      <4>2. QED  BY <4>1 DEF ToSet
    <3>3. QED  BY <3>1, <3>2
  <2>2. Head(s) \in ToSet(s)  BY <1>1, <1>2 DEF ToSet
  <2>3. ASSUME NEW e \in ToSet(t) PROVE e \in ToSet(s)
    <3> PICK i \in 1 .. Len(t) : e = t[i]  BY DEF ToSet
    <3>1. i + 1 \in 1 .. Len(s) /\ s[i + 1] = e  BY <1>1, <1>2
    <3>2. QED  BY <3>1 DEF ToSet
  <2>4. QED  BY <2>1, <2>2, <2>3
<1>5. ASSUME IsInjective(s) PROVE IsInjective(t) /\ Head(s) \notin ToSet(t)
  <2>1. IsInjective(t)
    <3> SUFFICES ASSUME NEW i \in 1 .. Len(t), NEW k \in 1 .. Len(t), t[i] = t[k]
                 PROVE  i = k
      BY DEF IsInjective
    <3>1. i + 1 \in 1 .. Len(s) /\ k + 1 \in 1 .. Len(s) /\ s[i + 1] = s[k + 1]
      BY <1>1, <1>2
    <3>2. i + 1 = k + 1  BY <1>5, <3>1 DEF IsInjective
    <3>3. i \in Nat /\ k \in Nat  OBVIOUS
    <3>4. QED  BY <3>2, <3>3
  <2>2. ASSUME NEW i \in 1 .. Len(t), Head(s) = t[i] PROVE FALSE
    <3>1. i + 1 \in 1 .. Len(s) /\ 1 \in 1 .. Len(s) /\ s[i + 1] = s[1] /\ i + 1 # 1
      BY <1>1, <1>2, <2>2
    <3>2. QED  BY <1>5, <3>1 DEF IsInjective
  <2>3. ToSet(t) = {t[i] : i \in 1 .. Len(t)}  BY <1>1, SetView
  <2>4. QED  BY <2>1, <2>2, <2>3
<1>6. QED  BY <1>1, <1>3, <1>4, <1>5 DEF t

LEMMA ElemsConcat ==
  ASSUME NEW S, NEW s \in Seq(S), NEW t \in Seq(S)
  PROVE  /\ s \o t \in Seq(S)
         /\ ToSet(s \o t) = ToSet(s) \cup ToSet(t)
         /\ IsInjective(s) /\ IsInjective(t) /\ ToSet(s) \cap ToSet(t) = {} =>
              IsInjective(s \o t)
<1> DEFINE u == s \o t
<1>1. /\ u \in Seq(S) /\ Len(u) = Len(s) + Len(t)
      /\ Len(s) \in Nat /\ Len(t) \in Nat
  OBVIOUS
<1>2. \A i \in 1 .. Len(u) : u[i] = IF i <= Len(s) THEN s[i] ELSE t[i - Len(s)]
  OBVIOUS
<1> HIDE DEF u
<1>3. ToSet(u) = ToSet(s) \cup ToSet(t)
  <2>1. ASSUME NEW e \in ToSet(u) PROVE e \in ToSet(s) \cup ToSet(t)
    <3> PICK i \in 1 .. Len(u) : e = u[i]  BY DEF ToSet
    <3>1. CASE i <= Len(s)
      BY <1>1, <1>2, <3>1 DEF ToSet
    <3>2. CASE ~(i <= Len(s))
      <4>1. i - Len(s) \in 1 .. Len(t) /\ t[i - Len(s)] = e  BY <1>1, <1>2, <3>2
      <4>2. QED  BY <4>1 DEF ToSet
    <3>3. QED  BY <3>1, <3>2
  <2>2. ASSUME NEW e \in ToSet(s) PROVE e \in ToSet(u)
    <3> PICK i \in 1 .. Len(s) : e = s[i]  BY DEF ToSet
    <3>1. i \in 1 .. Len(u) /\ u[i] = e  BY <1>1, <1>2
    <3>2. QED  BY <3>1 DEF ToSet
  <2>3. ASSUME NEW e \in ToSet(t) PROVE e \in ToSet(u)
    <3> PICK i \in 1 .. Len(t) : e = t[i]  BY DEF ToSet
    <3>1. /\ i + Len(s) \in 1 .. Len(u) /\ ~(i + Len(s) <= Len(s))
          /\ (i + Len(s)) - Len(s) = i
      BY <1>1
    <3>2. u[i + Len(s)] = e  BY <1>2, <3>1
    <3>3. QED  BY <3>1, <3>2 DEF ToSet
  <2>4. QED  BY <2>1, <2>2, <2>3
<1>4. ASSUME IsInjective(s), IsInjective(t), ToSet(s) \cap ToSet(t) = {}
      PROVE  IsInjective(u)
  <2> SUFFICES ASSUME NEW i \in 1 .. Len(u), NEW k \in 1 .. Len(u), u[i] = u[k]
               PROVE  i = k
    BY DEF IsInjective
  <2>1. \A m \in 1 .. Len(s), n \in 1 .. Len(t) : s[m] # t[n]
    <3>1. \A m \in 1 .. Len(s) : s[m] \in ToSet(s)  BY SetView
    <3>2. \A n \in 1 .. Len(t) : t[n] \in ToSet(t)  BY SetView
    <3>3. QED  BY <1>4, <3>1, <3>2
  <2>2. CASE i <= Len(s) /\ k <= Len(s)  BY <1>1, <1>2, <1>4, <2>2 DEF IsInjective
  <2>3. CASE i > Len(s) /\ k > Len(s)
    <3>1. /\ i - Len(s) \in 1 .. Len(t) /\ k - Len(s) \in 1 .. Len(t)
          /\ t[i - Len(s)] = t[k - Len(s)]
      BY <1>1, <1>2, <2>3
    <3>2. i - Len(s) = k - Len(s)  BY <1>4, <3>1 DEF IsInjective
    <3>3. QED  BY <1>1, <3>2
  <2>4. CASE i <= Len(s) /\ k > Len(s)
    <3>1. k - Len(s) \in 1 .. Len(t) /\ i \in 1 .. Len(s) /\ s[i] = t[k - Len(s)]
      BY <1>1, <1>2, <2>4
    <3>2. QED  BY <2>1, <3>1
  <2>5. CASE i > Len(s) /\ k <= Len(s)
    <3>1. i - Len(s) \in 1 .. Len(t) /\ k \in 1 .. Len(s) /\ s[k] = t[i - Len(s)]
      BY <1>1, <1>2, <2>5
    <3>2. QED  BY <2>1, <3>1
  <2>6. QED  BY <1>1, <2>2, <2>3, <2>4, <2>5
<1>5. QED  BY <1>1, <1>3, <1>4 DEF u

(* Putting an element in front of a queue, as the free lists do.           *)
LEMMA ElemsPush ==
  ASSUME NEW S, NEW s \in Seq(S), NEW x \in S
  PROVE  /\ <<x>> \o s \in Seq(S)
         /\ ToSet(<<x>> \o s) = {x} \cup ToSet(s)
         /\ IsInjective(s) /\ x \notin ToSet(s) => IsInjective(<<x>> \o s)
<1> DEFINE t == <<x>>
<1>1. t \in Seq(S) /\ ToSet(t) = {x} /\ IsInjective(t)
  BY DEF ToSet, IsInjective
<1>2. x \notin ToSet(s) => ToSet(t) \cap ToSet(s) = {}  BY <1>1
<1> HIDE DEF t
<1>3. /\ t \o s \in Seq(S) /\ ToSet(t \o s) = {x} \cup ToSet(s)
      /\ IsInjective(s) /\ x \notin ToSet(s) => IsInjective(t \o s)
  BY <1>1, <1>2, ElemsConcat
<1>4. QED  BY <1>3 DEF t

(* Taking the newest element off again, as unwinding a callback does.      *)
LEMMA ElemsFront ==
  ASSUME NEW S, NEW s \in Seq(S), s # <<>>
  PROVE  /\ Last(s) \in ToSet(s)
         /\ Front(s) \in Seq(S)
         /\ ToSet(s) = ToSet(Front(s)) \cup {Last(s)}
         /\ IsInjective(s) => /\ IsInjective(Front(s))
                           /\ Last(s) \notin ToSet(Front(s))
<1> DEFINE t == SubSeq(s, 1, Len(s) - 1)
<1>1. Len(s) \in Nat /\ Len(s) > 0
  OBVIOUS
<1>2. Len(s) - 1 \in Nat /\ \A i \in 1 .. Len(s) - 1 : s[i] \in S
  BY <1>1
<1>3. t = [i \in 1 .. Len(s) - 1 |-> s[i]]
  BY <1>1
<1> HIDE DEF t
<1>4. t \in Seq(S) /\ Len(t) = Len(s) - 1 /\ \A i \in 1 .. Len(s) - 1 : t[i] = s[i]
  BY <1>2, <1>3
<1>5. ToSet(t) = {t[i] : i \in 1 .. Len(t)} /\ ToSet(s) = {s[i] : i \in 1 .. Len(s)}
  BY <1>4, SetView
<1>6. Front(s) = t /\ Last(s) = s[Len(s)]  BY DEF Front, Last, t
<1>7. Last(s) \in ToSet(s) /\ ToSet(s) = ToSet(t) \cup {Last(s)}
  <2>1. Last(s) \in ToSet(s) /\ ToSet(t) \subseteq ToSet(s)
    BY <1>1, <1>4, <1>5, <1>6
  <2>2. ASSUME NEW i \in 1 .. Len(s), i # Len(s) PROVE s[i] \in ToSet(t)
    <3>1. i \in 1 .. Len(t) /\ t[i] = s[i]  BY <1>1, <1>4, <2>2
    <3>2. QED  BY <1>5, <3>1
  <2>3. ASSUME NEW e \in ToSet(s) PROVE e \in ToSet(t) \cup {Last(s)}
    <3> PICK i \in 1 .. Len(s) : e = s[i]  BY <1>5
    <3>1. CASE i = Len(s)  BY <1>6, <3>1
    <3>2. CASE i # Len(s)  BY <2>2, <3>2
    <3>3. QED  BY <3>1, <3>2
  <2>4. QED  BY <2>1, <2>3
<1>8. ASSUME IsInjective(s) PROVE IsInjective(t) /\ Last(s) \notin ToSet(t)
  <2>1. \A i, k \in 1 .. Len(s) : s[i] = s[k] => i = k  BY <1>8, SetView
  <2>2. \A i, k \in 1 .. Len(t) : t[i] = t[k] => i = k  BY <1>1, <1>4, <2>1
  <2>3. IsInjective(t)  BY <1>4, <2>2, SetView
  <2>4. Last(s) \notin ToSet(t)  BY <1>1, <1>4, <1>5, <1>6, <2>1
  <2>5. QED  BY <2>3, <2>4
<1>9. QED  BY <1>4, <1>6, <1>7, <1>8

(* Removing one entry of a queue removes exactly its element.              *)
LEMMA ElemsWithout ==
  ASSUME NEW S, NEW s \in Seq(S), NEW i \in 1 .. Len(s), IsInjective(s)
  PROVE  /\ RemoveAt(s, i) \in Seq(S)
         /\ ToSet(RemoveAt(s, i)) = ToSet(s) \ {s[i]}
         /\ IsInjective(RemoveAt(s, i))
<1> DEFINE a == SubSeq(s, 1, i - 1)
           b == SubSeq(s, i + 1, Len(s))
<1>1. Len(s) \in Nat /\ i \in Nat /\ i >= 1 /\ i <= Len(s)
  OBVIOUS
<1>2. a \in Seq(S) /\ Len(a) = i - 1 /\ \A k \in 1 .. i - 1 : a[k] = s[k]
  BY <1>1
<1>3. b \in Seq(S) /\ Len(b) = Len(s) - i /\ \A k \in 1 .. Len(s) - i : b[k] = s[k + i]
  BY <1>1
<1> HIDE DEF a, b
<1>4. IsInjective(a)
  BY <1>1, <1>2 DEF IsInjective
<1>5. IsInjective(b)
  <2> SUFFICES ASSUME NEW m \in 1 .. Len(b), NEW n \in 1 .. Len(b), b[m] = b[n]
               PROVE  m = n
    BY DEF IsInjective
  <2>1. s[m + i] = b[m] /\ s[n + i] = b[n]  BY <1>3
  <2>2. m + i \in 1 .. Len(s) /\ n + i \in 1 .. Len(s)  BY <1>1, <1>3
  <2>3. m + i = n + i  BY <2>1, <2>2 DEF IsInjective
  <2>4. QED  BY <1>1, <1>3, <2>3
<1>6. ASSUME NEW m \in 1 .. Len(a), NEW n \in 1 .. Len(b) PROVE a[m] # b[n]
  <2>1. m \in 1 .. Len(s) /\ n + i \in 1 .. Len(s) /\ m # n + i
    BY <1>1, <1>2, <1>3
  <2>2. s[m] # s[n + i]  BY <2>1 DEF IsInjective
  <2>3. a[m] = s[m] /\ b[n] = s[n + i]  BY <1>2, <1>3
  <2>4. QED  BY <2>2, <2>3
<1>7. ToSet(a) \cap ToSet(b) = {}  BY <1>6 DEF ToSet
<1>8. ToSet(a) \cup ToSet(b) = ToSet(s) \ {s[i]}
  <2>1. ASSUME NEW e \in ToSet(a) PROVE e \in ToSet(s) \ {s[i]}
    <3> PICK m \in 1 .. Len(a) : e = a[m]  BY <1>2 DEF ToSet
    <3>1. m \in 1 .. Len(s) /\ m # i /\ e = s[m]  BY <1>1, <1>2
    <3>2. QED  BY <3>1 DEF ToSet, IsInjective
  <2>2. ASSUME NEW e \in ToSet(b) PROVE e \in ToSet(s) \ {s[i]}
    <3> PICK m \in 1 .. Len(b) : e = b[m]  BY <1>3 DEF ToSet
    <3>1. m + i \in 1 .. Len(s) /\ m + i # i /\ e = s[m + i]  BY <1>1, <1>3
    <3>2. QED  BY <3>1 DEF ToSet, IsInjective
  <2>3. ASSUME NEW e \in ToSet(s) \ {s[i]} PROVE e \in ToSet(a) \cup ToSet(b)
    <3> PICK m \in 1 .. Len(s) : e = s[m]  BY DEF ToSet
    <3>1. CASE m < i
      <4>1. m \in 1 .. Len(a) /\ a[m] = e  BY <1>1, <1>2, <3>1
      <4>2. QED  BY <4>1 DEF ToSet
    <3>2. CASE m > i
      <4>1. m - i \in 1 .. Len(b) /\ b[m - i] = e  BY <1>1, <1>3, <3>2
      <4>2. QED  BY <4>1 DEF ToSet
    <3>3. m # i  OBVIOUS
    <3>4. QED  BY <1>1, <3>1, <3>2, <3>3
  <2>4. QED  BY <2>1, <2>2, <2>3
<1>9. /\ a \o b \in Seq(S) /\ ToSet(a \o b) = ToSet(a) \cup ToSet(b)
      /\ IsInjective(a \o b)
  BY <1>2, <1>3, <1>4, <1>5, <1>7, ElemsConcat
<1>10. RemoveAt(s, i) = a \o b  BY DEF RemoveAt, a, b
<1>11. QED  BY <1>8, <1>9, <1>10

(* What is left of a queue, place by place.                                *)
LEMMA RemoveAtView ==
  ASSUME NEW S, NEW s \in Seq(S), NEW i \in 1 .. Len(s)
  PROVE  /\ Len(RemoveAt(s, i)) = Len(s) - 1
         /\ \A k \in 1 .. Len(s) - 1 : RemoveAt(s, i)[k] = IF k < i THEN s[k] ELSE s[k + 1]
<1> DEFINE a == SubSeq(s, 1, i - 1)
           b == SubSeq(s, i + 1, Len(s))
<1>1. Len(s) \in Nat /\ i \in Nat /\ i >= 1 /\ i <= Len(s)
  OBVIOUS
<1>2. a \in Seq(S) /\ Len(a) = i - 1 /\ \A k \in 1 .. i - 1 : a[k] = s[k]
  BY <1>1
<1>3. b \in Seq(S) /\ Len(b) = Len(s) - i /\ \A k \in 1 .. Len(s) - i : b[k] = s[k + i]
  BY <1>1
<1>4. RemoveAt(s, i) = a \o b  BY DEF RemoveAt
<1> HIDE DEF a, b
<1>5. Len(a \o b) = Len(s) - 1
  <2>0. a \in Seq(S) /\ b \in Seq(S)  BY <1>2, <1>3
  <2>1. Len(a \o b) = Len(a) + Len(b)  BY <2>0
  <2>2. Len(a \o b) = (i - 1) + (Len(s) - i)  BY <1>2, <1>3, <2>1
  <2>3. PICK n \in Nat : n = Len(s)  BY <1>1
  <2>4. (i - 1) + (n - i) = n - 1  BY <1>1
  <2>5. QED  BY <2>2, <2>3, <2>4
<1>6. ASSUME NEW k \in 1 .. Len(s) - 1 PROVE (a \o b)[k] = IF k < i THEN s[k] ELSE s[k + 1]
  <2>1. CASE k < i  BY <1>1, <1>2, <1>3, <2>1
  <2>2. CASE ~(k < i)
    <3>1. k - (i - 1) \in 1 .. Len(s) - i /\ (k - (i - 1)) + i = k + 1  BY <1>1, <2>2
    <3>2. (a \o b)[k] = b[k - (i - 1)]  BY <1>1, <1>2, <1>3, <2>2
    <3>3. QED  BY <1>3, <2>2, <3>1, <3>2
  <2>3. QED  BY <2>1, <2>2
<1>7. QED  BY <1>4, <1>5, <1>6

(* A set of numbers has a least one.                                       *)
LEMMA LeastNumber ==
  ASSUME NEW I \in SUBSET Nat, I # {}
  PROVE  \E m \in I : \A n \in I : m <= n
<1>1. IsWellFoundedOn(OpToRel(<, Nat), Nat)  BY NatLessThanWellFounded
<1>2. PICK m \in I : \A n \in I : ~(<<n, m>> \in OpToRel(<, Nat))
  BY <1>1, WFMin
<1>3. \A n \in I : ~(n < m)  BY <1>2 DEF OpToRel
<1>4. QED  BY <1>3

(* Taking an element out of a queue, wherever it stands; at the head it is *)
(* what Tail does.                                                         *)
LEMMA ElemsRemoveFirst ==
  ASSUME NEW S, NEW s \in Seq(S), IsInjective(s), NEW e \in ToSet(s)
  PROVE  /\ RemoveFirst(s, e) \in Seq(S)
         /\ ToSet(RemoveFirst(s, e)) = ToSet(s) \ {e}
         /\ IsInjective(RemoveFirst(s, e))
         /\ e = s[1] => RemoveFirst(s, e) = Tail(s)
<1> DEFINE I == {i \in 1 .. Len(s) : s[i] = e}
           k == Min(I)
<1>1. I # {}  BY SetView
<1>2. RemoveFirst(s, e) = RemoveAt(s, k)
  BY <1>1 DEF RemoveFirst, SelectInSeq
<1>3. k \in I /\ \A n \in I : k <= n
  <2>1. I \in SUBSET Nat  OBVIOUS
  <2>2. PICK m \in I : \A n \in I : m <= n  BY <1>1, <2>1, LeastNumber
  <2>3. QED  BY <2>2 DEF Min
<1>4. k \in 1 .. Len(s) /\ s[k] = e  BY <1>3
<1> HIDE DEF k
<1>5. ASSUME e = s[1] PROVE RemoveFirst(s, e) = Tail(s)
  <2>1. Len(s) \in Nat /\ 1 \in 1 .. Len(s)  BY <1>4
  <2>2. k = 1  BY <1>3, <1>5, <2>1
  <2>3. SubSeq(s, 1, 0) = <<>>  OBVIOUS
  <2>4. SubSeq(s, 2, Len(s)) = Tail(s)
    <3>1. /\ Tail(s) \in Seq(S) /\ Len(Tail(s)) = Len(s) - 1
          /\ \A i \in 1 .. Len(s) - 1 : Tail(s)[i] = s[i + 1]
      BY <2>1
    <3>2. /\ SubSeq(s, 2, Len(s)) \in Seq(S) /\ Len(SubSeq(s, 2, Len(s))) = Len(s) - 1
          /\ \A i \in 1 .. Len(s) - 1 : SubSeq(s, 2, Len(s))[i] = s[i + 1]
      BY <2>1
    <3>3. QED  BY <3>1, <3>2
  <2>5. <<>> \o Tail(s) = Tail(s)  BY <2>1
  <2>6. RemoveAt(s, 1) = SubSeq(s, 1, 0) \o SubSeq(s, 2, Len(s))
    BY DEF RemoveAt
  <2>7. QED  BY <1>2, <2>2, <2>3, <2>4, <2>5, <2>6
<1>6. /\ RemoveAt(s, k) \in Seq(S) /\ ToSet(RemoveAt(s, k)) = ToSet(s) \ {e}
      /\ IsInjective(RemoveAt(s, k))
  BY <1>4, ElemsWithout
<1>7. QED  BY <1>2, <1>5, <1>6

(* A queue of distinct elements is no longer than what it is taken from.   *)
LEMMA InjectiveLength ==
  ASSUME NEW S, IsFiniteSet(S), NEW s \in Seq(S), IsInjective(s)
  PROVE  Len(s) <= Cardinality(S)
<1>1. s \in [1 .. Len(s) -> S]  OBVIOUS
<1>2. s \in Injection(1 .. Len(s), S)
  BY <1>1, SetView DEF Injection
<1>3. Len(s) \in Nat  OBVIOUS
<1>4. Cardinality(1 .. Len(s)) = Len(s)
  <2>1. 1 \in Int /\ Len(s) \in Int  BY <1>3
  <2>2. Cardinality(1 .. Len(s)) = IF 1 > Len(s) THEN 0 ELSE Len(s) - 1 + 1
    BY <2>1, FS_Interval
  <2>3. QED  BY <1>3, <2>2
<1>5. QED  BY <1>2, <1>4, FS_Injection

(* A pool is handed out in the order of its places at first.               *)
LEMMA PlacesInOrder ==
  ASSUME NEW n \in Nat, NEW s, s = [i \in 1 .. n |-> i]
  PROVE  s \in Seq(1 .. n) /\ IsInjective(s) /\ ToSet(s) = 1 .. n
<1>1. s \in Seq(1 .. n) /\ Len(s) = n /\ \A i \in 1 .. n : s[i] = i
  OBVIOUS
<1>2. ToSet(s) = {s[i] : i \in 1 .. n}
  <2>1. ASSUME NEW t \in Seq(1 .. n) PROVE ToSet(t) = {t[i] : i \in 1 .. Len(t)}
    BY SetView
  <2>2. QED  BY <1>1, <2>1
<1>3. ToSet(s) = 1 .. n  BY <1>1, <1>2
<1>4. IsInjective(s)  BY <1>1, SetView
<1>5. QED  BY <1>1, <1>3, <1>4
=============================================================================
