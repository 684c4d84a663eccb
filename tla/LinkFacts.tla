------------------------------ MODULE LinkFacts -------------------------------
(***************************************************************************)
(* Facts about the pointer surgery of MkLinks: a list of links is a        *)
(* sequence, every operator does to the sequences what its name says and   *)
(* leaves the other lists alone, and a walk finds what is on the sequence. *)
(***************************************************************************)
EXTENDS MkLinks, SeqFacts, FiniteSetTheorems

USE LinksAssumption

(* The memory of all links                                                 *)
Memory == [hdr : [Links -> Hdrs \cup {Nil}], stamp : [Links -> Nat],
           own : [Links -> BOOLEAN],
           next : [Links -> Links \cup {Nil}], prev : [Links -> Links \cup {Nil}],
           list : [Links -> Lists \cup {Free, Nil}],
           head : [Lists \cup {Free} -> Links \cup {Nil}]]

(* The links of list l are those of s, in this order.                      *)
Strung(m, l, s) ==
  /\ s \in Seq(Links) /\ IsInjective(s)
  /\ {p \in Links : m.list[p] = l} = ToSet(s)
  /\ m.head[l] = IF s = <<>> THEN Nil ELSE s[1]
  /\ \A k \in 1 .. Len(s) : m.next[s[k]] = IF k = Len(s) THEN Nil ELSE s[k + 1]
  /\ \A k \in 2 .. Len(s) : m.prev[s[k]] = s[k - 1]
  /\ l # Free /\ s # <<>> => m.prev[s[1]] = Nil

AllStrung(m) == \A l \in Lists \cup {Free} : \E s \in Seq(Links) : Strung(m, l, s)

(* List l is as it was.                                                    *)
Kept(m, u, l) == \A s \in Seq(Links) : Strung(m, l, s) => Strung(u, l, s)

----------------------------------------------------------------------------
(* Sequences with an element more or less                                  *)

Without(s, i) == [k \in 1 .. Len(s) - 1 |-> IF k < i THEN s[k] ELSE s[k + 1]]
With(s, i, p) == [k \in 1 .. Len(s) + 1 |-> IF k < i THEN s[k]
                                            ELSE IF k = i THEN p ELSE s[k - 1]]

(* List l is as it was but for link p, which left it or came into it.      *)
Loses(m, u, p, l) ==
  \E s \in Seq(Links) : /\ Strung(m, l, s)
                        /\ \E i \in 1 .. Len(s) : s[i] = p /\ Strung(u, l, Without(s, i))
Gains(m, u, p, l) ==
  \E s \in Seq(Links) : /\ Strung(m, l, s)
                        /\ \E i \in 1 .. Len(s) + 1 : Strung(u, l, With(s, i, p))

LEMMA WithoutView ==
  ASSUME NEW s \in Seq(Links), IsInjective(s), NEW i \in 1 .. Len(s),
         NEW t, t = Without(s, i)
  PROVE  /\ t \in Seq(Links) /\ IsInjective(t) /\ ToSet(t) = ToSet(s) \ {s[i]}
         /\ Len(t) = Len(s) - 1
         /\ \A k \in 1 .. Len(s) - 1 : t[k] = IF k < i THEN s[k] ELSE s[k + 1]
<1>1. PICK n \in Nat : n = Len(s)  OBVIOUS
<1>2. t = [k \in 1 .. n - 1 |-> IF k < i THEN s[k] ELSE s[k + 1]] /\ i \in 1 .. n
  BY <1>1 DEF Without
<1>3. \A k \in 1 .. n : s[k] \in Links  BY <1>1
<1>4. t \in Seq(Links) /\ Len(t) = n - 1
  <2>1. \A k \in 1 .. n - 1 : (IF k < i THEN s[k] ELSE s[k + 1]) \in Links  BY <1>2, <1>3
  <2>2. t \in [1 .. n - 1 -> Links]  BY <1>2, <2>1
  <2>3. n - 1 \in Nat  BY <1>1, <1>2
  <2>4. QED  BY <2>2, <2>3
<1>5. \A k \in 1 .. n - 1 : t[k] = IF k < i THEN s[k] ELSE s[k + 1]  BY <1>2
<1>6. \A j, k \in 1 .. n : s[j] = s[k] => j = k  BY <1>1, SetView
<1>7. IsInjective(t)
  <2>1. \A j, k \in 1 .. n - 1 : t[j] = t[k] => j = k  BY <1>2, <1>5, <1>6
  <2>2. QED  BY <1>4, <2>1, SetView
<1>8. ToSet(t) = ToSet(s) \ {s[i]}
  <2>1. ToSet(t) = {t[k] : k \in 1 .. n - 1} /\ ToSet(s) = {s[k] : k \in 1 .. n}
    BY <1>1, <1>4, SetView, SMTT(30)
  <2>2. ASSUME NEW k \in 1 .. n - 1 PROVE t[k] \in {s[j] : j \in 1 .. n} /\ t[k] # s[i]
    BY <1>2, <1>5, <1>6
  <2>3. ASSUME NEW j \in 1 .. n, s[j] # s[i] PROVE \E k \in 1 .. n - 1 : t[k] = s[j]
    <3>1. CASE j < i  BY <1>2, <1>5, <3>1
    <3>2. CASE j > i
      <4>1. j - 1 \in 1 .. n - 1 /\ ~(j - 1 < i) /\ (j - 1) + 1 = j  BY <1>2, <3>2
      <4>2. t[j - 1] = s[j]  BY <1>5, <4>1
      <4>3. QED  BY <4>1, <4>2
    <3>3. j < i \/ j > i  BY <1>2, <2>3
    <3>4. QED  BY <3>1, <3>2, <3>3
  <2>4. QED  BY <2>1, <2>2, <2>3, SMTT(30)
<1>9. QED  BY <1>1, <1>4, <1>5, <1>7, <1>8

LEMMA WithView ==
  ASSUME NEW s \in Seq(Links), IsInjective(s), NEW i \in 1 .. Len(s) + 1,
         NEW p \in Links \ ToSet(s), NEW t, t = With(s, i, p)
  PROVE  /\ t \in Seq(Links) /\ IsInjective(t) /\ ToSet(t) = ToSet(s) \cup {p}
         /\ Len(t) = Len(s) + 1 /\ t[i] = p
         /\ \A k \in 1 .. Len(s) + 1 : t[k] = IF k < i THEN s[k]
                                              ELSE IF k = i THEN p ELSE s[k - 1]
<1>1. PICK n \in Nat : n = Len(s)  OBVIOUS
<1>2. /\ t = [k \in 1 .. n + 1 |-> IF k < i THEN s[k] ELSE IF k = i THEN p ELSE s[k - 1]]
      /\ i \in 1 .. n + 1
  BY <1>1 DEF With
<1>3. \A k \in 1 .. n : s[k] \in Links /\ s[k] # p
  <2>1. \A k \in 1 .. n : s[k] \in ToSet(s) /\ s[k] \in Links  BY <1>1, ElemAt
  <2>2. QED  BY <2>1
<1>4. t \in Seq(Links) /\ Len(t) = n + 1
  <2>1. \A k \in 1 .. n + 1 :
          (IF k < i THEN s[k] ELSE IF k = i THEN p ELSE s[k - 1]) \in Links
    BY <1>2, <1>3
  <2>2. t \in [1 .. n + 1 -> Links]  BY <1>2, <2>1
  <2>3. n + 1 \in Nat  BY <1>1
  <2>4. QED  BY <2>2, <2>3
<1>5. \A k \in 1 .. n + 1 : t[k] = IF k < i THEN s[k] ELSE IF k = i THEN p ELSE s[k - 1]
  BY <1>2
<1>6. \A j, k \in 1 .. n : s[j] = s[k] => j = k  BY <1>1, SetView
<1>7. IsInjective(t)
  <2>1. \A j, k \in 1 .. n + 1 : t[j] = t[k] => j = k  BY <1>2, <1>3, <1>5, <1>6
  <2>2. QED  BY <1>4, <2>1, SetView
<1>8. ToSet(t) = ToSet(s) \cup {p}
  <2>1. ToSet(t) = {t[k] : k \in 1 .. n + 1} /\ ToSet(s) = {s[k] : k \in 1 .. n}
    BY <1>1, <1>4, SetView
  <2>2. ASSUME NEW k \in 1 .. n + 1 PROVE t[k] \in {s[j] : j \in 1 .. n} \cup {p}
    BY <1>2, <1>5
  <2>3. ASSUME NEW j \in 1 .. n PROVE \E k \in 1 .. n + 1 : t[k] = s[j]
    <3>1. CASE j < i  BY <1>2, <1>5, <3>1
    <3>2. CASE j >= i
      <4>1. j + 1 \in 1 .. n + 1 /\ ~(j + 1 < i) /\ j + 1 # i /\ (j + 1) - 1 = j
        BY <1>2, <3>2
      <4>2. t[j + 1] = s[j]  BY <1>5, <4>1
      <4>3. QED  BY <4>1, <4>2
    <3>3. QED  BY <1>2, <3>1, <3>2
  <2>4. p \in {t[k] : k \in 1 .. n + 1}
    <3>1. t[i] = p  BY <1>2, <1>5
    <3>2. QED  BY <1>2, <3>1
  <2>5. ToSet(t) \subseteq ToSet(s) \cup {p}  BY <2>1, <2>2
  <2>6. ToSet(s) \subseteq ToSet(t)  BY <2>1, <2>3
  <2>7. QED  BY <2>1, <2>4, <2>5, <2>6
<1>9. t[i] = p  BY <1>2, <1>5
<1>10. QED  BY <1>1, <1>4, <1>5, <1>7, <1>8, <1>9

----------------------------------------------------------------------------
(* What every operator writes                                              *)

LEMMA Distinct ==
  /\ Free \notin Lists /\ Nil \notin Lists \cup {Free}
  /\ Nil \notin Links /\ Nil \notin Hdrs
BY LinksAssumption

LEMMA UnlinkWrites ==
  ASSUME NEW m \in Memory, NEW p \in Links, m.list[p] # Nil, NEW u, u = Unlink(m, p)
  PROVE  /\ u \in Memory
         /\ u.hdr = m.hdr /\ u.stamp = m.stamp /\ u.own = m.own
         /\ \A q \in Links :
              /\ u.next[q] = IF q = p THEN Nil ELSE IF q = m.prev[p] THEN m.next[p]
                             ELSE m.next[q]
              /\ u.prev[q] = IF q = p THEN Nil ELSE IF q = m.next[p] THEN m.prev[p]
                             ELSE m.prev[q]
              /\ u.list[q] = IF q = p THEN Nil ELSE m.list[q]
         /\ \A l \in Lists \cup {Free} :
              u.head[l] = IF l = m.list[p] /\ m.prev[p] = Nil THEN m.next[p] ELSE m.head[l]
<1>1. PICK nx : nx = [q \in Links |-> IF q = p THEN Nil ELSE IF q = m.prev[p] THEN m.next[p]
                                      ELSE m.next[q]]
  OBVIOUS
<1>2. PICK pv : pv = [q \in Links |-> IF q = p THEN Nil ELSE IF q = m.next[p] THEN m.prev[p]
                                      ELSE m.prev[q]]
  OBVIOUS
<1>3. PICK ls : ls = [m.list EXCEPT ![p] = Nil]  OBVIOUS
<1>4. PICK hd : hd = [m.head EXCEPT ![m.list[p]] = IF m.prev[p] = Nil THEN m.next[p] ELSE @]
  OBVIOUS
<1>5. u = [m EXCEPT !.next = nx, !.prev = pv, !.list = ls, !.head = hd]
  BY <1>1, <1>2, <1>3, <1>4 DEF Unlink, Memory
<1>6. /\ u.hdr = m.hdr /\ u.stamp = m.stamp /\ u.own = m.own
      /\ u.next = nx /\ u.prev = pv /\ u.list = ls /\ u.head = hd
      /\ u = [hdr |-> m.hdr, stamp |-> m.stamp, own |-> m.own,
              next |-> nx, prev |-> pv, list |-> ls, head |-> hd]
  BY <1>5 DEF Memory
<1>7. nx \in [Links -> Links \cup {Nil}]  BY <1>1 DEF Memory
<1>8. pv \in [Links -> Links \cup {Nil}]  BY <1>2 DEF Memory
<1>9. ls \in [Links -> Lists \cup {Free, Nil}]  BY <1>3 DEF Memory
<1>10. hd \in [Lists \cup {Free} -> Links \cup {Nil}]  BY <1>4 DEF Memory
<1>11. u \in Memory
  BY <1>6, <1>7, <1>8, <1>9, <1>10 DEF Memory
<1>12. \A q \in Links : u.list[q] = IF q = p THEN Nil ELSE m.list[q]  BY <1>3, <1>6 DEF Memory
<1>13. \A l \in Lists \cup {Free} :
         u.head[l] = IF l = m.list[p] /\ m.prev[p] = Nil THEN m.next[p] ELSE m.head[l]
  BY <1>4, <1>6 DEF Memory
<1>14. QED  BY <1>1, <1>2, <1>6, <1>11, <1>12, <1>13

LEMMA AtHeadWrites ==
  ASSUME NEW m \in Memory, NEW p \in Links, NEW l \in Lists \cup {Free},
         NEW u, u = AtHead(m, p, l)
  PROVE  /\ u \in Memory
         /\ u.hdr = m.hdr /\ u.stamp = m.stamp /\ u.own = m.own
         /\ \A q \in Links :
              /\ u.next[q] = IF q = p THEN m.head[l] ELSE m.next[q]
              /\ u.prev[q] = IF q = p THEN Nil ELSE IF q = m.head[l] THEN p ELSE m.prev[q]
              /\ u.list[q] = IF q = p THEN l ELSE m.list[q]
         /\ \A k \in Lists \cup {Free} : u.head[k] = IF k = l THEN p ELSE m.head[k]
<1>1. PICK nx : nx = [m.next EXCEPT ![p] = m.head[l]]  OBVIOUS
<1>2. PICK pv : pv = [q \in Links |-> IF q = p THEN Nil ELSE IF q = m.head[l] THEN p
                                      ELSE m.prev[q]]
  OBVIOUS
<1>3. PICK ls : ls = [m.list EXCEPT ![p] = l]  OBVIOUS
<1>4. PICK hd : hd = [m.head EXCEPT ![l] = p]  OBVIOUS
<1>5. u = [m EXCEPT !.next = nx, !.prev = pv, !.list = ls, !.head = hd]
  BY <1>1, <1>2, <1>3, <1>4 DEF AtHead, Memory
<1>6. /\ u.hdr = m.hdr /\ u.stamp = m.stamp /\ u.own = m.own
      /\ u.next = nx /\ u.prev = pv /\ u.list = ls /\ u.head = hd
      /\ u = [hdr |-> m.hdr, stamp |-> m.stamp, own |-> m.own,
              next |-> nx, prev |-> pv, list |-> ls, head |-> hd]
  BY <1>5 DEF Memory
<1>7. nx \in [Links -> Links \cup {Nil}]  BY <1>1 DEF Memory
<1>8. pv \in [Links -> Links \cup {Nil}]  BY <1>2 DEF Memory
<1>9. ls \in [Links -> Lists \cup {Free, Nil}]  BY <1>3 DEF Memory
<1>10. hd \in [Lists \cup {Free} -> Links \cup {Nil}]  BY <1>4 DEF Memory
<1>11. u \in Memory
  BY <1>6, <1>7, <1>8, <1>9, <1>10 DEF Memory
<1>12. \A q \in Links : /\ u.next[q] = IF q = p THEN m.head[l] ELSE m.next[q]
                        /\ u.list[q] = IF q = p THEN l ELSE m.list[q]
  BY <1>1, <1>3, <1>6 DEF Memory
<1>13. \A k \in Lists \cup {Free} : u.head[k] = IF k = l THEN p ELSE m.head[k]
  BY <1>4, <1>6 DEF Memory
<1>14. QED  BY <1>2, <1>6, <1>11, <1>12, <1>13

LEMMA BeforeWrites ==
  ASSUME NEW m \in Memory, NEW p \in Links, NEW b \in Links, p # b,
         m.list[b] \in Lists, NEW u, u = Before(m, p, b)
  PROVE  /\ u \in Memory
         /\ u.hdr = m.hdr /\ u.stamp = m.stamp /\ u.own = m.own
         /\ \A q \in Links :
              /\ u.next[q] = IF q = p THEN b ELSE IF q = m.prev[b] THEN p ELSE m.next[q]
              /\ u.prev[q] = IF q = p THEN m.prev[b] ELSE IF q = b THEN p ELSE m.prev[q]
              /\ u.list[q] = IF q = p THEN m.list[b] ELSE m.list[q]
         /\ \A k \in Lists \cup {Free} :
              u.head[k] = IF k = m.list[b] /\ m.prev[b] = Nil THEN p ELSE m.head[k]
<1>1. PICK nx : nx = [q \in Links |-> IF q = p THEN b ELSE IF q = m.prev[b] THEN p
                                      ELSE m.next[q]]
  OBVIOUS
<1>2. PICK pv : pv = [m.prev EXCEPT ![b] = p, ![p] = m.prev[b]]  OBVIOUS
<1>3. PICK ls : ls = [m.list EXCEPT ![p] = m.list[b]]  OBVIOUS
<1>4. PICK hd : hd = [m.head EXCEPT ![m.list[b]] = IF m.prev[b] = Nil THEN p ELSE @]
  OBVIOUS
<1>5. u = [m EXCEPT !.list = ls, !.next = nx, !.prev = pv, !.head = hd]
  BY <1>1, <1>2, <1>3, <1>4 DEF Before, Memory
<1>6. /\ u.hdr = m.hdr /\ u.stamp = m.stamp /\ u.own = m.own
      /\ u.next = nx /\ u.prev = pv /\ u.list = ls /\ u.head = hd
      /\ u = [hdr |-> m.hdr, stamp |-> m.stamp, own |-> m.own,
              next |-> nx, prev |-> pv, list |-> ls, head |-> hd]
  BY <1>5 DEF Memory
<1>7. nx \in [Links -> Links \cup {Nil}]  BY <1>1 DEF Memory
<1>8. pv \in [Links -> Links \cup {Nil}]  BY <1>2 DEF Memory
<1>9. ls \in [Links -> Lists \cup {Free, Nil}]  BY <1>3 DEF Memory
<1>10. hd \in [Lists \cup {Free} -> Links \cup {Nil}]  BY <1>4 DEF Memory
<1>11. u \in Memory
  BY <1>6, <1>7, <1>8, <1>9, <1>10 DEF Memory
<1>12. \A q \in Links :
         /\ u.prev[q] = IF q = p THEN m.prev[b] ELSE IF q = b THEN p ELSE m.prev[q]
         /\ u.list[q] = IF q = p THEN m.list[b] ELSE m.list[q]
  BY <1>2, <1>3, <1>6 DEF Memory
<1>13. \A k \in Lists \cup {Free} :
         u.head[k] = IF k = m.list[b] /\ m.prev[b] = Nil THEN p ELSE m.head[k]
  BY <1>4, <1>6 DEF Memory
<1>14. QED  BY <1>1, <1>6, <1>11, <1>12, <1>13

LEMMA AfterWrites ==
  ASSUME NEW m \in Memory, NEW p \in Links, NEW a \in Links, p # a,
         m.list[a] \in Lists, NEW u, u = After(m, p, a)
  PROVE  /\ u \in Memory
         /\ u.hdr = m.hdr /\ u.stamp = m.stamp /\ u.own = m.own /\ u.head = m.head
         /\ \A q \in Links :
              /\ u.next[q] = IF q = p THEN m.next[a] ELSE IF q = a THEN p ELSE m.next[q]
              /\ u.prev[q] = IF q = p THEN a ELSE IF q = m.next[a] THEN p ELSE m.prev[q]
              /\ u.list[q] = IF q = p THEN m.list[a] ELSE m.list[q]
<1>1. PICK nx : nx = [m.next EXCEPT ![a] = p, ![p] = m.next[a]]  OBVIOUS
<1>2. PICK pv : pv = [q \in Links |-> IF q = p THEN a ELSE IF q = m.next[a] THEN p
                                      ELSE m.prev[q]]
  OBVIOUS
<1>3. PICK ls : ls = [m.list EXCEPT ![p] = m.list[a]]  OBVIOUS
<1>4. u = [m EXCEPT !.list = ls, !.next = nx, !.prev = pv]
  BY <1>1, <1>2, <1>3 DEF After, Memory
<1>5. /\ u.hdr = m.hdr /\ u.stamp = m.stamp /\ u.own = m.own
      /\ u.next = nx /\ u.prev = pv /\ u.list = ls /\ u.head = m.head
      /\ u = [hdr |-> m.hdr, stamp |-> m.stamp, own |-> m.own,
              next |-> nx, prev |-> pv, list |-> ls, head |-> m.head]
  BY <1>4 DEF Memory
<1>6. nx \in [Links -> Links \cup {Nil}]  BY <1>1 DEF Memory
<1>7. pv \in [Links -> Links \cup {Nil}]  BY <1>2 DEF Memory
<1>8. ls \in [Links -> Lists \cup {Free, Nil}]  BY <1>3 DEF Memory
<1>9. u \in Memory  BY <1>5, <1>6, <1>7, <1>8 DEF Memory
<1>10. \A q \in Links :
         /\ u.next[q] = IF q = p THEN m.next[a] ELSE IF q = a THEN p ELSE m.next[q]
         /\ u.list[q] = IF q = p THEN m.list[a] ELSE m.list[q]
  BY <1>1, <1>3, <1>5 DEF Memory
<1>11. QED  BY <1>2, <1>5, <1>9, <1>10

LEMMA TakeWrites ==
  ASSUME NEW m \in Memory, NEW p \in Links, m.head[Free] = p,
         NEW h \in Hdrs, NEW i \in [Hdrs -> Nat], NEW o \in BOOLEAN,
         NEW u, u = Take(m, i, h, o)
  PROVE  /\ u \in Memory
         /\ \A q \in Links :
              /\ u.hdr[q] = IF q = p THEN h ELSE m.hdr[q]
              /\ u.stamp[q] = IF q = p THEN i[h] ELSE m.stamp[q]
              /\ u.own[q] = IF q = p THEN o ELSE m.own[q]
              /\ u.next[q] = IF q = p THEN Nil ELSE m.next[q]
              /\ u.prev[q] = IF q = p THEN Nil ELSE m.prev[q]
              /\ u.list[q] = IF q = p THEN Nil ELSE m.list[q]
         /\ \A k \in Lists \cup {Free} : u.head[k] = IF k = Free THEN m.next[p] ELSE m.head[k]
<1>1. PICK hr : hr = [m.hdr EXCEPT ![p] = h]  OBVIOUS
<1>2. PICK st : st = [m.stamp EXCEPT ![p] = i[h]]  OBVIOUS
<1>3. PICK ow : ow = [m.own EXCEPT ![p] = o]  OBVIOUS
<1>4. PICK nx : nx = [m.next EXCEPT ![p] = Nil]  OBVIOUS
<1>5. PICK pv : pv = [m.prev EXCEPT ![p] = Nil]  OBVIOUS
<1>6. PICK ls : ls = [m.list EXCEPT ![p] = Nil]  OBVIOUS
<1>7. PICK hd : hd = [m.head EXCEPT ![Free] = m.next[p]]  OBVIOUS
<1>8. u = [m EXCEPT !.head = hd, !.next = nx, !.prev = pv, !.list = ls,
                    !.hdr = hr, !.stamp = st, !.own = ow]
  BY <1>1, <1>2, <1>3, <1>4, <1>5, <1>6, <1>7 DEF Take, Memory
<1>9. u = [hdr |-> hr, stamp |-> st, own |-> ow, next |-> nx, prev |-> pv, list |-> ls,
           head |-> hd]
  BY <1>8 DEF Memory
<1>10. /\ u.hdr = hr /\ u.stamp = st /\ u.own = ow
       /\ u.next = nx /\ u.prev = pv /\ u.list = ls /\ u.head = hd
  BY <1>9
<1>11. hr \in [Links -> Hdrs \cup {Nil}] /\ st \in [Links -> Nat] /\ ow \in [Links -> BOOLEAN]
  BY <1>1, <1>2, <1>3 DEF Memory
<1>12. nx \in [Links -> Links \cup {Nil}] /\ pv \in [Links -> Links \cup {Nil}]
  BY <1>4, <1>5 DEF Memory
<1>13. ls \in [Links -> Lists \cup {Free, Nil}]  BY <1>6 DEF Memory
<1>14. hd \in [Lists \cup {Free} -> Links \cup {Nil}]  BY <1>7 DEF Memory
<1>15. u \in Memory  BY <1>9, <1>11, <1>12, <1>13, <1>14 DEF Memory
<1>16. \A q \in Links : /\ u.hdr[q] = IF q = p THEN h ELSE m.hdr[q]
                        /\ u.stamp[q] = IF q = p THEN i[h] ELSE m.stamp[q]
                        /\ u.own[q] = IF q = p THEN o ELSE m.own[q]
  BY <1>1, <1>2, <1>3, <1>10 DEF Memory
<1>17. \A q \in Links : /\ u.next[q] = IF q = p THEN Nil ELSE m.next[q]
                        /\ u.prev[q] = IF q = p THEN Nil ELSE m.prev[q]
                        /\ u.list[q] = IF q = p THEN Nil ELSE m.list[q]
  BY <1>4, <1>5, <1>6, <1>10 DEF Memory
<1>18. \A k \in Lists \cup {Free} : u.head[k] = IF k = Free THEN m.next[p] ELSE m.head[k]
  BY <1>7, <1>10 DEF Memory
<1>19. QED  BY <1>15, <1>16, <1>17, <1>18

(* Recycling resets what the link stands for and puts it on the free list. *)
LEMMA RecycleWrites ==
  ASSUME NEW m \in Memory, NEW p \in Links, NEW u, u = Recycle(m, p)
  PROVE  \E v \in Memory :
           /\ u = AtHead(v, p, Free)
           /\ v.next = m.next /\ v.prev = m.prev /\ v.list = m.list /\ v.head = m.head
           /\ v.own = [m.own EXCEPT ![p] = TRUE]
           /\ \A q \in Links : /\ v.hdr[q] = IF q = p THEN Nil ELSE m.hdr[q]
                               /\ v.stamp[q] = IF q = p THEN 0 ELSE m.stamp[q]
<1>1. PICK hr : hr = [m.hdr EXCEPT ![p] = Nil]  OBVIOUS
<1>2. PICK st : st = [m.stamp EXCEPT ![p] = 0]  OBVIOUS
<1>3. PICK ow : ow = [m.own EXCEPT ![p] = TRUE]  OBVIOUS
<1>4. PICK v : v = [m EXCEPT !.stamp = st, !.hdr = hr, !.own = ow]  OBVIOUS
<1>5. u = AtHead(v, p, Free)
  <2>1. v = [m EXCEPT !.stamp[p] = 0, !.hdr[p] = Nil, !.own[p] = TRUE]
    BY <1>1, <1>2, <1>3, <1>4 DEF Memory
  <2>2. QED  BY <2>1 DEF Recycle
<1>6. v = [hdr |-> hr, stamp |-> st, own |-> ow, next |-> m.next, prev |-> m.prev,
           list |-> m.list, head |-> m.head]
  BY <1>4 DEF Memory
<1>7. /\ v.hdr = hr /\ v.stamp = st /\ v.own = ow
      /\ v.next = m.next /\ v.prev = m.prev /\ v.list = m.list /\ v.head = m.head
  BY <1>6
<1>8. hr \in [Links -> Hdrs \cup {Nil}] /\ st \in [Links -> Nat] /\ ow \in [Links -> BOOLEAN]
  BY <1>1, <1>2, <1>3 DEF Memory
<1>9. v \in Memory  BY <1>6, <1>8 DEF Memory
<1>10. \A q \in Links : /\ v.hdr[q] = IF q = p THEN Nil ELSE m.hdr[q]
                        /\ v.stamp[q] = IF q = p THEN 0 ELSE m.stamp[q]
  BY <1>1, <1>2, <1>7 DEF Memory
<1>11. QED  BY <1>3, <1>5, <1>7, <1>9, <1>10

----------------------------------------------------------------------------
(* Lists stay strung                                                       *)

LEMMA OnChain ==
  ASSUME NEW m \in Memory, NEW l \in Lists \cup {Free}, NEW s, Strung(m, l, s)
  PROVE  /\ s \in Seq(Links) /\ Len(s) \in Nat
         /\ \A k \in 1 .. Len(s) : s[k] \in Links /\ m.list[s[k]] = l
         /\ \A j, k \in 1 .. Len(s) : s[j] = s[k] => j = k
         /\ \A q \in Links : m.list[q] = l => \E k \in 1 .. Len(s) : s[k] = q
         /\ m.head[l] = IF Len(s) = 0 THEN Nil ELSE s[1]
         /\ l \in Lists => \A k \in 1 .. Len(s) : m.prev[s[k]] = IF k = 1 THEN Nil ELSE s[k - 1]
<1>1. s \in Seq(Links) /\ Len(s) \in Nat  BY DEF Strung
<1>2. \A k \in 1 .. Len(s) : s[k] \in Links /\ s[k] \in ToSet(s)  BY <1>1, ElemAt
<1>3. {p \in Links : m.list[p] = l} = ToSet(s)  BY DEF Strung
<1>4. \A k \in 1 .. Len(s) : s[k] \in Links /\ m.list[s[k]] = l  BY <1>2, <1>3
<1>5. \A j, k \in 1 .. Len(s) : s[j] = s[k] => j = k  BY <1>1, SetView DEF Strung
<1>6. \A q \in Links : m.list[q] = l => \E k \in 1 .. Len(s) : s[k] = q
  BY <1>1, <1>3, SetView
<1>7. m.head[l] = IF Len(s) = 0 THEN Nil ELSE s[1]  BY <1>1 DEF Strung
<1>8. ASSUME l \in Lists, NEW k \in 1 .. Len(s)
      PROVE  m.prev[s[k]] = IF k = 1 THEN Nil ELSE s[k - 1]
  <2>1. CASE k = 1
    <3>1. s # <<>> /\ l # Free  BY <1>1, <1>8, Distinct
    <3>2. QED  BY <2>1, <3>1 DEF Strung
  <2>2. CASE k # 1
    <3>1. k \in 2 .. Len(s)  BY <1>1, <2>2
    <3>2. QED  BY <2>2, <3>1 DEF Strung
  <2>3. QED  BY <2>1, <2>2
<1>9. QED  BY <1>1, <1>4, <1>5, <1>6, <1>7, <1>8

(* A list none of whose links is written                                   *)
LEMMA Untouched ==
  ASSUME NEW m \in Memory, NEW u \in Memory, NEW l \in Lists \cup {Free},
         NEW s, Strung(m, l, s), u.head[l] = m.head[l],
         \A q \in Links : /\ u.list[q] = l <=> m.list[q] = l
                          /\ m.list[q] = l => u.next[q] = m.next[q] /\ u.prev[q] = m.prev[q]
  PROVE  Strung(u, l, s)
<1>1. s \in Seq(Links) /\ \A k \in 1 .. Len(s) : s[k] \in Links /\ m.list[s[k]] = l
  BY OnChain
<1>2. \A k \in 1 .. Len(s) : u.next[s[k]] = m.next[s[k]] /\ u.prev[s[k]] = m.prev[s[k]]
  BY <1>1
<1>3. {p \in Links : u.list[p] = l} = ToSet(s)
  <2>1. {p \in Links : u.list[p] = l} = {p \in Links : m.list[p] = l}  OBVIOUS
  <2>2. QED  BY <2>1 DEF Strung
<1>4. \A k \in 1 .. Len(s) : u.next[s[k]] = IF k = Len(s) THEN Nil ELSE s[k + 1]
  BY <1>2 DEF Strung
<1>5. \A k \in 2 .. Len(s) : u.prev[s[k]] = s[k - 1]
  <2>1. \A k \in 2 .. Len(s) : k \in 1 .. Len(s)  BY <1>1
  <2>2. QED  BY <1>2, <2>1 DEF Strung
<1>6. l # Free /\ s # <<>> => u.prev[s[1]] = Nil
  <2>1. s # <<>> => 1 \in 1 .. Len(s)  BY <1>1
  <2>2. QED  BY <1>2, <2>1 DEF Strung
<1>7. s \in Seq(Links) /\ IsInjective(s) /\ u.head[l] = IF s = <<>> THEN Nil ELSE s[1]
  BY DEF Strung
<1>8. QED  BY <1>3, <1>4, <1>5, <1>6, <1>7 DEF Strung

LEMMA UnlinkStrung ==
  ASSUME NEW m \in Memory, AllStrung(m), NEW p \in Links, m.list[p] \in Lists,
         NEW u, u = Unlink(m, p)
  PROVE  /\ AllStrung(u) /\ Loses(m, u, p, m.list[p])
         /\ \A k \in Lists \ {m.list[p]} : Kept(m, u, k)
<1>1. m.list[p] # Nil /\ m.list[p] # Free  BY Distinct
<1>2. /\ u \in Memory
      /\ \A q \in Links :
           /\ u.next[q] = IF q = p THEN Nil ELSE IF q = m.prev[p] THEN m.next[p]
                          ELSE m.next[q]
           /\ u.prev[q] = IF q = p THEN Nil ELSE IF q = m.next[p] THEN m.prev[p]
                          ELSE m.prev[q]
           /\ u.list[q] = IF q = p THEN Nil ELSE m.list[q]
      /\ \A k \in Lists \cup {Free} :
           u.head[k] = IF k = m.list[p] /\ m.prev[p] = Nil THEN m.next[p] ELSE m.head[k]
  BY <1>1, UnlinkWrites
<1>3. PICK l \in Lists : l = m.list[p]  OBVIOUS
<1>4. PICK s : Strung(m, l, s)  BY <1>3 DEF AllStrung
<1>5. /\ s \in Seq(Links) /\ IsInjective(s) /\ Len(s) \in Nat
      /\ \A k \in 1 .. Len(s) : s[k] \in Links /\ m.list[s[k]] = l
      /\ \A j, k \in 1 .. Len(s) : s[j] = s[k] => j = k
      /\ \A q \in Links : m.list[q] = l => \E k \in 1 .. Len(s) : s[k] = q
      /\ m.head[l] = IF Len(s) = 0 THEN Nil ELSE s[1]
      /\ \A k \in 1 .. Len(s) : m.prev[s[k]] = IF k = 1 THEN Nil ELSE s[k - 1]
      /\ \A k \in 1 .. Len(s) : m.next[s[k]] = IF k = Len(s) THEN Nil ELSE s[k + 1]
  <2>1. Strung(m, l, s) => IsInjective(s) /\ \A k \in 1 .. Len(s) :
                             m.next[s[k]] = IF k = Len(s) THEN Nil ELSE s[k + 1]
    BY DEF Strung
  <2>2. QED  BY <1>4, <2>1, OnChain
<1>6. PICK i \in 1 .. Len(s) : s[i] = p  BY <1>3, <1>5
<1>7. PICK n \in Nat : n = Len(s)  BY <1>5
<1>8. /\ i \in 1 .. n
      /\ m.prev[p] = IF i = 1 THEN Nil ELSE s[i - 1]
      /\ m.next[p] = IF i = n THEN Nil ELSE s[i + 1]
  BY <1>5, <1>6, <1>7
<1>9. ASSUME NEW k \in Lists \cup {Free}, k # l, NEW r \in Seq(Links), Strung(m, k, r)
      PROVE  Strung(u, k, r)
  <2>1. Strung(m, k, r)  BY <1>9
  <2>2. /\ \A q \in Links : m.list[q] = k => q # p /\ q # m.prev[p] /\ q # m.next[p]
    <3>1. ASSUME NEW q \in Links, m.list[q] = k PROVE q # p /\ q # m.prev[p] /\ q # m.next[p]
      <4>1. q # p  BY <1>3, <1>9, <3>1
      <4>2. \A j \in 1 .. n : q # s[j]  BY <1>5, <1>7, <1>9, <3>1
      <4>3. q # Nil  BY Distinct
      <4>4. i # 1 => i - 1 \in 1 .. n  BY <1>7, <1>8
      <4>5. i # n => i + 1 \in 1 .. n  BY <1>7, <1>8
      <4>6. QED  BY <1>8, <4>1, <4>2, <4>3, <4>4, <4>5
    <3>2. QED  BY <3>1
  <2>3. u.head[k] = m.head[k]  BY <1>2, <1>3, <1>9
  <2>4. \A q \in Links : /\ u.list[q] = k <=> m.list[q] = k
                         /\ m.list[q] = k => u.next[q] = m.next[q] /\ u.prev[q] = m.prev[q]
    <3>1. k # Nil  BY Distinct
    <3>2. QED  BY <1>2, <2>2, <3>1, <1>3, <1>9
  <2>5. QED  BY <1>2, <2>1, <2>3, <2>4, Untouched
<1>10. PICK t : t = Without(s, i)  OBVIOUS
<1>11. /\ t \in Seq(Links) /\ IsInjective(t) /\ ToSet(t) = ToSet(s) \ {p} /\ Len(t) = n - 1
       /\ \A k \in 1 .. n - 1 : t[k] = IF k < i THEN s[k] ELSE s[k + 1]
  <2>1. s \in Seq(Links) /\ IsInjective(s)  BY <1>5
  <2>2. /\ t \in Seq(Links) /\ IsInjective(t) /\ ToSet(t) = ToSet(s) \ {s[i]}
        /\ Len(t) = Len(s) - 1
        /\ \A k \in 1 .. Len(s) - 1 : t[k] = IF k < i THEN s[k] ELSE s[k + 1]
    BY <1>10, <2>1, WithoutView, SMTT(30)
  <2>3. QED  BY <1>6, <1>7, <2>2
<1>12. \A k \in 1 .. n : s[k] \in Links /\ (s[k] = p <=> k = i)  BY <1>5, <1>6, <1>7
<1>13. \A j, k \in 1 .. n : s[j] = s[k] => j = k  BY <1>5, <1>7
<1>14. ASSUME NEW k \in 1 .. n - 1
       PROVE  /\ u.next[t[k]] = IF k = n - 1 THEN Nil ELSE t[k + 1]
              /\ u.prev[t[k]] = IF k = 1 THEN Nil ELSE t[k - 1]
  <2>1. \A j \in 1 .. n : m.next[s[j]] = IF j = n THEN Nil ELSE s[j + 1]  BY <1>5, <1>7
  <2>2. \A j \in 1 .. n : m.prev[s[j]] = IF j = 1 THEN Nil ELSE s[j - 1]  BY <1>5, <1>7
  <2>3. CASE k < i
    <3>1. t[k] = s[k] /\ k \in 1 .. n /\ k # i /\ s[k] # p /\ s[k] \in Links
      BY <1>8, <1>11, <1>12, <2>3
    <3>2. u.prev[s[k]] = m.prev[s[k]]
      <4>1. s[k] # m.next[p]
        <5>1. CASE i = n  BY <1>8, <3>1, <5>1, Distinct
        <5>2. CASE i # n
          <6>1. i + 1 \in 1 .. n /\ i + 1 # k  BY <1>8, <2>3, <5>2
          <6>2. QED  BY <1>8, <1>13, <3>1, <5>2, <6>1
        <5>3. QED  BY <5>1, <5>2
      <4>2. QED  BY <1>2, <3>1, <4>1
    <3>3. u.prev[t[k]] = IF k = 1 THEN Nil ELSE t[k - 1]
      <4>1. k # 1 => k - 1 \in 1 .. n - 1 /\ k - 1 < i  BY <2>3
      <4>2. k # 1 => t[k - 1] = s[k - 1]  BY <1>11, <4>1
      <4>3. QED  BY <2>2, <3>1, <3>2, <4>2
    <3>4. CASE k = i - 1
      <4>1. i # 1 /\ s[k] = m.prev[p]  BY <1>8, <3>4
      <4>2. u.next[s[k]] = m.next[p]  BY <1>2, <3>1, <4>1
      <4>3. m.next[p] = IF k = n - 1 THEN Nil ELSE s[i + 1]  BY <1>8, <3>4
      <4>4. k # n - 1 => t[k + 1] = s[i + 1]
        <5>1. ASSUME k # n - 1 PROVE t[i] = s[i + 1]
          <6>1. i \in 1 .. n - 1 /\ ~(i < i)  BY <1>8, <3>4, <5>1
          <6>2. QED  BY <1>11, <6>1
        <5>2. k + 1 = i  BY <1>8, <3>4
        <5>3. QED  BY <5>1, <5>2
      <4>5. QED  BY <3>1, <3>3, <4>2, <4>3, <4>4
    <3>5. CASE k # i - 1
      <4>1. s[k] # m.prev[p]
        <5>1. CASE i = 1  BY <1>8, <3>1, <5>1, Distinct
        <5>2. CASE i # 1
          <6>1. i - 1 \in 1 .. n  BY <1>8, <5>2
          <6>2. QED  BY <1>8, <1>13, <3>1, <3>5, <5>2, <6>1
        <5>3. QED  BY <5>1, <5>2
      <4>2. u.next[s[k]] = m.next[s[k]]  BY <1>2, <3>1, <4>1
      <4>3. k # n /\ k # n - 1 /\ k + 1 \in 1 .. n - 1 /\ k + 1 < i  BY <1>8, <2>3, <3>5
      <4>4. t[k + 1] = s[k + 1]  BY <1>11, <4>3
      <4>5. QED  BY <2>1, <3>1, <3>3, <4>2, <4>3, <4>4
    <3>6. QED  BY <3>4, <3>5
  <2>4. CASE ~(k < i)
    <3>1. PICK j \in 1 .. n : j = k + 1  BY <2>4
    <3>2. t[k] = s[j] /\ j # i /\ j # 1 /\ s[j] # p /\ s[j] \in Links
      BY <1>8, <1>11, <1>12, <2>4, <3>1
    <3>3. s[j] # m.prev[p]
      <4>1. CASE i = 1  BY <1>8, <3>2, <4>1, Distinct
      <4>2. CASE i # 1
        <5>1. i - 1 \in 1 .. n /\ i - 1 # j  BY <1>8, <2>4, <3>1, <4>2
        <5>2. QED  BY <1>8, <1>13, <4>2, <5>1
      <4>3. QED  BY <4>1, <4>2
    <3>4. u.next[s[j]] = m.next[s[j]]  BY <1>2, <3>2, <3>3
    <3>5. u.next[t[k]] = IF k = n - 1 THEN Nil ELSE t[k + 1]
      <4>1. k # n - 1 => j \in 1 .. n - 1 /\ ~(j < i)  BY <2>4, <3>1
      <4>2. k # n - 1 => t[j] = s[j + 1]  BY <1>11, <4>1
      <4>3. k = n - 1 <=> j = n  BY <3>1
      <4>4. QED  BY <2>1, <3>1, <3>2, <3>4, <4>2, <4>3
    <3>6. CASE j = i + 1
      <4>1. i # n /\ s[j] = m.next[p]  BY <1>8, <3>1, <3>6
      <4>2. u.prev[s[j]] = m.prev[p]  BY <1>2, <3>2, <4>1
      <4>3. k = i  BY <1>8, <3>1, <3>6
      <4>4. k # 1 => k - 1 \in 1 .. n - 1 /\ k - 1 < i  BY <4>3
      <4>5. k # 1 => t[k - 1] = s[i - 1]  BY <1>11, <4>3, <4>4
      <4>6. QED  BY <1>8, <3>2, <3>5, <4>2, <4>3, <4>5
    <3>7. CASE j # i + 1
      <4>1. s[j] # m.next[p]
        <5>1. CASE i = n  BY <1>8, <3>2, <5>1, Distinct
        <5>2. CASE i # n
          <6>1. i + 1 \in 1 .. n  BY <1>8, <5>2
          <6>2. QED  BY <1>8, <1>13, <3>7, <5>2, <6>1
        <5>3. QED  BY <5>1, <5>2
      <4>2. u.prev[s[j]] = m.prev[s[j]]  BY <1>2, <3>2, <4>1
      <4>3. k # 1 /\ k - 1 \in 1 .. n - 1 /\ ~(k - 1 < i) /\ (k - 1) + 1 = k /\ j - 1 = k
        BY <1>8, <2>4, <3>1, <3>7
      <4>4. t[k - 1] = s[k]  BY <1>11, <4>3
      <4>5. QED  BY <2>2, <3>2, <3>5, <4>2, <4>3, <4>4
    <3>8. QED  BY <3>6, <3>7
  <2>5. QED  BY <2>3, <2>4
<1>15. {q \in Links : u.list[q] = l} = ToSet(t)
  <2>1. {q \in Links : m.list[q] = l} = ToSet(s)  BY <1>4 DEF Strung
  <2>2. l # Nil  BY Distinct
  <2>3. QED  BY <1>2, <1>11, <2>1, <2>2
<1>16. u.head[l] = IF t = <<>> THEN Nil ELSE t[1]
  <2>1. t = <<>> <=> n = 1  BY <1>8, <1>11
  <2>2. u.head[l] = IF i = 1 THEN m.next[p] ELSE s[1]
    <3>1. n # 0  BY <1>8
    <3>2. m.head[l] = s[1]  BY <1>5, <1>7, <3>1
    <3>3. m.prev[p] = Nil <=> i = 1
      <4>1. i # 1 => i - 1 \in 1 .. n  BY <1>8
      <4>2. QED  BY <1>8, <1>12, <4>1, Distinct
    <3>4. QED  BY <1>2, <1>3, <3>2, <3>3
  <2>3. CASE n = 1
    <3>1. i = 1 /\ i = n  BY <1>8, <2>3
    <3>2. QED  BY <1>8, <2>1, <2>2, <2>3, <3>1
  <2>4. CASE n # 1
    <3>1. 1 \in 1 .. n - 1 /\ n # 0  BY <1>8, <2>4
    <3>2. t[1] = IF i = 1 THEN s[2] ELSE s[1]
      <4>1. t[1] = IF 1 < i THEN s[1] ELSE s[1 + 1]  BY <1>11, <3>1
      <4>2. 1 < i <=> i # 1  BY <1>8
      <4>3. QED  BY <4>1, <4>2
    <3>3. i = 1 => m.next[p] = s[2]  BY <1>8, <2>4
    <3>4. QED  BY <2>1, <2>2, <2>4, <3>2, <3>3
  <2>5. QED  BY <2>3, <2>4
<1>17. Strung(u, l, t)
  <2>1. \A k \in 2 .. n - 1 : k \in 1 .. n - 1 /\ k # 1  OBVIOUS
  <2>2. t # <<>> => 1 \in 1 .. n - 1  BY <1>7, <1>11
  <2>3. \A k \in 2 .. Len(t) : u.prev[t[k]] = t[k - 1]  BY <1>11, <1>14, <2>1
  <2>4. \A k \in 1 .. Len(t) : u.next[t[k]] = IF k = Len(t) THEN Nil ELSE t[k + 1]
    BY <1>11, <1>14
  <2>5. l # Free /\ t # <<>> => u.prev[t[1]] = Nil  BY <1>14, <2>2
  <2>6. QED  BY <1>11, <1>15, <1>16, <2>3, <2>4, <2>5 DEF Strung
<1>18. \A k \in (Lists \cup {Free}) \ {l} : Kept(m, u, k)  BY <1>9 DEF Kept
<1>19. AllStrung(u)
  <2>1. ASSUME NEW k \in Lists \cup {Free} PROVE \E r \in Seq(Links) : Strung(u, k, r)
    <3>1. CASE k = l  BY <1>11, <1>17, <3>1
    <3>2. CASE k # l
      <4>1. PICK r \in Seq(Links) : Strung(m, k, r)  BY DEF AllStrung
      <4>2. QED  BY <1>9, <3>2, <4>1
    <3>3. QED  BY <3>1, <3>2
  <2>2. QED  BY <2>1 DEF AllStrung
<1>20. Loses(m, u, p, l)
  <2>1. Strung(u, l, Without(s, i))  BY <1>10, <1>17
  <2>2. QED  BY <1>4, <1>5, <1>6, <2>1 DEF Loses
<1>21. QED  BY <1>3, <1>18, <1>19, <1>20

(* A link that was on no list comes into one.                              *)
LEMMA Inserted ==
  ASSUME NEW m \in Memory, NEW u \in Memory, NEW l \in Lists \cup {Free},
         NEW s, Strung(m, l, s), NEW p \in Links, m.list[p] = Nil,
         NEW i \in 1 .. Len(s) + 1,
         \A q \in Links : u.list[q] = IF q = p THEN l ELSE m.list[q],
         u.next[p] = IF i = Len(s) + 1 THEN Nil ELSE s[i],
         i # 1 => u.prev[p] = s[i - 1],
         i = 1 => u.prev[p] = Nil,
         \A k \in 1 .. Len(s) : u.next[s[k]] = IF k = i - 1 THEN p ELSE m.next[s[k]],
         \A k \in 1 .. Len(s) : u.prev[s[k]] = IF k = i THEN p ELSE m.prev[s[k]],
         u.head[l] = IF i = 1 THEN p ELSE m.head[l]
  PROVE  /\ \E t \in Seq(Links) : Strung(u, l, t)
         /\ Gains(m, u, p, l)
<1>1. PICK n \in Nat : n = Len(s)  BY OnChain
<1>2. /\ s \in Seq(Links) /\ IsInjective(s)
      /\ {q \in Links : m.list[q] = l} = ToSet(s)
      /\ m.head[l] = IF s = <<>> THEN Nil ELSE s[1]
      /\ \A k \in 1 .. n : m.next[s[k]] = IF k = n THEN Nil ELSE s[k + 1]
      /\ \A k \in 2 .. n : m.prev[s[k]] = s[k - 1]
      /\ l # Free /\ s # <<>> => m.prev[s[1]] = Nil
  BY <1>1 DEF Strung
<1>3. i \in 1 .. n + 1  BY <1>1
<1>4. p \notin ToSet(s)
  <2>1. l # Nil  BY Distinct
  <2>2. QED  BY <1>2, <2>1
<1>5. PICK t : t = With(s, i, p)  OBVIOUS
<1>6. /\ t \in Seq(Links) /\ IsInjective(t) /\ ToSet(t) = ToSet(s) \cup {p}
      /\ Len(t) = n + 1 /\ t[i] = p
      /\ \A k \in 1 .. n + 1 : t[k] = IF k < i THEN s[k] ELSE IF k = i THEN p ELSE s[k - 1]
  <2>1. /\ t \in Seq(Links) /\ IsInjective(t) /\ ToSet(t) = ToSet(s) \cup {p}
        /\ Len(t) = Len(s) + 1 /\ t[i] = p
        /\ \A k \in 1 .. Len(s) + 1 : t[k] = IF k < i THEN s[k]
                                             ELSE IF k = i THEN p ELSE s[k - 1]
    BY <1>2, <1>4, <1>5, WithView
  <2>2. QED  BY <1>1, <2>1
<1>7. {q \in Links : u.list[q] = l} = ToSet(t)  BY <1>2, <1>6
<1>8. u.head[l] = IF t = <<>> THEN Nil ELSE t[1]
  <2>1. t # <<>> /\ 1 \in 1 .. n + 1  BY <1>6
  <2>2. CASE i = 1  BY <1>6, <2>1, <2>2
  <2>3. CASE i # 1
    <3>1. 1 < i /\ n # 0  BY <1>3, <2>3
    <3>2. t[1] = s[1] /\ s # <<>>  BY <1>1, <1>6, <2>1, <3>1
    <3>3. QED  BY <1>2, <2>1, <2>3, <3>2
  <2>4. QED  BY <2>2, <2>3
<1>9. ASSUME NEW k \in 1 .. n + 1
      PROVE  /\ u.next[t[k]] = IF k = n + 1 THEN Nil ELSE t[k + 1]
             /\ k # 1 => u.prev[t[k]] = t[k - 1]
  <2>1. /\ \A j \in 1 .. n : u.next[s[j]] = IF j = i - 1 THEN p ELSE m.next[s[j]]
        /\ \A j \in 1 .. n : u.prev[s[j]] = IF j = i THEN p ELSE m.prev[s[j]]
    BY <1>1
  <2>2. CASE k < i
    <3>1. k \in 1 .. n /\ t[k] = s[k]  BY <1>3, <1>6, <2>2
    <3>2. CASE k = i - 1
      <4>1. k + 1 = i /\ k # n + 1  BY <1>3, <3>2
      <4>2. u.next[t[k]] = t[k + 1]  BY <1>6, <2>1, <3>1, <3>2, <4>1
      <4>3. k # 1 => k - 1 < i /\ k - 1 \in 1 .. n + 1 /\ k \in 2 .. n /\ k # i
        BY <1>3, <3>1, <3>2
      <4>4. k # 1 => t[k - 1] = s[k - 1] /\ u.prev[s[k]] = m.prev[s[k]] /\ m.prev[s[k]] = s[k - 1]
        BY <1>2, <1>6, <2>1, <3>1, <4>3
      <4>5. QED  BY <3>1, <4>1, <4>2, <4>4
    <3>3. CASE k # i - 1
      <4>1. k + 1 < i /\ k + 1 \in 1 .. n + 1 /\ k # n + 1 /\ k # n  BY <1>3, <2>2, <3>3
      <4>2. u.next[s[k]] = s[k + 1] /\ t[k + 1] = s[k + 1]
        BY <1>2, <1>6, <2>1, <3>1, <3>3, <4>1
      <4>3. k # 1 => k - 1 < i /\ k - 1 \in 1 .. n + 1 /\ k \in 2 .. n /\ k # i
        BY <1>3, <3>1, <4>1, SMTT(30)
      <4>4. k # 1 => t[k - 1] = s[k - 1] /\ u.prev[s[k]] = m.prev[s[k]] /\ m.prev[s[k]] = s[k - 1]
        BY <1>2, <1>6, <2>1, <3>1, <4>3
      <4>5. QED  BY <3>1, <4>1, <4>2, <4>4
    <3>4. QED  BY <3>2, <3>3
  <2>3. CASE k = i
    <3>1. t[k] = p  BY <1>6, <2>3
    <3>2. k # n + 1 => k + 1 \in 1 .. n + 1 /\ ~(k + 1 < i) /\ k + 1 # i /\ (k + 1) - 1 = i
      BY <2>3
    <3>3. k # n + 1 => t[k + 1] = s[i]  BY <1>6, <3>2
    <3>4. u.next[p] = IF k = n + 1 THEN Nil ELSE s[i]  BY <1>1, <2>3
    <3>5. k # 1 => k - 1 < i /\ k - 1 \in 1 .. n + 1  BY <2>3
    <3>6. k # 1 => t[k - 1] = s[i - 1]  BY <1>6, <2>3, <3>5
    <3>7. k # 1 => u.prev[p] = s[i - 1]  BY <2>3
    <3>8. QED  BY <3>1, <3>3, <3>4, <3>6, <3>7
  <2>4. CASE k > i
    <3>1. PICK j \in 1 .. n : j = k - 1  BY <1>3, <2>4
    <3>2. t[k] = s[j] /\ j >= i /\ j # i - 1  BY <1>3, <1>6, <2>4, <3>1
    <3>3. u.next[s[j]] = IF j = n THEN Nil ELSE s[j + 1]  BY <1>2, <2>1, <3>2
    <3>4. k # n + 1 => k + 1 \in 1 .. n + 1 /\ ~(k + 1 < i) /\ k + 1 # i /\ (k + 1) - 1 = j + 1
      BY <2>4, <3>1
    <3>5. k # n + 1 => t[k + 1] = s[j + 1]  BY <1>6, <3>4
    <3>6. k = n + 1 <=> j = n  BY <3>1
    <3>7. u.prev[t[k]] = t[k - 1]
      <4>1. CASE j = i
        <5>1. k - 1 = i  BY <3>1, <4>1
        <5>2. QED  BY <1>6, <2>1, <3>2, <4>1, <5>1
      <4>2. CASE j # i
        <5>1. j \in 2 .. n /\ k - 1 \in 1 .. n + 1 /\ ~(k - 1 < i) /\ k - 1 # i /\ (k - 1) - 1 = j - 1
          BY <1>3, <3>1, <3>2, <4>2
        <5>2. t[k - 1] = s[j - 1]  BY <1>6, <5>1
        <5>3. QED  BY <1>2, <2>1, <3>2, <4>2, <5>1, <5>2
      <4>3. QED  BY <4>1, <4>2
    <3>8. QED  BY <3>2, <3>3, <3>5, <3>6, <3>7
  <2>5. QED  BY <1>3, <2>2, <2>3, <2>4
<1>10. l # Free => u.prev[t[1]] = Nil
  <2>1. CASE i = 1  BY <1>6, <2>1
  <2>2. CASE i # 1
    <3>1. 1 < i /\ n # 0 /\ 1 \in 1 .. n + 1 /\ 1 \in 1 .. n  BY <1>3, <2>2
    <3>2. t[1] = s[1] /\ s # <<>>  BY <1>1, <1>6, <3>1
    <3>3. u.prev[s[1]] = m.prev[s[1]]  BY <1>1, <2>2, <3>1
    <3>4. QED  BY <1>2, <3>2, <3>3
  <2>3. QED  BY <2>1, <2>2
<1>11. Strung(u, l, t)
  <2>1. \A k \in 2 .. n + 1 : k \in 1 .. n + 1 /\ k # 1  OBVIOUS
  <2>2. \A k \in 2 .. Len(t) : u.prev[t[k]] = t[k - 1]  BY <1>6, <1>9, <2>1
  <2>3. \A k \in 1 .. Len(t) : u.next[t[k]] = IF k = Len(t) THEN Nil ELSE t[k + 1]
    BY <1>6, <1>9
  <2>4. QED  BY <1>6, <1>7, <1>8, <1>10, <2>2, <2>3 DEF Strung
<1>12. Gains(m, u, p, l)
  <2>1. Strung(u, l, With(s, i, p))  BY <1>5, <1>11
  <2>2. QED  BY <1>2, <2>1 DEF Gains
<1>13. QED  BY <1>6, <1>11, <1>12

LEMMA AtHeadStrung ==
  ASSUME NEW m \in Memory, AllStrung(m), NEW p \in Links, m.list[p] = Nil,
         NEW l \in Lists \cup {Free}, NEW u, u = AtHead(m, p, l)
  PROVE  /\ AllStrung(u) /\ Gains(m, u, p, l)
         /\ \A k \in Lists \ {l} : Kept(m, u, k)
<1>1. /\ u \in Memory
      /\ \A q \in Links :
           /\ u.next[q] = IF q = p THEN m.head[l] ELSE m.next[q]
           /\ u.prev[q] = IF q = p THEN Nil ELSE IF q = m.head[l] THEN p ELSE m.prev[q]
           /\ u.list[q] = IF q = p THEN l ELSE m.list[q]
      /\ \A k \in Lists \cup {Free} : u.head[k] = IF k = l THEN p ELSE m.head[k]
  BY AtHeadWrites, SMTT(30)
<1>2. PICK s : Strung(m, l, s)  BY DEF AllStrung
<1>3. /\ s \in Seq(Links) /\ Len(s) \in Nat
      /\ \A k \in 1 .. Len(s) : s[k] \in Links /\ m.list[s[k]] = l
      /\ \A j, k \in 1 .. Len(s) : s[j] = s[k] => j = k
      /\ m.head[l] = IF Len(s) = 0 THEN Nil ELSE s[1]
  BY <1>2, OnChain
<1>4. PICK n \in Nat : n = Len(s)  BY <1>3
<1>5. \A k \in 1 .. n : s[k] \in Links /\ s[k] # p /\ (s[k] = m.head[l] <=> k = 1)
  <2>1. l # Nil  BY Distinct
  <2>2. ASSUME NEW k \in 1 .. n PROVE s[k] \in Links /\ s[k] # p /\ (s[k] = m.head[l] <=> k = 1)
    <3>1. n # 0 /\ 1 \in 1 .. n  OBVIOUS
    <3>2. s[k] \in Links /\ m.list[s[k]] = l  BY <1>3, <1>4
    <3>3. QED  BY <1>3, <1>4, <2>1, <3>1, <3>2
  <2>3. QED  BY <2>2
<1>6. (\E t \in Seq(Links) : Strung(u, l, t)) /\ Gains(m, u, p, l)
  <2>1. 1 \in 1 .. Len(s) + 1  BY <1>3
  <2>2. u.next[p] = IF 1 = Len(s) + 1 THEN Nil ELSE s[1]
    <3>1. n = 0 <=> 1 = n + 1  OBVIOUS
    <3>2. QED  BY <1>1, <1>3, <1>4, <3>1
  <2>3. u.prev[p] = Nil  BY <1>1
  <2>4. \A k \in 1 .. Len(s) : u.next[s[k]] = IF k = 1 - 1 THEN p ELSE m.next[s[k]]
    BY <1>1, <1>4, <1>5
  <2>5. \A k \in 1 .. Len(s) : u.prev[s[k]] = IF k = 1 THEN p ELSE m.prev[s[k]]
    BY <1>1, <1>4, <1>5
  <2>6. u.head[l] = IF 1 = 1 THEN p ELSE m.head[l]  BY <1>1
  <2>7. \A q \in Links : u.list[q] = IF q = p THEN l ELSE m.list[q]  BY <1>1
  <2>8. u \in Memory  BY <1>1
  <2>9. (1 # 1 => u.prev[p] = s[1 - 1]) /\ (1 = 1 => u.prev[p] = Nil)  BY <2>3
  <2>10. QED  BY <1>2, <2>1, <2>2, <2>4, <2>5, <2>6, <2>7, <2>8, <2>9, Inserted
<1>7. ASSUME NEW k \in Lists \cup {Free}, k # l, NEW t \in Seq(Links), Strung(m, k, t)
      PROVE  Strung(u, k, t)
  <2>1. Strung(m, k, t)  BY <1>7
  <2>2. \A q \in Links : m.list[q] = k => q # p /\ q # m.head[l]
    <3>1. k # Nil  BY Distinct
    <3>2. m.head[l] # Nil => m.list[m.head[l]] = l
      <4>1. n # 0 => 1 \in 1 .. n  BY <1>4
      <4>2. QED  BY <1>3, <1>4, <4>1
    <3>3. \A q \in Links : q # Nil  BY Distinct
    <3>4. QED  BY <1>7, <3>1, <3>2, <3>3
  <2>3. u.head[k] = m.head[k]  BY <1>1, <1>7
  <2>4. \A q \in Links : /\ u.list[q] = k <=> m.list[q] = k
                         /\ m.list[q] = k => u.next[q] = m.next[q] /\ u.prev[q] = m.prev[q]
    <3>1. k # Nil  BY Distinct
    <3>2. QED  BY <1>1, <1>7, <2>2, <3>1
  <2>5. QED  BY <1>1, <2>1, <2>3, <2>4, Untouched
<1>8. \A k \in (Lists \cup {Free}) \ {l} : Kept(m, u, k)  BY <1>7 DEF Kept
<1>9. AllStrung(u)
  <2>1. ASSUME NEW k \in Lists \cup {Free} PROVE \E t \in Seq(Links) : Strung(u, k, t)
    <3>1. CASE k = l  BY <1>6, <3>1
    <3>2. CASE k # l
      <4>1. PICK t \in Seq(Links) : Strung(m, k, t)  BY DEF AllStrung
      <4>2. QED  BY <1>7, <3>2, <4>1
    <3>3. QED  BY <3>1, <3>2
  <2>2. QED  BY <2>1 DEF AllStrung
<1>10. QED  BY <1>6, <1>8, <1>9

LEMMA BeforeStrung ==
  ASSUME NEW m \in Memory, AllStrung(m), NEW p \in Links, m.list[p] = Nil,
         NEW b \in Links, m.list[b] \in Lists, NEW u, u = Before(m, p, b)
  PROVE  /\ AllStrung(u) /\ Gains(m, u, p, m.list[b])
         /\ \A k \in Lists \ {m.list[b]} : Kept(m, u, k)
<1>1. p # b  BY Distinct
<1>2. /\ u \in Memory
      /\ \A q \in Links :
           /\ u.next[q] = IF q = p THEN b ELSE IF q = m.prev[b] THEN p ELSE m.next[q]
           /\ u.prev[q] = IF q = p THEN m.prev[b] ELSE IF q = b THEN p ELSE m.prev[q]
           /\ u.list[q] = IF q = p THEN m.list[b] ELSE m.list[q]
      /\ \A k \in Lists \cup {Free} :
           u.head[k] = IF k = m.list[b] /\ m.prev[b] = Nil THEN p ELSE m.head[k]
  BY <1>1, BeforeWrites
<1>3. PICK l \in Lists : l = m.list[b]  OBVIOUS
<1>4. PICK s : Strung(m, l, s)  BY <1>3 DEF AllStrung
<1>5. /\ s \in Seq(Links) /\ Len(s) \in Nat
      /\ \A k \in 1 .. Len(s) : s[k] \in Links /\ m.list[s[k]] = l
      /\ \A j, k \in 1 .. Len(s) : s[j] = s[k] => j = k
      /\ \A q \in Links : m.list[q] = l => \E k \in 1 .. Len(s) : s[k] = q
      /\ \A k \in 1 .. Len(s) : m.prev[s[k]] = IF k = 1 THEN Nil ELSE s[k - 1]
  BY <1>4, OnChain
<1>6. PICK n \in Nat : n = Len(s)  BY <1>5
<1>7. PICK i \in 1 .. n : s[i] = b  BY <1>3, <1>5, <1>6
<1>8. m.prev[b] = IF i = 1 THEN Nil ELSE s[i - 1]  BY <1>5, <1>6, <1>7
<1>9. i # 1 => i - 1 \in 1 .. n  BY <1>6
<1>10. \A k \in 1 .. n : /\ s[k] \in Links /\ s[k] # p
                         /\ (s[k] = b <=> k = i) /\ (s[k] = m.prev[b] <=> k = i - 1)
  <2>1. l # Nil  BY Distinct
  <2>2. ASSUME NEW k \in 1 .. n
        PROVE  /\ s[k] \in Links /\ s[k] # p
               /\ (s[k] = b <=> k = i) /\ (s[k] = m.prev[b] <=> k = i - 1)
    <3>1. s[k] \in Links /\ m.list[s[k]] = l /\ s[k] # Nil  BY <1>5, <1>6, Distinct
    <3>2. s[k] # p  BY <2>1, <3>1
    <3>3. s[k] = b <=> k = i  BY <1>5, <1>6, <1>7
    <3>4. CASE i = 1
      <4>1. k # i - 1  BY <3>4
      <4>2. QED  BY <1>8, <3>1, <3>2, <3>3, <3>4, <4>1
    <3>5. CASE i # 1
      <4>1. s[k] = s[i - 1] <=> k = i - 1  BY <1>5, <1>6, <1>9, <3>5
      <4>2. QED  BY <1>8, <3>1, <3>2, <3>3, <3>5, <4>1
    <3>6. QED  BY <3>4, <3>5
  <2>3. QED  BY <2>2
<1>11. (\E t \in Seq(Links) : Strung(u, l, t)) /\ Gains(m, u, p, l)
  <2>1. i \in 1 .. Len(s) + 1  BY <1>6
  <2>2. u.next[p] = IF i = Len(s) + 1 THEN Nil ELSE s[i]
    <3>1. i # n + 1  OBVIOUS
    <3>2. QED  BY <1>2, <1>6, <1>7, <3>1
  <2>3. (i # 1 => u.prev[p] = s[i - 1]) /\ (i = 1 => u.prev[p] = Nil)  BY <1>2, <1>8
  <2>4. \A k \in 1 .. Len(s) : u.next[s[k]] = IF k = i - 1 THEN p ELSE m.next[s[k]]
    BY <1>2, <1>6, <1>10
  <2>5. \A k \in 1 .. Len(s) : u.prev[s[k]] = IF k = i THEN p ELSE m.prev[s[k]]
    BY <1>2, <1>6, <1>10
  <2>6. u.head[l] = IF i = 1 THEN p ELSE m.head[l]
    <3>1. m.prev[b] = Nil <=> i = 1  BY <1>5, <1>6, <1>8, <1>9, Distinct
    <3>2. QED  BY <1>2, <1>3, <3>1
  <2>7. \A q \in Links : u.list[q] = IF q = p THEN l ELSE m.list[q]  BY <1>2, <1>3
  <2>8. u \in Memory  BY <1>2
  <2>9. QED  BY <1>4, <2>1, <2>2, <2>3, <2>4, <2>5, <2>6, <2>7, <2>8, Inserted, SMTT(30)
<1>12. ASSUME NEW k \in Lists \cup {Free}, k # l, NEW t \in Seq(Links), Strung(m, k, t)
       PROVE  Strung(u, k, t)
  <2>1. Strung(m, k, t)  BY <1>12
  <2>2. \A q \in Links : m.list[q] = k => q # p /\ q # b /\ q # m.prev[b]
    <3>1. k # Nil  BY Distinct
    <3>2. m.prev[b] # Nil => m.list[m.prev[b]] = l  BY <1>5, <1>6, <1>8, <1>9
    <3>3. \A q \in Links : q # Nil  BY Distinct
    <3>4. QED  BY <1>3, <1>12, <3>1, <3>2, <3>3
  <2>3. u.head[k] = m.head[k]  BY <1>2, <1>3, <1>12
  <2>4. \A q \in Links : /\ u.list[q] = k <=> m.list[q] = k
                         /\ m.list[q] = k => u.next[q] = m.next[q] /\ u.prev[q] = m.prev[q]
    <3>1. k # Nil  BY Distinct
    <3>2. QED  BY <1>2, <1>3, <1>12, <2>2, <3>1
  <2>5. QED  BY <1>2, <2>1, <2>3, <2>4, Untouched
<1>13. \A k \in (Lists \cup {Free}) \ {l} : Kept(m, u, k)  BY <1>12 DEF Kept
<1>14. AllStrung(u)
  <2>1. ASSUME NEW k \in Lists \cup {Free} PROVE \E t \in Seq(Links) : Strung(u, k, t)
    <3>1. CASE k = l  BY <1>11, <3>1
    <3>2. CASE k # l
      <4>1. PICK t \in Seq(Links) : Strung(m, k, t)  BY DEF AllStrung
      <4>2. QED  BY <1>12, <3>2, <4>1
    <3>3. QED  BY <3>1, <3>2
  <2>2. QED  BY <2>1 DEF AllStrung
<1>15. QED  BY <1>3, <1>11, <1>13, <1>14

LEMMA AfterStrung ==
  ASSUME NEW m \in Memory, AllStrung(m), NEW p \in Links, m.list[p] = Nil,
         NEW a \in Links, m.list[a] \in Lists, NEW u, u = After(m, p, a)
  PROVE  /\ AllStrung(u) /\ Gains(m, u, p, m.list[a])
         /\ \A k \in Lists \ {m.list[a]} : Kept(m, u, k)
<1>1. p # a  BY Distinct
<1>2. /\ u \in Memory /\ u.head = m.head
      /\ \A q \in Links :
           /\ u.next[q] = IF q = p THEN m.next[a] ELSE IF q = a THEN p ELSE m.next[q]
           /\ u.prev[q] = IF q = p THEN a ELSE IF q = m.next[a] THEN p ELSE m.prev[q]
           /\ u.list[q] = IF q = p THEN m.list[a] ELSE m.list[q]
  BY <1>1, AfterWrites
<1>3. PICK l \in Lists : l = m.list[a]  OBVIOUS
<1>4. PICK s : Strung(m, l, s)  BY <1>3 DEF AllStrung
<1>5. /\ s \in Seq(Links) /\ Len(s) \in Nat
      /\ \A k \in 1 .. Len(s) : s[k] \in Links /\ m.list[s[k]] = l
      /\ \A j, k \in 1 .. Len(s) : s[j] = s[k] => j = k
      /\ \A q \in Links : m.list[q] = l => \E k \in 1 .. Len(s) : s[k] = q
  BY <1>4, OnChain
<1>6. PICK n \in Nat : n = Len(s)  BY <1>5
<1>7. PICK i \in 1 .. n : s[i] = a  BY <1>3, <1>5, <1>6
<1>8. m.next[a] = IF i = n THEN Nil ELSE s[i + 1]  BY <1>4, <1>6, <1>7 DEF Strung
<1>9. i # n => i + 1 \in 1 .. n  BY <1>6
<1>10. \A k \in 1 .. n : /\ s[k] \in Links /\ s[k] # p
                         /\ (s[k] = a <=> k = i) /\ (s[k] = m.next[a] <=> k = i + 1)
  <2>1. l # Nil  BY Distinct
  <2>2. ASSUME NEW k \in 1 .. n
        PROVE  /\ s[k] \in Links /\ s[k] # p
               /\ (s[k] = a <=> k = i) /\ (s[k] = m.next[a] <=> k = i + 1)
    <3>1. s[k] \in Links /\ m.list[s[k]] = l /\ s[k] # Nil  BY <1>5, <1>6, Distinct
    <3>2. s[k] # p  BY <2>1, <3>1
    <3>3. s[k] = a <=> k = i  BY <1>5, <1>6, <1>7
    <3>4. CASE i = n
      <4>1. k # i + 1  BY <3>4
      <4>2. QED  BY <1>8, <3>1, <3>2, <3>3, <3>4, <4>1
    <3>5. CASE i # n
      <4>1. s[k] = s[i + 1] <=> k = i + 1  BY <1>5, <1>6, <1>9, <3>5
      <4>2. QED  BY <1>8, <3>1, <3>2, <3>3, <3>5, <4>1
    <3>6. QED  BY <3>4, <3>5
  <2>3. QED  BY <2>2
<1>11. (\E t \in Seq(Links) : Strung(u, l, t)) /\ Gains(m, u, p, l)
  <2>1. PICK j \in 1 .. Len(s) + 1 : j = i + 1  BY <1>6
  <2>2. u.next[p] = IF j = Len(s) + 1 THEN Nil ELSE s[j]
    <3>1. j = n + 1 <=> i = n  BY <2>1
    <3>2. QED  BY <1>2, <1>6, <1>8, <2>1, <3>1
  <2>3. (j # 1 => u.prev[p] = s[j - 1]) /\ (j = 1 => u.prev[p] = Nil)
    <3>1. j - 1 = i /\ j # 1  BY <2>1
    <3>2. QED  BY <1>2, <1>7, <3>1
  <2>4. \A k \in 1 .. Len(s) : u.next[s[k]] = IF k = j - 1 THEN p ELSE m.next[s[k]]
    <3>1. j - 1 = i  BY <2>1
    <3>2. QED  BY <1>2, <1>6, <1>10, <3>1
  <2>5. \A k \in 1 .. Len(s) : u.prev[s[k]] = IF k = j THEN p ELSE m.prev[s[k]]
    BY <1>2, <1>6, <1>10, <2>1
  <2>6. u.head[l] = IF j = 1 THEN p ELSE m.head[l]
    <3>1. j # 1  BY <2>1
    <3>2. QED  BY <1>2, <3>1
  <2>7. \A q \in Links : u.list[q] = IF q = p THEN l ELSE m.list[q]  BY <1>2, <1>3
  <2>8. u \in Memory  BY <1>2
  <2>9. QED  BY <1>4, <2>2, <2>3, <2>4, <2>5, <2>6, <2>7, <2>8, Inserted, SMTT(30)
<1>12. ASSUME NEW k \in Lists \cup {Free}, k # l, NEW t \in Seq(Links), Strung(m, k, t)
       PROVE  Strung(u, k, t)
  <2>1. Strung(m, k, t)  BY <1>12
  <2>2. \A q \in Links : m.list[q] = k => q # p /\ q # a /\ q # m.next[a]
    <3>1. k # Nil  BY Distinct
    <3>2. m.next[a] # Nil => m.list[m.next[a]] = l  BY <1>5, <1>6, <1>8, <1>9
    <3>3. \A q \in Links : q # Nil  BY Distinct
    <3>4. QED  BY <1>3, <1>12, <3>1, <3>2, <3>3
  <2>3. u.head[k] = m.head[k]  BY <1>2
  <2>4. \A q \in Links : /\ u.list[q] = k <=> m.list[q] = k
                         /\ m.list[q] = k => u.next[q] = m.next[q] /\ u.prev[q] = m.prev[q]
    <3>1. k # Nil  BY Distinct
    <3>2. QED  BY <1>2, <1>3, <1>12, <2>2, <3>1
  <2>5. QED  BY <1>2, <2>1, <2>3, <2>4, Untouched
<1>13. \A k \in (Lists \cup {Free}) \ {l} : Kept(m, u, k)  BY <1>12 DEF Kept
<1>14. AllStrung(u)
  <2>1. ASSUME NEW k \in Lists \cup {Free} PROVE \E t \in Seq(Links) : Strung(u, k, t)
    <3>1. CASE k = l  BY <1>11, <3>1
    <3>2. CASE k # l
      <4>1. PICK t \in Seq(Links) : Strung(m, k, t)  BY DEF AllStrung
      <4>2. QED  BY <1>12, <3>2, <4>1
    <3>3. QED  BY <3>1, <3>2
  <2>2. QED  BY <2>1 DEF AllStrung
<1>15. QED  BY <1>3, <1>11, <1>13, <1>14

(* The free list loses its first link; that of the next link's prev is not *)
(* written, and means nothing.                                             *)
LEMMA TakeStrung ==
  ASSUME NEW m \in Memory, AllStrung(m), m.head[Free] # Nil,
         NEW h \in Hdrs, NEW i \in [Hdrs -> Nat], NEW o \in BOOLEAN,
         NEW u, u = Take(m, i, h, o)
  PROVE  /\ AllStrung(u) /\ u \in Memory
         /\ m.head[Free] \in Links /\ m.list[m.head[Free]] = Free
         /\ \A k \in Lists : Kept(m, u, k)
<1>1. PICK s : Strung(m, Free, s)  BY DEF AllStrung
<1>2. /\ s \in Seq(Links) /\ IsInjective(s) /\ Len(s) \in Nat
      /\ \A k \in 1 .. Len(s) : s[k] \in Links /\ m.list[s[k]] = Free
      /\ \A j, k \in 1 .. Len(s) : s[j] = s[k] => j = k
      /\ m.head[Free] = IF Len(s) = 0 THEN Nil ELSE s[1]
      /\ \A k \in 1 .. Len(s) : m.next[s[k]] = IF k = Len(s) THEN Nil ELSE s[k + 1]
      /\ \A k \in 2 .. Len(s) : m.prev[s[k]] = s[k - 1]
      /\ {q \in Links : m.list[q] = Free} = ToSet(s)
  <2>1. Strung(m, Free, s) =>
          /\ IsInjective(s)
          /\ \A k \in 1 .. Len(s) : m.next[s[k]] = IF k = Len(s) THEN Nil ELSE s[k + 1]
          /\ \A k \in 2 .. Len(s) : m.prev[s[k]] = s[k - 1]
          /\ {q \in Links : m.list[q] = Free} = ToSet(s)
    BY DEF Strung
  <2>2. QED  BY <1>1, <2>1, OnChain
<1>3. PICK n \in Nat : n = Len(s)  BY <1>2
<1>4. PICK p \in Links : p = m.head[Free] /\ p = s[1] /\ n # 0 /\ m.list[p] = Free
  <2>1. n # 0  BY <1>2, <1>3
  <2>2. 1 \in 1 .. n  BY <2>1
  <2>3. QED  BY <1>2, <1>3, <2>1, <2>2
<1>5. /\ u \in Memory
      /\ \A q \in Links :
           /\ u.next[q] = IF q = p THEN Nil ELSE m.next[q]
           /\ u.prev[q] = IF q = p THEN Nil ELSE m.prev[q]
           /\ u.list[q] = IF q = p THEN Nil ELSE m.list[q]
      /\ \A k \in Lists \cup {Free} : u.head[k] = IF k = Free THEN m.next[p] ELSE m.head[k]
  <2>1. m.head[Free] = p  BY <1>4
  <2>2. /\ u \in Memory
        /\ \A q \in Links :
             /\ u.hdr[q] = IF q = p THEN h ELSE m.hdr[q]
             /\ u.stamp[q] = IF q = p THEN i[h] ELSE m.stamp[q]
             /\ u.own[q] = IF q = p THEN o ELSE m.own[q]
             /\ u.next[q] = IF q = p THEN Nil ELSE m.next[q]
             /\ u.prev[q] = IF q = p THEN Nil ELSE m.prev[q]
             /\ u.list[q] = IF q = p THEN Nil ELSE m.list[q]
        /\ \A k \in Lists \cup {Free} : u.head[k] = IF k = Free THEN m.next[p] ELSE m.head[k]
    BY <2>1, TakeWrites
  <2>3. QED  BY <2>2
<1>6. ASSUME NEW k \in Lists \cup {Free}, k # Free, NEW t \in Seq(Links), Strung(m, k, t)
      PROVE  Strung(u, k, t)
  <2>1. Strung(m, k, t)  BY <1>6
  <2>2. \A q \in Links : /\ u.list[q] = k <=> m.list[q] = k
                         /\ m.list[q] = k => u.next[q] = m.next[q] /\ u.prev[q] = m.prev[q]
    <3>1. k # Nil  BY Distinct
    <3>2. QED  BY <1>4, <1>5, <1>6, <3>1
  <2>3. u.head[k] = m.head[k]  BY <1>5, <1>6
  <2>4. QED  BY <1>5, <2>1, <2>2, <2>3, Untouched
<1>7. PICK t : t = Without(s, 1)  OBVIOUS
<1>8. /\ t \in Seq(Links) /\ IsInjective(t) /\ ToSet(t) = ToSet(s) \ {p} /\ Len(t) = n - 1
      /\ \A k \in 1 .. n - 1 : t[k] = s[k + 1]
  <2>1. s \in Seq(Links) /\ IsInjective(s) /\ 1 \in 1 .. Len(s)  BY <1>2, <1>3, <1>4
  <2>2. /\ t \in Seq(Links) /\ IsInjective(t) /\ ToSet(t) = ToSet(s) \ {s[1]}
        /\ Len(t) = Len(s) - 1
        /\ \A k \in 1 .. Len(s) - 1 : t[k] = IF k < 1 THEN s[k] ELSE s[k + 1]
    BY <1>7, <2>1, WithoutView, SMTT(30)
  <2>3. QED  BY <1>3, <1>4, <2>2
<1>9. ASSUME NEW k \in 1 .. n - 1
      PROVE  /\ k + 1 \in 2 .. n /\ s[k + 1] \in Links
             /\ u.next[s[k + 1]] = m.next[s[k + 1]] /\ u.prev[s[k + 1]] = m.prev[s[k + 1]]
  <2>1. k + 1 \in 2 .. n /\ k + 1 \in 1 .. n /\ 1 \in 1 .. n /\ k + 1 # 1  OBVIOUS
  <2>2. s[k + 1] \in Links /\ s[k + 1] # p  BY <1>2, <1>3, <1>4, <2>1
  <2>3. QED  BY <1>5, <2>1, <2>2
<1>10. \A k \in 1 .. Len(t) : u.next[t[k]] = IF k = Len(t) THEN Nil ELSE t[k + 1]
  <2>1. ASSUME NEW k \in 1 .. n - 1 PROVE u.next[t[k]] = IF k = n - 1 THEN Nil ELSE t[k + 1]
    <3>1. u.next[t[k]] = m.next[s[k + 1]]  BY <1>8, <1>9
    <3>2. k + 1 \in 1 .. n /\ (k + 1 = n <=> k = n - 1)  OBVIOUS
    <3>3. m.next[s[k + 1]] = IF k = n - 1 THEN Nil ELSE s[(k + 1) + 1]  BY <1>2, <1>3, <3>2
    <3>4. k # n - 1 => k + 1 \in 1 .. n - 1  OBVIOUS
    <3>5. k # n - 1 => t[k + 1] = s[(k + 1) + 1]  BY <1>8, <3>4
    <3>6. QED  BY <3>1, <3>3, <3>5
  <2>2. QED  BY <1>8, <2>1
<1>11. \A k \in 2 .. Len(t) : u.prev[t[k]] = t[k - 1]
  <2>1. ASSUME NEW k \in 2 .. n - 1 PROVE u.prev[t[k]] = t[k - 1]
    <3>1. k \in 1 .. n - 1 /\ k - 1 \in 1 .. n - 1 /\ (k - 1) + 1 = k /\ k + 1 \in 2 .. n
          /\ (k + 1) - 1 = k
      OBVIOUS
    <3>2. t[k] = s[k + 1] /\ t[k - 1] = s[k]  BY <1>8, <3>1
    <3>3. u.prev[s[k + 1]] = m.prev[s[k + 1]]  BY <1>9, <3>1
    <3>4. m.prev[s[k + 1]] = s[k]  BY <1>2, <1>3, <3>1
    <3>5. QED  BY <3>2, <3>3, <3>4
  <2>2. QED  BY <1>8, <2>1
<1>12. {q \in Links : u.list[q] = Free} = ToSet(t)
  <2>1. Free # Nil  BY Distinct
  <2>2. \A q \in Links : u.list[q] = Free <=> m.list[q] = Free /\ q # p  BY <1>5, <2>1
  <2>3. {q \in Links : m.list[q] = Free} = ToSet(s)  BY <1>2
  <2>4. {q \in Links : u.list[q] = Free} = {q \in Links : m.list[q] = Free} \ {p}  BY <2>2
  <2>5. ToSet(t) = ToSet(s) \ {p}  BY <1>8
  <2>6. QED  BY <2>3, <2>4, <2>5
<1>13. u.head[Free] = IF t = <<>> THEN Nil ELSE t[1]
  <2>1. 1 \in 1 .. n  BY <1>4
  <2>2. m.next[p] = IF n = 1 THEN Nil ELSE s[2]  BY <1>2, <1>3, <1>4, <2>1
  <2>3. t = <<>> <=> n = 1  BY <1>4, <1>8
  <2>4. n # 1 => 1 \in 1 .. n - 1  BY <1>4
  <2>5. n # 1 => t[1] = s[2]  BY <1>8, <2>4
  <2>6. QED  BY <1>5, <2>2, <2>3, <2>5
<1>14. Strung(u, Free, t)  BY <1>8, <1>10, <1>11, <1>12, <1>13 DEF Strung
<1>15. \A k \in Lists : Kept(m, u, k)
  <2>1. \A k \in Lists : k # Free  BY Distinct
  <2>2. QED  BY <1>6, <2>1 DEF Kept
<1>16. AllStrung(u)
  <2>1. ASSUME NEW k \in Lists \cup {Free} PROVE \E r \in Seq(Links) : Strung(u, k, r)
    <3>1. CASE k = Free  BY <1>8, <1>14, <3>1
    <3>2. CASE k # Free
      <4>1. PICK r \in Seq(Links) : Strung(m, k, r)  BY DEF AllStrung
      <4>2. QED  BY <1>6, <3>2, <4>1
    <3>3. QED  BY <3>1, <3>2
  <2>2. QED  BY <2>1 DEF AllStrung
<1>17. QED  BY <1>4, <1>5, <1>15, <1>16

----------------------------------------------------------------------------
(* What is left of a link's other fields                                   *)

(* Link q stands for what it stood for, on the same list.                  *)
Same(m, u, q) == /\ u.hdr[q] = m.hdr[q] /\ u.stamp[q] = m.stamp[q] /\ u.own[q] = m.own[q]
                 /\ u.list[q] = m.list[q]

(* Link q is free and stands for nothing.                                  *)
Freed(u, q) == u.hdr[q] = Nil /\ u.stamp[q] = 0 /\ u.own[q] = TRUE /\ u.list[q] = Free

Discarded(m, u, p) == /\ u \in Memory /\ AllStrung(u) /\ Freed(u, p)
                      /\ \A q \in Links \ {p} : Same(m, u, q)

(* Link p, which was on no list, is on list l.                             *)
Placed(m, u, p, l) == /\ u \in Memory /\ AllStrung(u)
                      /\ u.list[p] = l /\ u.hdr[p] = m.hdr[p] /\ u.stamp[p] = m.stamp[p]
                      /\ u.own[p] = m.own[p]
                      /\ \A q \in Links \ {p} : Same(m, u, q)

(* Link p came into list l, and no other list changed.                     *)
Joined(m, u, p, l) == /\ Gains(m, u, p, l)
                      /\ \A k \in Lists \ {l} : Kept(m, u, k)

LEMMA AtHeadPlaced ==
  ASSUME NEW m \in Memory, AllStrung(m), NEW p \in Links, m.list[p] = Nil,
         NEW l \in Lists \cup {Free}, NEW u, u = AtHead(m, p, l)
  PROVE  Placed(m, u, p, l) /\ Joined(m, u, p, l)
<1>1. AllStrung(u) /\ Joined(m, u, p, l)  BY AtHeadStrung DEF Joined
<1>2. /\ u \in Memory /\ u.hdr = m.hdr /\ u.stamp = m.stamp /\ u.own = m.own
      /\ \A q \in Links : u.list[q] = IF q = p THEN l ELSE m.list[q]
  BY AtHeadWrites, SMTT(30)
<1>3. QED  BY <1>1, <1>2 DEF Placed, Same

LEMMA BeforePlaced ==
  ASSUME NEW m \in Memory, AllStrung(m), NEW p \in Links, m.list[p] = Nil,
         NEW b \in Links, m.list[b] \in Lists, NEW u, u = Before(m, p, b)
  PROVE  Placed(m, u, p, m.list[b]) /\ Joined(m, u, p, m.list[b])
<1>1. AllStrung(u) /\ Joined(m, u, p, m.list[b])  BY BeforeStrung DEF Joined
<1>2. p # b  BY Distinct
<1>3. /\ u \in Memory /\ u.hdr = m.hdr /\ u.stamp = m.stamp /\ u.own = m.own
      /\ \A q \in Links : u.list[q] = IF q = p THEN m.list[b] ELSE m.list[q]
  BY <1>2, BeforeWrites
<1>4. QED  BY <1>1, <1>3 DEF Placed, Same

LEMMA AfterPlaced ==
  ASSUME NEW m \in Memory, AllStrung(m), NEW p \in Links, m.list[p] = Nil,
         NEW a \in Links, m.list[a] \in Lists, NEW u, u = After(m, p, a)
  PROVE  Placed(m, u, p, m.list[a]) /\ Joined(m, u, p, m.list[a])
<1>1. AllStrung(u) /\ Joined(m, u, p, m.list[a])  BY AfterStrung DEF Joined
<1>2. p # a  BY Distinct
<1>3. /\ u \in Memory /\ u.hdr = m.hdr /\ u.stamp = m.stamp /\ u.own = m.own
      /\ \A q \in Links : u.list[q] = IF q = p THEN m.list[a] ELSE m.list[q]
  BY <1>2, AfterWrites
<1>4. QED  BY <1>1, <1>3 DEF Placed, Same

LEMMA UnlinkSame ==
  ASSUME NEW m \in Memory, AllStrung(m), NEW p \in Links, m.list[p] \in Lists \cup {Nil},
         NEW u, u = Unlink(m, p)
  PROVE  Placed(m, u, p, Nil)
<1>1. CASE m.list[p] = Nil
  <2>1. u = m  BY <1>1 DEF Unlink
  <2>2. QED  BY <1>1, <2>1 DEF Placed, Same
<1>2. CASE m.list[p] # Nil
  <2>1. m.list[p] \in Lists  BY <1>2
  <2>2. AllStrung(u)  BY <2>1, UnlinkStrung
  <2>3. /\ u \in Memory /\ u.hdr = m.hdr /\ u.stamp = m.stamp /\ u.own = m.own
        /\ \A q \in Links : u.list[q] = IF q = p THEN Nil ELSE m.list[q]
    BY <1>2, UnlinkWrites
  <2>4. QED  BY <2>2, <2>3 DEF Placed, Same
<1>3. QED  BY <1>1, <1>2

(* discard_mkptr on a link of a list, or of nobody                         *)
LEMMA DiscardFacts ==
  ASSUME NEW m \in Memory, AllStrung(m), NEW p \in Links, m.list[p] \in Lists \cup {Nil},
         NEW u, u = Discard(m, p)
  PROVE  Discarded(m, u, p)
<1>1. PICK w : w = Unlink(m, p)  OBVIOUS
<1>2. Placed(m, w, p, Nil)  BY <1>1, UnlinkSame
<1>3. w \in Memory /\ AllStrung(w)  BY <1>2 DEF Placed
<1>4. u = Recycle(w, p)  BY <1>1 DEF Discard
<1>5. PICK v \in Memory :
        /\ u = AtHead(v, p, Free)
        /\ v.next = w.next /\ v.prev = w.prev /\ v.list = w.list /\ v.head = w.head
        /\ v.own = [w.own EXCEPT ![p] = TRUE]
        /\ \A q \in Links : /\ v.hdr[q] = IF q = p THEN Nil ELSE w.hdr[q]
                            /\ v.stamp[q] = IF q = p THEN 0 ELSE w.stamp[q]
  BY <1>3, <1>4, RecycleWrites
<1>6. AllStrung(v)
  <2>1. ASSUME NEW l \in Lists \cup {Free} PROVE \E s \in Seq(Links) : Strung(v, l, s)
    <3>1. PICK s \in Seq(Links) : Strung(w, l, s)  BY <1>3 DEF AllStrung
    <3>2. Strung(v, l, s)  BY <1>5, <3>1 DEF Strung
    <3>3. QED  BY <3>1, <3>2
  <2>2. QED  BY <2>1 DEF AllStrung
<1>7. v.list[p] = Nil  BY <1>2, <1>5 DEF Placed
<1>8. Placed(v, u, p, Free)  BY <1>5, <1>6, <1>7, AtHeadPlaced
<1>9. Freed(u, p)
  <2>1. u.hdr[p] = Nil /\ u.stamp[p] = 0 /\ u.list[p] = Free  BY <1>5, <1>8 DEF Placed
  <2>2. w.own \in [Links -> BOOLEAN]  BY <1>3 DEF Memory
  <2>3. v.own[p] = TRUE  BY <1>5, <2>2, Zenon
  <2>4. u.own[p] = v.own[p]  BY <1>8, Zenon DEF Placed
  <2>5. QED  BY <2>1, <2>3, <2>4, Zenon DEF Freed
<1>10. ASSUME NEW q \in Links \ {p} PROVE Same(m, u, q)
  <2>1. Same(m, w, q) /\ Same(v, u, q)  BY <1>2, <1>8 DEF Placed
  <2>2. /\ v.hdr[q] = w.hdr[q] /\ v.stamp[q] = w.stamp[q] /\ v.own[q] = w.own[q]
        /\ v.list[q] = w.list[q]
    BY <1>5
  <2>3. QED  BY <2>1, <2>2 DEF Same
<1>11. QED  BY <1>8, <1>9, <1>10 DEF Placed, Discarded

(* Whatever list a link is on, discarding it leaves the memory well typed. *)
LEMMA DiscardType ==
  ASSUME NEW m \in Memory, NEW p \in Links
  PROVE  Discard(m, p) \in Memory
<1>1. PICK w : w = Unlink(m, p)  OBVIOUS
<1>2. w \in Memory
  <2>1. CASE m.list[p] = Nil  BY <1>1, <2>1 DEF Unlink
  <2>2. CASE m.list[p] # Nil  BY <1>1, <2>2, UnlinkWrites
  <2>3. QED  BY <2>1, <2>2
<1>3. PICK u : u = Recycle(w, p)  OBVIOUS
<1>4. PICK v \in Memory :
        /\ u = AtHead(v, p, Free)
        /\ v.next = w.next /\ v.prev = w.prev /\ v.list = w.list /\ v.head = w.head
        /\ v.own = [w.own EXCEPT ![p] = TRUE]
        /\ \A q \in Links : /\ v.hdr[q] = IF q = p THEN Nil ELSE w.hdr[q]
                            /\ v.stamp[q] = IF q = p THEN 0 ELSE w.stamp[q]
  BY <1>2, <1>3, RecycleWrites
<1>5. u \in Memory  BY <1>4, AtHeadWrites
<1>6. QED  BY <1>1, <1>3, <1>5 DEF Discard

(* POP_FREE_MKPTR and BIND_MKPTR                                           *)
Taken(m, u, p, h, g) == /\ u \in Memory /\ AllStrung(u) /\ m.list[p] = Free
                        /\ u.list[p] = Nil /\ u.hdr[p] = h /\ u.stamp[p] = g
                        /\ \A q \in Links \ {p} : Same(m, u, q)
                        /\ \A k \in Lists : Kept(m, u, k)

LEMMA TakeFacts ==
  ASSUME NEW m \in Memory, AllStrung(m), NEW p, m.head[Free] = p, p # Nil,
         NEW h \in Hdrs, NEW i \in [Hdrs -> Nat], NEW o \in BOOLEAN,
         NEW u, u = Take(m, i, h, o)
  PROVE  p \in Links /\ Taken(m, u, p, h, i[h])
<1>1. /\ AllStrung(u) /\ u \in Memory /\ p \in Links /\ m.list[p] = Free
      /\ \A k \in Lists : Kept(m, u, k)
  <2>1. m.head[Free] # Nil  OBVIOUS
  <2>2. QED  BY <2>1, TakeStrung
<1>2. p \in Links  BY <1>1
<1>3. /\ u \in Memory
      /\ \A q \in Links :
           /\ u.hdr[q] = IF q = p THEN h ELSE m.hdr[q]
           /\ u.stamp[q] = IF q = p THEN i[h] ELSE m.stamp[q]
           /\ u.own[q] = IF q = p THEN o ELSE m.own[q]
           /\ u.next[q] = IF q = p THEN Nil ELSE m.next[q]
           /\ u.prev[q] = IF q = p THEN Nil ELSE m.prev[q]
           /\ u.list[q] = IF q = p THEN Nil ELSE m.list[q]
      /\ \A k \in Lists \cup {Free} : u.head[k] = IF k = Free THEN m.next[p] ELSE m.head[k]
  BY <1>2, TakeWrites
<1>4. \A q \in Links : /\ u.hdr[q] = IF q = p THEN h ELSE m.hdr[q]
                       /\ u.stamp[q] = IF q = p THEN i[h] ELSE m.stamp[q]
                       /\ u.own[q] = IF q = p THEN o ELSE m.own[q]
                       /\ u.list[q] = IF q = p THEN Nil ELSE m.list[q]
  BY <1>3
<1>5. QED  BY <1>1, <1>4 DEF Taken, Same

----------------------------------------------------------------------------
(* Chains                                                                  *)

(* A step function applied once for every number up to N, from x on.       *)
LEMMA Iterated ==
  ASSUME NEW M, NEW x \in M, NEW N \in Nat, NEW G \in [1 .. N -> [M -> M]]
  PROVE  \E f \in [0 .. N -> M] : f[0] = x /\ \A n \in 1 .. N : f[n] = G[n][f[n - 1]]
<1> DEFINE Done(n) == \E f \in [0 .. n -> M] :
                        f[0] = x /\ \A k \in 1 .. n : f[k] = G[k][f[k - 1]]
           I == {n \in Nat : n <= N /\ ~Done(n)}
<1>1. SUFFICES ASSUME ~Done(N) PROVE FALSE  OBVIOUS
<1>2. I \in SUBSET Nat /\ I # {}  BY <1>1, SMTT(30)
<1>3. PICK n \in I : \A k \in I : n <= k  BY <1>2, LeastNumber
<1>4. n \in Nat /\ n <= N /\ ~Done(n)  BY <1>3
<1>5. CASE n = 0
  <2>1. PICK f : f = [k \in 0 .. 0 |-> x]  OBVIOUS
  <2>2. f \in [0 .. n -> M] /\ f[0] = x  BY <1>5, <2>1
  <2>3. \A k \in 1 .. n : f[k] = G[k][f[k - 1]]  BY <1>5
  <2>4. QED  BY <1>4, <2>2, <2>3
<1>6. CASE n # 0
  <2>1. n - 1 \in Nat /\ n - 1 <= N /\ ~(n <= n - 1) /\ n \in 1 .. N  BY <1>4, <1>6
  <2>2. Done(n - 1)  BY <1>3, <2>1
  <2>3. PICK e \in [0 .. n - 1 -> M] : e[0] = x /\ \A k \in 1 .. n - 1 : e[k] = G[k][e[k - 1]]
    BY <2>2
  <2>4. n - 1 \in 0 .. n - 1  BY <2>1
  <2>5. PICK y : y = G[n][e[n - 1]]  OBVIOUS
  <2>6. y \in M
    <3>1. e[n - 1] \in M  BY <2>3, <2>4
    <3>2. G[n] \in [M -> M]  BY <2>1
    <3>3. QED  BY <2>5, <3>1, <3>2
  <2>7. PICK f : f = [k \in 0 .. n |-> IF k = n THEN y ELSE e[k]]  OBVIOUS
  <2>8. \A k \in 0 .. n : k # n => k \in 0 .. n - 1  BY <1>4
  <2>9. f \in [0 .. n -> M]  BY <2>3, <2>6, <2>7, <2>8
  <2>10. f[0] = x  BY <1>4, <1>6, <2>3, <2>7
  <2>11. ASSUME NEW k \in 1 .. n PROVE f[k] = G[k][f[k - 1]]
    <3>1. k \in 0 .. n /\ k - 1 \in 0 .. n /\ k - 1 # n  BY <1>4
    <3>2. f[k - 1] = e[k - 1]  BY <2>7, <3>1
    <3>3. CASE k = n  BY <2>5, <2>7, <3>1, <3>2, <3>3
    <3>4. CASE k # n
      <4>1. k \in 1 .. n - 1  BY <1>4, <3>4
      <4>2. f[k] = e[k]  BY <2>7, <3>1, <3>4
      <4>3. QED  BY <2>3, <3>2, <4>1, <4>2
    <3>5. QED  BY <3>3, <3>4
  <2>12. Done(n)  BY <2>9, <2>10, <2>11
  <2>13. QED  BY <1>4, <2>12
<1>7. QED  BY <1>5, <1>6

(* The recursive function in From is one that exists.                      *)
LEMMA RestExists ==
  ASSUME NEW nx \in [Links -> Links \cup {Nil}], NEW K \in Nat
  PROVE  \E rest : rest = [n \in 0 .. K |->
           [q \in Links \cup {Nil} |->
              IF q = Nil \/ n = 0 THEN <<>> ELSE <<q>> \o rest[n - 1][nx[q]]]]
<1>1. PICK M : M = [Links \cup {Nil} -> Seq(Links)]  OBVIOUS
<1>2. nx \in [Links -> Links \cup {Nil}]  OBVIOUS
<1>3. PICK x : x = [q \in Links \cup {Nil} |-> <<>>]  OBVIOUS
<1>4. <<>> \in Seq(Links)  OBVIOUS
<1>5. x \in M  BY <1>1, <1>3, <1>4
<1>6. PICK G : G = [n \in 1 .. K |-> [g \in M |->
                      [q \in Links \cup {Nil} |-> IF q = Nil THEN <<>> ELSE <<q>> \o g[nx[q]]]]]
  OBVIOUS
<1>7. ASSUME NEW g \in M
      PROVE  [q \in Links \cup {Nil} |-> IF q = Nil THEN <<>> ELSE <<q>> \o g[nx[q]]] \in M
  <2>1. ASSUME NEW q \in Links PROVE <<q>> \o g[nx[q]] \in Seq(Links)
    <3>1. nx[q] \in Links \cup {Nil}  BY <1>2
    <3>2. g[nx[q]] \in Seq(Links)  BY <1>1, <3>1
    <3>3. QED  BY <3>2, ElemsPush
  <2>2. \A q \in Links \cup {Nil} :
          (IF q = Nil THEN <<>> ELSE <<q>> \o g[nx[q]]) \in Seq(Links)
    BY <1>4, <2>1
  <2>3. QED  BY <1>1, <2>2
<1>8. G \in [1 .. K -> [M -> M]]
  <2>1. \A n \in 1 .. K : G[n] \in [M -> M]
    <3>1. ASSUME NEW n \in 1 .. K PROVE G[n] \in [M -> M]
      <4>1. G[n] = [g \in M |-> [q \in Links \cup {Nil} |->
                                   IF q = Nil THEN <<>> ELSE <<q>> \o g[nx[q]]]]
        BY <1>6
      <4>2. QED  BY <1>7, <4>1
    <3>2. QED  BY <3>1
  <2>2. G = [n \in 1 .. K |-> G[n]]  BY <1>6
  <2>3. QED  BY <2>1, <2>2
<1>9. PICK f \in [0 .. K -> M] : f[0] = x /\ \A n \in 1 .. K : f[n] = G[n][f[n - 1]]
  BY <1>5, <1>8, Iterated
<1>10. ASSUME NEW n \in 0 .. K
       PROVE  f[n] = [q \in Links \cup {Nil} |->
                        IF q = Nil \/ n = 0 THEN <<>> ELSE <<q>> \o f[n - 1][nx[q]]]
  <2>1. CASE n = 0  BY <1>3, <1>9, <2>1
  <2>2. CASE n # 0
    <3>1. n \in 1 .. K /\ n - 1 \in 0 .. K  BY <2>2
    <3>2. f[n - 1] \in M  BY <1>9, <3>1
    <3>3. f[n] = G[n][f[n - 1]]  BY <1>9, <3>1
    <3>4. G[n][f[n - 1]] = [q \in Links \cup {Nil} |->
                              IF q = Nil THEN <<>> ELSE <<q>> \o f[n - 1][nx[q]]]
      BY <1>6, <3>1, <3>2
    <3>5. QED  BY <2>2, <3>3, <3>4
  <2>3. QED  BY <2>1, <2>2
<1>11. f = [n \in 0 .. K |-> [q \in Links \cup {Nil} |->
             IF q = Nil \/ n = 0 THEN <<>> ELSE <<q>> \o f[n - 1][nx[q]]]]
  <2>1. f = [n \in 0 .. K |-> f[n]]  BY <1>9
  <2>2. QED  BY <1>10, <2>1
<1>12. QED  BY <1>11, ZenonT(30)

(* The links of a list met from its k-th on                                *)
Onward(s, k) == [j \in 1 .. Len(s) - k + 1 |-> s[k + j - 1]]

LEMMA FromOnward ==
  ASSUME NEW m \in Memory, NEW l \in Lists \cup {Free}, NEW s, Strung(m, l, s)
  PROVE  /\ From(m, Nil) = <<>>
         /\ \A k \in 1 .. Len(s) : From(m, s[k]) = Onward(s, k)
<1>1. PICK K : K = Cardinality(Links) + 1  OBVIOUS
<1>2. Cardinality(Links) \in Nat  BY LinksAssumption, FS_CardinalityType
<1>3. K \in Nat /\ K # 0  BY <1>1, <1>2
<1>4. PICK nx : nx = m.next /\ nx \in [Links -> Links \cup {Nil}]  BY DEF Memory
<1> DEFINE E(g) == [n \in 0 .. K |-> [q \in Links \cup {Nil} |->
                      IF q = Nil \/ n = 0 THEN <<>> ELSE <<q>> \o g[n - 1][nx[q]]]]
           rest == CHOOSE g : g = E(g)
<1>5. rest = E(rest)
  <2>1. \E g : g = E(g)
    <3>1. nx \in [Links -> Links \cup {Nil}] /\ K \in Nat  BY <1>3, <1>4
    <3>2. QED  BY <3>1, RestExists, Zenon
  <2>2. QED  BY <2>1
<1>6. ASSUME NEW p PROVE From(m, p) = rest[K][p]  BY <1>1, <1>4 DEF From
<1>7. PICK r : r = rest  OBVIOUS
<1>8. \A n \in 0 .. K : \A q \in Links \cup {Nil} :
        r[n][q] = IF q = Nil \/ n = 0 THEN <<>> ELSE <<q>> \o r[n - 1][nx[q]]
  <2>1. r = E(r)  BY <1>5, <1>7, ZenonT(30)
  <2>2. ASSUME NEW n \in 0 .. K
        PROVE  r[n] = [q \in Links \cup {Nil} |->
                         IF q = Nil \/ n = 0 THEN <<>> ELSE <<q>> \o r[n - 1][nx[q]]]
    BY <2>1, Zenon
  <2>3. ASSUME NEW n \in 0 .. K, NEW q \in Links \cup {Nil}
        PROVE  r[n][q] = IF q = Nil \/ n = 0 THEN <<>> ELSE <<q>> \o r[n - 1][nx[q]]
    BY <2>2, Zenon
  <2>4. QED  BY <2>3
<1> HIDE DEF E, rest
<1>9. PICK L \in Nat : L = Len(s)  BY OnChain
<1>10. L < K
  <2>1. s \in Seq(Links) /\ IsInjective(s) /\ IsFiniteSet(Links)
    BY LinksAssumption DEF Strung
  <2>2. Len(s) <= Cardinality(Links)  BY <2>1, InjectiveLength
  <2>3. QED  BY <1>1, <1>2, <1>9, <2>2
<1>11. /\ \A k \in 1 .. L : s[k] \in Links /\ s[k] # Nil
       /\ \A k \in 1 .. L : nx[s[k]] = IF k = L THEN Nil ELSE s[k + 1]
  <2>1. \A k \in 1 .. L : s[k] \in Links  BY <1>9, OnChain
  <2>2. \A k \in 1 .. L : nx[s[k]] = IF k = L THEN Nil ELSE s[k + 1]
    BY <1>4, <1>9 DEF Strung
  <2>3. QED  BY <2>1, <2>2, Distinct
<1> DEFINE Fine(n) == \A k \in 1 .. L : L - k + 1 <= n => r[n][s[k]] = Onward(s, k)
           I == {n \in Nat : n <= K /\ ~Fine(n)}
<1>12. I = {}
  <2>1. SUFFICES ASSUME I # {} PROVE FALSE  OBVIOUS
  <2>2. I \in SUBSET Nat  OBVIOUS
  <2>3. PICK n \in I : \A j \in I : n <= j  BY <2>1, <2>2, LeastNumber
  <2>4. n \in Nat /\ n <= K /\ ~Fine(n)  BY <2>3
  <2>5. PICK k \in 1 .. L : L - k + 1 <= n /\ r[n][s[k]] # Onward(s, k)  BY <2>4
  <2>6. n # 0 /\ n - 1 \in Nat /\ n - 1 <= K /\ ~(n <= n - 1) /\ n \in 0 .. K
    <3>1. n \in Nat /\ n <= K /\ L - k + 1 <= n /\ k \in 1 .. L  BY <2>4, <2>5
    <3>2. L - k + 1 >= 1  BY <3>1
    <3>3. QED  BY <1>3, <3>1, <3>2
  <2>7. Fine(n - 1)  BY <2>3, <2>6
  <2>8. PICK t : t = r[n - 1][nx[s[k]]]  OBVIOUS
  <2>9. r[n][s[k]] = <<s[k]>> \o t
    <3>1. s[k] \in Links \cup {Nil} /\ s[k] # Nil  BY <1>11
    <3>2. QED  BY <1>8, <2>6, <2>8, <3>1
  <2>10. \A j \in 1 .. L : s[j] \in Links  BY <1>11
  <2>11. CASE k = L
    <3>1. nx[s[k]] = Nil  BY <1>11, <2>11
    <3>2. t = <<>>
      <4>1. n - 1 \in 0 .. K /\ Nil \in Links \cup {Nil}  BY <2>6
      <4>2. QED  BY <1>8, <2>8, <3>1, <4>1
    <3>3. <<s[k]>> \o t = <<s[k]>>  BY <3>2, <2>10
    <3>4. Onward(s, k) = [j \in 1 .. 1 |-> s[k + j - 1]]
      <4>1. Len(s) - k + 1 = 1  BY <1>9, <2>11
      <4>2. QED  BY <4>1 DEF Onward
    <3>5. [j \in 1 .. 1 |-> s[k + j - 1]] = <<s[k]>>
      <4>1. PICK y : y = s[k]  OBVIOUS
      <4>2. \A j \in 1 .. 1 : s[k + j - 1] = y
        <5>1. \A j \in 1 .. 1 : k + j - 1 = k  OBVIOUS
        <5>2. QED  BY <4>1, <5>1
      <4>3. [j \in 1 .. 1 |-> s[k + j - 1]] = [j \in 1 .. 1 |-> y]  BY <4>2
      <4>4. [j \in 1 .. 1 |-> y] = <<y>>  OBVIOUS
      <4>5. QED  BY <4>1, <4>3, <4>4
    <3>6. QED  BY <2>5, <2>9, <3>3, <3>4, <3>5
  <2>12. CASE k # L
    <3>1. k + 1 \in 1 .. L /\ L - (k + 1) + 1 <= n - 1  BY <2>4, <2>5, <2>12
    <3>2. nx[s[k]] = s[k + 1]  BY <1>11, <2>12
    <3>3. t = Onward(s, k + 1)  BY <2>7, <2>8, <3>1, <3>2
    <3>4. PICK d \in Nat : d = L - k  BY <3>1
    <3>5. t = [j \in 1 .. d |-> s[k + j]]
      <4>1. Len(s) - (k + 1) + 1 = d  BY <1>9, <3>4
      <4>2. t = [j \in 1 .. d |-> s[(k + 1) + j - 1]]  BY <3>3, <4>1 DEF Onward
      <4>3. \A j \in 1 .. d : s[(k + 1) + j - 1] = s[k + j]
        <5>1. \A j \in 1 .. d : (k + 1) + j - 1 = k + j  OBVIOUS
        <5>2. QED  BY <5>1
      <4>4. QED  BY <4>2, <4>3
    <3>6. \A j \in 1 .. d : s[k + j] \in Links
      <4>1. \A j \in 1 .. d : k + j \in 1 .. L  BY <3>4
      <4>2. QED  BY <2>10, <4>1
    <3>7. t \in Seq(Links) /\ Len(t) = d /\ \A j \in 1 .. d : t[j] = s[k + j]
      <4>1. t \in [1 .. d -> Links]  BY <3>5, <3>6
      <4>2. t \in Seq(Links) /\ Len(t) = d  BY <4>1
      <4>3. \A j \in 1 .. d : t[j] = s[k + j]  BY <3>5
      <4>4. QED  BY <4>2, <4>3
    <3>8. PICK v : v = <<s[k]>> \o t  OBVIOUS
    <3>9. v \in Seq(Links) /\ Len(v) = d + 1 /\ v[1] = s[k] /\ \A j \in 2 .. d + 1 : v[j] = t[j - 1]
      <4>1. PICK y \in Links : y = s[k]  BY <2>10
      <4>2. <<y>> \in Seq(Links) /\ Len(<<y>>) = 1 /\ <<y>>[1] = y  OBVIOUS
      <4>3. v = <<y>> \o t  BY <3>8, <4>1
      <4>4. QED  BY <3>7, <4>1, <4>2, <4>3
    <3>10. Onward(s, k) = [j \in 1 .. d + 1 |-> s[k + j - 1]]
      <4>1. Len(s) - k + 1 = d + 1  BY <1>9, <3>4
      <4>2. QED  BY <4>1 DEF Onward
    <3>11. \A j \in 1 .. d + 1 : v[j] = s[k + j - 1]
      <4>1. ASSUME NEW j \in 1 .. d + 1 PROVE v[j] = s[k + j - 1]
        <5>1. CASE j = 1
          <6>1. k + j - 1 = k  BY <5>1
          <6>2. QED  BY <3>9, <5>1, <6>1
        <5>2. CASE j # 1
          <6>1. j \in 2 .. d + 1 /\ j - 1 \in 1 .. d /\ k + (j - 1) = k + j - 1  BY <5>2
          <6>2. v[j] = t[j - 1] /\ t[j - 1] = s[k + (j - 1)]  BY <3>7, <3>9, <6>1
          <6>3. QED  BY <6>1, <6>2
        <5>3. QED  BY <5>1, <5>2
      <4>2. QED  BY <4>1
    <3>12. v = [j \in 1 .. d + 1 |-> s[k + j - 1]]
      <4>1. v = [j \in 1 .. d + 1 |-> v[j]]
        <5>1. v \in [1 .. Len(v) -> Links]  BY <3>9
        <5>2. QED  BY <3>9, <5>1
      <4>2. QED  BY <3>11, <4>1
    <3>13. QED  BY <2>5, <2>9, <3>8, <3>10, <3>12
  <2>13. QED  BY <2>11, <2>12
<1>13. Fine(K)
  <2>1. K \notin I  BY <1>12
  <2>2. QED  BY <1>3, <2>1
<1>14. ASSUME NEW k \in 1 .. Len(s) PROVE From(m, s[k]) = Onward(s, k)
  <2>1. k \in 1 .. L /\ L - k + 1 <= K  BY <1>3, <1>9, <1>10
  <2>2. QED  BY <1>6, <1>7, <1>13, <2>1
<1>15. From(m, Nil) = <<>>
  <2>1. K \in 0 .. K /\ Nil \in Links \cup {Nil}  BY <1>3
  <2>2. QED  BY <1>6, <1>7, <1>8, <2>1
<1>16. QED  BY <1>14, <1>15

(* The chain of a list is the sequence of its links.                       *)
LEMMA ChainIs ==
  ASSUME NEW m \in Memory, NEW l \in Lists \cup {Free}, NEW s \in Seq(Links), Strung(m, l, s)
  PROVE  Chain(m, l) = s
<1>1. PICK c : c = Chain(m, l)  OBVIOUS
<1>2. /\ s \in Seq(Links) /\ Len(s) \in Nat
      /\ \A k \in 1 .. Len(s) : s[k] \in Links
      /\ m.head[l] = IF Len(s) = 0 THEN Nil ELSE s[1]
  BY OnChain
<1>3. c = From(m, m.head[l])  BY <1>1 DEF Chain
<1>4. From(m, Nil) = <<>> /\ \A k \in 1 .. Len(s) : From(m, s[k]) = Onward(s, k)
  BY FromOnward
<1>5. CASE Len(s) = 0
  <2>1. s = <<>>  BY <1>2, <1>5
  <2>2. c = <<>>  BY <1>2, <1>3, <1>4, <1>5
  <2>3. QED  BY <1>1, <2>1, <2>2
<1>6. CASE Len(s) # 0
  <2>1. 1 \in 1 .. Len(s)  BY <1>2, <1>6
  <2>2. c = Onward(s, 1)  BY <1>2, <1>3, <1>4, <1>6, <2>1
  <2>3. Onward(s, 1) = s
    <3>1. PICK n \in Nat : n = Len(s)  BY <1>2
    <3>2. Len(s) - 1 + 1 = n  BY <3>1
    <3>3. Onward(s, 1) = [j \in 1 .. n |-> s[1 + j - 1]]  BY <3>2 DEF Onward
    <3>4. \A j \in 1 .. n : s[1 + j - 1] = s[j]
      <4>1. \A j \in 1 .. n : 1 + j - 1 = j  OBVIOUS
      <4>2. QED  BY <4>1
    <3>5. s = [j \in 1 .. n |-> s[j]]
      <4>1. s \in [1 .. n -> Links]  BY <1>2, <3>1
      <4>2. QED  BY <4>1
    <3>6. QED  BY <3>3, <3>4, <3>5
  <2>4. QED  BY <1>1, <2>2, <2>3
<1>7. QED  BY <1>5, <1>6

LEMMA ChainFacts ==
  ASSUME NEW m \in Memory, AllStrung(m), NEW l \in Lists \cup {Free}, NEW c, c = Chain(m, l)
  PROVE  Strung(m, l, c)
<1>1. PICK s \in Seq(Links) : Strung(m, l, s)  BY DEF AllStrung
<1>2. c = s  BY <1>1, ChainIs
<1>3. QED  BY <1>1, <1>2

----------------------------------------------------------------------------
(* The order of lists                                                      *)

Precedes(m, p, q) ==
  \E l \in Lists : \E a, b \in 1 .. Len(Chain(m, l)) :
    a < b /\ Chain(m, l)[a] = p /\ Chain(m, l)[b] = q

(* Links that were not on a list are on none, the others keep their order. *)
InOrder(m, u) == \A p, q \in Links : Precedes(u, p, q) => Precedes(m, p, q)

LEMMA KeptChain ==
  ASSUME NEW m \in Memory, AllStrung(m), NEW u \in Memory, NEW l \in Lists, Kept(m, u, l)
  PROVE  Chain(u, l) = Chain(m, l)
<1>1. PICK s \in Seq(Links) : Strung(m, l, s)  BY DEF AllStrung
<1>2. Strung(u, l, s)  BY <1>1 DEF Kept
<1>3. Chain(m, l) = s /\ Chain(u, l) = s  BY <1>1, <1>2, ChainIs
<1>4. QED  BY <1>3

LEMMA UnlinkInOrder ==
  ASSUME NEW m \in Memory, AllStrung(m), NEW p \in Links, m.list[p] \in Lists \cup {Nil},
         NEW u, u = Unlink(m, p)
  PROVE  InOrder(m, u)
<1>1. CASE m.list[p] = Nil
  <2>1. u = m  BY <1>1 DEF Unlink
  <2>2. QED  BY <2>1 DEF InOrder
<1>2. CASE m.list[p] # Nil
  <2>1. PICK l \in Lists : l = m.list[p]  BY <1>2
  <2>2. u \in Memory /\ Loses(m, u, p, l) /\ \A k \in Lists \ {l} : Kept(m, u, k)
    <3>1. m.list[p] \in Lists  BY <2>1
    <3>2. Loses(m, u, p, m.list[p]) /\ \A k \in Lists \ {m.list[p]} : Kept(m, u, k)
      BY <3>1, UnlinkStrung
    <3>3. u \in Memory  BY <1>2, UnlinkWrites
    <3>4. QED  BY <2>1, <3>2, <3>3
  <2>3. PICK s \in Seq(Links) :
          /\ Strung(m, l, s)
          /\ \E i \in 1 .. Len(s) : s[i] = p /\ Strung(u, l, Without(s, i))
    BY <2>2 DEF Loses
  <2>4. PICK i \in 1 .. Len(s) : Strung(u, l, Without(s, i))  BY <2>3
  <2>5. PICK t : t = Without(s, i)  OBVIOUS
  <2>6. IsInjective(s) /\ IsInjective(t) /\ t \in Seq(Links)  BY <2>3, <2>4, <2>5 DEF Strung
  <2>7. Chain(m, l) = s /\ Chain(u, l) = t  BY <2>2, <2>3, <2>4, <2>5, <2>6, ChainIs
  <2>8. Len(t) = Len(s) - 1 /\ \A k \in 1 .. Len(s) - 1 : t[k] = IF k < i THEN s[k] ELSE s[k + 1]
    BY <2>5, <2>6, WithoutView
  <2>9. SUFFICES ASSUME NEW x \in Links, NEW y \in Links, Precedes(u, x, y)
                 PROVE  Precedes(m, x, y)
    BY DEF InOrder
  <2>10. PICK k \in Lists : \E a, b \in 1 .. Len(Chain(u, k)) :
           a < b /\ Chain(u, k)[a] = x /\ Chain(u, k)[b] = y
    BY <2>9 DEF Precedes
  <2>11. CASE k # l
    <3>1. Chain(u, k) = Chain(m, k)  BY <2>2, <2>11, KeptChain
    <3>2. QED  BY <2>10, <3>1 DEF Precedes
  <2>12. CASE k = l
    <3>1. PICK a, b \in 1 .. Len(t) : a < b /\ t[a] = x /\ t[b] = y  BY <2>7, <2>10, <2>12
    <3>2. PICK n \in Nat : n = Len(s)  OBVIOUS
    <3>3. PICK c : c = IF a < i THEN a ELSE a + 1  OBVIOUS
    <3>4. PICK d : d = IF b < i THEN b ELSE b + 1  OBVIOUS
    <3>5. a \in 1 .. n - 1 /\ b \in 1 .. n - 1  BY <2>8, <3>2
    <3>6. c \in 1 .. n /\ d \in 1 .. n /\ c < d  BY <3>1, <3>3, <3>4, <3>5
    <3>7. s[c] = x /\ s[d] = y  BY <2>8, <3>1, <3>2, <3>3, <3>4, <3>5
    <3>8. QED  BY <2>7, <3>2, <3>6, <3>7 DEF Precedes
  <2>13. QED  BY <2>11, <2>12
<1>3. QED  BY <1>1, <1>2

LEMMA DiscardInOrder ==
  ASSUME NEW m \in Memory, AllStrung(m), NEW p \in Links, m.list[p] \in Lists \cup {Nil},
         NEW u, u = Discard(m, p)
  PROVE  InOrder(m, u)
<1>1. PICK w : w = Unlink(m, p)  OBVIOUS
<1>2. Placed(m, w, p, Nil) /\ InOrder(m, w)  BY <1>1, UnlinkSame, UnlinkInOrder
<1>3. w \in Memory /\ AllStrung(w) /\ w.list[p] = Nil  BY <1>2 DEF Placed
<1>4. u = Recycle(w, p)  BY <1>1 DEF Discard
<1>5. PICK v \in Memory :
        /\ u = AtHead(v, p, Free)
        /\ v.next = w.next /\ v.prev = w.prev /\ v.list = w.list /\ v.head = w.head
        /\ v.own = [w.own EXCEPT ![p] = TRUE]
        /\ \A q \in Links : /\ v.hdr[q] = IF q = p THEN Nil ELSE w.hdr[q]
                            /\ v.stamp[q] = IF q = p THEN 0 ELSE w.stamp[q]
  <2>1. w \in Memory  BY <1>3
  <2>2. QED  BY <1>4, <2>1, RecycleWrites
<1>6. ASSUME NEW l \in Lists, NEW s \in Seq(Links), Strung(w, l, s) PROVE Strung(v, l, s)
  BY <1>5, <1>6 DEF Strung
<1>7. AllStrung(v)
  <2>1. ASSUME NEW l \in Lists \cup {Free} PROVE \E s \in Seq(Links) : Strung(v, l, s)
    <3>1. PICK s \in Seq(Links) : Strung(w, l, s)  BY <1>3 DEF AllStrung
    <3>2. Strung(v, l, s)  BY <1>5, <3>1 DEF Strung
    <3>3. QED  BY <3>1, <3>2
  <2>2. QED  BY <2>1 DEF AllStrung
<1>8. v.list[p] = Nil  BY <1>3, <1>5
<1>9. Joined(v, u, p, Free)  BY <1>5, <1>7, <1>8, AtHeadPlaced
<1>10. u \in Memory  BY <1>5, AtHeadWrites
<1>11. ASSUME NEW l \in Lists PROVE Chain(u, l) = Chain(w, l)
  <2>1. l # Free  BY Distinct
  <2>2. Kept(v, u, l)  BY <1>9, <2>1 DEF Joined
  <2>3. Kept(w, v, l)  BY <1>6 DEF Kept
  <2>4. Chain(v, l) = Chain(w, l)  BY <1>3, <2>3, KeptChain
  <2>5. Chain(u, l) = Chain(v, l)  BY <1>7, <1>10, <2>2, KeptChain
  <2>6. QED  BY <2>4, <2>5
<1>12. ASSUME NEW x \in Links, NEW y \in Links, Precedes(u, x, y) PROVE Precedes(m, x, y)
  <2>1. Precedes(w, x, y)  BY <1>11, <1>12 DEF Precedes
  <2>2. QED  BY <1>2, <2>1 DEF InOrder
<1>13. QED  BY <1>12 DEF InOrder

----------------------------------------------------------------------------
(* Walks                                                                   *)

(* Some links of D have been discarded, the others stand as they did.      *)
Tidied(m, u, D) == /\ u \in Memory /\ AllStrung(u) /\ InOrder(m, u)
                   /\ \A q \in Links : Same(m, u, q) \/ (Freed(u, q) /\ q \in D)

(* A walk along links of lists that gives some of them back, one at a time.*)
LEMMA Walked ==
  ASSUME NEW m \in Memory, AllStrung(m), NEW s \in Seq(Links), IsInjective(s),
         \A k \in 1 .. Len(s) : m.list[s[k]] \in Lists \cup {Nil},
         NEW N \in 0 .. Len(s), NEW D, NEW f, f[0] = m,
         \A n \in 1 .. N : \/ f[n] = f[n - 1]
                           \/ s[n] \in D /\ f[n] = Discard(f[n - 1], s[n])
  PROVE  \A n \in 0 .. N : Tidied(m, f[n], D)
<1>1. PICK L \in Nat : L = Len(s)  OBVIOUS
<1>2. N \in Nat /\ N <= L  BY <1>1
<1>3. \A k \in 1 .. L : s[k] \in Links  BY <1>1
<1>4. \A j, k \in 1 .. L : s[j] = s[k] => j = k  BY <1>1, SetView
<1> DEFINE Ahead(n) == \A k \in n + 1 .. L : Same(m, f[n], s[k])
           Fine(n) == Tidied(m, f[n], D) /\ Ahead(n)
           I == {n \in Nat : n <= N /\ ~Fine(n)}
<1>5. Fine(0)
  <2>1. Tidied(m, f[0], D)  BY DEF Tidied, Same, InOrder
  <2>2. Ahead(0)  BY DEF Same
  <2>3. QED  BY <2>1, <2>2
<1>6. ASSUME NEW n \in 1 .. N, Fine(n - 1) PROVE Fine(n)
  <2>1. n \in 1 .. L /\ n \in (n - 1) + 1 .. L  BY <1>2
  <2>2. PICK w : w = f[n - 1]  OBVIOUS
  <2>3. Tidied(m, w, D) /\ Same(m, w, s[n])  BY <1>6, <2>1, <2>2
  <2>4. \A k \in n + 1 .. L : Same(m, w, s[k]) /\ k \in 1 .. L /\ k # n
    <3>1. \A k \in n + 1 .. L : k \in (n - 1) + 1 .. L /\ k \in 1 .. L /\ k # n  BY <2>1
    <3>2. QED  BY <1>6, <2>2, <3>1
  <2>5. CASE f[n] = w  BY <2>3, <2>4, <2>5
  <2>6. CASE s[n] \in D /\ f[n] = Discard(w, s[n])
    <3>1. PICK p \in Links : p = s[n]  BY <1>3, <2>1
    <3>2. PICK u : u = f[n]  OBVIOUS
    <3>3. u = Discard(w, p) /\ w \in Memory /\ AllStrung(w)
      BY <2>3, <2>6, <3>1, <3>2 DEF Tidied
    <3>4. w.list[p] \in Lists \cup {Nil}
      <4>1. m.list[s[n]] \in Lists \cup {Nil}  BY <1>1, <2>1
      <4>2. QED  BY <2>3, <3>1, <4>1 DEF Same
    <3>5. Discarded(w, u, p) /\ InOrder(w, u)  BY <3>3, <3>4, DiscardFacts, DiscardInOrder
    <3>6. Tidied(m, u, D)
      <4>0. InOrder(m, u)  BY <2>3, <3>5 DEF Tidied, InOrder
      <4>1. u \in Memory /\ AllStrung(u) /\ Freed(u, p) /\ p \in D
        BY <2>6, <3>1, <3>5 DEF Discarded
      <4>2. ASSUME NEW q \in Links, q # p PROVE Same(m, u, q) \/ (Freed(u, q) /\ q \in D)
        <5>1. Same(w, u, q)  BY <3>5, <4>2 DEF Discarded
        <5>2. Same(m, w, q) \/ (Freed(w, q) /\ q \in D)  BY <2>3 DEF Tidied
        <5>3. QED  BY <5>1, <5>2 DEF Same, Freed
      <4>3. QED  BY <4>0, <4>1, <4>2 DEF Tidied
    <3>7. ASSUME NEW k \in n + 1 .. L PROVE Same(m, u, s[k])
      <4>1. Same(m, w, s[k]) /\ s[k] \in Links /\ s[k] # p  BY <1>3, <1>4, <2>1, <2>4, <3>1
      <4>2. Same(w, u, s[k])  BY <3>5, <4>1 DEF Discarded
      <4>3. QED  BY <4>1, <4>2 DEF Same
    <3>8. QED  BY <3>2, <3>6, <3>7
  <2>7. f[n] = w \/ (s[n] \in D /\ f[n] = Discard(w, s[n]))  BY <2>2
  <2>8. QED  BY <2>5, <2>6, <2>7
<1> HIDE DEF Fine
<1>7. I = {}
  <2>1. SUFFICES ASSUME I # {} PROVE FALSE  OBVIOUS
  <2>2. I \in SUBSET Nat  OBVIOUS
  <2>3. PICK n \in I : \A j \in I : n <= j  BY <2>1, <2>2, LeastNumber
  <2>4. n \in Nat /\ n <= N /\ ~Fine(n)  BY <2>3
  <2>5. n # 0  BY <1>5, <2>4
  <2>6. n \in 1 .. N /\ n - 1 \in Nat /\ n - 1 <= N /\ ~(n <= n - 1)  BY <1>2, <2>4, <2>5
  <2>7. Fine(n - 1)  BY <2>3, <2>6
  <2>8. QED  BY <1>6, <2>4, <2>6, <2>7
<1>8. ASSUME NEW n \in 0 .. N PROVE Fine(n)
  <2>1. n \in Nat /\ n <= N  BY <1>2
  <2>2. QED  BY <1>7, <2>1
<1>9. QED  BY <1>8 DEF Fine

LEMMA MinFacts ==
  ASSUME NEW I \in SUBSET Nat, I # {}
  PROVE  Min(I) \in I /\ \A k \in I : Min(I) <= k
<1>1. \E k \in I : \A j \in I : k <= j  BY LeastNumber
<1>2. QED  BY <1>1 DEF Min

(* The memory as it is before and after every step of a walk that leaves   *)
(* the links at the places of K alone                                      *)
HasPath(m, L, K, s) ==
  \E f \in [0 .. L -> Memory] :
    /\ f[0] = m
    /\ \A n \in 1 .. L : n \in K => f[n] = f[n - 1]
    /\ \A n \in 1 .. L : n \notin K => f[n] = Discard(f[n - 1], s[n])

LEMMA PathExists ==
  ASSUME NEW m \in Memory, NEW L \in Nat, NEW K, NEW s \in [1 .. L -> Links]
  PROVE  HasPath(m, L, K, s)
<1>1. PICK M : M = Memory  OBVIOUS
<1>2. m \in M  BY <1>1
<1>3. PICK G : G = [n \in 1 .. L |-> [v \in M |-> IF n \in K THEN v ELSE Discard(v, s[n])]]
  OBVIOUS
<1>4. \A n \in 1 .. L : \A v \in M : Discard(v, s[n]) \in M  BY <1>1, DiscardType
<1>5. G \in [1 .. L -> [M -> M]]
  <2>1. ASSUME NEW n \in 1 .. L PROVE G[n] \in [M -> M]
    <3>1. G[n] = [v \in M |-> IF n \in K THEN v ELSE Discard(v, s[n])]  BY <1>3
    <3>2. \A v \in M : (IF n \in K THEN v ELSE Discard(v, s[n])) \in M  BY <1>4
    <3>3. QED  BY <3>1, <3>2
  <2>2. G = [n \in 1 .. L |-> G[n]]  BY <1>3
  <2>3. QED  BY <2>1, <2>2
<1>6. PICK f \in [0 .. L -> M] : f[0] = m /\ \A n \in 1 .. L : f[n] = G[n][f[n - 1]]
  BY <1>2, <1>5, Iterated, SMTT(30)
<1>7. ASSUME NEW n \in 1 .. L
      PROVE  f[n] = IF n \in K THEN f[n - 1] ELSE Discard(f[n - 1], s[n])
  <2>1. n - 1 \in 0 .. L  OBVIOUS
  <2>2. f[n] = G[n][f[n - 1]] /\ f[n - 1] \in M  BY <1>6, <2>1
  <2>3. G[n][f[n - 1]] = IF n \in K THEN f[n - 1] ELSE Discard(f[n - 1], s[n])
    BY <1>3, <2>2
  <2>4. QED  BY <2>2, <2>3
<1>8. \A n \in 1 .. L : n \in K => f[n] = f[n - 1]  BY <1>7
<1>9. \A n \in 1 .. L : n \notin K => f[n] = Discard(f[n - 1], s[n])  BY <1>7
<1>10. f \in [0 .. L -> Memory] /\ f[0] = m  BY <1>1, <1>6
<1>11. QED  BY <1>8, <1>9, <1>10 DEF HasPath

(* A search passes from the memory it finds to the one it leaves in steps. *)
LEMMA SearchPath ==
  ASSUME NEW m \in Memory, NEW i, NEW W, NEW s \in Seq(Links),
         NEW u, u = AfterSearch(m, i, s, W)
  PROVE  \E N \in 0 .. Len(s) : \E f :
           /\ f[0] = m /\ f[N] = u
           /\ \A n \in 1 .. N : f[n] = IF Live(m, i, s[n]) THEN f[n - 1]
                                      ELSE Discard(f[n - 1], s[n])
<1>1. PICK N : N = IF Stops(m, i, s, W) = {} THEN Len(s) ELSE Min(Stops(m, i, s, W)) - 1
  OBVIOUS
<1>2. N \in 0 .. Len(s)
  <2>1. Len(s) \in Nat  OBVIOUS
  <2>2. CASE Stops(m, i, s, W) = {}  BY <1>1, <2>1, <2>2
  <2>3. CASE Stops(m, i, s, W) # {}
    <3>1. Stops(m, i, s, W) \subseteq 1 .. Len(s)  BY DEF Stops
    <3>2. Stops(m, i, s, W) \in SUBSET Nat  BY <2>1, <3>1
    <3>3. Min(Stops(m, i, s, W)) \in 1 .. Len(s)  BY <2>3, <3>1, <3>2, MinFacts
    <3>4. N = Min(Stops(m, i, s, W)) - 1  BY <1>1, <2>3
    <3>5. QED  BY <2>1, <3>3, <3>4
  <2>4. QED  BY <2>2, <2>3
<1> DEFINE E(g) == [n \in 0 .. N |-> IF n = 0 THEN m
                                     ELSE IF Live(m, i, s[n]) THEN g[n - 1]
                                     ELSE Discard(g[n - 1], s[n])]
           after == CHOOSE g : g = E(g)
<1>3. u = after[N]  BY <1>1 DEF AfterSearch
<1>4. N \in Nat /\ N <= Len(s)  BY <1>2
<1>5. \E g \in [0 .. N -> Memory] : g = E(g)
  <2>1. PICK K : K = {n \in 1 .. N : Live(m, i, s[n])}  OBVIOUS
  <2>2. PICK r : r = [n \in 1 .. N |-> s[n]]  OBVIOUS
  <2>3. N \in Nat  BY <1>4
  <2>4. r \in [1 .. N -> Links]
    <3>1. \A n \in 1 .. N : s[n] \in Links  BY <1>4
    <3>2. QED  BY <2>2, <3>1
  <2>5. PICK f \in [0 .. N -> Memory] :
          /\ f[0] = m
          /\ \A n \in 1 .. N : n \in K => f[n] = f[n - 1]
          /\ \A n \in 1 .. N : n \notin K => f[n] = Discard(f[n - 1], r[n])
    <3>1. HasPath(m, N, K, r)  BY <2>3, <2>4, PathExists
    <3>2. QED  BY <3>1 DEF HasPath
  <2>6. ASSUME NEW n \in 0 .. N
        PROVE  f[n] = IF n = 0 THEN m ELSE IF Live(m, i, s[n]) THEN f[n - 1]
                      ELSE Discard(f[n - 1], s[n])
    <3>1. CASE n = 0  BY <2>5, <3>1
    <3>2. CASE n # 0
      <4>1. n \in 1 .. N /\ (n \in K <=> Live(m, i, s[n])) /\ r[n] = s[n]
        BY <2>1, <2>2, <2>3, <3>2
      <4>2. QED  BY <2>5, <3>2, <4>1
    <3>3. QED  BY <3>1, <3>2
  <2>7. f = E(f)
    <3>1. f = [n \in 0 .. N |-> f[n]]  BY <2>5
    <3>2. QED  BY <2>6, <3>1
  <2>8. QED  BY <2>5, <2>7
<1>6. after = E(after)  BY <1>5
<1>7. PICK f : f = after  OBVIOUS
<1>8. f[0] = m /\ \A n \in 1 .. N : f[n] = IF Live(m, i, s[n]) THEN f[n - 1]
                                           ELSE Discard(f[n - 1], s[n])
  <2>1. f = E(f)  BY <1>6, <1>7
  <2>2. \A n \in 0 .. N : f[n] = IF n = 0 THEN m ELSE IF Live(m, i, s[n]) THEN f[n - 1]
                                 ELSE Discard(f[n - 1], s[n])
    BY <2>1, Zenon
  <2>3. 0 \in 0 .. N /\ \A n \in 1 .. N : n \in 0 .. N /\ n # 0  BY <1>4
  <2>4. QED  BY <2>2, <2>3
<1>9. f[N] = u  BY <1>3, <1>7
<1> HIDE DEF E, after
<1>10. QED  BY <1>2, <1>8, <1>9, Zenon

(* The stale links of a walk that starts from m                            *)
Stale(m, i) == {q \in Links : ~Live(m, i, q) /\ m.list[q] \in Lists}

StaleOn(m, i, l) == {q \in Stale(m, i) : m.list[q] = l}

(* A search gives back stale links only.                                   *)
LEMMA SearchTidies ==
  ASSUME NEW m \in Memory, AllStrung(m), NEW i, NEW W, NEW s \in Seq(Links), IsInjective(s),
         \A k \in 1 .. Len(s) : m.list[s[k]] \in Lists,
         NEW u, u = AfterSearch(m, i, s, W),
         NEW D, \A k \in 1 .. Len(s) : ~Live(m, i, s[k]) => s[k] \in D
  PROVE  Tidied(m, u, D)
<1>1. PICK N \in 0 .. Len(s) : \E f :
        /\ f[0] = m /\ f[N] = u
        /\ \A n \in 1 .. N : f[n] = IF Live(m, i, s[n]) THEN f[n - 1]
                                   ELSE Discard(f[n - 1], s[n])
  BY SearchPath
<1>8. PICK f :
        /\ f[0] = m /\ f[N] = u
        /\ \A n \in 1 .. N : f[n] = IF Live(m, i, s[n]) THEN f[n - 1]
                                   ELSE Discard(f[n - 1], s[n])
  BY <1>1
<1>2. \A k \in 1 .. Len(s) : m.list[s[k]] \in Lists \cup {Nil}  OBVIOUS
<1>4. \A n \in 1 .. N : \/ f[n] = f[n - 1]
                        \/ s[n] \in D /\ f[n] = Discard(f[n - 1], s[n])
  <2>1. ASSUME NEW n \in 1 .. N, ~Live(m, i, s[n]) PROVE s[n] \in D
    <3>1. n \in 1 .. Len(s)  OBVIOUS
    <3>2. QED  BY <2>1, <3>1
  <2>2. QED  BY <1>8, <2>1
<1>5. \A n \in 0 .. N : Tidied(m, f[n], D)
  <2>1. f[0] = m  BY <1>8
  <2>2. QED  BY <1>2, <1>4, <2>1, Walked
<1>6. N \in 0 .. N  OBVIOUS
<1>7. QED  BY <1>8, <1>5, <1>6

(* The links after a link are others of the same list.                     *)
LEMMA OnwardFacts ==
  ASSUME NEW m \in Memory, AllStrung(m), NEW p \in Links, m.list[p] \in Lists,
         NEW c, c = From(m, m.next[p])
  PROVE  /\ c \in Seq(Links) /\ IsInjective(c)
         /\ \A k \in 1 .. Len(c) : m.list[c[k]] = m.list[p]
<1>1. PICK l \in Lists : l = m.list[p]  OBVIOUS
<1>2. PICK s : Strung(m, l, s)  BY DEF AllStrung
<1>3. /\ s \in Seq(Links) /\ Len(s) \in Nat
      /\ \A k \in 1 .. Len(s) : s[k] \in Links /\ m.list[s[k]] = l
      /\ \A j, k \in 1 .. Len(s) : s[j] = s[k] => j = k
      /\ \A q \in Links : m.list[q] = l => \E k \in 1 .. Len(s) : s[k] = q
  BY <1>2, OnChain
<1>4. PICK n \in Nat : n = Len(s)  BY <1>3
<1>5. PICK i \in 1 .. n : s[i] = p  BY <1>1, <1>3, <1>4
<1>6. From(m, Nil) = <<>> /\ \A k \in 1 .. n : From(m, s[k]) = Onward(s, k)
  BY <1>2, <1>4, FromOnward
<1>7. m.next[p] = IF i = n THEN Nil ELSE s[i + 1]  BY <1>2, <1>4, <1>5 DEF Strung
<1>8. CASE i = n
  <2>1. c = <<>>  BY <1>6, <1>7, <1>8
  <2>2. Len(<<>>) = 0 /\ <<>> \in Seq(Links)  OBVIOUS
  <2>3. IsInjective(<<>>)  BY ElemsEmpty
  <2>4. c \in Seq(Links) /\ IsInjective(c) /\ Len(c) = 0  BY <2>1, <2>2, <2>3
  <2>5. QED  BY <2>4
<1>9. CASE i # n
  <2>1. i + 1 \in 1 .. n  BY <1>9
  <2>2. c = Onward(s, i + 1)  BY <1>6, <1>7, <1>9, <2>1
  <2>3. PICK d \in Nat : d = n - i  BY <2>1
  <2>4. Len(s) - (i + 1) + 1 = d  BY <1>4, <2>3
  <2>5. c = [j \in 1 .. d |-> s[(i + 1) + j - 1]]  BY <2>2, <2>4 DEF Onward
  <2>6. \A j \in 1 .. d : (i + 1) + j - 1 = i + j /\ i + j \in 1 .. n  BY <2>3
  <2>7. \A j \in 1 .. d : s[(i + 1) + j - 1] = s[i + j] /\ s[i + j] \in Links
    BY <1>3, <1>4, <2>6
  <2>8. c = [j \in 1 .. d |-> s[i + j]]  BY <2>5, <2>7
  <2>9. c \in Seq(Links) /\ Len(c) = d /\ \A j \in 1 .. d : c[j] = s[i + j]
    <3>1. c \in [1 .. d -> Links]  BY <2>7, <2>8
    <3>2. QED  BY <2>8, <3>1
  <2>10. \A j, k \in 1 .. d : c[j] = c[k] => j = k
    <3>1. ASSUME NEW j \in 1 .. d, NEW k \in 1 .. d, c[j] = c[k] PROVE j = k
      <4>1. i + j \in 1 .. n /\ i + k \in 1 .. n  BY <2>6
      <4>2. s[i + j] = s[i + k]  BY <2>9, <3>1
      <4>3. i + j = i + k  BY <1>3, <1>4, <4>1, <4>2
      <4>4. QED  BY <4>3
    <3>2. QED  BY <3>1
  <2>11. IsInjective(c)  BY <2>9, <2>10, SetView
  <2>12. \A k \in 1 .. Len(c) : m.list[c[k]] = m.list[p]
    <3>1. ASSUME NEW k \in 1 .. Len(c) PROVE m.list[c[k]] = m.list[p]
      <4>1. k \in 1 .. d  BY <2>9
      <4>2. i + k \in 1 .. n /\ c[k] = s[i + k]  BY <2>6, <2>9, <4>1
      <4>3. QED  BY <1>1, <1>3, <1>4, <4>2
    <3>2. QED  BY <3>1
  <2>13. QED  BY <2>9, <2>11, <2>12
<1>10. QED  BY <1>8, <1>9

(* What a search returns is a live link of those it looks for, and it      *)
(* returns one if there is one.                                            *)
LEMMA FoundFacts ==
  ASSUME NEW m, NEW i, NEW W, NEW s \in Seq(Links), NEW p, p = FirstWanted(m, i, s, W)
  PROVE  /\ p # Nil => p \in W /\ Live(m, i, p) /\ \E k \in 1 .. Len(s) : p = s[k]
         /\ p = Nil => \A k \in 1 .. Len(s) : Live(m, i, s[k]) => s[k] \notin W
<1>1. PICK S : S = Stops(m, i, s, W)  OBVIOUS
<1>2. S = {k \in 1 .. Len(s) : Live(m, i, s[k]) /\ s[k] \in W}  BY <1>1 DEF Stops
<1>3. p = IF S = {} THEN Nil ELSE s[Min(S)]  BY <1>1 DEF FirstWanted
<1>4. CASE S = {}  BY <1>2, <1>3, <1>4
<1>5. CASE S # {}
  <2>1. S \in SUBSET Nat  BY <1>2
  <2>2. PICK k \in S : k = Min(S)  BY <1>5, <2>1, MinFacts
  <2>3. k \in 1 .. Len(s) /\ p = s[k] /\ p \in W /\ Live(m, i, p)
    BY <1>2, <1>3, <1>5, <2>2
  <2>4. p # Nil
    <3>1. p \in Links  BY <2>3
    <3>2. QED  BY <3>1, Distinct
  <2>5. QED  BY <2>3, <2>4
<1>6. QED  BY <1>4, <1>5

(* A search of a list                                                      *)
LEMMA ListTidied ==
  ASSUME NEW m \in Memory, AllStrung(m), NEW i, NEW l \in Lists, NEW W,
         NEW c, c = Chain(m, l), NEW u, u = AfterSearch(m, i, c, W)
  PROVE  Tidied(m, u, StaleOn(m, i, l))
<1>1. Strung(m, l, c)  BY ChainFacts
<1>2. c \in Seq(Links) /\ \A k \in 1 .. Len(c) : c[k] \in Links /\ m.list[c[k]] = l
  BY <1>1, OnChain
<1>3. IsInjective(c)  BY <1>1 DEF Strung
<1>4. PICK D : D = StaleOn(m, i, l)  OBVIOUS
<1>5. \A k \in 1 .. Len(c) : ~Live(m, i, c[k]) => c[k] \in D
  BY <1>2, <1>4 DEF StaleOn, Stale
<1>6. \A k \in 1 .. Len(c) : m.list[c[k]] \in Lists  BY <1>2
<1>7. Tidied(m, u, D)  BY <1>2, <1>3, <1>5, <1>6, SearchTidies
<1>8. QED  BY <1>4, <1>7

LEMMA Searched ==
  ASSUME NEW m \in Memory, AllStrung(m), NEW i, NEW l \in Lists, NEW W,
         NEW c, c = Chain(m, l),
         NEW p, p = FirstWanted(m, i, c, W), NEW u, u = AfterSearch(m, i, c, W)
  PROVE  /\ Tidied(m, u, Stale(m, i))
         /\ p # Nil => /\ p \in Links /\ p \in W /\ Live(m, i, p) /\ m.list[p] = l
                       /\ Same(m, u, p)
         /\ p = Nil => \A q \in Links : m.list[q] = l /\ Live(m, i, q) => q \notin W
<1>1. Strung(m, l, c)  BY ChainFacts
<1>2. /\ c \in Seq(Links)
      /\ \A k \in 1 .. Len(c) : c[k] \in Links /\ m.list[c[k]] = l
      /\ \A q \in Links : m.list[q] = l => \E k \in 1 .. Len(c) : c[k] = q
  BY <1>1, OnChain
<1>3. IsInjective(c)  BY <1>1 DEF Strung
<1>4. Tidied(m, u, Stale(m, i))
  <2>1. Tidied(m, u, StaleOn(m, i, l))  BY ListTidied
  <2>2. StaleOn(m, i, l) \subseteq Stale(m, i)  BY DEF StaleOn
  <2>3. QED  BY <2>1, <2>2 DEF Tidied
<1>5. /\ p # Nil => p \in W /\ Live(m, i, p) /\ \E k \in 1 .. Len(c) : p = c[k]
      /\ p = Nil => \A k \in 1 .. Len(c) : Live(m, i, c[k]) => c[k] \notin W
  BY <1>2, FoundFacts
<1>6. ASSUME p # Nil
      PROVE  /\ p \in Links /\ p \in W /\ Live(m, i, p) /\ m.list[p] = l
             /\ Same(m, u, p)
  <2>1. p \in Links /\ p \in W /\ Live(m, i, p) /\ m.list[p] = l  BY <1>2, <1>5, <1>6
  <2>2. p \notin Stale(m, i)  BY <2>1 DEF Stale
  <2>3. Same(m, u, p)  BY <1>4, <2>1, <2>2 DEF Tidied
  <2>4. QED  BY <2>1, <2>3
<1>7. ASSUME p = Nil, NEW q \in Links, m.list[q] = l, Live(m, i, q) PROVE q \notin W
  BY <1>2, <1>5, <1>7
<1>8. QED  BY <1>4, <1>6, <1>7

LEMMA AtEndPlaced ==
  ASSUME NEW m \in Memory, AllStrung(m), NEW p \in Links, m.list[p] = Nil,
         NEW l \in Lists, NEW u, u = AtEnd(m, p, l)
  PROVE  Placed(m, u, p, l) /\ Joined(m, u, p, l)
<1>1. PICK c : c = Chain(m, l)  OBVIOUS
<1>2. Strung(m, l, c)  BY <1>1, ChainFacts
<1>3. /\ c \in Seq(Links) /\ Len(c) \in Nat
      /\ \A k \in 1 .. Len(c) : c[k] \in Links /\ m.list[c[k]] = l
  BY <1>2, OnChain
<1>4. u = IF c = <<>> THEN AtHead(m, p, l) ELSE After(m, p, Last(c))  BY <1>1 DEF AtEnd
<1>5. CASE c = <<>>
  <2>1. u = AtHead(m, p, l)  BY <1>4, <1>5
  <2>2. QED  BY <2>1, AtHeadPlaced
<1>6. CASE c # <<>>
  <2>1. PICK a : a = Last(c)  OBVIOUS
  <2>2. a = c[Len(c)]  BY <2>1 DEF Last
  <2>3. Len(c) \in 1 .. Len(c)  BY <1>3, <1>6
  <2>4. a \in Links /\ m.list[a] = l  BY <1>3, <2>2, <2>3
  <2>5. u = After(m, p, a)  BY <1>4, <1>6, <2>1
  <2>6. m.list[a] \in Lists  BY <2>4
  <2>7. Placed(m, u, p, m.list[a]) /\ Joined(m, u, p, m.list[a])
    BY <2>4, <2>5, <2>6, AfterPlaced
  <2>8. QED  BY <2>4, <2>7
<1>7. QED  BY <1>5, <1>6

----------------------------------------------------------------------------
(* The beginning, and what the runs check                                  *)

LEMMA Ordered ==
  ASSUME NEW s, s = SetToSeq(Links)
  PROVE  s \in Seq(Links) /\ IsInjective(s) /\ ToSet(s) = Links
<1>1. PICK N \in Nat : N = Cardinality(Links)  BY LinksAssumption, FS_CardinalityType
<1>2. ExistsBijection(1 .. N, Links)  BY <1>1, LinksAssumption, FS_CardinalityType
<1>3. \E f \in [1 .. N -> Links] : IsInjective(f)
  BY <1>2 DEF ExistsBijection, Bijection, Injection
<1>4. s \in [1 .. N -> Links] /\ IsInjective(s)  BY <1>1, <1>3 DEF SetToSeq
<1>5. s \in Seq(Links) /\ Len(s) = N  BY <1>1, <1>4
<1>6. s \in Injection(1 .. N, Links)  BY <1>4 DEF Injection
<1>7. Cardinality(1 .. N) = N
  <2>1. 1 \in Int /\ N \in Int  BY <1>1
  <2>2. Cardinality(1 .. N) = IF 1 > N THEN 0 ELSE N - 1 + 1  BY <2>1, FS_Interval
  <2>3. QED  BY <1>1, <2>2
<1>8. s \in Surjection(1 .. N, Links)
  <2>1. IsFiniteSet(Links)  BY LinksAssumption
  <2>2. Cardinality(1 .. N) = Cardinality(Links) <=> s \in Surjection(1 .. N, Links)
    BY <1>6, <2>1, FS_Injection
  <2>3. QED  BY <1>1, <1>7, <2>2
<1>9. \A q \in Links : \E k \in 1 .. N : s[k] = q  BY <1>8 DEF Surjection
<1>10. ToSet(s) = Links
  <2>1. ToSet(s) = {s[k] : k \in 1 .. N}  BY <1>5, SetView
  <2>2. \A k \in 1 .. N : s[k] \in Links  BY <1>4
  <2>3. QED  BY <1>9, <2>1, <2>2
<1>11. QED  BY <1>4, <1>5, <1>10

(* init_free_mkptrs: every link is free, and the lists are empty.          *)
LEMMA PoolFacts ==
  ASSUME NEW s \in Seq(Links), IsInjective(s), ToSet(s) = Links, NEW m, m = Pool(s)
  PROVE  m \in Memory /\ AllStrung(m) /\ \A q \in Links : Freed(m, q)
<1>1. PICK n \in Nat : n = Len(s)  OBVIOUS
<1>2. DOMAIN s = 1 .. n /\ \A k \in 1 .. n : s[k] \in Links  BY <1>1
<1>3. \A j, k \in 1 .. n : s[j] = s[k] => j = k  BY <1>1, SetView
<1>4. PICK a : a = [p \in Links |-> CHOOSE k \in DOMAIN s : s[k] = p]  OBVIOUS
<1>5. \A p \in Links : a[p] \in 1 .. n /\ s[a[p]] = p
  <2>1. ASSUME NEW p \in Links PROVE a[p] \in 1 .. n /\ s[a[p]] = p
    <3>1. p \in {s[k] : k \in 1 .. n}  BY <1>1, SetView
    <3>2. \E k \in 1 .. n : s[k] = p  BY <3>1
    <3>3. a[p] = CHOOSE k \in 1 .. n : s[k] = p  BY <1>2, <1>4
    <3>4. QED  BY <3>2, <3>3
  <2>2. QED  BY <2>1
<1>6. \A k \in 1 .. n : a[s[k]] = k
  <2>1. ASSUME NEW k \in 1 .. n PROVE a[s[k]] = k
    <3>1. s[k] \in Links  BY <1>2
    <3>2. a[s[k]] \in 1 .. n /\ s[a[s[k]]] = s[k]  BY <1>5, <3>1
    <3>3. QED  BY <1>3, <3>2
  <2>2. QED  BY <2>1
<1>7. PICK nx : nx = [p \in Links |-> IF a[p] + 1 \in 1 .. n THEN s[a[p] + 1] ELSE Nil]
  OBVIOUS
<1>8. PICK pv : pv = [p \in Links |-> IF a[p] + (-1) \in 1 .. n THEN s[a[p] + (-1)] ELSE Nil]
  OBVIOUS
<1>9. PICK hd : hd = [l \in Lists \cup {Free} |-> IF l = Free /\ s # <<>> THEN s[1] ELSE Nil]
  OBVIOUS
<1>10. m = [hdr |-> [p \in Links |-> Nil], stamp |-> [p \in Links |-> 0],
            own |-> [p \in Links |-> TRUE], next |-> nx, prev |-> pv,
            list |-> [p \in Links |-> Free], head |-> hd]
  <2>1. nx = [p \in Links |->
                IF (CHOOSE k \in DOMAIN s : s[k] = p) + 1 \in DOMAIN s
                THEN s[(CHOOSE k \in DOMAIN s : s[k] = p) + 1] ELSE Nil]
    BY <1>2, <1>4, <1>7
  <2>2. pv = [p \in Links |->
                IF (CHOOSE k \in DOMAIN s : s[k] = p) + (-1) \in DOMAIN s
                THEN s[(CHOOSE k \in DOMAIN s : s[k] = p) + (-1)] ELSE Nil]
    BY <1>2, <1>4, <1>8
  <2>3. QED  BY <1>9, <2>1, <2>2 DEF Pool
<1>11. /\ m.hdr = [p \in Links |-> Nil] /\ m.stamp = [p \in Links |-> 0]
       /\ m.own = [p \in Links |-> TRUE]
       /\ m.next = nx /\ m.prev = pv /\ m.list = [p \in Links |-> Free] /\ m.head = hd
  BY <1>10
<1>12. nx \in [Links -> Links \cup {Nil}] /\ pv \in [Links -> Links \cup {Nil}]
  BY <1>2, <1>7, <1>8
<1>13. hd \in [Lists \cup {Free} -> Links \cup {Nil}]
  <2>1. s # <<>> => 1 \in 1 .. n  BY <1>1
  <2>2. s # <<>> => s[1] \in Links  BY <1>2, <2>1
  <2>3. QED  BY <1>9, <2>2
<1>14. m \in Memory
  <2>1. [p \in Links |-> Nil] \in [Links -> Hdrs \cup {Nil}]  OBVIOUS
  <2>2. [p \in Links |-> 0] \in [Links -> Nat]  OBVIOUS
  <2>3. [p \in Links |-> TRUE] \in [Links -> BOOLEAN]  OBVIOUS
  <2>4. [p \in Links |-> Free] \in [Links -> Lists \cup {Free, Nil}]  OBVIOUS
  <2>5. QED  BY <1>10, <1>12, <1>13, <2>1, <2>2, <2>3, <2>4 DEF Memory
<1>15. ASSUME NEW q \in Links PROVE Freed(m, q)
  <2>1. m.hdr[q] = Nil /\ m.stamp[q] = 0 /\ m.list[q] = Free  BY <1>11
  <2>2. m.own = [p \in Links |-> TRUE]  BY <1>11
  <2>3. m.own[q] = TRUE  BY <2>2, Zenon
  <2>4. QED  BY <2>1, <2>3, Zenon DEF Freed
<1>16. Strung(m, Free, s)
  <2>1. {p \in Links : m.list[p] = Free} = ToSet(s)  BY <1>11
  <2>2. m.head[Free] = IF s = <<>> THEN Nil ELSE s[1]  BY <1>9, <1>11
  <2>3. ASSUME NEW k \in 1 .. n PROVE m.next[s[k]] = IF k = n THEN Nil ELSE s[k + 1]
    <3>1. s[k] \in Links /\ a[s[k]] = k  BY <1>2, <1>6
    <3>2. m.next[s[k]] = IF k + 1 \in 1 .. n THEN s[k + 1] ELSE Nil  BY <1>7, <1>11, <3>1
    <3>3. QED  BY <3>2
  <2>4. ASSUME NEW k \in 2 .. n PROVE m.prev[s[k]] = s[k - 1]
    <3>1. k \in 1 .. n /\ k + (-1) \in 1 .. n /\ k + (-1) = k - 1  OBVIOUS
    <3>2. s[k] \in Links /\ a[s[k]] = k  BY <1>2, <1>6, <3>1
    <3>3. m.prev[s[k]] = s[k + (-1)]  BY <1>8, <1>11, <3>1, <3>2
    <3>4. QED  BY <3>1, <3>3
  <2>5. QED  BY <1>1, <2>1, <2>2, <2>3, <2>4 DEF Strung
<1>17. ASSUME NEW l \in Lists PROVE Strung(m, l, <<>>)
  <2>1. l # Free  BY Distinct
  <2>2. <<>> \in Seq(Links) /\ Len(<<>>) = 0  OBVIOUS
  <2>3. ToSet(<<>>) = {} /\ IsInjective(<<>>)  BY ElemsEmpty
  <2>4. {p \in Links : m.list[p] = l} = {}  BY <1>11, <2>1
  <2>5. m.head[l] = Nil  BY <1>9, <1>11, <2>1
  <2>6. \A k \in 1 .. Len(<<>>) : FALSE  BY <2>2
  <2>7. \A k \in 2 .. Len(<<>>) : FALSE  BY <2>2
  <2>8. QED  BY <2>1, <2>2, <2>3, <2>4, <2>5, <2>6, <2>7 DEF Strung
<1>18. AllStrung(m)
  <2>1. <<>> \in Seq(Links)  OBVIOUS
  <2>2. QED  BY <1>16, <1>17, <2>1 DEF AllStrung
<1>19. QED  BY <1>14, <1>15, <1>18

LEMMA StrungWell ==
  ASSUME NEW m \in Memory, AllStrung(m)
  PROVE  WellLinked(m)
<1>1. SUFFICES ASSUME NEW l \in Lists \cup {Free}, NEW c, c = Chain(m, l)
      PROVE  /\ IsInjective(c)
             /\ {p \in Links : m.list[p] = l} = ToSet(c)
             /\ \A k \in DOMAIN c :
                  m.prev[c[k]] = IF k = 1 THEN IF l = Free THEN m.prev[c[1]] ELSE Nil
                                 ELSE c[k - 1]
  BY DEF WellLinked
<1>2. Strung(m, l, c)  BY <1>1, ChainFacts
<1>3. c \in Seq(Links) /\ IsInjective(c) /\ {p \in Links : m.list[p] = l} = ToSet(c)
  BY <1>2 DEF Strung
<1>4. ASSUME NEW k \in DOMAIN c
      PROVE  m.prev[c[k]] = IF k = 1 THEN IF l = Free THEN m.prev[c[1]] ELSE Nil
                            ELSE c[k - 1]
  <2>1. k \in 1 .. Len(c)  BY <1>3
  <2>2. CASE k = 1
    <3>1. c # <<>>  BY <1>3, <2>1
    <3>2. l # Free => m.prev[c[1]] = Nil  BY <1>2, <3>1 DEF Strung
    <3>3. QED  BY <2>2, <3>2
  <2>3. CASE k # 1
    <3>1. k \in 2 .. Len(c)  BY <1>3, <2>1, <2>3
    <3>2. m.prev[c[k]] = c[k - 1]  BY <1>2, <3>1 DEF Strung
    <3>3. QED  BY <2>3, <3>2
  <2>4. QED  BY <2>2, <2>3
<1>5. QED  BY <1>3, <1>4

(* s are the places of list l.                                             *)
Placing(m, l, s) ==
  /\ s \in Seq(Links) /\ Len(s) \in Nat
  /\ \A k \in 1 .. Len(s) : s[k] \in Links /\ m.list[s[k]] = l
  /\ \A q \in Links : m.list[q] = l => \E k \in 1 .. Len(s) : s[k] = q
  /\ \A j, k \in 1 .. Len(s) : /\ s[j] = s[k] => j = k
                               /\ Precedes(m, s[j], s[k]) <=> j < k
  /\ \A k \in 1 .. Len(s) : m.next[s[k]] = IF k = Len(s) THEN Nil ELSE s[k + 1]

LEMMA StrungPlacing ==
  ASSUME NEW m \in Memory, AllStrung(m), NEW l \in Lists, NEW s \in Seq(Links),
         Strung(m, l, s)
  PROVE  Placing(m, l, s)
<1>1. /\ Len(s) \in Nat
      /\ \A k \in 1 .. Len(s) : s[k] \in Links /\ m.list[s[k]] = l
      /\ \A q \in Links : m.list[q] = l => \E k \in 1 .. Len(s) : s[k] = q
      /\ \A j, k \in 1 .. Len(s) : s[j] = s[k] => j = k
  BY OnChain
<1>2. Chain(m, l) = s  BY ChainIs
<1>3. ASSUME NEW j \in 1 .. Len(s), NEW k \in 1 .. Len(s), Precedes(m, s[j], s[k])
      PROVE  j < k
  <2>1. PICK h \in Lists : \E a, b \in 1 .. Len(Chain(m, h)) :
          a < b /\ Chain(m, h)[a] = s[j] /\ Chain(m, h)[b] = s[k]
    BY <1>3 DEF Precedes
  <2>2. PICK c : c = Chain(m, h)  OBVIOUS
  <2>3. Strung(m, h, c)  BY <2>2, ChainFacts
  <2>4. PICK a, b \in 1 .. Len(c) : a < b /\ c[a] = s[j] /\ c[b] = s[k]  BY <2>1, <2>2
  <2>5. m.list[c[a]] = h  BY <2>3, OnChain
  <2>6. h = l  BY <1>1, <2>4, <2>5
  <2>7. c = s  BY <1>2, <2>2, <2>6
  <2>8. QED  BY <1>1, <2>4, <2>7
<1>4. ASSUME NEW j \in 1 .. Len(s), NEW k \in 1 .. Len(s), j < k
      PROVE  Precedes(m, s[j], s[k])
  BY <1>2, <1>4 DEF Precedes
<1>5. \A k \in 1 .. Len(s) : m.next[s[k]] = IF k = Len(s) THEN Nil ELSE s[k + 1]
  BY DEF Strung
<1>6. QED  BY <1>1, <1>3, <1>4, <1>5 DEF Placing

LEMMA PlacingExists ==
  ASSUME NEW m \in Memory, AllStrung(m), NEW l \in Lists
  PROVE  \E s \in Seq(Links) : Placing(m, l, s)
<1>1. PICK s \in Seq(Links) : Strung(m, l, s)  BY DEF AllStrung
<1>2. Placing(m, l, s)  BY <1>1, StrungPlacing
<1>3. QED  BY <1>2

(* Only links of one list are in order.                                    *)
LEMMA PrecedesOn ==
  ASSUME NEW m \in Memory, AllStrung(m), NEW p, NEW q, Precedes(m, p, q)
  PROVE  p \in Links /\ q \in Links /\ m.list[p] \in Lists /\ m.list[q] = m.list[p]
<1>1. PICK l \in Lists : \E a, b \in 1 .. Len(Chain(m, l)) :
        a < b /\ Chain(m, l)[a] = p /\ Chain(m, l)[b] = q
  BY DEF Precedes
<1>2. PICK c : c = Chain(m, l)  OBVIOUS
<1>3. Strung(m, l, c)  BY <1>2, ChainFacts
<1>4. \A k \in 1 .. Len(c) : c[k] \in Links /\ m.list[c[k]] = l  BY <1>3, OnChain
<1>5. QED  BY <1>1, <1>2, <1>4

(* The links of a list are in a strict total order.                        *)
LEMMA Orderly ==
  ASSUME NEW m \in Memory, AllStrung(m), NEW l \in Lists,
         NEW p \in Links, NEW q \in Links, m.list[p] = l, m.list[q] = l
  PROVE  /\ p = q \/ Precedes(m, p, q) \/ Precedes(m, q, p)
         /\ ~(Precedes(m, p, q) /\ Precedes(m, q, p))
         /\ Precedes(m, p, q) => p # q
         /\ \A r \in Links : Precedes(m, p, q) /\ Precedes(m, q, r) => Precedes(m, p, r)
<1>1. PICK s \in Seq(Links) : Placing(m, l, s)  BY PlacingExists
<1>2. PICK n \in Nat : n = Len(s)  BY <1>1 DEF Placing
<1>3. /\ \A h \in Links : m.list[h] = l => \E k \in 1 .. n : s[k] = h
      /\ \A j, k \in 1 .. n : /\ s[j] = s[k] => j = k
                              /\ Precedes(m, s[j], s[k]) <=> j < k
  BY <1>1, <1>2 DEF Placing
<1>4. PICK j \in 1 .. n : s[j] = p  BY <1>3
<1>5. PICK k \in 1 .. n : s[k] = q  BY <1>3
<1>6. /\ Precedes(m, p, q) <=> j < k
      /\ Precedes(m, q, p) <=> k < j
      /\ p = q <=> j = k
  BY <1>3, <1>4, <1>5
<1>7. ASSUME NEW r \in Links, Precedes(m, p, q), Precedes(m, q, r)
      PROVE  Precedes(m, p, r)
  <2>1. m.list[r] = l  BY <1>7, PrecedesOn
  <2>2. PICK h \in 1 .. n : s[h] = r  BY <1>3, <2>1
  <2>3. /\ Precedes(m, q, r) <=> k < h
        /\ Precedes(m, p, r) <=> j < h
    BY <1>3, <1>4, <1>5, <2>2
  <2>4. QED  BY <1>6, <1>7, <2>3
<1>8. QED  BY <1>6, <1>7

(* The next link comes first of those that come later.                     *)
LEMMA NextPrecedes ==
  ASSUME NEW m \in Memory, AllStrung(m), NEW l \in Lists,
         NEW p \in Links, m.list[p] = l, NEW x, x = m.next[p]
  PROVE  /\ x # Nil => x \in Links /\ m.list[x] = l /\ Precedes(m, p, x)
         /\ \A q \in Links : Precedes(m, p, q) <=> x # Nil /\ (q = x \/ Precedes(m, x, q))
<1>1. PICK s \in Seq(Links) : Placing(m, l, s)  BY PlacingExists
<1>2. PICK n \in Nat : n = Len(s)  BY <1>1 DEF Placing
<1>3. /\ \A k \in 1 .. n : s[k] \in Links /\ m.list[s[k]] = l
      /\ \A h \in Links : m.list[h] = l => \E k \in 1 .. n : s[k] = h
      /\ \A j, k \in 1 .. n : /\ s[j] = s[k] => j = k
                              /\ Precedes(m, s[j], s[k]) <=> j < k
      /\ \A k \in 1 .. n : m.next[s[k]] = IF k = n THEN Nil ELSE s[k + 1]
  BY <1>1, <1>2 DEF Placing
<1>4. PICK j \in 1 .. n : s[j] = p  BY <1>3
<1>5. x = IF j = n THEN Nil ELSE s[j + 1]  BY <1>3, <1>4
<1>6. j # n => j + 1 \in 1 .. n  OBVIOUS
<1>7. x # Nil <=> j # n  BY <1>3, <1>5, <1>6, Distinct
<1>8. x # Nil => x \in Links /\ m.list[x] = l /\ Precedes(m, p, x)
  BY <1>3, <1>4, <1>5, <1>6, <1>7
<1>9. ASSUME NEW q \in Links
      PROVE  Precedes(m, p, q) <=> x # Nil /\ (q = x \/ Precedes(m, x, q))
  <2>1. CASE m.list[q] = l
    <3>1. PICK k \in 1 .. n : s[k] = q  BY <1>3, <2>1
    <3>2. Precedes(m, p, q) <=> j < k  BY <1>3, <1>4, <3>1
    <3>3. ASSUME j # n PROVE (q = x <=> k = j + 1) /\ (Precedes(m, x, q) <=> j + 1 < k)
      BY <1>3, <1>5, <1>6, <3>1, <3>3
    <3>4. QED  BY <1>7, <3>2, <3>3
  <2>2. CASE m.list[q] # l
    <3>1. ~Precedes(m, p, q)  BY <2>2, PrecedesOn
    <3>2. x # Nil => q # x /\ ~Precedes(m, x, q)  BY <1>8, <2>2, PrecedesOn
    <3>3. QED  BY <3>1, <3>2
  <2>3. QED  BY <2>1, <2>2
<1>10. QED  BY <1>8, <1>9

(* Links that stay on their list keep their order both ways.               *)
LEMMA OrderStays ==
  ASSUME NEW m \in Memory, AllStrung(m), NEW u \in Memory, AllStrung(u), InOrder(m, u),
         NEW l \in Lists, NEW p \in Links, NEW q \in Links,
         m.list[p] = l, m.list[q] = l, u.list[p] = l, u.list[q] = l
  PROVE  Precedes(u, p, q) <=> Precedes(m, p, q)
<1>1. /\ Precedes(u, p, q) => Precedes(m, p, q)
      /\ Precedes(u, q, p) => Precedes(m, q, p)
  BY DEF InOrder
<1>2. ~(Precedes(m, p, q) /\ Precedes(m, q, p)) /\ (Precedes(m, p, q) => p # q)  BY Orderly
<1>3. p = q \/ Precedes(u, p, q) \/ Precedes(u, q, p)  BY Orderly
<1>4. QED  BY <1>1, <1>2, <1>3

(* What a walk that starts at a link, or after it, meets                   *)
LEMMA FromIs ==
  ASSUME NEW m \in Memory, AllStrung(m), NEW l \in Lists, NEW p \in Links, m.list[p] = l
  PROVE  /\ ToSet(From(m, p)) = {q \in Links : q = p \/ Precedes(m, p, q)}
         /\ ToSet(From(m, m.next[p])) = {q \in Links : Precedes(m, p, q)}
<1>1. PICK s \in Seq(Links) : Strung(m, l, s)  BY DEF AllStrung
<1>2. PICK n \in Nat : n = Len(s)  OBVIOUS
<1>3. /\ \A k \in 1 .. n : s[k] \in Links /\ m.list[s[k]] = l
      /\ \A h \in Links : m.list[h] = l => \E k \in 1 .. n : s[k] = h
      /\ \A j, k \in 1 .. n : /\ s[j] = s[k] => j = k
                              /\ Precedes(m, s[j], s[k]) <=> j < k
  <2>1. Placing(m, l, s)  BY <1>1, StrungPlacing
  <2>2. QED  BY <1>2, <2>1 DEF Placing
<1>4. ASSUME NEW k \in 1 .. n, NEW x, x = s[k]
      PROVE  ToSet(From(m, x)) = {q \in Links : q = x \/ Precedes(m, x, q)}
  <2>1. PICK d \in Nat : d = n - k + 1  OBVIOUS
  <2>2. PICK c : c = Onward(s, k)  OBVIOUS
  <2>3. From(m, x) = c  BY <1>1, <1>2, <1>4, <2>2, FromOnward
  <2>4. c = [j \in 1 .. d |-> s[k + j - 1]]  BY <1>2, <2>1, <2>2 DEF Onward
  <2>5. \A j \in 1 .. d : k + j - 1 \in 1 .. n  BY <2>1
  <2>6. ToSet(c) = {s[k + j - 1] : j \in 1 .. d}  BY <2>4 DEF ToSet
  <2>7. ASSUME NEW q \in ToSet(c) PROVE q \in Links /\ (q = x \/ Precedes(m, x, q))
    <3>1. PICK j \in 1 .. d : q = s[k + j - 1]  BY <2>6
    <3>2. PICK h \in 1 .. n : h = k + j - 1  BY <2>5
    <3>3. h = k \/ k < h  BY <3>2
    <3>4. QED  BY <1>3, <1>4, <3>1, <3>2, <3>3
  <2>8. ASSUME NEW q \in Links, q = x \/ Precedes(m, x, q) PROVE q \in ToSet(c)
    <3>1. m.list[q] = l  BY <1>3, <1>4, <2>8, PrecedesOn
    <3>2. PICK h \in 1 .. n : s[h] = q  BY <1>3, <3>1
    <3>3. k <= h  BY <1>3, <1>4, <2>8, <3>2
    <3>4. h - k + 1 \in 1 .. d /\ k + (h - k + 1) - 1 = h  BY <2>1, <3>3
    <3>5. QED  BY <2>6, <3>2, <3>4
  <2>9. QED  BY <2>3, <2>7, <2>8
<1>5. PICK k \in 1 .. n : s[k] = p  BY <1>3
<1>6. PICK x : x = m.next[p]  OBVIOUS
<1>7. /\ x # Nil => x \in Links /\ m.list[x] = l
      /\ \A q \in Links : Precedes(m, p, q) <=> x # Nil /\ (q = x \/ Precedes(m, x, q))
  BY <1>6, NextPrecedes
<1>8. ToSet(From(m, x)) = {q \in Links : Precedes(m, p, q)}
  <2>1. CASE x = Nil
    <3>1. From(m, x) = <<>>  BY <1>1, <2>1, FromOnward
    <3>2. ToSet(From(m, x)) = {}  BY <3>1, ElemsEmpty
    <3>3. QED  BY <1>7, <2>1, <3>2
  <2>2. CASE x # Nil
    <3>1. PICK h \in 1 .. n : x = s[h]  BY <1>3, <1>7, <2>2
    <3>2. ToSet(From(m, x)) = {q \in Links : q = x \/ Precedes(m, x, q)}  BY <1>4, <3>1
    <3>3. QED  BY <1>7, <2>2, <3>2
  <2>3. QED  BY <2>1, <2>2
<1>9. QED  BY <1>4, <1>5, <1>6, <1>8

(* A link that comes into a list: the others keep their order, and what    *)
(* comes after it is its next link and what comes after that.              *)
LEMMA GainsOrder ==
  ASSUME NEW m \in Memory, AllStrung(m), NEW u \in Memory, AllStrung(u),
         NEW p \in Links, m.list[p] = Nil, NEW l \in Lists, Gains(m, u, p, l),
         NEW x, x = u.next[p]
  PROVE  /\ x # Nil => x \in Links /\ m.list[x] = l
         /\ \A q \in Links : m.list[q] = l =>
              /\ \A r \in Links : m.list[r] = l => (Precedes(u, q, r) <=> Precedes(m, q, r))
              /\ Precedes(u, p, q) <=> x # Nil /\ (q = x \/ Precedes(m, x, q))
<1>1. PICK s \in Seq(Links) : /\ Strung(m, l, s)
                              /\ \E i \in 1 .. Len(s) + 1 : Strung(u, l, With(s, i, p))
  BY DEF Gains
<1>2. PICK n \in Nat : n = Len(s)  OBVIOUS
<1>3. PICK i \in 1 .. n + 1 : Strung(u, l, With(s, i, p))  BY <1>1, <1>2
<1>4. PICK t : t = With(s, i, p)  OBVIOUS
<1>5. t \in Seq(Links) /\ Strung(u, l, t)  BY <1>3, <1>4 DEF Strung
<1>6. /\ \A k \in 1 .. n : s[k] \in Links /\ m.list[s[k]] = l
      /\ \A h \in Links : m.list[h] = l => \E k \in 1 .. n : s[k] = h
      /\ \A j, k \in 1 .. n : /\ s[j] = s[k] => j = k
                              /\ Precedes(m, s[j], s[k]) <=> j < k
  <2>1. Placing(m, l, s)  BY <1>1, StrungPlacing
  <2>2. QED  BY <1>2, <2>1 DEF Placing
<1>7. p \notin ToSet(s) /\ IsInjective(s)
  <2>1. \A k \in 1 .. n : s[k] # p  BY <1>6, Distinct
  <2>2. ToSet(s) = {s[k] : k \in 1 .. n}  BY <1>2, SetView
  <2>3. QED  BY <1>1, <2>1, <2>2 DEF Strung
<1>8. /\ Len(t) = n + 1 /\ t[i] = p
      /\ \A k \in 1 .. n + 1 : t[k] = IF k < i THEN s[k] ELSE IF k = i THEN p ELSE s[k - 1]
  <2>1. p \in Links \ ToSet(s) /\ i \in 1 .. Len(s) + 1  BY <1>2, <1>7
  <2>2. /\ Len(t) = Len(s) + 1 /\ t[i] = p
        /\ \A k \in 1 .. Len(s) + 1 : t[k] = IF k < i THEN s[k]
                                             ELSE IF k = i THEN p ELSE s[k - 1]
    BY <1>4, <1>7, <2>1, WithView
  <2>3. QED  BY <1>2, <2>2
<1>9. /\ \A j, k \in 1 .. n + 1 : /\ t[j] = t[k] => j = k
                                  /\ Precedes(u, t[j], t[k]) <=> j < k
      /\ \A k \in 1 .. n + 1 : u.next[t[k]] = IF k = n + 1 THEN Nil ELSE t[k + 1]
  <2>1. Placing(u, l, t)  BY <1>5, StrungPlacing
  <2>2. QED  BY <1>8, <2>1 DEF Placing
<1> DEFINE at(k) == IF k < i THEN k ELSE k + 1
<1>10. \A k \in 1 .. n : at(k) \in 1 .. n + 1 /\ t[at(k)] = s[k]
  <2>1. ASSUME NEW k \in 1 .. n PROVE at(k) \in 1 .. n + 1 /\ t[at(k)] = s[k]
    <3>1. CASE k < i  BY <1>8, <3>1
    <3>2. CASE ~(k < i)
      <4>1. at(k) = k + 1 /\ k + 1 \in 1 .. n + 1 /\ ~(k + 1 < i) /\ k + 1 # i /\ (k + 1) - 1 = k
        BY <3>2
      <4>2. QED  BY <1>8, <4>1
    <3>3. QED  BY <3>1, <3>2
  <2>2. QED  BY <2>1
<1>11. x = IF i = n + 1 THEN Nil ELSE s[i]
  <2>1. x = IF i = n + 1 THEN Nil ELSE t[i + 1]  BY <1>8, <1>9
  <2>2. i # n + 1 => i \in 1 .. n /\ at(i) = i + 1  OBVIOUS
  <2>3. QED  BY <1>10, <2>1, <2>2
<1>12. x # Nil <=> i # n + 1
  <2>1. i # n + 1 => i \in 1 .. n  OBVIOUS
  <2>2. QED  BY <1>6, <1>11, <2>1, Distinct
<1>13. x # Nil => x \in Links /\ m.list[x] = l
  <2>1. i # n + 1 => i \in 1 .. n  OBVIOUS
  <2>2. QED  BY <1>6, <1>11, <1>12, <2>1
<1>14. ASSUME NEW q \in Links, m.list[q] = l, NEW r \in Links, m.list[r] = l
       PROVE  Precedes(u, q, r) <=> Precedes(m, q, r)
  <2>1. PICK j \in 1 .. n : s[j] = q  BY <1>6, <1>14
  <2>2. PICK k \in 1 .. n : s[k] = r  BY <1>6, <1>14
  <2>3. Precedes(u, q, r) <=> at(j) < at(k)
    <3>1. PICK a \in 1 .. n + 1 : a = at(j) /\ t[a] = q  BY <1>10, <2>1
    <3>2. PICK c \in 1 .. n + 1 : c = at(k) /\ t[c] = r  BY <1>10, <2>2
    <3>3. Precedes(u, t[a], t[c]) <=> a < c  BY <1>9
    <3>4. QED  BY <3>1, <3>2, <3>3
  <2>4. at(j) < at(k) <=> j < k  OBVIOUS
  <2>5. QED  BY <1>6, <2>1, <2>2, <2>3, <2>4
<1>15. ASSUME NEW q \in Links, m.list[q] = l
       PROVE  Precedes(u, p, q) <=> x # Nil /\ (q = x \/ Precedes(m, x, q))
  <2>1. PICK k \in 1 .. n : s[k] = q  BY <1>6, <1>15
  <2>2. Precedes(u, p, q) <=> i < at(k)
    <3>1. i \in 1 .. n + 1 /\ at(k) \in 1 .. n + 1 /\ t[at(k)] = q  BY <1>10, <2>1
    <3>2. QED  BY <1>8, <1>9, <3>1
  <2>3. i < at(k) <=> i <= k  OBVIOUS
  <2>4. CASE i = n + 1  BY <1>12, <2>2, <2>3, <2>4
  <2>5. CASE i # n + 1
    <3>1. i \in 1 .. n /\ x = s[i]  BY <1>11, <2>5
    <3>2. (q = x <=> i = k) /\ (Precedes(m, x, q) <=> i < k)  BY <1>6, <2>1, <3>1
    <3>3. QED  BY <1>12, <2>2, <2>3, <2>5, <3>2
  <2>6. QED  BY <2>4, <2>5
<1>16. QED  BY <1>13, <1>14, <1>15

(* What a search returns is the first link it can return.                  *)
LEMMA FirstOnList ==
  ASSUME NEW m \in Memory, AllStrung(m), NEW i, NEW l \in Lists, NEW W,
         NEW c, c = Chain(m, l), NEW p, p = FirstWanted(m, i, c, W), p # Nil,
         NEW q, Precedes(m, q, p), Live(m, i, q)
  PROVE  q \notin W
<1>1. Strung(m, l, c)  BY ChainFacts
<1>2. c \in Seq(Links)  BY <1>1 DEF Strung
<1>3. PICK n \in Nat : n = Len(c)  BY <1>2
<1>4. /\ \A k \in 1 .. n : c[k] \in Links /\ m.list[c[k]] = l
      /\ \A h \in Links : m.list[h] = l => \E k \in 1 .. n : c[k] = h
      /\ \A j, k \in 1 .. n : Precedes(m, c[j], c[k]) <=> j < k
  <2>1. Placing(m, l, c)  BY <1>1, <1>2, StrungPlacing
  <2>2. QED  BY <1>3, <2>1 DEF Placing
<1>5. PICK S : S = Stops(m, i, c, W)  OBVIOUS
<1>6. S = {k \in 1 .. n : Live(m, i, c[k]) /\ c[k] \in W}  BY <1>2, <1>3, <1>5 DEF Stops
<1>7. p = IF S = {} THEN Nil ELSE c[Min(S)]  BY <1>5 DEF FirstWanted
<1>8. S # {} /\ S \in SUBSET Nat  BY <1>6, <1>7
<1>9. PICK k \in S : k = Min(S) /\ \A j \in S : k <= j  BY <1>8, MinFacts
<1>10. k \in 1 .. n /\ p = c[k]  BY <1>6, <1>7, <1>8, <1>9
<1>11. q \in Links /\ m.list[q] = l
  <2>1. m.list[p] = l  BY <1>4, <1>10
  <2>2. QED  BY <2>1, PrecedesOn
<1>12. PICK j \in 1 .. n : c[j] = q  BY <1>4, <1>11
<1>13. j < k  BY <1>4, <1>10, <1>12
<1>14. j \notin S
  <2>1. k \in Nat /\ j \in Nat /\ ~(k <= j)  BY <1>10, <1>13
  <2>2. QED  BY <1>9, <2>1
<1>15. QED  BY <1>6, <1>12, <1>14

(* Lists that were not written keep their order.                           *)
LEMMA KeptOrder ==
  ASSUME NEW m \in Memory, AllStrung(m), NEW u \in Memory, \A l \in Lists : Kept(m, u, l),
         NEW p, NEW q
  PROVE  Precedes(u, p, q) <=> Precedes(m, p, q)
<1>1. \A l \in Lists : Chain(u, l) = Chain(m, l)  BY KeptChain
<1>2. QED  BY <1>1 DEF Precedes

(* The head of a list comes first.                                         *)
LEMMA HeadFirst ==
  ASSUME NEW m \in Memory, AllStrung(m), NEW l \in Lists, NEW x, x = m.head[l]
  PROVE  /\ x # Nil => x \in Links /\ m.list[x] = l
         /\ \A q \in Links : m.list[q] = l => x # Nil /\ (q = x \/ Precedes(m, x, q))
<1>1. PICK s \in Seq(Links) : Strung(m, l, s)  BY DEF AllStrung
<1>2. PICK n \in Nat : n = Len(s)  OBVIOUS
<1>3. /\ \A k \in 1 .. n : s[k] \in Links /\ m.list[s[k]] = l
      /\ \A h \in Links : m.list[h] = l => \E k \in 1 .. n : s[k] = h
      /\ \A j, k \in 1 .. n : Precedes(m, s[j], s[k]) <=> j < k
  <2>1. Placing(m, l, s)  BY <1>1, StrungPlacing
  <2>2. QED  BY <1>2, <2>1 DEF Placing
<1>4. x = IF n = 0 THEN Nil ELSE s[1]  BY <1>1, <1>2, OnChain
<1>5. x # Nil => x \in Links /\ m.list[x] = l  BY <1>3, <1>4
<1>6. ASSUME NEW q \in Links, m.list[q] = l PROVE x # Nil /\ (q = x \/ Precedes(m, x, q))
  <2>1. PICK k \in 1 .. n : s[k] = q  BY <1>3, <1>6
  <2>2. 1 \in 1 .. n /\ (k = 1 \/ 1 < k)  OBVIOUS
  <2>3. x = s[1] /\ x \in Links  BY <1>3, <1>4, <2>2
  <2>4. x # Nil  BY <2>3, Distinct
  <2>5. QED  BY <1>3, <2>1, <2>2, <2>3, <2>4
<1>7. QED  BY <1>5, <1>6

(* A link put at the end is followed by none.                              *)
LEMMA AtEndLast ==
  ASSUME NEW m \in Memory, AllStrung(m), NEW p \in Links, m.list[p] = Nil,
         NEW l \in Lists, NEW u, u = AtEnd(m, p, l)
  PROVE  u.next[p] = Nil
<1>1. PICK c : c = Chain(m, l)  OBVIOUS
<1>2. Strung(m, l, c)  BY <1>1, ChainFacts
<1>3. /\ c \in Seq(Links) /\ Len(c) \in Nat
      /\ \A k \in 1 .. Len(c) : c[k] \in Links /\ m.list[c[k]] = l
  BY <1>2, OnChain
<1>4. CASE c = <<>>
  <2>1. u = AtHead(m, p, l)  BY <1>1, <1>4 DEF AtEnd
  <2>2. u.next[p] = m.head[l]  BY <2>1, AtHeadWrites
  <2>3. m.head[l] = Nil  BY <1>2, <1>4 DEF Strung
  <2>4. QED  BY <2>2, <2>3
<1>5. CASE c # <<>>
  <2>1. Len(c) # 0 /\ Len(c) \in 1 .. Len(c)  BY <1>3, <1>5
  <2>2. PICK a : a = Last(c)  OBVIOUS
  <2>3. a = c[Len(c)]  BY <2>2 DEF Last
  <2>4. a \in Links /\ m.list[a] = l /\ a # p  BY <1>3, <2>1, <2>3, Distinct
  <2>5. u = After(m, p, a)  BY <1>1, <1>5, <2>2 DEF AtEnd
  <2>6. m.list[a] \in Lists  BY <2>4
  <2>7. u.next[p] = m.next[a]  BY <2>4, <2>5, <2>6, AfterWrites
  <2>8. m.next[a] = Nil  BY <1>2, <2>1, <2>3 DEF Strung
  <2>9. QED  BY <2>7, <2>8
<1>6. QED  BY <1>4, <1>5

==============================================================================
