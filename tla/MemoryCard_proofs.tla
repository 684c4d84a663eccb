------------------------- MODULE MemoryCard_proofs --------------------------
(***************************************************************************)
(* Proofs about the memory cards, for any number of cards, regions and     *)
(* faults: their inductive invariant, that files are complete, data stay   *)
(* on their card and no card recognised as another one is formatted        *)
(* untold; and that the functions implement CardStore: what is called      *)
(* saved can be read from a card, what is called loaded was there, and     *)
(* nothing else changes a place of a file.                                 *)
(***************************************************************************)
EXTENDS MemoryCardInv, SeqFacts, SequenceTheorems

USE CardsAssumption DEF At

----------------------------------------------------------------------------
(* Short sequences                                                         *)

LEMMA OneLong ==
  ASSUME NEW S, NEW x \in S
  PROVE  <<x>> \in Seq(S) /\ Len(<<x>>) = 1 /\ <<x>>[1] = x
OBVIOUS

LEMMA TwoLong ==
  ASSUME NEW S, NEW x \in S, NEW y \in S
  PROVE  <<x, y>> \in Seq(S) /\ Len(<<x, y>>) = 2 /\ <<x, y>>[1] = x /\ <<x, y>>[2] = y
OBVIOUS

LEMMA ThreeLong ==
  ASSUME NEW S, NEW x \in S, NEW y \in S, NEW z \in S
  PROVE  <<x, y, z>> \in Seq(S) /\ Len(<<x, y, z>>) = 3
OBVIOUS

LEMMA FourLong ==
  ASSUME NEW S, NEW x \in S, NEW y \in S, NEW z \in S, NEW v \in S
  PROVE  <<x, y, z, v>> \in Seq(S) /\ Len(<<x, y, z, v>>) = 4
OBVIOUS

LEMMA FiveLong ==
  ASSUME NEW S, NEW x \in S, NEW y \in S, NEW z \in S, NEW v \in S, NEW w \in S
  PROVE  <<x, y, z, v, w>> \in Seq(S) /\ Len(<<x, y, z, v, w>>) = 5
OBVIOUS

LEMMA Joined ==
  ASSUME NEW S, NEW s \in Seq(S), NEW t \in Seq(S)
  PROVE  /\ s \o t \in Seq(S) /\ Len(s \o t) = Len(s) + Len(t)
         /\ \A i \in 1 .. Len(s) : (s \o t)[i] = s[i]
         /\ \A i \in 1 .. Len(t) : (s \o t)[Len(s) + i] = t[i]
<1>1. /\ s \o t \in Seq(S) /\ Len(s \o t) = Len(s) + Len(t)
      /\ \A i \in 1 .. Len(s) + Len(t) :
           (s \o t)[i] = IF i <= Len(s) THEN s[i] ELSE t[i - Len(s)]
  BY ConcatProperties
<1>2. Len(s) \in Nat /\ Len(t) \in Nat  OBVIOUS
<1>3. ASSUME NEW i \in 1 .. Len(t) PROVE (s \o t)[Len(s) + i] = t[i]
  <2>1. Len(s) + i \in 1 .. Len(s) + Len(t) /\ ~(Len(s) + i <= Len(s)) /\ (Len(s) + i) - Len(s) = i
    BY <1>2
  <2>2. QED  BY <1>1, <2>1
<1>4. ASSUME NEW i \in 1 .. Len(s) PROVE (s \o t)[i] = s[i]
  <2>1. i \in 1 .. Len(s) + Len(t) /\ i <= Len(s)  BY <1>2
  <2>2. QED  BY <1>1, <2>1
<1>5. QED  BY <1>1, <1>3, <1>4

LEMMA TwoAndTwo ==
  ASSUME NEW S, NEW s \in Seq(S), NEW t \in Seq(S)
  PROVE  Len(s) = 2 /\ Len(t) = 2 =>
         /\ s \o t \in Seq(S) /\ Len(s \o t) = 4
         /\ (s \o t)[1] = s[1] /\ (s \o t)[2] = s[2] /\ (s \o t)[3] = t[1] /\ (s \o t)[4] = t[2]
<1>1. /\ s \o t \in Seq(S) /\ Len(s \o t) = Len(s) + Len(t)
      /\ \A i \in 1 .. Len(s) : (s \o t)[i] = s[i]
      /\ \A i \in 1 .. Len(t) : (s \o t)[Len(s) + i] = t[i]
  BY Joined
<1>2. QED  BY <1>1

LEMMA ThreeAndTwo ==
  ASSUME NEW S, NEW s \in Seq(S), NEW t \in Seq(S)
  PROVE  Len(s) = 3 /\ Len(t) = 2 =>
         /\ s \o t \in Seq(S) /\ Len(s \o t) = 5
         /\ (s \o t)[1] = s[1] /\ (s \o t)[2] = s[2] /\ (s \o t)[3] = s[3]
         /\ (s \o t)[4] = t[1] /\ (s \o t)[5] = t[2]
<1>1. /\ s \o t \in Seq(S) /\ Len(s \o t) = Len(s) + Len(t)
      /\ \A i \in 1 .. Len(s) : (s \o t)[i] = s[i]
      /\ \A i \in 1 .. Len(t) : (s \o t)[Len(s) + i] = t[i]
  BY Joined
<1>2. QED  BY <1>1, SMTT(30)

LEMMA ThreeAndFour ==
  ASSUME NEW S, NEW s \in Seq(S), NEW t \in Seq(S)
  PROVE  Len(s) = 3 /\ Len(t) = 4 =>
         /\ s \o t \in Seq(S) /\ Len(s \o t) = 7
         /\ (s \o t)[1] = s[1] /\ (s \o t)[2] = s[2] /\ (s \o t)[3] = s[3]
         /\ (s \o t)[4] = t[1] /\ (s \o t)[5] = t[2] /\ (s \o t)[6] = t[3] /\ (s \o t)[7] = t[4]
<1>1. /\ s \o t \in Seq(S) /\ Len(s \o t) = Len(s) + Len(t)
      /\ \A i \in 1 .. Len(s) : (s \o t)[i] = s[i]
      /\ \A i \in 1 .. Len(t) : (s \o t)[Len(s) + i] = t[i]
  BY Joined
<1>2. QED  BY <1>1, SMTT(30)

LEMMA AndTwo ==
  ASSUME NEW S, NEW s \in Seq(S), NEW t \in Seq(S), Len(t) = 2
  PROVE  /\ s \o t \in Seq(S) /\ Len(s \o t) = Len(s) + 2
         /\ \A i \in 1 .. Len(s) : (s \o t)[i] = s[i]
         /\ (s \o t)[Len(s) + 1] = t[1] /\ (s \o t)[Len(s) + 2] = t[2]
<1>1. /\ s \o t \in Seq(S) /\ Len(s \o t) = Len(s) + Len(t)
      /\ \A i \in 1 .. Len(s) : (s \o t)[i] = s[i]
      /\ \A i \in 1 .. Len(t) : (s \o t)[Len(s) + i] = t[i]
  BY Joined
<1>2. QED  BY <1>1

----------------------------------------------------------------------------
(* The calls of an operation, place by place                               *)

LEMMA CallsTyped ==
  /\ \A c \in CallNames : Call(c) \in CallType
  /\ \A s \in Sectors : /\ Write(s) \in Seq(CallType) /\ Len(Write(s)) = 2
                        /\ Write(s)[1] = [call |-> "erase", sector |-> s]
                        /\ Write(s)[2] = [call |-> "program", sector |-> s]
  /\ Places \subseteq Sectors /\ 1 \in Sectors /\ 2 \in Sectors
<1>1. Places \subseteq Sectors /\ 1 \in Sectors /\ 2 \in Sectors  BY DEF Places, Sectors, Settings
<1>2. ASSUME NEW s \in Sectors
      PROVE  /\ Write(s) \in Seq(CallType) /\ Len(Write(s)) = 2
             /\ Write(s)[1] = [call |-> "erase", sector |-> s]
             /\ Write(s)[2] = [call |-> "program", sector |-> s]
  <2>1. [call |-> "erase", sector |-> s] \in CallType /\ [call |-> "program", sector |-> s] \in CallType
    BY DEF CallType, CallNames
  <2>2. QED  BY <2>1, TwoLong DEF Write
<1>3. \A c \in CallNames : Call(c) \in CallType  BY DEF Call, CallType
<1>4. QED  BY <1>1, <1>2, <1>3

LEMMA SaveCalls ==
  ASSUME NEW o \in OpType, o.kind = "save"
  PROVE  LET s == CallsOf(o)
             n == IF o.place = Settings THEN 9 ELSE 7
         IN /\ s \in Seq(CallType) /\ Len(s) = n
            /\ s[1] = Call("notice") /\ s[2] = Call("mount")
            /\ s[3] = Call(IF o.make THEN "create" ELSE "open")
            /\ s[4] = [call |-> "erase", sector |-> o.place]
            /\ s[5] = [call |-> "program", sector |-> o.place]
            /\ n = 9 => /\ s[6] = [call |-> "erase", sector |-> 2]
                        /\ s[7] = [call |-> "program", sector |-> 2]
            /\ s[n - 1] = Call("status") /\ s[n] = Call("unmount")
<1> DEFINE a == <<Call("notice"), Call("mount"), Call(IF o.make THEN "create" ELSE "open")>>
           b == IF o.place = Settings THEN Write(1) \o Write(2) ELSE Write(o.place)
           c == <<Call("status"), Call("unmount")>>
           ab == a \o b
<1>1. CallsOf(o) = ab \o c  BY DEF CallsOf
<1>2. o.place \in Places  BY DEF OpType
<1>3. /\ a \in Seq(CallType) /\ Len(a) = 3 /\ c \in Seq(CallType) /\ Len(c) = 2
      /\ a[1] = Call("notice") /\ a[2] = Call("mount") /\ a[3] = Call(IF o.make THEN "create" ELSE "open")
      /\ c[1] = Call("status") /\ c[2] = Call("unmount")
  <2>1. Call("notice") \in CallType /\ Call("mount") \in CallType /\ Call(IF o.make THEN "create" ELSE "open") \in CallType
        /\ Call("status") \in CallType /\ Call("unmount") \in CallType
    BY CallsTyped DEF CallNames
  <2>2. QED  BY <2>1, TwoLong, ThreeLong
<1>4. CASE o.place = Settings
  <2> DEFINE d == Write(1)
             e == Write(2)
  <2>1. /\ d \in Seq(CallType) /\ Len(d) = 2 /\ e \in Seq(CallType) /\ Len(e) = 2
        /\ d[1] = [call |-> "erase", sector |-> 1] /\ d[2] = [call |-> "program", sector |-> 1]
        /\ e[1] = [call |-> "erase", sector |-> 2] /\ e[2] = [call |-> "program", sector |-> 2]
    BY CallsTyped
  <2>2. b = d \o e /\ ab = a \o b  BY <1>4
  <2> HIDE DEF a, b, c, d, e, ab
  <2>3. /\ b \in Seq(CallType) /\ Len(b) = 4
        /\ b[1] = d[1] /\ b[2] = d[2] /\ b[3] = e[1] /\ b[4] = e[2]
    <3>1. /\ d \o e \in Seq(CallType) /\ Len(d \o e) = 4
          /\ (d \o e)[1] = d[1] /\ (d \o e)[2] = d[2] /\ (d \o e)[3] = e[1] /\ (d \o e)[4] = e[2]
      BY <2>1, TwoAndTwo
    <3>2. QED  BY <2>2, <3>1
  <2>4. /\ ab \in Seq(CallType) /\ Len(ab) = 7
        /\ ab[1] = a[1] /\ ab[2] = a[2] /\ ab[3] = a[3] /\ ab[4] = b[1] /\ ab[5] = b[2]
        /\ ab[6] = b[3] /\ ab[7] = b[4]
    <3>1. /\ a \o b \in Seq(CallType) /\ Len(a \o b) = 7
          /\ (a \o b)[1] = a[1] /\ (a \o b)[2] = a[2] /\ (a \o b)[3] = a[3] /\ (a \o b)[4] = b[1]
          /\ (a \o b)[5] = b[2] /\ (a \o b)[6] = b[3] /\ (a \o b)[7] = b[4]
      BY <1>3, <2>3, ThreeAndFour
    <3>2. QED  BY <2>2, <3>1
  <2> DEFINE s == ab \o c
  <2>5. s = ab \o c  OBVIOUS
  <2> HIDE DEF s
  <2>6. /\ s \in Seq(CallType) /\ Len(s) = Len(ab) + 2
        /\ \A i \in 1 .. Len(ab) : s[i] = ab[i]
        /\ s[Len(ab) + 1] = c[1] /\ s[Len(ab) + 2] = c[2]
    <3>1. /\ ab \o c \in Seq(CallType) /\ Len(ab \o c) = Len(ab) + 2
          /\ \A i \in 1 .. Len(ab) : (ab \o c)[i] = ab[i]
          /\ (ab \o c)[Len(ab) + 1] = c[1] /\ (ab \o c)[Len(ab) + 2] = c[2]
      BY <1>3, <2>4, AndTwo, ZenonT(60)
    <3>2. QED  BY <2>5, <3>1
  <2>7. /\ Len(s) = 9 /\ s[1] = ab[1] /\ s[2] = ab[2] /\ s[3] = ab[3] /\ s[4] = ab[4]
        /\ s[5] = ab[5] /\ s[6] = ab[6] /\ s[7] = ab[7] /\ s[8] = c[1] /\ s[9] = c[2]
    BY <2>4, <2>6
  <2>8. CallsOf(o) = s  BY <1>1, <2>5
  <2>9. QED  BY <1>3, <1>4, <2>1, <2>3, <2>4, <2>6, <2>7, <2>8 DEF Settings
<1>5. CASE o.place # Settings
  <2>1. /\ b \in Seq(CallType) /\ Len(b) = 2
        /\ b[1] = [call |-> "erase", sector |-> o.place]
        /\ b[2] = [call |-> "program", sector |-> o.place]
    BY <1>2, <1>5, CallsTyped
  <2>2. ab = a \o b  OBVIOUS
  <2> HIDE DEF a, b, c, ab
  <2>3. /\ ab \in Seq(CallType) /\ Len(ab) = 5
        /\ ab[1] = a[1] /\ ab[2] = a[2] /\ ab[3] = a[3] /\ ab[4] = b[1] /\ ab[5] = b[2]
    <3>1. /\ a \o b \in Seq(CallType) /\ Len(a \o b) = 5
          /\ (a \o b)[1] = a[1] /\ (a \o b)[2] = a[2] /\ (a \o b)[3] = a[3]
          /\ (a \o b)[4] = b[1] /\ (a \o b)[5] = b[2]
      BY <1>3, <2>1, ThreeAndTwo
    <3>2. QED  BY <2>2, <3>1
  <2> DEFINE s == ab \o c
  <2>0. s = ab \o c /\ CallsOf(o) = s  BY <1>1
  <2> HIDE DEF s
  <2>4. /\ s \in Seq(CallType) /\ Len(s) = Len(ab) + 2
        /\ \A i \in 1 .. Len(ab) : s[i] = ab[i]
        /\ s[Len(ab) + 1] = c[1] /\ s[Len(ab) + 2] = c[2]
    <3>1. /\ ab \o c \in Seq(CallType) /\ Len(ab \o c) = Len(ab) + 2
          /\ \A i \in 1 .. Len(ab) : (ab \o c)[i] = ab[i]
          /\ (ab \o c)[Len(ab) + 1] = c[1] /\ (ab \o c)[Len(ab) + 2] = c[2]
      BY <1>3, <2>3, AndTwo, ZenonT(60)
    <3>2. QED  BY <2>0, <3>1
  <2>5. /\ Len(s) = 7 /\ s[1] = ab[1] /\ s[2] = ab[2] /\ s[3] = ab[3]
        /\ s[4] = ab[4] /\ s[5] = ab[5] /\ s[6] = c[1] /\ s[7] = c[2]
    BY <2>3, <2>4
  <2>6. QED  BY <1>3, <1>5, <2>0, <2>1, <2>3, <2>4, <2>5
<1>6. QED  BY <1>4, <1>5

LEMMA OtherCalls ==
  ASSUME NEW o \in OpType
  PROVE  /\ o.kind = "load" => CallsOf(o) = <<Call("mount"), Call("open"), Call("read"),
                                              Call("check"), Call("unmount")>>
         /\ o.kind = "delete" => CallsOf(o) = <<Call("mount"), Call("delete"), Call("unmount")>>
         /\ o.kind = "format" => CallsOf(o) = <<Call("notice"), Call("mount"), Call("format"), Call("unmount")>>
BY DEF CallsOf

LEMMA CallsOfTyped ==
  ASSUME NEW o \in OpType
  PROVE  CallsOf(o) \in Seq(CallType) /\ Len(CallsOf(o)) \in Nat \ {0}
<1>1. o.kind \in {"save", "load", "delete", "format"}  BY DEF OpType
<1>2. /\ Call("mount") \in CallType /\ Call("open") \in CallType /\ Call("read") \in CallType
      /\ Call("check") \in CallType /\ Call("unmount") \in CallType /\ Call("delete") \in CallType
      /\ Call("notice") \in CallType /\ Call("format") \in CallType
  BY CallsTyped DEF CallNames
<1>3. CASE o.kind = "save"
  <2>1. CallsOf(o) \in Seq(CallType) /\ Len(CallsOf(o)) = IF o.place = Settings THEN 9 ELSE 7
    BY <1>3, SaveCalls
  <2>2. QED  BY <2>1
<1>4. CASE o.kind = "load"
  <2> DEFINE s == <<Call("mount"), Call("open"), Call("read"), Call("check"), Call("unmount")>>
  <2>1. s \in Seq(CallType) /\ Len(s) = 5  BY <1>2, FiveLong
  <2>2. CallsOf(o) = s  BY <1>4, OtherCalls
  <2> HIDE DEF s
  <2>3. Len(s) \in Nat \ {0}  BY <2>1
  <2>4. QED  BY <2>1, <2>2, <2>3
<1>5. CASE o.kind = "delete"
  <2> DEFINE s == <<Call("mount"), Call("delete"), Call("unmount")>>
  <2>1. s \in Seq(CallType) /\ Len(s) = 3  BY <1>2, ThreeLong
  <2>2. CallsOf(o) = s  BY <1>5, OtherCalls
  <2> HIDE DEF s
  <2>3. Len(s) \in Nat \ {0}  BY <2>1
  <2>4. QED  BY <2>1, <2>2, <2>3
<1>6. CASE o.kind = "format"
  <2> DEFINE s == <<Call("notice"), Call("mount"), Call("format"), Call("unmount")>>
  <2>1. s \in Seq(CallType) /\ Len(s) = 4  BY <1>2, FourLong
  <2>2. CallsOf(o) = s  BY <1>6, OtherCalls
  <2> HIDE DEF s
  <2>3. Len(s) \in Nat \ {0}  BY <2>1
  <2>4. QED  BY <2>1, <2>2, <2>3
<1>7. QED  BY <1>1, <1>3, <1>4, <1>5, <1>6

----------------------------------------------------------------------------
(* The functions, operation by operation                                   *)

LEMMA PlacesTyped == Settings \in Places /\ \A r \in 1 .. Regions : r + 2 \in Places /\ r + 2 # Settings
BY DEF Places, Settings

LEMMA SaveTyped ==
  ASSUME NEW p \in Places, NEW d \in Data, NEW b \in BOOLEAN, NEW m \in BOOLEAN
  PROVE  Save(p, d, b, m) \in OpType
BY DEF Save, OpType

LEMMA ProfileFacts ==
  ASSUME NEW a \in Profiles
  PROVE  /\ a \in Seq(OpType) /\ Len(a) = 1
         /\ a[1].kind = "save" /\ a[1].data \in Data /\ a[1].sum /\ ~a[1].make
<1>1. PICK p \in Places, d \in Data : a = Profile(p, d)  BY DEF Profiles
<1>2. Save(p, d, TRUE, FALSE) \in OpType /\ a = <<Save(p, d, TRUE, FALSE)>>
  BY <1>1, SaveTyped DEF Profile
<1>3. a \in Seq(OpType) /\ Len(a) = 1 /\ a[1] = Save(p, d, TRUE, FALSE)
  BY <1>1, <1>2, OneLong
<1>4. QED  BY <1>3 DEF Save

LEMMA CreationOf ==
  ASSUME NEW d \in Data, NEW a, a = Creation(d)
  PROVE  /\ a \in Seq(OpType) /\ Len(a) = Regions + 2
         /\ a[1].make /\ ~a[1].sum /\ a[1].place = Settings
         /\ \A i \in 1 .. Regions + 2 : a[i].kind = "save" /\ a[i].data \in Data
         /\ \A i \in 2 .. Regions + 1 : ~a[i].make /\ a[i].place = i + 1
         /\ ~a[Regions + 2].make /\ a[Regions + 2].place = Settings
         /\ \A i \in 1 .. Regions + 2 : a[i].data = d
         /\ \A i \in 2 .. Regions + 2 : a[i].sum
<1> DEFINE x == Save(Settings, d, FALSE, TRUE)
           y == Save(Settings, d, TRUE, FALSE)
           u == <<x>>
           m == [r \in 1 .. Regions |-> Save(r + 2, d, TRUE, FALSE)]
           w == <<y>>
           um == u \o m
<1>2. a = um \o w  BY DEF Creation
<1>3. um = u \o m  OBVIOUS
<1>4. x \in OpType /\ y \in OpType  BY PlacesTyped, SaveTyped
<1>5. \A r \in 1 .. Regions : Save(r + 2, d, TRUE, FALSE) \in OpType
  BY PlacesTyped, SaveTyped
<1>6. m \in Seq(OpType)
  <2> DEFINE e(r) == Save(r + 2, d, TRUE, FALSE)
  <2>1. \A r \in 1 .. Regions : e(r) \in OpType  BY <1>5
  <2>2. m = [r \in 1 .. Regions |-> e(r)]  OBVIOUS
  <2> HIDE DEF e, m
  <2>3. QED  BY <2>1, <2>2
<1>7. Len(m) = Regions /\ \A i \in 1 .. Regions : m[i] = Save(i + 2, d, TRUE, FALSE)  OBVIOUS
<1> HIDE DEF x, y
<1>8. Len(u) = 1 /\ u[1] = x /\ Len(w) = 1 /\ w[1] = y  OBVIOUS
<1>81. u \in Seq(OpType) /\ w \in Seq(OpType)  BY <1>4, OneLong
<1> HIDE DEF u, m, w, um
<1>9. /\ um \in Seq(OpType) /\ Len(um) = Len(u) + Len(m)
      /\ \A i \in 1 .. Len(u) : um[i] = u[i]
      /\ \A i \in 1 .. Len(m) : um[Len(u) + i] = m[i]
  <2>1. /\ u \o m \in Seq(OpType) /\ Len(u \o m) = Len(u) + Len(m)
        /\ \A i \in 1 .. Len(u) : (u \o m)[i] = u[i]
        /\ \A i \in 1 .. Len(m) : (u \o m)[Len(u) + i] = m[i]
    BY <1>6, <1>81, Joined
  <2>2. QED  BY <1>3, <2>1
<1>10. /\ a \in Seq(OpType) /\ Len(a) = Len(um) + Len(w)
       /\ \A i \in 1 .. Len(um) : a[i] = um[i]
       /\ \A i \in 1 .. Len(w) : a[Len(um) + i] = w[i]
  <2>0. um \in Seq(OpType)  BY <1>9
  <2>1. /\ um \o w \in Seq(OpType) /\ Len(um \o w) = Len(um) + Len(w)
        /\ \A i \in 1 .. Len(um) : (um \o w)[i] = um[i]
        /\ \A i \in 1 .. Len(w) : (um \o w)[Len(um) + i] = w[i]
    BY <1>81, <2>0, Joined
  <2>2. QED  BY <1>2, <2>1
<1>11. Len(um) = Regions + 1 /\ Len(a) = Regions + 2  BY <1>7, <1>8, <1>9, <1>10
<1>12. a[1] = x
  <2>1. um[1] = u[1] /\ a[1] = um[1]  BY <1>8, <1>9, <1>10, <1>11
  <2>2. QED  BY <2>1, <1>8
<1>13. a[Regions + 2] = y
  <2>1. a[Len(um) + 1] = w[1] /\ Len(um) + 1 = Regions + 2  BY <1>8, <1>10, <1>11
  <2>2. QED  BY <2>1, <1>8
<1>14. ASSUME NEW i \in 2 .. Regions + 1 PROVE a[i] = Save(i + 1, d, TRUE, FALSE)
  <2>1. PICK j \in 1 .. Regions : i = 1 + j /\ j + 2 = i + 1
    <3>1. i - 1 \in 1 .. Regions /\ i = 1 + (i - 1) /\ (i - 1) + 2 = i + 1  OBVIOUS
    <3>2. QED  BY <3>1
  <2>2. um[i] = m[j]  BY <1>7, <1>8, <1>9, <2>1
  <2>3. a[i] = um[i]  BY <1>10, <1>11
  <2>4. QED  BY <1>7, <2>1, <2>2, <2>3
<1>15. ASSUME NEW i \in 1 .. Regions + 2
       PROVE  a[i].kind = "save" /\ a[i].data \in Data /\ a[i].data = d
  <2>1. CASE i = 1  BY <2>1, <1>12 DEF Save, x
  <2>2. CASE i \in 2 .. Regions + 1
    <3>1. a[i] = Save(i + 1, d, TRUE, FALSE)  BY <1>14, <2>2
    <3>2. QED  BY <3>1 DEF Save
  <2>3. CASE i = Regions + 2  BY <2>3, <1>13 DEF Save, y
  <2>4. QED  BY <2>1, <2>2, <2>3
<1>16. ASSUME NEW i \in 2 .. Regions + 1 PROVE ~a[i].make /\ a[i].place = i + 1
  <2>1. a[i] = Save(i + 1, d, TRUE, FALSE)  BY <1>14
  <2>2. QED  BY <2>1 DEF Save
<1>17. a[1].data = d /\ a[1].make /\ ~a[1].sum /\ a[1].place = Settings  BY <1>12 DEF Save, x
<1>18. ~a[Regions + 2].make /\ a[Regions + 2].place = Settings  BY <1>13 DEF Save, y
<1>19. ASSUME NEW i \in 2 .. Regions + 2 PROVE a[i].sum
  <2>1. CASE i \in 2 .. Regions + 1
    <3>1. a[i] = Save(i + 1, d, TRUE, FALSE)  BY <1>14, <2>1
    <3>2. QED  BY <3>1 DEF Save
  <2>2. CASE i = Regions + 2  BY <1>13, <2>2 DEF Save, y
  <2>3. QED  BY <2>1, <2>2
<1>20. QED  BY <1>10, <1>11, <1>15, <1>16, <1>17, <1>18, <1>19

LEMMA CreationFacts ==
  ASSUME NEW a \in NewFiles
  PROVE  /\ a \in Seq(OpType) /\ Len(a) = Regions + 2
         /\ a[1].make /\ ~a[1].sum /\ a[1].place = Settings
         /\ \A i \in 1 .. Regions + 2 : a[i].kind = "save" /\ a[i].data \in Data
         /\ \A i \in 2 .. Regions + 1 : ~a[i].make /\ a[i].place = i + 1
         /\ ~a[Regions + 2].make /\ a[Regions + 2].place = Settings
         /\ \A i \in 1 .. Regions + 2 : a[i].data = a[1].data
         /\ \A i \in 2 .. Regions + 2 : a[i].sum
<1>1. PICK d \in Data : a = Creation(d)  BY DEF NewFiles
<1>2. /\ a \in Seq(OpType) /\ Len(a) = Regions + 2
      /\ a[1].make /\ ~a[1].sum /\ a[1].place = Settings
      /\ \A i \in 1 .. Regions + 2 : a[i].kind = "save" /\ a[i].data \in Data
      /\ \A i \in 2 .. Regions + 1 : ~a[i].make /\ a[i].place = i + 1
      /\ ~a[Regions + 2].make /\ a[Regions + 2].place = Settings
      /\ \A i \in 1 .. Regions + 2 : a[i].data = d
      /\ \A i \in 2 .. Regions + 2 : a[i].sum
  BY <1>1, CreationOf
<1>3. 1 \in 1 .. Regions + 2  OBVIOUS
<1>4. a[1].data = d  BY <1>2, <1>3
<1>5. QED  BY <1>2, <1>4

LEMMA OtherFacts ==
  /\ \A a \in Loads \cup {Deletion, Formatted} : a \in Seq(OpType) /\ Len(a) = 1
  /\ \A a \in Loads : a[1].kind = "load" /\ ~a[1].make /\ a[1].data = Nil
  /\ Reload \in Loads /\ Reload[1].place = Settings
  /\ Deletion[1].kind = "delete" /\ ~Deletion[1].make /\ Deletion[1].place = Settings
  /\ Formatted[1].kind = "format" /\ ~Formatted[1].make /\ Formatted[1].place = Settings
<1>1. ASSUME NEW k \in {"load", "delete", "format"}, NEW p \in Places
      PROVE  /\ <<Op(k, p)>> \in Seq(OpType) /\ Len(<<Op(k, p)>>) = 1 /\ <<Op(k, p)>>[1].kind = k
             /\ ~<<Op(k, p)>>[1].make /\ <<Op(k, p)>>[1].data = Nil /\ <<Op(k, p)>>[1].place = p
  <2>1. Op(k, p) \in OpType  BY DEF Op, OpType
  <2>2. <<Op(k, p)>> \in Seq(OpType) /\ Len(<<Op(k, p)>>) = 1 /\ <<Op(k, p)>>[1] = Op(k, p)
    BY <2>1, OneLong
  <2>3. QED  BY <2>2 DEF Op
<1>2. Reload \in Loads  BY PlacesTyped DEF Reload, Loads
<1>3. ASSUME NEW a \in Loads
      PROVE  a \in Seq(OpType) /\ Len(a) = 1 /\ a[1].kind = "load" /\ ~a[1].make /\ a[1].data = Nil
  <2>1. PICK p \in Places : a = <<Op("load", p)>>  BY DEF Loads
  <2>2. QED  BY <1>1, <2>1
<1>4. /\ Deletion \in Seq(OpType) /\ Len(Deletion) = 1 /\ Deletion[1].kind = "delete"
      /\ ~Deletion[1].make /\ Deletion[1].place = Settings
  BY <1>1, PlacesTyped DEF Deletion
<1>5. /\ Formatted \in Seq(OpType) /\ Len(Formatted) = 1 /\ Formatted[1].kind = "format"
      /\ ~Formatted[1].make /\ Formatted[1].place = Settings
  BY <1>1, PlacesTyped DEF Formatted
<1>6. Reload[1].place = Settings  BY <1>1, PlacesTyped DEF Reload
<1>7. QED  BY <1>2, <1>3, <1>4, <1>5, <1>6

LEMMA JobFacts ==
  ASSUME NEW a \in Jobs
  PROVE  /\ a \in Seq(OpType) /\ Len(a) \in Nat \ {0} /\ a # <<>>
         /\ a[1] \in OpType
         /\ a \in NewFiles <=> a[1].make
         /\ a \in NewFiles \/ Len(a) = 1
         /\ a[1].kind = "save" <=> a \in Profiles \cup NewFiles
         /\ a[1].kind = "load" <=> a \in Loads
         /\ a[1].kind = "load" /\ a[1].place = Settings <=> a = Reload
         /\ a[1].kind = "delete" <=> a = Deletion
         /\ a[1].kind = "format" <=> a = Formatted
<1>1. a \in Profiles \/ a \in NewFiles \/ a \in Loads \/ a = Deletion \/ a = Formatted
  BY DEF Jobs
<1>2. a \in Loads /\ a[1].place = Settings => a = Reload  BY DEF Loads, Reload, Op
<1>3. a \in Seq(OpType) /\ Len(a) \in Nat \ {0}
  BY <1>1, ProfileFacts, CreationFacts, OtherFacts
<1>4. a # <<>> /\ a[1] \in OpType  BY <1>3
<1>5. CASE a \in Profiles  BY <1>3, <1>4, <1>5, ProfileFacts, OtherFacts, CreationFacts
<1>6. CASE a \in NewFiles  BY <1>3, <1>4, <1>6, ProfileFacts, OtherFacts, CreationFacts
<1>7. CASE a \in Loads  BY <1>2, <1>3, <1>4, <1>7, ProfileFacts, OtherFacts, CreationFacts
<1>8. CASE a \in {Deletion, Formatted}  BY <1>3, <1>4, <1>8, ProfileFacts, OtherFacts, CreationFacts
<1>9. QED  BY <1>1, <1>5, <1>6, <1>7, <1>8

----------------------------------------------------------------------------
(* Where the process stands                                                *)

LEMMA EndHead ==
  ASSUME NEW S, NEW u \in Seq(S), NEW s \in Seq(S), EndOf(u, s), u # <<>>
  PROVE  /\ Len(u) \in 1 .. Len(s)
         /\ Len(s) - Len(u) + 1 \in 1 .. Len(s)
         /\ Head(u) = u[1] /\ u[1] = s[Len(s) - Len(u) + 1]
         /\ EndOf(Tail(u), s)
<1>1. /\ Len(u) \in Nat \ {0} /\ Len(s) \in Nat /\ Len(u) <= Len(s)
      /\ \A i \in 1 .. Len(u) : u[i] = s[Len(s) - Len(u) + i]
  BY DEF EndOf
<1>2. /\ Tail(u) \in Seq(S) /\ Len(Tail(u)) = Len(u) - 1
      /\ \A i \in 1 .. Len(Tail(u)) : Tail(u)[i] = u[i + 1]
  BY HeadTailProperties
<1>3. ASSUME NEW i \in 1 .. Len(Tail(u)) PROVE Tail(u)[i] = s[Len(s) - Len(Tail(u)) + i]
  <2>1. i + 1 \in 1 .. Len(u) /\ Len(s) - Len(u) + (i + 1) = Len(s) - Len(Tail(u)) + i
    BY <1>1, <1>2
  <2>2. Tail(u)[i] = u[i + 1] /\ u[i + 1] = s[Len(s) - Len(u) + (i + 1)]
    BY <1>1, <1>2, <2>1
  <2>3. QED  BY <2>1, <2>2
<1>4. EndOf(Tail(u), s)  BY <1>1, <1>2, <1>3 DEF EndOf
<1>5. Head(u) = u[1] /\ Len(u) \in 1 .. Len(s) /\ Len(s) - Len(u) + 1 \in 1 .. Len(s)
  BY <1>1
<1>6. 1 \in 1 .. Len(u)  BY <1>1
<1>7. u[1] = s[Len(s) - Len(u) + 1]  BY <1>1, <1>6
<1>8. QED  BY <1>4, <1>5, <1>7

LEMMA NotEmpty ==
  ASSUME NEW S, NEW s \in Seq(S)
  PROVE  s # <<>> <=> Len(s) \in Nat \ {0}
OBVIOUS

(* The next operation of a function                                        *)
LEMMA NextOne ==
  ASSUME NEW S, NEW u \in Seq(S), NEW s \in Seq(S), EndOf(u, s), u # <<>>
  PROVE  /\ Len(u) > 1 =>
              /\ Tail(u) \in Seq(S) /\ Tail(u) # <<>> /\ Head(Tail(u)) = u[2] /\ u[2] \in S
              /\ Len(s) - Len(u) + 1 \in 1 .. Len(s) - 1
              /\ (Len(s) - Len(u) + 1) + 1 \in 1 .. Len(s)
              /\ u[2] = s[(Len(s) - Len(u) + 1) + 1]
              /\ Len(s) - Len(Tail(u)) + 1 = (Len(s) - Len(u) + 1) + 1
              /\ Len(u) # 1
         /\ ~(Len(u) > 1) => Len(u) = 1 /\ Len(s) - Len(u) + 1 = Len(s)
         /\ Len(s) - Len(u) + 1 \in Nat
<1>1. /\ Len(u) \in Nat \ {0} /\ Len(s) \in Nat /\ Len(u) <= Len(s)
      /\ \A i \in 1 .. Len(u) : u[i] = s[Len(s) - Len(u) + i]
  BY DEF EndOf
<1>2. ASSUME Len(u) > 1
      PROVE  /\ Tail(u) \in Seq(S) /\ Tail(u) # <<>> /\ Head(Tail(u)) = u[2] /\ u[2] \in S
             /\ Len(s) - Len(u) + 1 \in 1 .. Len(s) - 1
             /\ (Len(s) - Len(u) + 1) + 1 \in 1 .. Len(s)
             /\ u[2] = s[(Len(s) - Len(u) + 1) + 1]
             /\ Len(s) - Len(Tail(u)) + 1 = (Len(s) - Len(u) + 1) + 1
             /\ Len(u) # 1
  <2>1. /\ Tail(u) \in Seq(S) /\ Len(Tail(u)) = Len(u) - 1
        /\ \A i \in 1 .. Len(Tail(u)) : Tail(u)[i] = u[i + 1]
    BY HeadTailProperties
  <2>2. Len(Tail(u)) \in Nat \ {0} /\ 2 \in 1 .. Len(u) /\ 1 \in 1 .. Len(Tail(u))
    BY <1>1, <1>2, <2>1
  <2>3. Tail(u) # <<>>  BY <2>1, <2>2, NotEmpty
  <2>4. Head(Tail(u)) = Tail(u)[1]  BY <2>1, <2>3
  <2>5. Tail(u)[1] = u[2]  BY <2>1, <2>2
  <2>6. u[2] \in S  BY <2>2, ElemAt
  <2>7. u[2] = s[Len(s) - Len(u) + 2] /\ Len(s) - Len(u) + 2 = (Len(s) - Len(u) + 1) + 1
    BY <1>1, <2>2
  <2>8. /\ Len(s) - Len(u) + 1 \in 1 .. Len(s) - 1 /\ (Len(s) - Len(u) + 1) + 1 \in 1 .. Len(s)
        /\ Len(s) - Len(Tail(u)) + 1 = (Len(s) - Len(u) + 1) + 1 /\ Len(u) # 1
    BY <1>1, <1>2, <2>1
  <2>9. QED  BY <2>1, <2>3, <2>4, <2>5, <2>6, <2>7, <2>8
<1>3. ASSUME ~(Len(u) > 1) PROVE Len(u) = 1 /\ Len(s) - Len(u) + 1 = Len(s)
  <2>1. PICK m \in Nat \ {0}, n \in Nat : m = Len(u) /\ n = Len(s)  BY <1>1
  <2>2. m = 1 /\ n - m + 1 = n  BY <1>3, <2>1
  <2>3. QED  BY <2>1, <2>2
<1>4. Len(s) - Len(u) + 1 \in Nat  BY <1>1
<1>5. QED  BY <1>2, <1>3, <1>4

LEMMA EndWhole ==
  ASSUME NEW S, NEW s \in Seq(S)
  PROVE  EndOf(s, s) /\ EndOf(<<>>, s)
<1>1. Len(s) \in Nat /\ Len(<<>>) = 0  OBVIOUS
<1>2. \A i \in 1 .. Len(s) : Len(s) - Len(s) + i = i  BY <1>1
<1>3. QED  BY <1>1, <1>2 DEF EndOf

LEMMA OpFacts ==
  ASSUME Typed, JobKept, Working
  PROVE  /\ run.all \in Jobs /\ run.ops \in Seq(OpType) /\ run.ops # <<>>
         /\ op = run.ops[1] /\ job = run.all[1] /\ op \in OpType /\ job \in OpType
         /\ Nth \in 1 .. Len(run.all) /\ op = run.all[Nth]
         /\ EndOf(run.ops, run.all) /\ EndOf(Tail(run.ops), run.all)
         /\ Len(run.ops) = Len(run.all) - Nth + 1
<1>1. /\ run.all \in Jobs /\ run.ops # <<>> /\ EndOf(run.ops, run.all) /\ run.ops \in Seq(OpType)
  BY DEF Typed, RunType, JobKept
<1>2. run.all \in Seq(OpType) /\ run.all # <<>> /\ Len(run.all) \in Nat /\ run.all[1] \in OpType
  BY <1>1, JobFacts
<1>3. /\ Len(run.ops) \in 1 .. Len(run.all)
      /\ Len(run.all) - Len(run.ops) + 1 \in 1 .. Len(run.all)
      /\ Head(run.ops) = run.ops[1] /\ run.ops[1] = run.all[Len(run.all) - Len(run.ops) + 1]
      /\ EndOf(Tail(run.ops), run.all)
  BY <1>1, <1>2, EndHead
<1>4. op = run.ops[1] /\ op \in OpType
  <2>1. op = run.ops[1]  BY <1>1, <1>3 DEF op
  <2>2. 1 \in 1 .. Len(run.ops)  BY <1>1
  <2>3. run.ops[1] \in OpType  BY <1>1, <2>2, ElemAt
  <2>4. QED  BY <2>1, <2>3
<1>5. job = run.all[1]  BY <1>2 DEF job
<1>6. Len(run.ops) = Len(run.all) - Nth + 1  BY <1>2, <1>3 DEF Nth
<1>7. QED  BY <1>1, <1>2, <1>3, <1>4, <1>5, <1>6 DEF Nth

LEMMA DataIn ==
  ASSUME NEW a \in Jobs, NEW i \in 1 .. Len(a), a[i].kind = "save"
  PROVE  a[i].data \in DataOf(a)
BY DEF DataOf

(* What the operation is a part of                                         *)
LEMMA OpOfJob ==
  ASSUME Typed, JobKept, Working
  PROVE  /\ op.kind \in {"save", "load", "delete", "format"}
         /\ op.kind = job.kind
         /\ op.kind = "save" <=> run.all \in Profiles \cup NewFiles
         /\ op.kind = "load" <=> run.all \in Loads
         /\ op.kind = "delete" <=> run.all = Deletion
         /\ op.kind = "format" <=> run.all = Formatted
         /\ op.kind = "save" => op.data \in Data /\ op.data \in DataOf(run.all)
         /\ op.make <=> run.all \in NewFiles /\ Nth = 1
         /\ job.make <=> run.all \in NewFiles
         /\ op.make => op.place = Settings /\ ~op.sum
         /\ run.all \notin NewFiles => Nth = 1 /\ Len(run.ops) = 1 /\ Len(run.all) = 1 /\ op = job
         /\ run.all \in NewFiles =>
              /\ Len(run.all) = Regions + 2
              /\ Nth \in 2 .. Regions + 1 => op.place = Nth + 1
              /\ Nth = Regions + 2 => op.place = Settings
         /\ op.place = Settings \/ op.place \in 3 .. Regions + 2
<1>1. /\ run.all \in Jobs /\ op = run.all[Nth] /\ job = run.all[1] /\ op \in OpType
      /\ Nth \in 1 .. Len(run.all) /\ Len(run.ops) = Len(run.all) - Nth + 1
  BY OpFacts
<1>2. op.kind \in {"save", "load", "delete", "format"} /\ op.place \in Places  BY <1>1 DEF OpType
<1>3. op.kind = "save" => op.data \in DataOf(run.all)  BY <1>1, DataIn
<1>4. CASE run.all \in NewFiles
  <2>1. /\ Len(run.all) = Regions + 2
        /\ run.all[1].make /\ ~run.all[1].sum /\ run.all[1].place = Settings
        /\ \A i \in 1 .. Regions + 2 : run.all[i].kind = "save" /\ run.all[i].data \in Data
        /\ \A i \in 2 .. Regions + 1 : ~run.all[i].make /\ run.all[i].place = i + 1
        /\ ~run.all[Regions + 2].make /\ run.all[Regions + 2].place = Settings
    BY <1>4, CreationFacts
  <2>2. Nth = 1 \/ Nth \in 2 .. Regions + 1 \/ Nth = Regions + 2  BY <1>1, <2>1
  <2>3. op.kind = "save" /\ op.data \in Data /\ job.kind = "save"  BY <1>1, <2>1, SMTT(30)
  <2>4. op.make <=> Nth = 1
    <3>1. CASE Nth = 1  BY <1>1, <2>1, <3>1
    <3>2. CASE Nth \in 2 .. Regions + 1  BY <1>1, <2>1, <3>2
    <3>3. CASE Nth = Regions + 2  BY <1>1, <2>1, <3>3
    <3>4. QED  BY <2>2, <3>1, <3>2, <3>3
  <2>5. op.make => op.place = Settings /\ ~op.sum  BY <1>1, <2>1, <2>4
  <2>6. run.all \notin Loads /\ run.all # Deletion /\ run.all # Formatted
    BY <1>1, <2>1, JobFacts
  <2>7. /\ Nth \in 2 .. Regions + 1 => op.place = Nth + 1
        /\ Nth = Regions + 2 => op.place = Settings
    BY <1>1, <2>1
  <2>8. QED  BY <1>1, <1>2, <1>3, <1>4, <2>1, <2>3, <2>4, <2>5, <2>6, <2>7 DEF Places
<1>5. CASE run.all \notin NewFiles
  <2>1. /\ Len(run.all) = 1 /\ ~run.all[1].make
        /\ run.all[1].kind = "save" <=> run.all \in Profiles \cup NewFiles
        /\ run.all[1].kind = "load" <=> run.all \in Loads
        /\ run.all[1].kind = "delete" <=> run.all = Deletion
        /\ run.all[1].kind = "format" <=> run.all = Formatted
    BY <1>1, <1>5, JobFacts
  <2>2. Nth = 1 /\ Len(run.ops) = 1 /\ op = run.all[1]  BY <1>1, <2>1
  <2>3. op.kind = "save" => op.data \in Data
    <3>1. op.kind = "save" => run.all \in Profiles  BY <1>5, <2>1, <2>2
    <3>2. QED  BY <2>2, <3>1, ProfileFacts
  <2>4. QED  BY <1>1, <1>2, <1>3, <1>5, <2>1, <2>2, <2>3 DEF Places
<1>6. QED  BY <1>4, <1>5

(* The next call of the card library, while none has failed                *)
LEMMA CallFacts ==
  ASSUME Typed, JobKept, CallsKept, At("calls"), run.calls # <<>>, call # "release"
  PROVE  /\ run.result = "ok" /\ run.calls # Release
         /\ run.calls \in Seq(CallType) /\ Len(run.calls) \in Nat \ {0}
         /\ Head(run.calls) = run.calls[1] /\ call = run.calls[1].call /\ sector = run.calls[1].sector
         /\ EndOf(run.calls, CallsOf(op)) /\ EndOf(Tail(run.calls), CallsOf(op))
         /\ Tail(run.calls) \in Seq(CallType) /\ Len(Tail(run.calls)) = Len(run.calls) - 1
<1>1. Working  BY DEF Working
<1>2. op \in OpType  BY <1>1, OpFacts
<1>3. run.calls \in Seq(CallType)  BY DEF Typed, RunType
<1>4. Head(run.calls) = run.calls[1] /\ Len(run.calls) \in Nat \ {0}  BY <1>3
<1>5. call = run.calls[1].call /\ sector = run.calls[1].sector  BY <1>4 DEF call, sector
<1>6. run.calls # Release  BY <1>5 DEF Release, Call
<1>7. run.result = "ok" /\ EndOf(run.calls, CallsOf(op))  BY <1>6 DEF CallsKept
<1>8. CallsOf(op) \in Seq(CallType)  BY <1>2, CallsOfTyped
<1>9. EndOf(Tail(run.calls), CallsOf(op))  BY <1>3, <1>7, <1>8, EndHead
<1>10. Tail(run.calls) \in Seq(CallType) /\ Len(Tail(run.calls)) = Len(run.calls) - 1
  BY <1>3, HeadTailProperties
<1>11. QED  BY <1>3, <1>4, <1>5, <1>6, <1>7, <1>9, <1>10

Calls == Len(CallsOf(op))
Left == Len(run.calls)

(* The calls of a save, by how many are left                               *)
LEMMA SaveSteps ==
  ASSUME Typed, JobKept, CallsKept, At("calls"), run.calls # <<>>, call # "release",
         op.kind = "save"
  PROVE  /\ Calls = IF op.place = Settings THEN 9 ELSE 7
         /\ Left \in 1 .. Calls
         /\ op.place = Settings =>
              \/ Left = 9 /\ call = "notice"
              \/ Left = 8 /\ call = "mount"
              \/ Left = 7 /\ call = IF op.make THEN "create" ELSE "open"
              \/ Left = 6 /\ call = "erase" /\ sector = op.place
              \/ Left = 5 /\ call = "program" /\ sector = op.place
              \/ Left = 4 /\ call = "erase" /\ sector = 2
              \/ Left = 3 /\ call = "program" /\ sector = 2
              \/ Left = 2 /\ call = "status"
              \/ Left = 1 /\ call = "unmount"
         /\ op.place # Settings =>
              \/ Left = 7 /\ call = "notice"
              \/ Left = 6 /\ call = "mount"
              \/ Left = 5 /\ call = IF op.make THEN "create" ELSE "open"
              \/ Left = 4 /\ call = "erase" /\ sector = op.place
              \/ Left = 3 /\ call = "program" /\ sector = op.place
              \/ Left = 2 /\ call = "status"
              \/ Left = 1 /\ call = "unmount"
<1> DEFINE s == CallsOf(op)
           n == IF op.place = Settings THEN 9 ELSE 7
           i == n - Left + 1
<1>1. op \in OpType /\ op.place \in Places
  <2>1. Working  BY DEF Working
  <2>2. QED  BY <2>1, OpFacts DEF OpType
<1>2. /\ s \in Seq(CallType) /\ Len(s) = n
      /\ s[1] = Call("notice") /\ s[2] = Call("mount")
      /\ s[3] = Call(IF op.make THEN "create" ELSE "open")
      /\ s[4] = [call |-> "erase", sector |-> op.place]
      /\ s[5] = [call |-> "program", sector |-> op.place]
      /\ n = 9 => /\ s[6] = [call |-> "erase", sector |-> 2]
                  /\ s[7] = [call |-> "program", sector |-> 2]
      /\ s[n - 1] = Call("status") /\ s[n] = Call("unmount")
  BY <1>1, SaveCalls
<1>3. /\ run.calls \in Seq(CallType) /\ EndOf(run.calls, s)
      /\ call = run.calls[1].call /\ sector = run.calls[1].sector
  BY CallFacts
<1>4. Left \in 1 .. n /\ i \in 1 .. n /\ run.calls[1] = s[i]
  <2>1. s \in Seq(CallType)  BY <1>2
  <2> HIDE DEF s
  <2>2. /\ Len(run.calls) \in 1 .. Len(s) /\ Len(s) - Len(run.calls) + 1 \in 1 .. Len(s)
        /\ run.calls[1] = s[Len(s) - Len(run.calls) + 1]
    BY <1>3, <2>1, EndHead
  <2>3. Len(s) = n  BY <1>2
  <2>4. QED  BY <2>2, <2>3 DEF Left
<1>5. Calls = n  BY <1>2 DEF Calls
<1>6. PICK k : k = Left  OBVIOUS
<1>7. k \in 1 .. n /\ i = n - k + 1  BY <1>4, <1>6
<1>8. CASE op.place = Settings
  <2>1. n = 9  BY <1>8
  <2>2. k \in 1 .. 9 /\ i = 10 - k  BY <2>1, <1>7
  <2>3. \/ k = 9 /\ call = "notice"
        \/ k = 8 /\ call = "mount"
        \/ k = 7 /\ call = IF op.make THEN "create" ELSE "open"
        \/ k = 6 /\ call = "erase" /\ sector = op.place
        \/ k = 5 /\ call = "program" /\ sector = op.place
        \/ k = 4 /\ call = "erase" /\ sector = 2
        \/ k = 3 /\ call = "program" /\ sector = 2
        \/ k = 2 /\ call = "status"
        \/ k = 1 /\ call = "unmount"
    BY <2>1, <2>2, <1>2, <1>3, <1>4 DEF Call
  <2>4. QED  BY <1>4, <1>5, <1>6, <1>8, <2>3
<1>9. CASE op.place # Settings
  <2>1. n = 7  BY <1>9
  <2>2. k \in 1 .. 7 /\ i = 8 - k  BY <2>1, <1>7
  <2>3. \/ k = 7 /\ call = "notice"
        \/ k = 6 /\ call = "mount"
        \/ k = 5 /\ call = IF op.make THEN "create" ELSE "open"
        \/ k = 4 /\ call = "erase" /\ sector = op.place
        \/ k = 3 /\ call = "program" /\ sector = op.place
        \/ k = 2 /\ call = "status"
        \/ k = 1 /\ call = "unmount"
    BY <2>1, <2>2, <1>2, <1>3, <1>4 DEF Call
  <2>4. QED  BY <1>4, <1>5, <1>6, <1>9, <2>3
<1>10. QED  BY <1>8, <1>9

LEMMA SaveFacts ==
  ASSUME Typed, JobKept, CallsKept, At("calls"), run.calls # <<>>, call # "release",
         op.kind = "save"
  PROVE  /\ Calls \in {7, 9} /\ Left \in 1 .. Calls
         /\ call \in {"notice", "mount", "open", "create", "erase", "program", "status", "unmount"}
         /\ call = "notice" <=> Left = Calls
         /\ call = "mount" <=> Left + 1 = Calls
         /\ call \in {"open", "create"} <=> Left + 2 = Calls
         /\ call = "create" => op.make
         /\ call = "open" => ~op.make
         /\ call = "erase" => Left + 3 <= Calls
         /\ Left + 3 = Calls => call = "erase" /\ sector = op.place
         /\ call \in {"program", "status", "unmount"} => Left + 4 <= Calls
         /\ call \in {"erase", "program"} =>
              /\ sector \in Sectors
              /\ sector = op.place \/ (op.place = Settings /\ sector = 2)
<1>1. op.place \in Places
  <2>1. Working  BY DEF Working
  <2>2. QED  BY <2>1, OpFacts DEF OpType
<1>2. op.place \in Sectors /\ 2 \in Sectors  BY <1>1, CallsTyped
<1>3. PICK k, n : k = Left /\ n = Calls  OBVIOUS
<1>4. CASE op.place = Settings
  <2>1. n = 9 /\ k \in 1 .. 9  BY <1>3, <1>4, SaveSteps
  <2>2. \/ k = 9 /\ call = "notice"
        \/ k = 8 /\ call = "mount"
        \/ k = 7 /\ call = IF op.make THEN "create" ELSE "open"
        \/ k = 6 /\ call = "erase" /\ sector = op.place
        \/ k = 5 /\ call = "program" /\ sector = op.place
        \/ k = 4 /\ call = "erase" /\ sector = 2
        \/ k = 3 /\ call = "program" /\ sector = 2
        \/ k = 2 /\ call = "status"
        \/ k = 1 /\ call = "unmount"
    BY <1>3, <1>4, SaveSteps
  <2>3. QED  BY <1>2, <1>3, <1>4, <2>1, <2>2
<1>5. CASE op.place # Settings
  <2>1. n = 7 /\ k \in 1 .. 7  BY <1>3, <1>5, SaveSteps
  <2>2. \/ k = 7 /\ call = "notice"
        \/ k = 6 /\ call = "mount"
        \/ k = 5 /\ call = IF op.make THEN "create" ELSE "open"
        \/ k = 4 /\ call = "erase" /\ sector = op.place
        \/ k = 3 /\ call = "program" /\ sector = op.place
        \/ k = 2 /\ call = "status"
        \/ k = 1 /\ call = "unmount"
    BY <1>3, <1>5, SaveSteps
  <2>3. QED  BY <1>2, <1>3, <1>5, <2>1, <2>2
<1>6. QED  BY <1>4, <1>5

LEMMA OtherSteps ==
  ASSUME Typed, JobKept, CallsKept, At("calls"), run.calls # <<>>, call # "release"
  PROVE  /\ op.kind = "load" => call \in {"mount", "open", "read", "check", "unmount"}
         /\ op.kind = "delete" => call \in {"mount", "delete", "unmount"}
         /\ op.kind = "format" =>
              /\ call \in {"notice", "mount", "format", "unmount"}
              /\ Left \in 1 .. 4
              /\ call = "notice" <=> Left = 4
              /\ call = "mount" <=> Left = 3
              /\ call = "format" <=> Left = 2
              /\ call = "notice" => run.calls = CallsOf(op)
<1> DEFINE i(n) == n - Left + 1
<1>1. op \in OpType
  <2>1. Working  BY DEF Working
  <2>2. QED  BY <2>1, OpFacts
<1>2. CallsOf(op) \in Seq(CallType)  BY <1>1, CallsOfTyped
<1>3. /\ run.calls \in Seq(CallType) /\ call = run.calls[1].call
      /\ EndOf(run.calls, CallsOf(op))
  BY CallFacts
<1>4. CASE op.kind = "load"
  <2> DEFINE s == <<Call("mount"), Call("open"), Call("read"), Call("check"), Call("unmount")>>
  <2>1. s = CallsOf(op)  BY <1>1, <1>4, OtherCalls
  <2>2. Len(s) = 5 /\ \A k \in 1 .. 5 : s[k].call \in {"mount", "open", "read", "check", "unmount"}
    BY DEF Call
  <2> HIDE DEF s
  <2>3. Left \in 1 .. Len(s) /\ Len(s) - Left + 1 \in 1 .. Len(s) /\ run.calls[1] = s[Len(s) - Left + 1]
    BY <1>2, <1>3, <1>4, <2>1, EndHead DEF Left
  <2>4. PICK k \in 1 .. 5 : run.calls[1] = s[k]  BY <2>2, <2>3
  <2>5. QED  BY <1>3, <1>4, <2>2, <2>4
<1>5. CASE op.kind = "delete"
  <2> DEFINE s == <<Call("mount"), Call("delete"), Call("unmount")>>
  <2>1. s = CallsOf(op)  BY <1>1, <1>5, OtherCalls
  <2>2. Len(s) = 3 /\ \A k \in 1 .. 3 : s[k].call \in {"mount", "delete", "unmount"}
    BY DEF Call
  <2> HIDE DEF s
  <2>3. Left \in 1 .. Len(s) /\ Len(s) - Left + 1 \in 1 .. Len(s) /\ run.calls[1] = s[Len(s) - Left + 1]
    BY <1>2, <1>3, <1>5, <2>1, EndHead DEF Left
  <2>4. PICK k \in 1 .. 3 : run.calls[1] = s[k]  BY <2>2, <2>3
  <2>5. QED  BY <1>3, <1>5, <2>2, <2>4
<1>6. CASE op.kind = "format"
  <2> DEFINE s == <<Call("notice"), Call("mount"), Call("format"), Call("unmount")>>
  <2>1. s = CallsOf(op)  BY <1>1, <1>6, OtherCalls
  <2>2. /\ Len(s) = 4 /\ s[1].call = "notice" /\ s[2].call = "mount"
        /\ s[3].call = "format" /\ s[4].call = "unmount"
    BY DEF Call
  <2> HIDE DEF s
  <2>3. Left \in 1 .. Len(s) /\ run.calls[1] = s[Len(s) - Left + 1]
    BY <1>2, <1>3, <2>1, EndHead DEF Left
  <2>4. Left \in 1 .. 4 /\ run.calls[1] = s[4 - Left + 1]  BY <2>2, <2>3
  <2>5. \/ Left = 4 /\ call = "notice"
        \/ Left = 3 /\ call = "mount"
        \/ Left = 2 /\ call = "format"
        \/ Left = 1 /\ call = "unmount"
    BY <1>3, <2>2, <2>4
  <2>6. Left = 4 => run.calls = s
    <3> SUFFICES ASSUME Left = 4 PROVE run.calls = s
      OBVIOUS
    <3>1. s \in Seq(CallType) /\ Len(run.calls) = 4 /\ Len(s) = 4
      BY <1>2, <2>1, <2>2 DEF Left
    <3>2. \A k \in 1 .. 4 : run.calls[k] = s[k]
      <4>1. \A k \in 1 .. Len(run.calls) : run.calls[k] = s[Len(s) - Len(run.calls) + k]
        BY <1>3, <2>1 DEF EndOf
      <4>2. \A k \in 1 .. 4 : 4 - 4 + k = k  OBVIOUS
      <4>3. QED  BY <3>1, <4>1, <4>2
    <3>3. QED  BY <1>3, <3>1, <3>2, SeqEqual
  <2>7. QED  BY <1>6, <2>1, <2>4, <2>5, <2>6
<1>7. QED  BY <1>4, <1>5, <1>6

----------------------------------------------------------------------------
(* What most steps leave alone                                             *)

LEMMA NilApart == Nil \notin Cards /\ Nil \notin Data
OBVIOUS

LEMMA HeldSame ==
  ASSUME settings' = settings, run'.all = run.all, run'.outer = run.outer
  PROVE  Held' = Held
BY DEF Held, DataOf

(* While a function works, nothing is learned of a card that it was not    *)
(* already taken for.                                                      *)
LEMMA SureLess ==
  ASSUME Typed, SlotKept, Working, Working', run'.unsure = run.unsure,
         run'.card \in {run.card, slot},
         ~removals' => \/ last_card_serial_no' = Nil
                       \/ last_card_serial_no' = last_card_serial_no /\ ~removals
  PROVE  Sure' \subseteq Sure
<1> SUFFICES ASSUME NEW c \in Sure' PROVE c \in Sure
  OBVIOUS
<1>1. c \in Cards /\ c # Nil  BY NilApart DEF Sure
<1>2. run.at \notin {"idle", "flags", "polled"} /\ run'.at \notin {"idle", "flags", "polled"}
  BY DEF Working
<1>3. \/ c = last_card_serial_no' /\ ~removals'
      \/ c = run'.card /\ ~run'.unsure
  BY <1>2 DEF Sure
<1>4. CASE c = last_card_serial_no' /\ ~removals'
  <2>1. c = last_card_serial_no /\ ~removals  BY <1>1, <1>4
  <2>2. QED  BY <1>1, <2>1 DEF Sure
<1>5. CASE c = run'.card /\ ~run'.unsure
  <2>1. ~run.unsure  BY <1>5
  <2>2. run.card # Nil  BY <1>2 DEF SlotKept
  <2>3. slot = run.card  BY <1>2, <2>1, <2>2 DEF SlotKept
  <2>4. c = run.card  BY <1>5, <2>3
  <2>5. QED  BY <1>1, <1>2, <2>1, <2>4 DEF Sure
<1>6. QED  BY <1>3, <1>4, <1>5

LEMMA LookedAt ==
  ASSUME Typed, FlagsKept, NEW read \in BOOLEAN, StatusChanges(read)
  PROVE  /\ last_card_serial_no' \in {slot, Nil} /\ last_card_state' \in BOOLEAN
         /\ removals' \in BOOLEAN /\ insertions' \in BOOLEAN
         /\ insertions' => last_card_state'
         /\ Something =>
              /\ last_card_state' \/ removals'
              /\ insertions' => removals'
              /\ ~removals' => \/ last_card_serial_no' = Nil
                               \/ last_card_serial_no' = last_card_serial_no /\ ~removals
         /\ slot = Nil => ~insertions' /\ (Something => removals')
         /\ slot # Nil /\ Readable /\ read => last_card_serial_no' = slot
         /\ slot # Nil /\ ~Readable => last_card_serial_no' = Nil
<1>1. /\ Something => last_card_state \/ removals
      /\ insertions => last_card_state
      /\ insertions /\ Something => removals
      /\ last_card_state \in BOOLEAN /\ removals \in BOOLEAN /\ insertions \in BOOLEAN
  BY DEF FlagsKept, Typed
<1>2. Readable => slot # Nil  BY DEF Readable
<1>3. CASE slot = Nil /\ last_card_serial_no' = Nil /\ last_card_state' = FALSE
           /\ removals' = (removals \/ last_card_state) /\ insertions' = FALSE
  BY <1>1, <1>2, <1>3
<1>4. CASE Readable /\ last_card_serial_no' = slot /\ last_card_state' = TRUE
           /\ removals' = (removals \/ (last_card_state /\ NewCard(slot)))
           /\ insertions' = (insertions \/ NewCard(slot))
  BY <1>1, <1>2, <1>4 DEF NewCard
<1>5. CASE slot # Nil /\ read = ~Readable /\ last_card_serial_no' = Nil /\ last_card_state' = TRUE
           /\ insertions' = (insertions \/ ~last_card_state) /\ removals' = removals
  BY <1>1, <1>2, <1>5
<1>6. QED  BY <1>3, <1>4, <1>5 DEF StatusChanges

LEMMA Noticed ==
  ASSUME Typed, FlagsKept, Working, NEW read \in BOOLEAN, StatusChanges(read)
  PROVE  /\ last_card_serial_no' \in {slot, Nil} /\ last_card_state' \in BOOLEAN
         /\ removals' \in BOOLEAN /\ insertions' \in BOOLEAN
         /\ last_card_state' \/ removals'
         /\ insertions' => last_card_state' /\ removals'
         /\ ~removals' => \/ last_card_serial_no' = Nil
                          \/ last_card_serial_no' = last_card_serial_no /\ ~removals
         /\ slot # Nil /\ ~Readable => last_card_serial_no' = Nil
<1>1. Something  BY DEF Something
<1>2. QED  BY <1>1, LookedAt

LEMMA FaultsTyped ==
  ASSUME Typed, NEW n \in 0 .. 2, Faults(n)
  PROVE  faults' \in 0 .. MaxFaults
<1>1. faults \in 0 .. MaxFaults  BY DEF Typed, TypeOK
<1>2. QED  BY <1>1 DEF Faults

(* A step that does not write to a card                                    *)
LEMMA Quiet ==
  ASSUME IndInv, Working, Working', UNCHANGED <<card, doubtful, shown>>,
         run'.all = run.all, run'.outer = run.outer, run'.ops # <<>>, EndOf(run'.ops, run.all),
         Sure' \subseteq Sure
  PROVE  JobKept' /\ MemoryKept' /\ HeldKept' /\ FilesKept'
<1>1. JobKept'  BY DEF IndInv, JobKept
<1>2. MemoryKept'  BY DEF IndInv, MemoryKept, shown
<1>3. Held' = Held  BY HeldSame DEF shown
<1>4. HeldKept'  BY <1>3 DEF IndInv, HeldKept, shown
<1>5. \A c : Whole(card[c])' <=> Whole(card[c])  BY DEF Whole
<1>6. FilesKept'  BY <1>5 DEF IndInv, FilesKept, shown
<1>7. QED  BY <1>1, <1>2, <1>4, <1>6

(* The next call, and the others after it                                  *)
LEMMA Passes ==
  ASSUME Typed, JobKept, CallsKept, At("calls"), run.calls # <<>>, call # "release",
         run'.at = "calls", run'.ops = run.ops, run'.result = run.result,
         run'.calls = Tail(run.calls)
  PROVE  CallsKept'
<1>1. run.result = "ok" /\ EndOf(Tail(run.calls), CallsOf(op))  BY CallFacts
<1>2. op' = op  BY DEF op
<1>3. EndOf(run'.calls, CallsOf(op)')  BY <1>1, <1>2 DEF CallsOf
<1>4. QED  BY <1>1, <1>3 DEF CallsKept

LEMMA FailsThen ==
  ASSUME CallsKept, At("calls"), run'.at = "calls", run'.ops = run.ops, run'.result # "ok",
         run'.calls \in {<<>>, Release}
  PROVE  CallsKept'
BY DEF CallsKept

(* The release of the card, after a call that failed                       *)
LEMMA NoRelease ==
  ASSUME NEW o \in OpType, NEW i \in 1 .. Len(CallsOf(o))
  PROVE  CallsOf(o)[i].call # "release"
<1> DEFINE s == CallsOf(o)
<1>1. o.kind \in {"save", "load", "delete", "format"}  BY DEF OpType
<1>2. CASE o.kind = "save"
  <2> DEFINE n == IF o.place = Settings THEN 9 ELSE 7
  <2>1. /\ Len(s) = n
        /\ s[1] = Call("notice") /\ s[2] = Call("mount")
        /\ s[3] = Call(IF o.make THEN "create" ELSE "open")
        /\ s[4] = [call |-> "erase", sector |-> o.place]
        /\ s[5] = [call |-> "program", sector |-> o.place]
        /\ n = 9 => /\ s[6] = [call |-> "erase", sector |-> 2]
                    /\ s[7] = [call |-> "program", sector |-> 2]
        /\ s[n - 1] = Call("status") /\ s[n] = Call("unmount")
    BY <1>2, SaveCalls
  <2> HIDE DEF s
  <2>2. i \in 1 .. n  BY <2>1 DEF s
  <2>3. n = 9 \/ n = 7  OBVIOUS
  <2>4. i \in 1 .. 5 \/ i = n - 1 \/ i = n \/ (n = 9 /\ i \in {6, 7})  BY <2>2, <2>3
  <2>5. s[i].call # "release"  BY <2>1, <2>3, <2>4 DEF Call
  <2>6. QED  BY <2>5 DEF s
<1>3. CASE o.kind = "load"
  <2>1. s = <<Call("mount"), Call("open"), Call("read"), Call("check"), Call("unmount")>>
    BY <1>3, OtherCalls
  <2>2. QED  BY <2>1 DEF Call
<1>4. CASE o.kind = "delete"
  <2>1. s = <<Call("mount"), Call("delete"), Call("unmount")>>  BY <1>4, OtherCalls
  <2>2. QED  BY <2>1 DEF Call
<1>5. CASE o.kind = "format"
  <2>1. s = <<Call("notice"), Call("mount"), Call("format"), Call("unmount")>>  BY <1>5, OtherCalls
  <2>2. QED  BY <2>1 DEF Call
<1>6. QED  BY <1>1, <1>2, <1>3, <1>4, <1>5

LEMMA Releasing ==
  ASSUME Typed, JobKept, CallsKept, At("calls"), run.calls # <<>>, call = "release"
  PROVE  run.calls = Release /\ (run.result # "ok" \/ op.make)
<1>1. Working  BY DEF Working
<1>2. op \in OpType /\ run.calls \in Seq(CallType) /\ Len(run.calls) \in Nat \ {0}
  <2>1. run.calls \in Seq(CallType)  BY DEF Typed, RunType
  <2>2. Len(run.calls) \in Nat \ {0}  BY <2>1
  <2>3. QED  BY <1>1, <2>1, <2>2, OpFacts
<1>3. call = run.calls[1].call  BY <1>2 DEF call
<1>4. CallsOf(op) \in Seq(CallType)  BY <1>2, CallsOfTyped
<1>5. ~EndOf(run.calls, CallsOf(op))
  <2>1. SUFFICES ASSUME EndOf(run.calls, CallsOf(op)) PROVE FALSE
    OBVIOUS
  <2>2. /\ Len(CallsOf(op)) - Len(run.calls) + 1 \in 1 .. Len(CallsOf(op))
        /\ run.calls[1] = CallsOf(op)[Len(CallsOf(op)) - Len(run.calls) + 1]
    BY <1>2, <1>4, <2>1, EndHead
  <2>3. CallsOf(op)[Len(CallsOf(op)) - Len(run.calls) + 1].call # "release"
    BY <1>2, <2>2, NoRelease
  <2>4. QED  BY <1>3, <2>2, <2>3
<1>6. QED  BY <1>5 DEF CallsKept

LEMMA Released ==
  ASSUME Typed, JobKept, CallsKept, At("calls"), run.calls # <<>>, call = "release",
         run'.at = "calls", run'.ops = run.ops, run'.result = run.result,
         run'.calls = Tail(run.calls)
  PROVE  CallsKept' /\ run'.calls = <<>>
<1>1. run.calls = Release /\ (run.result # "ok" \/ op.make)  BY Releasing
<1>2. Tail(Release) = <<>>  BY DEF Release
<1>3. op' = op  BY DEF op
<1>4. run'.calls = <<>> /\ (run'.result # "ok" \/ op'.make)  BY <1>1, <1>2, <1>3
<1>5. QED  BY <1>4 DEF CallsKept

(* A function begins: nothing has been called or written yet.              *)
LEMMA Starting ==
  ASSUME Typed, NEW r, r \in RunType, r.got \in Data \cup {Nil},
         NEW a \in Jobs, run' = Begun(r, a),
         \A i \in 1 .. Len(r.outer) :
           /\ r.outer[i] \in Profiles \cup NewFiles \cup {Reload}
           /\ r.outer[i] \in Profiles => r.outer[i][1].place = Settings
           /\ r.outer[i] = Reload => i = Len(r.outer),
         a \in Loads => r.outer = <<>>
  PROVE  /\ run' \in RunType /\ Working' /\ run'.at \in {"calls", "confirm"}
         /\ run'.all = a /\ run'.ops = a /\ run'.got = Nil /\ run'.outer = r.outer
         /\ run'.card = r.card /\ run'.unsure = r.unsure /\ run'.then = r.then
         /\ run'.tries = 1
         /\ JobKept' /\ CallsKept' /\ FormatKept' /\ WritesKept' /\ LoadKept'
<1>1. /\ a \in Seq(OpType) /\ a # <<>> /\ Len(a) \in Nat \ {0} /\ a[1] \in OpType
      /\ Head(a) = a[1] /\ a[1].kind = "format" <=> a = Formatted
  BY JobFacts
<1>2. CallsOf(Head(a)) \in Seq(CallType) /\ Len(CallsOf(Head(a))) \in Nat \ {0}
  BY <1>1, CallsOfTyped
<1>3. /\ run'.at = IF a[1].kind = "format" THEN "confirm" ELSE "calls"
      /\ run'.all = a /\ run'.ops = a /\ run'.got = Nil /\ run'.outer = r.outer
      /\ run'.card = r.card /\ run'.unsure = r.unsure /\ run'.then = r.then
      /\ run'.calls = CallsOf(a[1]) /\ run'.result = "ok" /\ run'.tries = 1
  <2> DEFINE w == IF Head(a).kind = "format" THEN "confirm" ELSE "calls"
             cs == CallsOf(Head(a))
  <2>1. run' = [r EXCEPT !.at = w, !.ops = a, !.all = a, !.tries = 1, !.calls = cs,
                         !.result = "ok", !.got = Nil]
    BY DEF Begun
  <2> HIDE DEF w, cs
  <2>2. /\ run'.at = w /\ run'.all = a /\ run'.ops = a /\ run'.got = Nil /\ run'.outer = r.outer
        /\ run'.card = r.card /\ run'.unsure = r.unsure /\ run'.then = r.then
        /\ run'.calls = cs /\ run'.result = "ok" /\ run'.tries = 1
    BY <2>1 DEF RunType
  <2>3. QED  BY <1>1, <2>2 DEF w, cs
<1>4. run' \in RunType
  <2>1. "ok" \in Statuses  BY DEF Statuses
  <2>2. QED  BY <1>1, <1>2, <2>1, ZenonT(60) DEF Begun, RunType
<1>5. Working' /\ run'.at \in {"calls", "confirm"}  BY <1>3 DEF Working
<1>6. EndOf(a, a) /\ EndOf(CallsOf(a[1]), CallsOf(a[1]))  BY <1>1, <1>2, EndWhole
<1>7. JobKept'  BY <1>1, <1>3, <1>5, <1>6 DEF JobKept
<1>8. op' = a[1]  BY <1>1, <1>3 DEF op
<1>9. CallsKept'  BY <1>3, <1>6, <1>8 DEF CallsKept
<1>11. FormatKept'  BY <1>3, <1>8 DEF FormatKept
<1>12. Nth' = 1
  <2>1. Nth' = Len(a) - Len(a) + 1  BY <1>3 DEF Nth
  <2>2. QED  BY <1>1, <2>1
<1>13. ~Opened' /\ ~Erased'
  <2>1. Len(run'.calls) = Len(CallsOf(a[1])) /\ Len(CallsOf(op)') = Len(CallsOf(a[1]))
    BY <1>3, <1>8 DEF CallsOf
  <2>2. QED  BY <1>1, <1>2, <2>1 DEF Opened, Erased
<1>14. WritesKept'  BY <1>3, <1>12, <1>13 DEF WritesKept
<1>15. LoadKept'  BY <1>3 DEF LoadKept
<1>16. QED  BY <1>3, <1>4, <1>5, <1>7, <1>9, <1>11, <1>14, <1>15

LEMMA IdleTyped ==
  /\ Idle \in RunType /\ Idle.at = "idle" /\ Idle.all = <<>> /\ Idle.outer = <<>>
  /\ Idle.got = Nil /\ Idle.card = Nil /\ Idle.unsure = FALSE /\ Idle.then = <<>>
  /\ Idle.tries = 0
<1>1. "ok" \in Statuses  BY DEF Statuses
<1>2. QED  BY <1>1 DEF Idle, RunType

LEMMA Waiting ==
  ASSUME NEW r \in RunType, NEW w \in {"idle", "flags", "look", "polled"},
         NEW t \in Seq(Statuses \cup {"save"}), NEW c \in Cards \cup {Nil}, NEW u \in BOOLEAN
  PROVE  [r EXCEPT !.at = w, !.then = t, !.card = c, !.unsure = u] \in RunType
BY DEF RunType

(* A function ends: what it did and what waited for it are forgotten.      *)
LEMMA Stopping ==
  ASSUME NEW w \in {"idle", "flags", "look", "polled"},
         NEW t \in Seq(Statuses \cup {"save"}), NEW c \in Cards \cup {Nil}, NEW u \in BOOLEAN,
         run' = [Idle EXCEPT !.at = w, !.then = t, !.card = c, !.unsure = u]
  PROVE  /\ run' \in RunType /\ ~Working' /\ run'.at = w /\ run'.all = <<>> /\ run'.outer = <<>>
         /\ run'.got = Nil /\ run'.card = c /\ run'.unsure = u /\ run'.tries = 0
         /\ JobKept' /\ LoadKept'
<1>1. /\ run' \in RunType /\ run'.at = w /\ run'.all = <<>> /\ run'.outer = <<>>
      /\ run'.got = Nil /\ run'.card = c /\ run'.unsure = u /\ run'.tries = 0
  <2>1. /\ Idle \in RunType /\ Idle.all = <<>> /\ Idle.outer = <<>> /\ Idle.got = Nil
        /\ Idle.tries = 0
    BY IdleTyped
  <2>2. run' \in RunType  BY <2>1, Waiting
  <2>3. /\ run'.at = w /\ run'.all = Idle.all /\ run'.outer = Idle.outer
        /\ run'.got = Idle.got /\ run'.card = c /\ run'.unsure = u /\ run'.tries = Idle.tries
    BY <2>1 DEF RunType
  <2>4. QED  BY <2>1, <2>2, <2>3
<1>2. ~Working'  BY <1>1 DEF Working
<1>3. <<>> \notin Loads  BY OtherFacts
<1>4. JobKept'  BY <1>1, <1>2, <1>3 DEF JobKept
<1>5. LoadKept'  BY <1>1 DEF LoadKept
<1>6. QED  BY <1>1, <1>2, <1>4, <1>5

LEMMA Rested ==
  ASSUME run' = Idle
  PROVE  /\ run' \in RunType /\ ~Working' /\ run'.at = "idle" /\ run'.all = <<>> /\ run'.outer = <<>>
         /\ run'.got = Nil /\ run'.card = Nil /\ run'.unsure = FALSE /\ run'.tries = 0
         /\ JobKept' /\ LoadKept'
<1>1. /\ run' \in RunType /\ run'.at = "idle" /\ run'.all = <<>> /\ run'.outer = <<>>
      /\ run'.got = Nil /\ run'.card = Nil /\ run'.unsure = FALSE /\ run'.tries = 0
  BY IdleTyped
<1>2. ~Working'  BY <1>1 DEF Working
<1>3. <<>> \notin Loads  BY OtherFacts
<1>4. JobKept'  BY <1>1, <1>2, <1>3 DEF JobKept
<1>5. LoadKept'  BY <1>1 DEF LoadKept
<1>6. QED  BY <1>1, <1>2, <1>4, <1>5

LEMMA StoppedMemory ==
  ASSUME run'.all = <<>>, run'.outer = <<>>
  PROVE  /\ MemoryKept'
         /\ Held' = {settings'} \ {Nil}
<1>1. <<>> \notin Profiles /\ <<>> # Reload
  BY ProfileFacts, OtherFacts
<1>2. MemoryKept'  BY <1>1 DEF MemoryKept
<1>3. DataOf(<<>>) = {}  BY DEF DataOf
<1>4. Held' = {settings'} \ {Nil}  BY <1>3 DEF Held, DataOf
<1>5. QED  BY <1>2, <1>4

----------------------------------------------------------------------------
(* The start                                                               *)

LEMMA BlankFiles ==
  /\ Blank \in SectorType /\ Torn \in SectorType /\ Torn # Blank
  /\ NoFile \in FileType /\ ~NoFile.file /\ \A s \in Sectors : NoFile.sector[s] = Blank
  /\ Unformatted \in FileType /\ ~Unformatted.file /\ \A s \in Sectors : Unformatted.sector[s] = Blank
  /\ NoFile.made /\ ~NoFile.icon
  /\ DOMAIN NoFile = {"made", "file", "icon", "sector"}
<1>1. Blank \in SectorType /\ Torn \in SectorType /\ Torn # Blank
  BY DEF Blank, Torn, SectorType
<1>2. /\ Unformatted \in FileType /\ ~Unformatted.file
      /\ \A s \in Sectors : Unformatted.sector[s] = Blank
  BY <1>1 DEF Unformatted, FileType
<1>3. /\ NoFile \in FileType /\ ~NoFile.file /\ \A s \in Sectors : NoFile.sector[s] = Blank
      /\ NoFile.made /\ ~NoFile.icon /\ DOMAIN NoFile = {"made", "file", "icon", "sector"}
  BY <1>1 DEF NoFile, Unformatted, FileType
<1>4. QED  BY <1>1, <1>2, <1>3

LEMMA FullFile ==
  ASSUME NEW d \in Data
  PROVE  /\ FullOf(d) \in FileType /\ FullOf(d).file
         /\ \A s \in Sectors : FullOf(d).sector[s] # Blank /\ FullOf(d).sector[s].data = d
<1>1. [data |-> d, sum |-> TRUE] \in SectorType /\ [data |-> d, sum |-> TRUE] # Blank
  BY NilApart DEF SectorType, Blank
<1>2. QED  BY <1>1 DEF FullOf, FileType

LEMMA FirstData == \A c \in Cards : [of |-> c, version |-> 1] \in Data
BY DEF Data

LEMMA Start == Init => IndInv
<1> SUFFICES ASSUME Init PROVE IndInv
  OBVIOUS
<1>1. /\ slot = Nil /\ attached = FALSE /\ doubtful = {}
      /\ last_card_serial_no = Nil /\ last_card_state = FALSE
      /\ removals = FALSE /\ insertions = FALSE
      /\ status = "absent" /\ settings = Nil /\ origin = "own"
      /\ run = Idle /\ faults = 0
  BY DEF Init
<1>2. /\ run \in RunType /\ run.at = "idle" /\ run.all = <<>> /\ run.outer = <<>>
      /\ run.got = Nil /\ run.tries = 0
  BY <1>1, IdleTyped
<1>3. ASSUME NEW c \in Cards
      PROVE  /\ card[c] \in FileType
             /\ card[c].sector[2].data # Nil => Whole(card[c])
             /\ \A s \in Sectors : card[c].sector[s].data # Nil => card[c].sector[s].data.of = c
  <2>1. \/ card[c] \in {Unformatted, NoFile}
        \/ \E e \in Cards : card[c] = FullOf([of |-> e, version |-> 1])
    BY DEF Init
  <2>2. 2 \in Sectors /\ Settings \in Sectors /\ Places \subseteq Sectors  BY CallsTyped DEF Settings
  <2>3. CASE card[c] \in {Unformatted, NoFile}
    <3>1. card[c] \in FileType /\ \A s \in Sectors : card[c].sector[s] = Blank
      BY <2>3, BlankFiles
    <3>2. \A s \in Sectors : card[c].sector[s].data = Nil  BY <3>1 DEF Blank
    <3>3. QED  BY <2>2, <3>1, <3>2
  <2>4. CASE \E e \in Cards : card[c] = FullOf([of |-> e, version |-> 1])
    <3>1. PICK e \in Cards : card[c] = FullOf([of |-> e, version |-> 1])  BY <2>4
    <3> DEFINE d == [of |-> e, version |-> 1]
    <3>2. d \in Data  BY FirstData
    <3> HIDE DEF d
    <3>3. /\ card[c] \in FileType /\ card[c].file
          /\ \A s \in Sectors : card[c].sector[s] # Blank /\ card[c].sector[s].data = d
      BY <3>1, <3>2, FullFile DEF d
    <3>4. card[c].sector[Settings].data.of = c  BY <3>3 DEF Init
    <3>5. d.of = c  BY <2>2, <3>3, <3>4
    <3>6. Whole(card[c])  BY <2>2, <3>3 DEF Whole
    <3>7. QED  BY <3>3, <3>5, <3>6
  <2>5. QED  BY <2>1, <2>3, <2>4
<1>4. card \in [Cards -> FileType]  BY <1>3 DEF Init
<1>5. Typed
  <2>1. TypeOK
    <3>1. DOMAIN card = Cards /\ 0 \in 0 .. MaxFaults /\ 0 \in 0 .. 2  BY <1>4
    <3>2. QED  BY <1>1, <1>2, <3>1 DEF TypeOK
  <2>2. QED  BY <1>1, <1>2, <1>4, <2>1 DEF Typed
<1>6. ~Working  BY <1>2 DEF Working
<1>7. JobKept /\ LoadKept
  <2>1. <<>> \notin Loads  BY OtherFacts
  <2>2. QED  BY <1>2, <1>6, <2>1 DEF JobKept, LoadKept
<1>8. SlotKept /\ FlagsKept  BY <1>1, <1>2, <1>6 DEF SlotKept, FlagsKept, Something
<1>9. HeldKept /\ MemoryKept
  <2>1. <<>> \notin Profiles /\ <<>> # Reload  BY ProfileFacts, OtherFacts
  <2>2. MemoryKept  BY <1>2, <2>1 DEF MemoryKept
  <2>3. Held = {}  BY <1>1, <1>2 DEF Held, DataOf
  <2>4. QED  BY <2>2, <2>3 DEF HeldKept
<1>10. FilesKept  BY <1>1, <1>3 DEF FilesKept
<1>11. QED  BY <1>5, <1>6, <1>7, <1>8, <1>9, <1>10 DEF IndInv

----------------------------------------------------------------------------
(* The world                                                               *)

LEMMA PutInKeeps ==
  ASSUME IndInv, NEW x \in Cards, PutIn(x)
  PROVE  IndInv'
<1>1. /\ slot = Nil /\ slot' = x
      /\ UNCHANGED <<card, attached, doubtful, known, shown, run, answer, faults>>
  BY DEF PutIn
<1>2. ~attached  BY <1>1 DEF IndInv, SlotKept
<1>3. x # Nil  BY NilApart
<1>4. Typed'  BY <1>1 DEF IndInv, Typed, TypeOK, known, shown
<1>41. JobKept' /\ FlagsKept' /\ MemoryKept' /\ LoadKept'
  <2>1. JobKept'  BY <1>1 DEF IndInv, JobKept, Working
  <2>2. FlagsKept'  BY <1>1 DEF IndInv, FlagsKept, Something, Working, known, shown
  <2>3. MemoryKept'  BY <1>1 DEF IndInv, MemoryKept, shown
  <2>4. LoadKept'  BY <1>1 DEF IndInv, LoadKept, Whole
  <2>5. QED  BY <2>1, <2>2, <2>3, <2>4
<1>42. Sure' = Sure /\ Held' = Held
  BY <1>1 DEF Sure, Held, DataOf, known, shown
<1>43. HeldKept' /\ FilesKept'
  BY <1>1, <1>42 DEF IndInv, HeldKept, FilesKept, Whole, shown
<1>44. Working' => CallsKept'
  BY <1>1, ZenonT(60) DEF IndInv, Working, CallsKept, EndOf, CallsOf, op
<1>45. Working' => WritesKept'
  BY <1>1, <1>2, <1>42 DEF IndInv, Working, WritesKept, Opened, Erased, Saves, CallsOf, op, Nth
<1>5. SlotKept'  BY <1>1, <1>2 DEF IndInv, SlotKept, Working, known, shown
<1>7. Working' => FormatKept'
  BY <1>1 DEF IndInv, FormatKept, Working, op, known
<1>8. QED  BY <1>4, <1>41, <1>43, <1>44, <1>45, <1>5, <1>7 DEF IndInv

LEMMA TakeOutKeeps ==
  ASSUME IndInv, TakeOut
  PROVE  IndInv'
<1>1. /\ slot' = Nil /\ attached' = FALSE /\ Faults(1)
      /\ run' = [run EXCEPT !.unsure = ~At("idle")]
      /\ UNCHANGED <<card, doubtful, known, shown, answer>>
  BY DEF TakeOut
<1>2. Typed /\ run \in RunType  BY DEF IndInv, Typed
<1>3. /\ run' \in RunType /\ run'.unsure = (run.at # "idle") /\ run'.at = run.at
      /\ run'.all = run.all /\ run'.ops = run.ops /\ run'.outer = run.outer
      /\ run'.calls = run.calls /\ run'.result = run.result /\ run'.got = run.got
      /\ run'.from = run.from /\ run'.card = run.card /\ run'.may = run.may
      /\ run'.tries = run.tries
  <2> DEFINE u == ~At("idle")
  <2>1. u \in BOOLEAN /\ run' = [run EXCEPT !.unsure = u]  BY <1>1
  <2>2. u = (run.at # "idle")  OBVIOUS
  <2> HIDE DEF u
  <2>3. QED  BY <1>2, <2>1, <2>2 DEF RunType
<1>4. Typed'
  <2>1. faults' \in 0 .. MaxFaults  BY <1>1, <1>2, FaultsTyped
  <2>2. QED  BY <1>1, <1>2, <1>3, <2>1 DEF Typed, TypeOK, known, shown
<1>5. Working' <=> Working  BY <1>3 DEF Working
<1>6. JobKept' /\ FlagsKept' /\ MemoryKept'
  <2>1. JobKept'  BY <1>3, <1>5 DEF IndInv, JobKept
  <2>2. FlagsKept'  BY <1>1, <1>5 DEF IndInv, FlagsKept, Something, known, shown
  <2>3. MemoryKept'  BY <1>1, <1>3 DEF IndInv, MemoryKept, shown
  <2>4. QED  BY <2>1, <2>2, <2>3
<1>7. LoadKept'
  <2>1. run.got # Nil => run.at # "idle"  BY DEF IndInv, JobKept, Working
  <2>2. LoadKept  BY DEF IndInv
  <2> SUFFICES ASSUME run'.got # Nil PROVE LoadKept'
    BY DEF LoadKept
  <2>3. run'.unsure  BY <1>3, <2>1
  <2>4. /\ run'.all \in Loads /\ run'.from # Nil
        /\ run'.all = Reload /\ run'.from \notin doubtful => Whole(card[run'.from])
    BY <1>3, <2>2 DEF LoadKept
  <2>5. Whole(card[run.from])' <=> Whole(card[run'.from])  BY <1>1 DEF Whole
  <2>6. doubtful' = doubtful  BY <1>1
  <2>7. QED  BY <2>3, <2>4, <2>5, <2>6 DEF LoadKept
<1>8. SlotKept'  BY <1>1, <1>3, <1>5 DEF IndInv, SlotKept, known, shown
<1>9. Sure' \subseteq Sure  BY <1>1, <1>3 DEF Sure, known
<1>10. Held' = Held  BY <1>1, <1>3, HeldSame DEF shown
<1>11. HeldKept' /\ FilesKept'
  BY <1>1, <1>9, <1>10 DEF IndInv, HeldKept, FilesKept, Whole, shown
<1>12. op' = op  BY <1>3 DEF op
<1>13. Working' => CallsKept'
  BY <1>3, <1>5, <1>12 DEF IndInv, CallsKept
<1>15. Working' => FormatKept'
  BY <1>1, <1>3, <1>5, <1>12 DEF IndInv, FormatKept, known
<1>16. Working' => WritesKept'
  <2>1. Opened' = Opened /\ Erased' = Erased /\ Nth' = Nth
    BY <1>3, <1>12 DEF Opened, Erased, Saves, Nth
  <2>2. Working => WritesKept  BY DEF IndInv
  <2>3. QED  BY <1>1, <1>3, <1>5, <1>9, <1>12, <2>1, <2>2 DEF WritesKept
<1>17. QED
  BY <1>4, <1>6, <1>7, <1>8, <1>11, <1>13, <1>15, <1>16 DEF IndInv

LEMMA PowerFailsKeeps ==
  ASSUME IndInv, PowerFails
  PROVE  IndInv'
<1>1. /\ attached' = FALSE /\ last_card_serial_no' = Nil /\ last_card_state' = FALSE
      /\ removals' = FALSE /\ insertions' = FALSE
      /\ status' = "absent" /\ settings' = Nil /\ origin' = "own"
      /\ run' = Idle /\ Faults(1) /\ UNCHANGED <<card, slot, doubtful>>
  BY DEF PowerFails
<1>2. Typed  BY DEF IndInv
<1>3. /\ run' \in RunType /\ ~Working' /\ run'.at = "idle" /\ run'.all = <<>> /\ run'.outer = <<>>
      /\ run'.tries = 0 /\ JobKept' /\ LoadKept'
  BY <1>1, Rested
<1>4. Typed'
  <2>1. faults' \in 0 .. MaxFaults  BY <1>1, <1>2, FaultsTyped
  <2>2. 0 \in 0 .. 2  OBVIOUS
  <2>3. QED  BY <1>1, <1>2, <1>3, <2>1, <2>2 DEF Typed, TypeOK
<1>5. MemoryKept' /\ Held' = {}  BY <1>1, <1>3, StoppedMemory
<1>6. HeldKept' /\ FilesKept'
  BY <1>1, <1>2, <1>5 DEF IndInv, HeldKept, FilesKept, Whole
<1>7. SlotKept' /\ FlagsKept'  BY <1>1, <1>3 DEF SlotKept, FlagsKept, Something
<1>8. QED  BY <1>3, <1>4, <1>5, <1>6, <1>7 DEF IndInv

----------------------------------------------------------------------------
(* The game                                                                *)

LEMMA PollKeeps ==
  ASSUME IndInv, ~Working, NEW t \in Seq(Statuses \cup {"save"}), Poll(t)
  PROVE  IndInv'
<1>1. PICK read \in BOOLEAN :
        /\ run' = [Idle EXCEPT !.at = "flags", !.then = t, !.card = slot,
                               !.unsure = slot # Nil /\ ~(Readable /\ read)]
        /\ StatusChanges(read) /\ Faults(Bad(read)) /\ attached' = FALSE
        /\ UNCHANGED <<card, slot, doubtful, shown, answer>>
  BY DEF Poll
<1>2. Typed /\ FlagsKept  BY DEF IndInv
<1>3. slot \in Cards \cup {Nil}  BY <1>2 DEF Typed, TypeOK
<1>4. /\ run' \in RunType /\ ~Working' /\ run'.at = "flags" /\ run'.all = <<>> /\ run'.outer = <<>>
      /\ run'.card = slot /\ run'.unsure = (slot # Nil /\ ~(Readable /\ read)) /\ run'.tries = 0
      /\ JobKept' /\ LoadKept'
  BY <1>1, <1>3, Stopping
<1>5. /\ last_card_serial_no' \in {slot, Nil} /\ last_card_state' \in BOOLEAN
      /\ removals' \in BOOLEAN /\ insertions' \in BOOLEAN
      /\ insertions' => last_card_state'
      /\ Something =>
           /\ last_card_state' \/ removals'
           /\ insertions' => removals'
           /\ ~removals' => \/ last_card_serial_no' = Nil
                            \/ last_card_serial_no' = last_card_serial_no /\ ~removals
      /\ slot = Nil => ~insertions' /\ (Something => removals')
      /\ slot # Nil /\ Readable /\ read => last_card_serial_no' = slot
  BY <1>1, <1>2, LookedAt
<1>6. Typed'
  <2>1. faults' \in 0 .. MaxFaults
    <3>1. Bad(read) \in 0 .. 2  BY DEF Bad
    <3>2. QED  BY <1>1, <1>2, <3>1, FaultsTyped
  <2>2. 0 \in 0 .. 2  OBVIOUS
  <2>3. QED  BY <1>1, <1>2, <1>3, <1>4, <1>5, <2>1, <2>2 DEF Typed, TypeOK, shown
<1>7. Something' => Something  BY <1>1, <1>4 DEF Something, shown
<1>8. FlagsKept'  BY <1>1, <1>2, <1>5, <1>7 DEF FlagsKept, shown
<1>9. SlotKept'
  <2>1. ~run'.unsure /\ run'.card # Nil => slot' = run'.card /\ last_card_serial_no' \in {slot', Nil}
    BY <1>1, <1>4, <1>5
  <2>2. run'.card = Nil => ~insertions' /\ ((settings' = Nil /\ status' = "absent") \/ removals')
    <3>1. ~Something => settings = Nil /\ status = "absent"  BY DEF Something
    <3>2. QED  BY <1>1, <1>4, <1>5, <3>1 DEF shown
  <2>3. QED  BY <1>1, <1>4, <2>1, <2>2 DEF SlotKept
<1>10. MemoryKept' /\ Held' = {settings'} \ {Nil}  BY <1>4, StoppedMemory
<1>11. run.all = <<>> /\ run.outer = <<>>  BY DEF IndInv, JobKept
<1>12. settings # Nil => Sure' \subseteq Sure
  <2> SUFFICES ASSUME settings # Nil, NEW c \in Sure' PROVE c \in Sure
    OBVIOUS
  <2>1. Something /\ c \in Cards /\ c # Nil  BY NilApart DEF Something, Sure
  <2>2. \/ c = last_card_serial_no' /\ ~removals'
        \/ c = slot /\ ~run'.unsure /\ ~removals'
    BY <1>4 DEF Sure
  <2>3. c = last_card_serial_no' /\ ~removals'
    <3>1. CASE c = slot /\ ~run'.unsure /\ ~removals'
      <4>1. slot # Nil /\ Readable /\ read  BY <1>4, <2>1, <3>1
      <4>2. QED  BY <1>5, <3>1, <4>1
    <3>2. QED  BY <2>2, <3>1
  <2>4. c = last_card_serial_no /\ ~removals  BY <1>5, <2>1, <2>3
  <2>5. QED  BY <2>1, <2>4 DEF Sure
<1>13. settings # Nil => settings \in Held  BY DEF Held
<1>14. HeldKept'
  BY <1>1, <1>10, <1>12, <1>13 DEF IndInv, HeldKept, shown
<1>15. FilesKept'  BY <1>1, <1>12 DEF IndInv, FilesKept, Whole, shown
<1>16. QED  BY <1>4, <1>6, <1>8, <1>9, <1>10, <1>14, <1>15 DEF IndInv

LEMMA LookKeeps ==
  ASSUME IndInv, NEW then \in {<<>>, <<"save">>, Remedies}, Look(then)
  PROVE  IndInv'
<1> DEFINE S == Statuses \cup {"save"}
<1>1. "save" \in S /\ "unformatted" \in S /\ "damaged" \in S /\ "no_file" \in S  BY DEF Statuses
<1> HIDE DEF S
<1>2. Remedies \in Seq(S)  BY <1>1, ThreeLong DEF Remedies
<1>3. <<"save">> \in Seq(S)  BY <1>1, OneLong
<1>4. <<>> \in Seq(S)  OBVIOUS
<1>5. then \in Seq(S)  BY <1>2, <1>3, <1>4
<1>6. ~Working /\ Poll(then)  BY DEF Look, Working
<1>7. QED  BY <1>5, <1>6, PollKeeps DEF S

LEMMA LookAgainKeeps ==
  ASSUME IndInv, LookAgain
  PROVE  IndInv'
<1>1. run.then \in Seq(Statuses \cup {"save"})  BY DEF IndInv, Typed, RunType
<1>2. ~Working /\ Poll(run.then)  BY DEF LookAgain, Working
<1>3. QED  BY <1>1, <1>2, PollKeeps

LEMMA NoData ==
  ASSUME NEW a \in Loads \cup {Deletion, Formatted}
  PROVE  DataOf(a) = {}
<1>1. Len(a) = 1 /\ a[1].kind # "save"  BY OtherFacts
<1>2. QED  BY <1>1 DEF DataOf

LEMMA InsertedKeeps ==
  ASSUME IndInv, Inserted
  PROVE  IndInv'
<1>1. /\ run.at = "flags" /\ insertions /\ Removed /\ removals' = FALSE /\ insertions' = FALSE
      /\ run' = Begun(run, Reload)
      /\ UNCHANGED <<card, slot, attached, doubtful, last_card_serial_no, last_card_state, faults>>
  BY DEF Inserted, Reload, hardware
<1>2. Typed /\ run \in RunType /\ SlotKept /\ FlagsKept  BY DEF IndInv, Typed
<1>3. ~Working /\ run.outer = <<>> /\ run.got = Nil  BY <1>1 DEF Working, IndInv, JobKept
<1>4. Reload \in Jobs /\ Reload \in Loads /\ Reload \notin Profiles
  <2>1. Reload \in Loads  BY OtherFacts
  <2>2. QED  BY <2>1, ProfileFacts, OtherFacts DEF Jobs
<1>5. /\ run' \in RunType /\ Working' /\ run'.at \in {"calls", "confirm"}
      /\ run'.all = Reload /\ run'.outer = <<>> /\ run'.card = run.card /\ run'.unsure = run.unsure
      /\ run'.tries = 1
      /\ JobKept' /\ CallsKept' /\ FormatKept' /\ WritesKept' /\ LoadKept'
  BY <1>1, <1>2, <1>3, <1>4, Starting
<1>6. settings' = Nil /\ origin' \in {"own", "other", "gone"} /\ status' \in Statuses
  <2>1. CASE removals  BY <1>1, <2>1 DEF Removed, Statuses
  <2>2. CASE ~removals
    <3>1. ~Something  BY <1>1, <1>2, <2>2 DEF FlagsKept
    <3>2. settings = Nil /\ status = "absent"  BY <3>1 DEF Something
    <3>3. QED  BY <1>1, <1>2, <2>2, <3>2 DEF Typed, Removed, shown, Statuses
  <2>3. QED  BY <2>1, <2>2
<1>7. Typed'
  <2>1. 1 \in 0 .. 2  OBVIOUS
  <2>2. QED  BY <1>1, <1>2, <1>5, <1>6, <2>1 DEF Typed, TypeOK, Statuses
<1>8. SlotKept'
  <2>1. run.card # Nil  BY <1>1, <1>2 DEF SlotKept
  <2>2. QED  BY <1>1, <1>2, <1>5, <2>1 DEF SlotKept
<1>9. FlagsKept'  BY <1>1, <1>2, <1>6 DEF FlagsKept
<1>10. MemoryKept'  BY <1>4, <1>5, <1>6 DEF MemoryKept
<1>11. Held' = {}
  <2>1. DataOf(Reload) = {}  BY <1>4, NoData
  <2>2. QED  BY <1>5, <1>6, <2>1 DEF Held
<1>12. HeldKept' /\ FilesKept'  BY <1>1, <1>6, <1>11 DEF IndInv, HeldKept, FilesKept, Whole
<1>13. QED  BY <1>5, <1>7, <1>8, <1>9, <1>10, <1>12 DEF IndInv

LEMMA BackFacts ==
  ASSUME Typed, NEW w \in {"look", "polled"}
  PROVE  /\ Back(w) \in RunType /\ Back(w).at = w /\ Back(w).all = <<>> /\ Back(w).outer = <<>>
         /\ Back(w).got = Nil /\ Back(w).card = run.card /\ Back(w).unsure = run.unsure
         /\ Back(w).tries = 0
<1>1. run.then \in Seq(Statuses \cup {"save"})  BY DEF Typed, RunType
<1>2. run.card \in Cards \cup {Nil}  BY DEF Typed, RunType
<1>3. run.unsure \in BOOLEAN  BY DEF Typed, RunType
<1>4. /\ Idle \in RunType /\ Idle.all = <<>> /\ Idle.outer = <<>> /\ Idle.got = Nil
      /\ Idle.tries = 0
  BY IdleTyped
<1>5. Back(w) \in RunType
  <2>1. w \in {"idle", "flags", "look", "polled"}  OBVIOUS
  <2>2. PICK t \in Seq(Statuses \cup {"save"}), c \in Cards \cup {Nil}, u \in BOOLEAN :
          t = run.then /\ c = run.card /\ u = run.unsure
    BY <1>1, <1>2, <1>3
  <2>3. Back(w) = [Idle EXCEPT !.at = w, !.then = t, !.card = c, !.unsure = u]
    BY <2>2 DEF Back
  <2>4. [Idle EXCEPT !.at = w, !.then = t, !.card = c, !.unsure = u] \in RunType
    <3>1. PICK r \in RunType : r = Idle  BY <1>4
    <3>2. [r EXCEPT !.at = w, !.then = t, !.card = c, !.unsure = u] \in RunType
      BY <2>1 DEF RunType
    <3>3. QED  BY <3>1, <3>2
  <2>5. QED  BY <2>3, <2>4
<1>6. /\ Back(w).at = w /\ Back(w).all = Idle.all /\ Back(w).outer = Idle.outer
      /\ Back(w).got = Idle.got /\ Back(w).card = run.card /\ Back(w).unsure = run.unsure
      /\ Back(w).tries = Idle.tries
  BY <1>4 DEF Back, RunType
<1>7. QED  BY <1>4, <1>5, <1>6

LEMMA Stopped ==
  ASSUME run'.at \in {"idle", "flags", "look", "polled"}, run'.all = <<>>, run'.outer = <<>>,
         run'.got = Nil
  PROVE  ~Working' /\ JobKept' /\ LoadKept'
<1>1. ~Working'  BY DEF Working
<1>2. <<>> \notin Loads  BY OtherFacts
<1>3. JobKept'  BY <1>1, <1>2 DEF JobKept
<1>4. LoadKept'  BY DEF LoadKept
<1>5. QED  BY <1>1, <1>3, <1>4

LEMMA OnlyRemovedKeeps ==
  ASSUME IndInv, OnlyRemoved
  PROVE  IndInv'
<1>1. /\ run.at = "flags" /\ ~insertions /\ removals /\ Removed /\ removals' = FALSE
      /\ UNCHANGED <<card, slot, attached, doubtful, insertions, last_card_serial_no,
                     last_card_state, faults>>
  BY DEF OnlyRemoved, hardware
<1>2. PICK w \in {"look", "polled"} : run' = Back(w)  BY DEF OnlyRemoved
<1>3. Typed /\ run \in RunType /\ SlotKept /\ FlagsKept  BY DEF IndInv, Typed
<1>4. /\ run' \in RunType /\ run'.at = w /\ run'.all = <<>> /\ run'.outer = <<>>
      /\ run'.got = Nil /\ run'.card = run.card /\ run'.unsure = run.unsure /\ run'.tries = 0
  BY <1>2, <1>3, BackFacts
<1>5. ~Working' /\ JobKept' /\ LoadKept'  BY <1>2, <1>4, Stopped
<1>6. settings' = Nil /\ status' = "absent" /\ origin' = "own"  BY <1>1 DEF Removed
<1>7. Typed'
  <2>1. 0 \in 0 .. 2  OBVIOUS
  <2>2. TypeOK'  BY <1>1, <1>3, <1>4, <1>6, <2>1 DEF Typed, TypeOK
  <2>3. QED  BY <1>1, <1>3, <1>4, <1>6, <2>2 DEF Typed
<1>8. SlotKept'  BY <1>1, <1>2, <1>3, <1>4, <1>5, <1>6 DEF SlotKept
<1>9. FlagsKept'  BY <1>1, <1>3, <1>5, <1>6 DEF FlagsKept, Something
<1>10. MemoryKept' /\ Held' = {}  BY <1>4, <1>6, StoppedMemory
<1>11. HeldKept' /\ FilesKept'  BY <1>1, <1>6, <1>10 DEF IndInv, HeldKept, FilesKept, Whole
<1>12. QED  BY <1>5, <1>7, <1>8, <1>9, <1>10, <1>11 DEF IndInv

(* Nothing is done.                                                        *)
LEMMA Ceases ==
  ASSUME IndInv, Polled, run' = Idle, UNCHANGED <<hardware, known, shown, faults>>
  PROVE  IndInv'
<1>1. /\ run.at \in {"polled", "flags"} /\ run' = Idle
      /\ UNCHANGED <<card, slot, attached, doubtful, known, shown, faults>>
  BY DEF Polled, hardware
<1>2. Typed /\ SlotKept /\ FlagsKept  BY DEF IndInv
<1>3. /\ run' \in RunType /\ ~Working' /\ run'.at = "idle" /\ run'.all = <<>> /\ run'.outer = <<>>
      /\ run'.tries = 0 /\ JobKept' /\ LoadKept'
  BY <1>1, Rested
<1>4. Typed'
  <2>1. 0 \in 0 .. 2  OBVIOUS
  <2>2. QED  BY <1>1, <1>2, <1>3, <2>1 DEF Typed, TypeOK, known, shown
<1>5. SlotKept'  BY <1>1, <1>2, <1>3 DEF SlotKept
<1>6. FlagsKept'  BY <1>1, <1>2, <1>3 DEF FlagsKept, Something, known, shown
<1>7. MemoryKept' /\ Held' = {settings'} \ {Nil}  BY <1>3, StoppedMemory
<1>8. Held' \subseteq Held  BY <1>1, <1>7 DEF Held, shown
<1>9. Sure' \subseteq Sure  BY <1>1, <1>3 DEF Sure, known
<1>10. HeldKept' /\ FilesKept'
  BY <1>1, <1>8, <1>9 DEF IndInv, HeldKept, FilesKept, Whole, shown
<1>11. QED  BY <1>3, <1>4, <1>5, <1>6, <1>7, <1>10 DEF IndInv

LEMMA NothingKeeps ==
  ASSUME IndInv, Nothing
  PROVE  IndInv'
BY Ceases DEF Nothing

----------------------------------------------------------------------------
(* Steps of a function that leave the cards as they are                    *)

LEMMA PassedFacts ==
  ASSUME Typed, run.calls # <<>>, run' = Passed
  PROVE  /\ run' \in RunType /\ run'.calls = Tail(run.calls)
         /\ run'.at = run.at /\ run'.card = run.card /\ run'.then = run.then /\ run'.ops = run.ops
         /\ run'.all = run.all /\ run'.tries = run.tries /\ run'.result = run.result
         /\ run'.got = run.got /\ run'.from = run.from /\ run'.outer = run.outer
         /\ run'.may = run.may /\ run'.unsure = run.unsure
<1>1. run \in RunType  BY DEF Typed
<1>2. run.calls \in Seq(CallType)  BY <1>1 DEF RunType
<1>3. PICK s \in Seq(CallType) : s = Tail(run.calls)  BY <1>2, HeadTailProperties
<1>4. run' = [run EXCEPT !.calls = s]  BY <1>3 DEF Passed
<1>5. QED  BY <1>1, <1>3, <1>4 DEF RunType

LEMMA FailsFacts ==
  ASSUME Typed, NEW result \in Statuses, NEW cleanup \in {<<>>, Release},
         run' = Fails(result, cleanup)
  PROVE  /\ run' \in RunType /\ run'.calls = cleanup /\ run'.result = result
         /\ run'.at = run.at /\ run'.card = run.card /\ run'.then = run.then /\ run'.ops = run.ops
         /\ run'.all = run.all /\ run'.tries = run.tries
         /\ run'.got = run.got /\ run'.from = run.from /\ run'.outer = run.outer
         /\ run'.may = run.may /\ run'.unsure = run.unsure
<1>1. run \in RunType  BY DEF Typed
<1>2. cleanup \in Seq(CallType)
  <2>1. Call("release") \in CallType  BY CallsTyped DEF CallNames
  <2>2. Release \in Seq(CallType)  BY <2>1 DEF Release
  <2>3. <<>> \in Seq(CallType)  OBVIOUS
  <2>4. QED  BY <2>2, <2>3
<1>3. run' = [run EXCEPT !.result = result, !.calls = cleanup]  BY DEF Fails
<1>4. QED  BY <1>1, <1>2, <1>3 DEF RunType

(* What may be learned of the slot while a function works                  *)
Learned ==
  /\ last_card_serial_no' \in {last_card_serial_no, slot, Nil} /\ last_card_state' \in BOOLEAN
  /\ removals' \in BOOLEAN /\ insertions' \in BOOLEAN
  /\ last_card_state' \/ removals'
  /\ insertions' => last_card_state' /\ removals'
  /\ ~removals' => \/ last_card_serial_no' = Nil
                   \/ last_card_serial_no' = last_card_serial_no /\ ~removals

LEMMA NothingLearned ==
  ASSUME IndInv, Working, last_card_serial_no' \in {last_card_serial_no, Nil},
         UNCHANGED <<last_card_state, removals, insertions>>
  PROVE  Learned
BY DEF IndInv, Typed, FlagsKept, Something, Learned

LEMMA NoticedLearned ==
  ASSUME IndInv, Working, NEW read \in BOOLEAN, StatusChanges(read)
  PROVE  Learned
<1>1. Typed /\ FlagsKept  BY DEF IndInv
<1>2. QED  BY <1>1, Noticed DEF Learned

LEMMA Steps ==
  ASSUME IndInv, Working, Working', run' \in RunType, Learned,
         run'.all = run.all, run'.outer = run.outer, run'.unsure = run.unsure,
         run'.ops # <<>>, EndOf(run'.ops, run.all),
         run'.card = run.card \/ (run'.card = slot /\ slot # Nil),
         UNCHANGED <<card, slot, doubtful, shown>>,
         attached' \in BOOLEAN, attached' => slot # Nil, faults' \in 0 .. MaxFaults
  PROVE  /\ Typed' /\ JobKept' /\ SlotKept' /\ FlagsKept' /\ HeldKept' /\ MemoryKept' /\ FilesKept'
         /\ Sure' \subseteq Sure
<1>1. Typed /\ SlotKept /\ FlagsKept /\ run.at # "idle" /\ run'.at # "idle"
      /\ run.at # "flags" /\ run'.at # "flags"
  BY DEF IndInv, Working
<1>2. Typed'
  <2>1. run'.tries \in {0, 1, 2}  BY DEF RunType
  <2>2. run'.tries \in 0 .. 2  BY <2>1
  <2>3. slot \in Cards \cup {Nil} /\ last_card_serial_no \in Cards \cup {Nil}
    BY <1>1 DEF Typed, TypeOK
  <2>4. TypeOK'  BY <1>1, <2>2 DEF Typed, TypeOK, shown
  <2>5. last_card_serial_no' \in Cards \cup {Nil}  BY <2>3 DEF Learned
  <2>6. QED  BY <1>1, <2>4, <2>5 DEF Typed, Learned, shown
<1>3. Sure' \subseteq Sure
  <2>1. run'.card \in {run.card, slot}  OBVIOUS
  <2>2. QED  BY <1>1, <2>1, SureLess DEF Learned
<1>4. JobKept' /\ MemoryKept' /\ HeldKept' /\ FilesKept'  BY <1>3, Quiet DEF shown
<1>5. run.card # Nil  BY <1>1 DEF SlotKept
<1>6. ~run.unsure => slot = run.card /\ last_card_serial_no \in {slot, Nil}
  BY <1>1, <1>5 DEF SlotKept
<1>7. run'.card # Nil /\ (~run.unsure => slot = run'.card)  BY <1>5, <1>6
<1>8. SlotKept'  BY <1>1, <1>6, <1>7 DEF SlotKept, Learned
<1>9. FlagsKept'  BY <1>1 DEF FlagsKept, Learned, shown
<1>10. QED  BY <1>2, <1>3, <1>4, <1>8, <1>9

LEMMA LoadSame ==
  ASSUME IndInv, Working, UNCHANGED <<card, doubtful, slot>>,
         run'.got = run.got, run'.from = run.from, run'.all = run.all, run'.unsure = run.unsure,
         run'.card = run.card \/ (run'.card = slot /\ slot # Nil)
  PROVE  LoadKept'
<1>1. run.card # Nil /\ (~run.unsure => slot = run.card)
  <2>1. SlotKept /\ run.at # "idle"  BY DEF IndInv, Working
  <2>2. QED  BY <2>1 DEF SlotKept
<1>2. LoadKept  BY DEF IndInv
<1>3. Whole(card[run.from])' <=> Whole(card[run.from])  BY DEF Whole
<1>4. QED  BY <1>1, <1>2, <1>3 DEF LoadKept

LEMMA NotSaving ==
  ASSUME Typed, JobKept, Working, op.kind # "save", op' = op, run'.all = run.all
  PROVE  WritesKept'
<1>1. run.all \notin NewFiles  BY OpOfJob
<1>2. ~Saves'  BY DEF Saves
<1>3. ~Opened' /\ ~Erased'  BY <1>2 DEF Opened, Erased
<1>4. QED  BY <1>1, <1>3 DEF WritesKept

LEMMA WritesSame ==
  ASSUME IndInv, At("calls"), At("calls")', run'.ops = run.ops, run'.all = run.all,
         UNCHANGED <<card, slot, doubtful>>, Sure' \subseteq Sure,
         Opened' /\ attached' => (Opened /\ attached) \/ card[slot].file,
         Erased' /\ ~op.make => Erased
  PROVE  WritesKept'
<1>1. WritesKept  BY DEF IndInv, Working
<1>2. op' = op  BY DEF op
<1>3. Nth' = Nth  BY DEF Nth
<1>4. QED  BY <1>1, <1>2, <1>3 DEF WritesKept

----------------------------------------------------------------------------
(* The calls that write nothing                                            *)

LEMMA Passing ==
  ASSUME Typed, run.calls # <<>>, slot \in Cards, run' = [Passed EXCEPT !.card = slot]
  PROVE  /\ run' \in RunType /\ run'.calls = Tail(run.calls) /\ run'.card = slot
         /\ run'.at = run.at /\ run'.ops = run.ops /\ run'.all = run.all
         /\ run'.result = run.result /\ run'.got = run.got /\ run'.from = run.from
         /\ run'.outer = run.outer /\ run'.may = run.may /\ run'.unsure = run.unsure
<1>1. run \in RunType  BY DEF Typed
<1>2. run.calls \in Seq(CallType)  BY <1>1 DEF RunType
<1>3. PICK s \in Seq(CallType) : s = Tail(run.calls)  BY <1>2, HeadTailProperties
<1>4. run' = [[run EXCEPT !.calls = s] EXCEPT !.card = slot]  BY <1>3 DEF Passed
<1>5. QED  BY <1>1, <1>3, <1>4, ZenonT(60) DEF RunType

(* A mounted card can be used, or the function is over.                    *)
LEMMA MountFacts ==
  ASSUME Typed, JobKept, CallsKept, At("calls"), run.calls # <<>>, call # "release",
         NEW fine \in BOOLEAN, Mount(fine)
  PROVE  /\ run' \in RunType /\ run'.at = run.at /\ run'.ops = run.ops /\ run'.all = run.all
         /\ run'.got = run.got /\ run'.from = run.from /\ run'.outer = run.outer
         /\ run'.may = run.may /\ run'.unsure = run.unsure
         /\ run'.card = run.card \/ (run'.card = slot /\ slot # Nil)
         /\ attached' \in BOOLEAN /\ (attached' => slot # Nil)
         /\ CallsKept'
         /\ \/ run'.result = "ok" /\ run'.calls = Tail(run.calls)
            \/ run'.result # "ok" /\ run'.calls \in {<<>>, Release}
         /\ run'.result = "unformatted" => slot # Nil /\ ~Readable
<1>1. run.result = "ok"  BY CallFacts
<1>2. CASE slot = Nil /\ run' = Fails("absent", <<>>) /\ attached' = FALSE
  <2>1. "absent" \in Statuses /\ <<>> \in {<<>>, Release}  BY DEF Statuses
  <2>2. /\ run' \in RunType /\ run'.calls = <<>> /\ run'.result = "absent"
        /\ run'.at = run.at /\ run'.card = run.card /\ run'.ops = run.ops /\ run'.all = run.all
        /\ run'.got = run.got /\ run'.from = run.from /\ run'.outer = run.outer
        /\ run'.may = run.may /\ run'.unsure = run.unsure
    BY <1>2, <2>1, FailsFacts
  <2>3. CallsKept'  BY <2>2, FailsThen
  <2>4. QED  BY <1>2, <2>2, <2>3
<1>3. CASE slot # Nil /\ run' = [Passed EXCEPT !.card = slot] /\ attached' = TRUE
  <2>1. slot \in Cards  BY <1>3 DEF Typed, TypeOK
  <2>2. /\ run' \in RunType /\ run'.calls = Tail(run.calls) /\ run'.card = slot
        /\ run'.at = run.at /\ run'.ops = run.ops /\ run'.all = run.all
        /\ run'.result = run.result /\ run'.got = run.got /\ run'.from = run.from
        /\ run'.outer = run.outer /\ run'.may = run.may /\ run'.unsure = run.unsure
    BY <1>3, <2>1, Passing
  <2>3. CallsKept'  BY <2>2, Passes
  <2>4. QED  BY <1>1, <1>3, <2>2, <2>3
<1>4. CASE slot # Nil /\ ~Readable /\ run' = Fails("unformatted", Release) /\ attached' = TRUE
  <2>1. "unformatted" \in Statuses /\ Release \in {<<>>, Release}  BY DEF Statuses
  <2>2. /\ run' \in RunType /\ run'.calls = Release /\ run'.result = "unformatted"
        /\ run'.at = run.at /\ run'.card = run.card /\ run'.ops = run.ops /\ run'.all = run.all
        /\ run'.got = run.got /\ run'.from = run.from /\ run'.outer = run.outer
        /\ run'.may = run.may /\ run'.unsure = run.unsure
    BY <1>4, <2>1, FailsFacts
  <2>3. CallsKept'  BY <2>2, FailsThen
  <2>4. QED  BY <1>4, <2>2, <2>3
<1>5. CASE slot # Nil /\ run' = Fails("failed", <<>>) /\ attached' = FALSE
  <2>1. "failed" \in Statuses /\ <<>> \in {<<>>, Release}  BY DEF Statuses
  <2>2. /\ run' \in RunType /\ run'.calls = <<>> /\ run'.result = "failed"
        /\ run'.at = run.at /\ run'.card = run.card /\ run'.ops = run.ops /\ run'.all = run.all
        /\ run'.got = run.got /\ run'.from = run.from /\ run'.outer = run.outer
        /\ run'.may = run.may /\ run'.unsure = run.unsure
    BY <1>5, <2>1, FailsFacts
  <2>3. CallsKept'  BY <2>2, FailsThen
  <2>4. QED  BY <1>5, <2>2, <2>3
<1>6. QED  BY <1>2, <1>3, <1>4, <1>5 DEF Mount

LEMMA CallsThere == ASSUME NEW c \in CallNames, Calling(c)
                    PROVE  At("calls") /\ run.calls # <<>> /\ call = c /\ Working
BY DEF Calling, Working

LEMMA NotFormatting ==
  ASSUME op.kind # "format", op' = op
  PROVE  FormatKept'
BY DEF FormatKept

LEMMA FormatSame ==
  ASSUME FormatKept, At("calls"), op' = op, run'.may = run.may,
         last_card_serial_no' \in {last_card_serial_no, Nil}
  PROVE  FormatKept'
BY DEF FormatKept

LEMMA BadIs == ASSUME NEW a \in BOOLEAN, NEW b \in BOOLEAN
               PROVE  Bad(a) \in 0 .. 2 /\ Bad(a) + Bad(b) \in 0 .. 2
BY DEF Bad

LEMMA MountCardKeeps ==
  ASSUME IndInv, MountCard
  PROVE  IndInv'
<1>1. /\ At("calls") /\ run.calls # <<>> /\ call = "mount" /\ Working
      /\ UNCHANGED <<card, slot, doubtful, known, shown>>
  <2>1. Calling("mount") /\ UNCHANGED <<card, slot, doubtful, known, shown>>  BY DEF MountCard
  <2>2. "mount" \in CallNames  BY DEF CallNames
  <2>3. QED  BY <2>1, <2>2, CallsThere
<1>2. PICK fine \in BOOLEAN : Mount(fine) /\ Faults(Bad(fine))  BY DEF MountCard
<1>3. Typed /\ JobKept /\ CallsKept /\ FormatKept  BY <1>1 DEF IndInv
<1>4. /\ run' \in RunType /\ run'.at = run.at /\ run'.ops = run.ops /\ run'.all = run.all
      /\ run'.got = run.got /\ run'.from = run.from /\ run'.outer = run.outer
      /\ run'.may = run.may /\ run'.unsure = run.unsure
      /\ run'.card = run.card \/ (run'.card = slot /\ slot # Nil)
      /\ attached' \in BOOLEAN /\ (attached' => slot # Nil)
      /\ CallsKept'
      /\ \/ run'.result = "ok" /\ run'.calls = Tail(run.calls)
         \/ run'.result # "ok" /\ run'.calls \in {<<>>, Release}
  BY <1>1, <1>2, <1>3, MountFacts
<1>5. Working'  BY <1>1, <1>4 DEF Working
<1>6. faults' \in 0 .. MaxFaults  BY <1>2, <1>3, BadIs, FaultsTyped
<1>7. Learned  BY <1>1, NothingLearned DEF known
<1>8. run.ops # <<>> /\ EndOf(run.ops, run.all)  BY <1>1, <1>3, OpFacts
<1>9. /\ Typed' /\ JobKept' /\ SlotKept' /\ FlagsKept' /\ HeldKept' /\ MemoryKept' /\ FilesKept'
  BY <1>1, <1>4, <1>5, <1>6, <1>7, <1>8, Steps
<1>10. LoadKept'  BY <1>1, <1>4, LoadSame
<1>11. op' = op  BY <1>4 DEF op
<1>12. Sure' \subseteq Sure  BY <1>1, <1>4, <1>5, <1>6, <1>7, <1>8, Steps
<1>13. WritesKept'
  <2>1. CASE op.kind # "save"  BY <1>1, <1>3, <1>4, <1>11, <2>1, NotSaving
  <2>2. CASE op.kind = "save"
    <3>1. Left + 1 = Calls /\ Left \in Nat /\ Calls \in Nat  BY <1>1, <1>3, <2>2, SaveFacts
    <3>2. ~Opened' /\ ~Erased'
      <4>1. run'.result = "ok" => Len(run'.calls) = Left - 1
        <5>1. run.calls \in Seq(CallType)  BY <1>3 DEF Typed, RunType
        <5>2. "ok" \in Statuses /\ <<>> \in {<<>>, Release}  BY DEF Statuses
        <5>3. Len(Tail(run.calls)) = Len(run.calls) - 1  BY <1>1, <5>1, HeadTailProperties
        <5>4. QED  BY <1>4, <5>3 DEF Left
      <4>2. Len(CallsOf(op)') = Calls  BY <1>11 DEF Calls, CallsOf
      <4>3. QED  BY <3>1, <4>1, <4>2 DEF Opened, Erased
    <3>3. QED  BY <1>1, <1>4, <1>12, <3>2, WritesSame
  <2>3. QED  BY <2>1, <2>2
<1>14. FormatKept'
  BY <1>1, <1>3, <1>4, <1>11, FormatSame DEF known
<1>15. QED  BY <1>4, <1>9, <1>10, <1>13, <1>14 DEF IndInv

LEMMA SameHeld ==
  ASSUME IndInv, Working, Working', run' \in RunType, Learned,
         run'.ops = run.ops, run'.all = run.all, run'.outer = run.outer,
         run'.unsure = run.unsure, run'.card = run.card \/ (run'.card = slot /\ slot # Nil),
         run'.got = run.got, run'.from = run.from,
         UNCHANGED <<card, slot, doubtful, shown>>,
         attached' \in BOOLEAN, attached' => slot # Nil, faults' \in 0 .. MaxFaults
  PROVE  /\ Typed' /\ JobKept' /\ SlotKept' /\ FlagsKept' /\ HeldKept' /\ MemoryKept' /\ FilesKept'
         /\ LoadKept' /\ Sure' \subseteq Sure /\ op' = op
<1>1. Typed /\ JobKept  BY DEF IndInv
<1>2. run.ops # <<>> /\ EndOf(run.ops, run.all)  BY <1>1, OpFacts
<1>3. /\ Typed' /\ JobKept' /\ SlotKept' /\ FlagsKept' /\ HeldKept' /\ MemoryKept' /\ FilesKept'
      /\ Sure' \subseteq Sure
  BY <1>2, Steps
<1>4. LoadKept'  BY LoadSame
<1>5. op' = op  BY DEF op
<1>6. QED  BY <1>3, <1>4, <1>5

LEMMA NoticeKeeps ==
  ASSUME IndInv, Notice
  PROVE  IndInv'
<1>1. /\ At("calls") /\ run.calls # <<>> /\ call = "notice" /\ Working
      /\ UNCHANGED <<card, slot, doubtful, shown>>
  <2>1. Calling("notice") /\ UNCHANGED <<card, slot, doubtful, shown>>  BY DEF Notice
  <2>2. "notice" \in CallNames  BY DEF CallNames
  <2>3. QED  BY <2>1, <2>2, CallsThere
<1>2. PICK read \in BOOLEAN : StatusChanges(read) /\ Faults(Bad(read))
  BY DEF Notice
<1>21. /\ attached' = FALSE
       /\ run' = IF Exchanged THEN [run EXCEPT !.at = "changed"] ELSE Passed
  BY DEF Notice
<1>3. Typed /\ JobKept /\ CallsKept /\ FormatKept /\ FlagsKept  BY <1>1 DEF IndInv
<1>4. faults' \in 0 .. MaxFaults  BY <1>2, <1>3, BadIs, FaultsTyped
<1>5. Learned  BY <1>1, <1>2, NoticedLearned
<1>6. /\ last_card_serial_no' \in {slot, Nil}
      /\ ~removals' => \/ last_card_serial_no' = Nil
                       \/ last_card_serial_no' = last_card_serial_no
  BY <1>1, <1>2, <1>3, Noticed
<1>7. CASE Exchanged
  <2>1. op.kind = "format"  BY <1>7 DEF Exchanged
  <2>2. /\ run' \in RunType /\ run'.at = "changed" /\ run'.ops = run.ops /\ run'.all = run.all
        /\ run'.got = run.got /\ run'.from = run.from /\ run'.outer = run.outer
        /\ run'.may = run.may /\ run'.unsure = run.unsure /\ run'.card = run.card
        /\ run'.calls = run.calls /\ run'.result = run.result
    BY <1>3, <1>21, <1>7 DEF Typed, RunType
  <2>3. Working'  BY <2>2 DEF Working
  <2>4. /\ Typed' /\ JobKept' /\ SlotKept' /\ FlagsKept' /\ HeldKept' /\ MemoryKept' /\ FilesKept'
        /\ LoadKept' /\ op' = op
    BY <1>1, <1>21, <1>4, <1>5, <2>2, <2>3, SameHeld
  <2>5. run.result = "ok" /\ run.calls = CallsOf(op)  BY <1>1, <1>3, <2>1, CallFacts, OtherSteps
  <2>6. CallsOf(op)' = CallsOf(op)  BY <2>4 DEF CallsOf
  <2>7. CallsKept'  BY <2>1, <2>2, <2>4, <2>5, <2>6 DEF CallsKept
  <2>8. WritesKept'  BY <1>1, <1>3, <2>1, <2>2, <2>4, NotSaving
  <2>9. FormatKept'  BY <2>2 DEF FormatKept
  <2>10. QED  BY <2>4, <2>7, <2>8, <2>9 DEF IndInv
<1>8. CASE ~Exchanged
  <2>1. /\ run' \in RunType /\ run'.at = run.at /\ run'.ops = run.ops /\ run'.all = run.all
        /\ run'.got = run.got /\ run'.from = run.from /\ run'.outer = run.outer
        /\ run'.may = run.may /\ run'.unsure = run.unsure /\ run'.card = run.card
        /\ run'.calls = Tail(run.calls) /\ run'.result = run.result
    BY <1>1, <1>3, <1>21, <1>8, PassedFacts
  <2>2. Working' /\ CallsKept'  BY <1>1, <1>3, <2>1, Passes DEF Working
  <2>3. /\ Typed' /\ JobKept' /\ SlotKept' /\ FlagsKept' /\ HeldKept' /\ MemoryKept' /\ FilesKept'
        /\ LoadKept' /\ Sure' \subseteq Sure /\ op' = op
    BY <1>1, <1>21, <1>4, <1>5, <2>1, <2>2, SameHeld
  <2>4. CASE op.kind = "save"
    <3>1. Left = Calls /\ Calls \in {7, 9}  BY <1>1, <1>3, <2>4, SaveFacts
    <3>2. CallsOf(op)' = CallsOf(op)  BY <2>3 DEF CallsOf
    <3>3. Len(run'.calls) = Calls - 1
      <4>1. Len(Tail(run.calls)) = Len(run.calls) - 1  BY <1>1, <1>3, CallFacts
      <4>2. QED  BY <2>1, <3>1, <4>1 DEF Left
    <3>4. ~Opened' /\ ~Erased'  BY <3>1, <3>2, <3>3 DEF Opened, Erased, Calls
    <3>5. WritesKept'  BY <1>1, <2>1, <2>3, <3>4, WritesSame
    <3>6. FormatKept'  BY <2>3, <2>4, NotFormatting
    <3>7. QED  BY <2>2, <2>3, <3>5, <3>6 DEF IndInv
  <2>5. CASE op.kind = "format"
    <3>1. WritesKept'  BY <1>1, <1>3, <2>1, <2>3, <2>5, NotSaving
    <3>2. ~removals'  BY <1>8, <2>5 DEF Exchanged
    <3>3. last_card_serial_no' \in {last_card_serial_no, Nil}  BY <1>6, <3>2
    <3>4. FormatKept'  BY <1>1, <1>3, <2>1, <2>3, <3>3, FormatSame
    <3>5. QED  BY <2>2, <2>3, <3>1, <3>4 DEF IndInv
  <2>6. op.kind \in {"save", "format"}
    <3>1. op.kind \in {"save", "load", "delete", "format"}  BY <1>1, <1>3, OpOfJob
    <3>2. QED  BY <1>1, <1>3, <3>1, OtherSteps
  <2>7. QED  BY <2>4, <2>5, <2>6
<1>9. QED  BY <1>7, <1>8

LEMMA OpenKeeps ==
  ASSUME IndInv, Open
  PROVE  IndInv'
<1>1. /\ At("calls") /\ run.calls # <<>> /\ call = "open" /\ Working /\ attached
      /\ UNCHANGED <<card, slot, doubtful, attached, known, shown, faults>>
  <2>1. Calling("open") /\ attached /\ UNCHANGED <<card, slot, doubtful, attached, known, shown, faults>>
    BY DEF Open, Works, hardware
  <2>2. "open" \in CallNames  BY DEF CallNames
  <2>3. QED  BY <2>1, <2>2, CallsThere
<1>2. Typed /\ JobKept /\ CallsKept /\ FormatKept /\ SlotKept  BY <1>1 DEF IndInv
<1>3. run.result = "ok" /\ Len(Tail(run.calls)) = Len(run.calls) - 1  BY <1>1, <1>2, CallFacts
<1>4. /\ run' \in RunType /\ run'.at = run.at /\ run'.ops = run.ops /\ run'.all = run.all
      /\ run'.got = run.got /\ run'.from = run.from /\ run'.outer = run.outer
      /\ run'.may = run.may /\ run'.unsure = run.unsure /\ run'.card = run.card
      /\ CallsKept'
      /\ \/ run'.result = "ok" /\ run'.calls = Tail(run.calls) /\ card[slot].file
         \/ run'.result = "no_file" /\ run'.calls = Release
  <2>1. CASE card[slot].file /\ run' = Passed
    <3>1. /\ run' \in RunType /\ run'.at = run.at /\ run'.ops = run.ops /\ run'.all = run.all
          /\ run'.got = run.got /\ run'.from = run.from /\ run'.outer = run.outer
          /\ run'.may = run.may /\ run'.unsure = run.unsure /\ run'.card = run.card
          /\ run'.calls = Tail(run.calls) /\ run'.result = run.result
      BY <1>1, <1>2, <2>1, PassedFacts
    <3>2. CallsKept'  BY <1>1, <1>2, <3>1, Passes
    <3>3. QED  BY <1>3, <2>1, <3>1, <3>2
  <2>2. CASE run' = Fails("no_file", Release)
    <3>1. "no_file" \in Statuses /\ Release \in {<<>>, Release}  BY DEF Statuses
    <3>2. /\ run' \in RunType /\ run'.at = run.at /\ run'.ops = run.ops /\ run'.all = run.all
          /\ run'.got = run.got /\ run'.from = run.from /\ run'.outer = run.outer
          /\ run'.may = run.may /\ run'.unsure = run.unsure /\ run'.card = run.card
          /\ run'.calls = Release /\ run'.result = "no_file"
      BY <1>2, <2>2, <3>1, FailsFacts
    <3>3. CallsKept'  BY <1>1, <1>2, <3>2, FailsThen
    <3>4. QED  BY <3>2, <3>3
  <2>3. QED  BY <2>1, <2>2 DEF Open
<1>5. Working'  BY <1>1, <1>4 DEF Working
<1>6. faults' \in 0 .. MaxFaults /\ attached' \in BOOLEAN /\ (attached' => slot # Nil)
  BY <1>1, <1>2 DEF Typed, TypeOK, SlotKept
<1>7. Learned  BY <1>1, NothingLearned DEF known
<1>8. /\ Typed' /\ JobKept' /\ SlotKept' /\ FlagsKept' /\ HeldKept' /\ MemoryKept' /\ FilesKept'
      /\ LoadKept' /\ Sure' \subseteq Sure /\ op' = op
  BY <1>1, <1>4, <1>5, <1>6, <1>7, SameHeld
<1>9. CASE op.kind = "save"
  <2>1. Left + 2 = Calls  BY <1>1, <1>2, <1>9, SaveFacts
  <2>2. CallsOf(op)' = CallsOf(op)  BY <1>8 DEF CallsOf
  <2>3. Opened' => card[slot].file  BY <1>4 DEF Opened
  <2>4. ~Erased'
    <3>1. run'.calls = Tail(run.calls) => Len(run'.calls) + 3 = Calls
      BY <1>3, <2>1 DEF Left
    <3>2. Left \in Nat  BY <1>1, <1>2, CallFacts DEF Left
    <3>3. QED  BY <1>4, <2>1, <2>2, <3>1, <3>2 DEF Erased, Calls
  <2>5. WritesKept'  BY <1>1, <1>4, <1>8, <2>3, <2>4, WritesSame
  <2>6. FormatKept'  BY <1>8, <1>9, NotFormatting
  <2>7. QED  BY <1>4, <1>8, <2>5, <2>6 DEF IndInv
<1>10. CASE op.kind # "save"
  <2>1. WritesKept'  BY <1>1, <1>2, <1>4, <1>8, <1>10, NotSaving
  <2>2. op.kind # "format"  BY <1>1, <1>2, OtherSteps
  <2>3. FormatKept'  BY <1>8, <2>2, NotFormatting
  <2>4. QED  BY <1>4, <1>8, <2>1, <2>3 DEF IndInv
<1>11. QED  BY <1>9, <1>10

LEMMA AcceptedFacts ==
  ASSUME NEW f \in FileType, NEW p \in Places, Accepted(f, p)
  PROVE  /\ f.sector[p].data \in Data
         /\ p = Settings => f.sector[2].sum /\ f.sector[2].data # Nil
<1>1. p \in Sectors /\ 2 \in Sectors  BY CallsTyped
<1>2. f.sector[p].data \in Data \cup {Nil} /\ f.sector[2].data \in Data \cup {Nil}
  BY <1>1 DEF FileType, SectorType
<1>3. Last(<<1, 2>>) = 2 /\ Last(<<p>>) = p  BY DEF Last
<1>4. CASE p = Settings  BY <1>2, <1>3, <1>4 DEF Accepted, Agree, SectorsOf
<1>5. CASE p # Settings  BY <1>2, <1>3, <1>5 DEF Accepted, Agree, SectorsOf
<1>6. QED  BY <1>4, <1>5

LEMMA ReadKeeps ==
  ASSUME IndInv, Read
  PROVE  IndInv'
<1>1. /\ At("calls") /\ run.calls # <<>> /\ call = "read" /\ Working /\ attached
      /\ UNCHANGED <<card, slot, doubtful, attached, known, shown, faults>>
  <2>1. Calling("read") /\ attached /\ UNCHANGED <<card, slot, doubtful, attached, known, shown, faults>>
    BY DEF Read, Works, hardware
  <2>2. "read" \in CallNames  BY DEF CallNames
  <2>3. QED  BY <2>1, <2>2, CallsThere
<1>2. Typed /\ JobKept /\ CallsKept /\ SlotKept /\ FilesKept  BY <1>1 DEF IndInv
<1>3. slot \in Cards /\ card[slot] \in FileType
  BY <1>1, <1>2 DEF Typed, TypeOK, SlotKept
<1>4. op.kind = "load" /\ op.place \in Places
  <2>1. op \in OpType /\ op.kind \in {"save", "load", "delete", "format"}  BY <1>1, <1>2, OpFacts, OpOfJob
  <2>2. op.kind # "save"  BY <1>1, <1>2, SaveFacts
  <2>3. QED  BY <1>1, <1>2, <2>1, <2>2, OtherSteps DEF OpType
<1>5. PICK g \in Data \cup {Nil} :
        g = IF Accepted(card[slot], op.place) THEN card[slot].sector[op.place].data ELSE Nil
  BY <1>3, <1>4, AcceptedFacts
<1>51. g # Nil => Accepted(card[slot], op.place)  BY <1>5
<1>52. run' = [Passed EXCEPT !.got = g, !.from = slot]  BY <1>5 DEF Read
<1>6. /\ run' \in RunType /\ run'.at = run.at /\ run'.ops = run.ops /\ run'.all = run.all
      /\ run'.got = g /\ run'.from = slot /\ run'.outer = run.outer
      /\ run'.may = run.may /\ run'.unsure = run.unsure /\ run'.card = run.card
      /\ run'.calls = Tail(run.calls) /\ run'.result = run.result
  <2>1. run \in RunType  BY <1>2 DEF Typed
  <2>2. run.calls \in Seq(CallType)  BY <2>1 DEF RunType
  <2>3. PICK s \in Seq(CallType) : s = Tail(run.calls)  BY <1>1, <2>2, HeadTailProperties
  <2>4. run' = [[run EXCEPT !.calls = s] EXCEPT !.got = g, !.from = slot]
    BY <1>52, <2>3 DEF Passed
  <2>5. QED  BY <1>3, <2>1, <2>3, <2>4 DEF RunType
<1>7. CallsKept'  BY <1>1, <1>2, <1>6, Passes
<1>8. Working'  BY <1>1, <1>6 DEF Working
<1>9. faults' \in 0 .. MaxFaults /\ attached' \in BOOLEAN /\ (attached' => slot # Nil)
  BY <1>1, <1>2 DEF Typed, TypeOK, SlotKept
<1>10. Learned  BY <1>1, NothingLearned DEF known
<1>11. run.ops # <<>> /\ EndOf(run.ops, run.all)  BY <1>1, <1>2, OpFacts
<1>12. /\ Typed' /\ JobKept' /\ SlotKept' /\ FlagsKept' /\ HeldKept' /\ MemoryKept' /\ FilesKept'
  BY <1>1, <1>6, <1>8, <1>9, <1>10, <1>11, Steps
<1>13. op' = op  BY <1>6 DEF op
<1>14. WritesKept'  BY <1>1, <1>2, <1>4, <1>6, <1>13, NotSaving
<1>15. FormatKept'  BY <1>4, <1>13, NotFormatting
<1>16. LoadKept'
  <2> SUFFICES ASSUME g # Nil
               PROVE  /\ run.all \in Loads /\ slot # Nil
                      /\ ~run.unsure => slot = run.card
                      /\ run.all = Reload /\ slot \notin doubtful => Whole(card[slot])
    <3>1. card'[slot] = card[slot] /\ (Whole(card'[slot]) <=> Whole(card[slot]))  BY <1>1
    <3>2. QED  BY <1>1, <1>6, <3>1 DEF LoadKept, Whole
  <2>1. run.all \in Loads  BY <1>1, <1>2, <1>4, OpOfJob
  <2>2. ~run.unsure => slot = run.card  BY <1>1, <1>2 DEF SlotKept, Working
  <2>3. run.all = Reload => op.place = Settings
    <3>1. run.all = Reload => job.place = Settings  BY OtherFacts, <1>1, <1>2, OpFacts
    <3>2. run.all \notin NewFiles  BY <1>1, <1>2, <1>4, OpOfJob
    <3>3. op = job  BY <1>1, <1>2, <3>2, OpOfJob
    <3>4. QED  BY <3>1, <3>3
  <2>4. run.all = Reload /\ slot \notin doubtful => Whole(card[slot])
    <3> SUFFICES ASSUME run.all = Reload, slot \notin doubtful PROVE Whole(card[slot])
      OBVIOUS
    <3>1. card[slot].sector[2].sum /\ card[slot].sector[2].data # Nil
      BY <1>3, <1>4, <1>51, <2>3, AcceptedFacts
    <3>2. QED  BY <1>2, <1>3, <3>1 DEF FilesKept
  <2>5. QED  BY <1>3, NilApart, <2>1, <2>2, <2>4
<1>17. QED  BY <1>7, <1>12, <1>14, <1>15, <1>16 DEF IndInv

LEMMA CheckKeeps ==
  ASSUME IndInv, Check
  PROVE  IndInv'
<1>1. /\ At("calls") /\ run.calls # <<>> /\ call = "check" /\ Working
      /\ UNCHANGED <<card, slot, doubtful, attached, known, shown, faults>>
  <2>1. Calling("check") /\ UNCHANGED <<card, slot, doubtful, attached, known, shown, faults>>
    BY DEF Check, hardware
  <2>2. "check" \in CallNames  BY DEF CallNames
  <2>3. QED  BY <2>1, <2>2, CallsThere
<1>2. Typed /\ JobKept /\ CallsKept /\ SlotKept  BY <1>1 DEF IndInv
<1>3. /\ run' \in RunType /\ run'.at = run.at /\ run'.ops = run.ops /\ run'.all = run.all
      /\ run'.got = run.got /\ run'.from = run.from /\ run'.outer = run.outer
      /\ run'.may = run.may /\ run'.unsure = run.unsure /\ run'.card = run.card
      /\ CallsKept'
  <2>1. CASE run' = Passed
    <3>1. /\ run' \in RunType /\ run'.at = run.at /\ run'.ops = run.ops /\ run'.all = run.all
          /\ run'.got = run.got /\ run'.from = run.from /\ run'.outer = run.outer
          /\ run'.may = run.may /\ run'.unsure = run.unsure /\ run'.card = run.card
          /\ run'.calls = Tail(run.calls) /\ run'.result = run.result
      BY <1>1, <1>2, <2>1, PassedFacts
    <3>2. CallsKept'  BY <1>1, <1>2, <3>1, Passes
    <3>3. QED  BY <3>1, <3>2
  <2>2. CASE run' = Fails("damaged", Release)
    <3>1. "damaged" \in Statuses /\ Release \in {<<>>, Release}  BY DEF Statuses
    <3>2. /\ run' \in RunType /\ run'.at = run.at /\ run'.ops = run.ops /\ run'.all = run.all
          /\ run'.got = run.got /\ run'.from = run.from /\ run'.outer = run.outer
          /\ run'.may = run.may /\ run'.unsure = run.unsure /\ run'.card = run.card
          /\ run'.calls = Release /\ run'.result = "damaged"
      BY <1>2, <2>2, <3>1, FailsFacts
    <3>3. CallsKept'  BY <1>1, <1>2, <3>2, FailsThen
    <3>4. QED  BY <3>2, <3>3
  <2>3. QED  BY <2>1, <2>2 DEF Check
<1>4. Working'  BY <1>1, <1>3 DEF Working
<1>5. faults' \in 0 .. MaxFaults /\ attached' \in BOOLEAN /\ (attached' => slot # Nil)
  BY <1>1, <1>2 DEF Typed, TypeOK, SlotKept
<1>6. Learned  BY <1>1, NothingLearned DEF known
<1>7. /\ Typed' /\ JobKept' /\ SlotKept' /\ FlagsKept' /\ HeldKept' /\ MemoryKept' /\ FilesKept'
      /\ LoadKept' /\ op' = op
  BY <1>1, <1>3, <1>4, <1>5, <1>6, SameHeld
<1>8. op.kind # "save" /\ op.kind # "format"  BY <1>1, <1>2, SaveFacts, OtherSteps
<1>9. WritesKept'  BY <1>1, <1>2, <1>3, <1>7, <1>8, NotSaving
<1>10. FormatKept'  BY <1>7, <1>8, NotFormatting
<1>11. QED  BY <1>3, <1>7, <1>9, <1>10 DEF IndInv

(* Whatever is written is written before the card is released.             *)
LEMMA UnmountKeeps ==
  ASSUME IndInv, Unmount
  PROVE  IndInv'
<1>1. /\ At("calls") /\ run.calls # <<>> /\ call \in {"unmount", "release"} /\ Working
      /\ run' = Passed /\ attached' = FALSE
      /\ UNCHANGED <<card, slot, doubtful, known, shown, faults>>
  <2>1. "unmount" \in CallNames /\ "release" \in CallNames  BY DEF CallNames
  <2>2. Calling("unmount") \/ Calling("release")  BY DEF Unmount, Works
  <2>3. QED  BY <2>1, <2>2, CallsThere DEF Unmount
<1>2. Typed /\ JobKept /\ CallsKept /\ SlotKept /\ FormatKept /\ WritesKept
  BY <1>1 DEF IndInv
<1>3. /\ run' \in RunType /\ run'.at = run.at /\ run'.ops = run.ops /\ run'.all = run.all
      /\ run'.got = run.got /\ run'.from = run.from /\ run'.outer = run.outer
      /\ run'.may = run.may /\ run'.unsure = run.unsure /\ run'.card = run.card
      /\ run'.calls = Tail(run.calls) /\ run'.result = run.result
  BY <1>1, <1>2, PassedFacts
<1>4. Working'  BY <1>1, <1>3 DEF Working
<1>5. faults' \in 0 .. MaxFaults /\ attached' \in BOOLEAN  BY <1>1, <1>2 DEF Typed, TypeOK
<1>6. Learned  BY <1>1, NothingLearned DEF known
<1>7. /\ Typed' /\ JobKept' /\ SlotKept' /\ FlagsKept' /\ HeldKept' /\ MemoryKept' /\ FilesKept'
      /\ LoadKept' /\ Sure' \subseteq Sure /\ op' = op
  BY <1>1, <1>3, <1>4, <1>5, <1>6, SameHeld
<1>8. CallsOf(op)' = CallsOf(op)  BY <1>7 DEF CallsOf
<1>9. CASE call = "release"
  <2>1. run.result # "ok" \/ op.make  BY <1>1, <1>2, <1>9, Releasing
  <2>2. CallsKept' /\ run'.calls = <<>>  BY <1>1, <1>2, <1>3, <1>9, Released
  <2>3. Erased' => op.make  BY <1>3, <2>1 DEF Erased
  <2>4. WritesKept'  BY <1>1, <1>3, <1>7, <2>3, WritesSame
  <2>5. FormatKept'  BY <1>1, <1>2, <1>3, <1>7, FormatSame DEF known
  <2>6. QED  BY <1>7, <2>2, <2>4, <2>5 DEF IndInv
<1>10. CASE call = "unmount"
  <2>1. CallsKept'  BY <1>1, <1>2, <1>3, <1>10, Passes
  <2>2. FormatKept'  BY <1>1, <1>2, <1>3, <1>7, FormatSame DEF known
  <2>3. CASE op.kind = "save"
    <3>1. Left + 4 <= Calls /\ Left \in Nat  BY <1>1, <1>2, <1>10, <2>3, SaveFacts, CallFacts DEF Left
    <3>2. run.result = "ok"  BY <1>1, <1>2, <1>10, CallFacts
    <3>3. Erased  BY <1>1, <2>3, <3>1, <3>2 DEF Erased, Saves, Left, Calls
    <3>4. QED  BY <1>1, <1>3, <1>7, <2>1, <2>2, <3>3, WritesSame DEF IndInv
  <2>4. CASE op.kind # "save"
    <3>1. WritesKept'  BY <1>1, <1>2, <1>3, <1>7, <2>4, NotSaving
    <3>2. QED  BY <1>7, <2>1, <2>2, <3>1 DEF IndInv
  <2>5. QED  BY <2>3, <2>4
<1>11. QED  BY <1>1, <1>9, <1>10

LEMMA CallFailsKeeps ==
  ASSUME IndInv, CallFails
  PROVE  IndInv'
<1>1. /\ At("calls") /\ run.calls # <<>> /\ call # "release" /\ Working
      /\ Faults(IF attached THEN 1 ELSE 0)
      /\ last_card_serial_no' = IF call = "create" /\ attached THEN Nil ELSE last_card_serial_no
      /\ UNCHANGED <<card, slot, attached, doubtful, last_card_state, removals, insertions, shown>>
  BY DEF CallFails, hardware, Working
<1>2. Typed /\ JobKept /\ CallsKept /\ FormatKept /\ SlotKept  BY <1>1 DEF IndInv
<1>3. run.result = "ok"  BY <1>1, <1>2, CallFacts
<1>4. faults' \in 0 .. MaxFaults
  <2>1. (IF attached THEN 1 ELSE 0) \in 0 .. 2  OBVIOUS
  <2>2. QED  BY <1>1, <1>2, <2>1, FaultsTyped
<1>5. attached' \in BOOLEAN /\ (attached' => slot # Nil)
  BY <1>1, <1>2 DEF Typed, TypeOK, SlotKept
<1>6. Learned
  <2>1. last_card_serial_no' \in {last_card_serial_no, Nil}  BY <1>1
  <2>2. QED  BY <1>1, <2>1, NothingLearned
<1>7. call = "create" => op.kind = "save" /\ op.make
  <2>1. op.kind \in {"save", "load", "delete", "format"}  BY <1>1, <1>2, OpOfJob
  <2>2. call = "create" => op.kind = "save"  BY <1>1, <1>2, <2>1, OtherSteps
  <2>3. QED  BY <1>1, <1>2, <2>2, SaveFacts
<1>8. CASE call = "format" /\ run' = [run EXCEPT !.at = "format_failed"]
  <2>1. op.kind = "format"
    <3>1. op.kind \in {"save", "load", "delete", "format"}  BY <1>1, <1>2, OpOfJob
    <3>2. op.kind # "save"  BY <1>1, <1>2, <1>8, SaveFacts
    <3>3. QED  BY <1>1, <1>2, <1>8, <3>1, <3>2, OtherSteps
  <2>2. /\ run' \in RunType /\ run'.at = "format_failed" /\ run'.ops = run.ops /\ run'.all = run.all
        /\ run'.got = run.got /\ run'.from = run.from /\ run'.outer = run.outer
        /\ run'.may = run.may /\ run'.unsure = run.unsure /\ run'.card = run.card
        /\ run'.calls = run.calls /\ run'.result = run.result
    BY <1>2, <1>8 DEF Typed, RunType
  <2>3. Working'  BY <2>2 DEF Working
  <2>4. /\ Typed' /\ JobKept' /\ SlotKept' /\ FlagsKept' /\ HeldKept' /\ MemoryKept' /\ FilesKept'
        /\ LoadKept' /\ op' = op
    BY <1>1, <1>4, <1>5, <1>6, <2>2, <2>3, SameHeld
  <2>5. CallsKept'  BY <1>3, <2>1, <2>2, <2>4 DEF CallsKept
  <2>6. WritesKept'  BY <1>1, <1>2, <2>1, <2>2, <2>4, NotSaving
  <2>7. FormatKept'  BY <1>1, <1>2, <2>2, <2>4, FormatSame
  <2>8. QED  BY <2>4, <2>5, <2>6, <2>7 DEF IndInv
<1>9. CASE \E cleanup \in {<<>>, Release}, result \in {"failed", "absent", "ok"} :
             /\ run' = Fails(result, cleanup)
             /\ result = "ok" => call = "create" /\ ~attached /\ cleanup = Release
  <2>1. PICK cleanup \in {<<>>, Release}, result \in {"failed", "absent", "ok"} :
             /\ run' = Fails(result, cleanup)
             /\ result = "ok" => call = "create" /\ ~attached /\ cleanup = Release
    BY <1>9
  <2>2. result \in Statuses  BY DEF Statuses
  <2>3. /\ run' \in RunType /\ run'.at = run.at /\ run'.ops = run.ops /\ run'.all = run.all
        /\ run'.got = run.got /\ run'.from = run.from /\ run'.outer = run.outer
        /\ run'.may = run.may /\ run'.unsure = run.unsure /\ run'.card = run.card
        /\ run'.calls = cleanup /\ run'.result = result
    BY <1>2, <2>1, <2>2, FailsFacts
  <2>4. Working'  BY <1>1, <2>3 DEF Working
  <2>5. /\ Typed' /\ JobKept' /\ SlotKept' /\ FlagsKept' /\ HeldKept' /\ MemoryKept' /\ FilesKept'
        /\ LoadKept' /\ Sure' \subseteq Sure /\ op' = op
    BY <1>1, <1>4, <1>5, <1>6, <2>3, <2>4, SameHeld
  <2>6. CallsKept'
    <3>1. run'.calls \in {<<>>, Release} /\ (run'.result # "ok" \/ op'.make)
      BY <1>7, <2>1, <2>3, <2>5
    <3>2. QED  BY <1>1, <2>3, <3>1 DEF CallsKept
  <2>7. WritesKept'
    <3>1. Erased' => op.make  BY <1>7, <2>1, <2>3 DEF Erased
    <3>2. ~(Opened' /\ attached')  BY <1>1, <2>1, <2>3 DEF Opened
    <3>3. QED  BY <1>1, <2>3, <2>5, <3>1, <3>2, WritesSame
  <2>8. FormatKept'  BY <1>1, <1>2, <2>3, <2>5, FormatSame
  <2>9. QED  BY <2>5, <2>6, <2>7, <2>8 DEF IndInv
<1>10. QED
  <2> DEFINE result == IF attached \/ call = "status" THEN "failed"
                       ELSE IF call = "create" THEN "ok" ELSE "absent"
  <2>1. \/ call = "format" /\ run' = [run EXCEPT !.at = "format_failed"]
        \/ call = "unmount" /\ run' = Fails(result, <<>>)
        \/ run' = Fails(result, Release)
    BY DEF CallFails
  <2>2. result \in {"failed", "absent", "ok"} /\ (result = "ok" => call = "create" /\ ~attached)
    OBVIOUS
  <2>3. call = "unmount" => result # "ok"  OBVIOUS
  <2> HIDE DEF result
  <2>4. CASE call = "unmount" /\ run' = Fails(result, <<>>)  BY <1>9, <2>2, <2>3, <2>4
  <2>5. CASE run' = Fails(result, Release)  BY <1>9, <2>2, <2>5
  <2>6. QED  BY <1>8, <2>1, <2>4, <2>5

LEMMA CallsEndKeeps ==
  ASSUME IndInv, CallsEnd
  PROVE  IndInv'
<1>1. /\ At("calls") /\ run.calls = <<>> /\ Working
      /\ UNCHANGED <<card, slot, doubtful, attached, known, shown, faults>>
  BY DEF CallsEnd, hardware, Working
<1>2. Typed /\ JobKept /\ CallsKept /\ SlotKept /\ WritesKept  BY <1>1 DEF IndInv
<1>3. run \in RunType  BY <1>2 DEF Typed
<1>4. faults' \in 0 .. MaxFaults /\ attached' \in BOOLEAN /\ (attached' => slot # Nil)
  BY <1>1, <1>2 DEF Typed, TypeOK, SlotKept
<1>5. Learned  BY <1>1, NothingLearned DEF known
<1>6. /\ run.all \in Jobs /\ run.ops \in Seq(OpType) /\ run.ops # <<>>
      /\ op \in OpType /\ Nth \in 1 .. Len(run.all) /\ op = run.all[Nth] /\ op = run.ops[1]
      /\ EndOf(run.ops, run.all) /\ EndOf(Tail(run.ops), run.all)
      /\ Len(run.ops) = Len(run.all) - Nth + 1
  BY <1>1, <1>2, OpFacts
<1>7. Len(run.ops) \in Nat \ {0}  BY <1>6
<1>8. run.all \in Seq(OpType) /\ Len(run.all) \in Nat  BY <1>6, JobFacts
<1>9. op.kind = "save" => Calls \in {7, 9}
  <2>1. op.kind = "save" => Len(CallsOf(op)) = IF op.place = Settings THEN 9 ELSE 7
    BY <1>6, SaveCalls
  <2>2. QED  BY <2>1 DEF Calls
<1>10. Left = 0  BY <1>1 DEF Left
<1>11. op.kind = "save" /\ run.result = "ok" => Erased
  <2> SUFFICES ASSUME op.kind = "save", run.result = "ok" PROVE Erased
    OBVIOUS
  <2>1. PICK k, n : k = Left /\ n = Calls  OBVIOUS
  <2>2. k + 4 <= n  BY <1>9, <1>10, <2>1
  <2>3. QED  BY <1>1, <2>1, <2>2 DEF Erased, Saves, Left, Calls
<1>111. /\ Len(run.ops) > 1 =>
              /\ Tail(run.ops) \in Seq(OpType) /\ Tail(run.ops) # <<>>
              /\ Head(Tail(run.ops)) = run.ops[2] /\ run.ops[2] \in OpType
              /\ Nth \in 1 .. Len(run.all) - 1
              /\ Nth + 1 \in 1 .. Len(run.all)
              /\ run.ops[2] = run.all[Nth + 1]
              /\ Len(run.all) - Len(Tail(run.ops)) + 1 = Nth + 1
              /\ Len(run.ops) # 1
        /\ ~(Len(run.ops) > 1) => Len(run.ops) = 1 /\ Nth = Len(run.all)
        /\ Nth \in Nat
  <2>1. /\ run.ops \in Seq(OpType) /\ run.all \in Seq(OpType) /\ EndOf(run.ops, run.all)
        /\ run.ops # <<>>
    BY <1>6, <1>8
  <2>2. QED  BY <2>1, NextOne, ZenonT(30) DEF Nth
<1>12. CASE /\ run.result = "ok" /\ Len(run.ops) > 1
            /\ run' = [run EXCEPT !.ops = Tail(@), !.tries = 1, !.calls = CallsOf(run.ops[2])]
  <2>1. run.all \in NewFiles
    <3>1. Len(run.ops) # 1  BY <1>111, <1>12
    <3>2. QED  BY <1>1, <1>2, <3>1, OpOfJob
  <2>2. /\ Tail(run.ops) \in Seq(OpType) /\ Tail(run.ops) # <<>>
        /\ Head(Tail(run.ops)) = run.ops[2] /\ run.ops[2] \in OpType
    BY <1>111, <1>12
  <2>6. CallsOf(run.ops[2]) \in Seq(CallType) /\ Len(CallsOf(run.ops[2])) \in Nat \ {0}
    BY <2>2, CallsOfTyped
  <2>7. /\ run' \in RunType /\ run'.ops = Tail(run.ops) /\ run'.calls = CallsOf(run.ops[2])
        /\ run'.at = run.at /\ run'.all = run.all /\ run'.result = run.result
        /\ run'.got = run.got /\ run'.from = run.from /\ run'.outer = run.outer
        /\ run'.may = run.may /\ run'.unsure = run.unsure /\ run'.card = run.card
    <3>1. PICK s \in Seq(OpType), t \in Seq(CallType) : s = Tail(run.ops) /\ t = CallsOf(run.ops[2])
      BY <2>2, <2>6
    <3>2. run' = [run EXCEPT !.ops = s, !.tries = 1, !.calls = t]  BY <1>12, <3>1
    <3>3. QED  BY <1>3, <3>1, <3>2 DEF RunType
  <2>8. Working'  BY <1>1, <2>7 DEF Working
  <2>9. /\ Typed' /\ JobKept' /\ SlotKept' /\ FlagsKept' /\ HeldKept' /\ MemoryKept' /\ FilesKept'
        /\ Sure' \subseteq Sure
    BY <1>1, <1>4, <1>5, <1>6, <2>2, <2>7, <2>8, Steps
  <2>10. LoadKept'  BY <1>1, <2>7, LoadSame
  <2>11. op' = run.ops[2]  BY <2>2, <2>7 DEF op
  <2>12. run'.calls = CallsOf(op)'  BY <2>7, <2>11 DEF CallsOf
  <2>13. CallsKept'
    <3>1. EndOf(run'.calls, run'.calls)  BY <2>6, <2>7, EndWhole
    <3>2. QED  BY <1>1, <1>12, <2>7, <2>12, <3>1 DEF CallsKept
  <2>14. run'.calls \in Seq(CallType) /\ Len(run'.calls) \in Nat \ {0}  BY <2>6, <2>7
  <2>15. ~Opened' /\ ~Erased'  BY <2>12, <2>14 DEF Opened, Erased
  <2>17. Nth' = Nth + 1
    <3>1. Nth' = Len(run.all) - Len(Tail(run.ops)) + 1  BY <2>7 DEF Nth
    <3>2. QED  BY <1>111, <1>12, <3>1
  <2>18. FormatKept'
    <3>1. Len(run.all) = Regions + 2  BY <2>1, CreationFacts
    <3>2. Nth + 1 \in 1 .. Regions + 2  BY <1>111, <1>12, <3>1
    <3>3. run.ops[2] = run.all[Nth + 1]  BY <1>111, <1>12
    <3>4. run.all[Nth + 1].kind = "save"  BY <2>1, <3>2, CreationFacts
    <3>5. QED  BY <2>11, <3>3, <3>4 DEF FormatKept
  <2>19. WritesKept'
    <3>1. ASSUME NEW c \in Sure \ doubtful, NEW p \in 3 .. Nth + 1 PROVE card[c].sector[p] # Blank
      <4>1. CASE p \in 3 .. Nth  BY <1>2, <2>1, <4>1 DEF WritesKept
      <4>2. CASE p = Nth + 1
        <5>1. Nth \in 2 .. Regions + 1
          <6>1. Len(run.all) = Regions + 2  BY <2>1, CreationFacts
          <6>2. Nth \in 1 .. Regions + 2 - 1 /\ Nth \in Nat  BY <1>111, <1>12, <6>1
          <6>3. QED  BY <4>2, <6>2
        <5>2. op.kind = "save" /\ ~op.make /\ op.place = Nth + 1
          BY <1>1, <1>2, <2>1, <5>1, OpOfJob
        <5>3. QED  BY <1>2, <1>11, <1>12, <4>2, <5>2 DEF WritesKept
      <4>3. Nth \in Nat  BY <1>111
      <4>4. QED  BY <4>1, <4>2, <4>3
    <3>2. ~At("ended")'  BY <1>1, <2>7
    <3>3. QED  BY <1>1, <2>9, <2>15, <2>17, <3>1, <3>2 DEF WritesKept
  <2>20. QED  BY <2>9, <2>10, <2>13, <2>18, <2>19 DEF IndInv
<1>13. CASE /\ run.result # "ok" /\ op.kind \in {"save", "load"}
            /\ run' = [run EXCEPT !.tries = 2, !.calls = CallsOf(op), !.result = "ok"]
  <2>1. CallsOf(op) \in Seq(CallType) /\ Len(CallsOf(op)) \in Nat \ {0}  BY <1>6, CallsOfTyped
  <2>2. /\ run' \in RunType /\ run'.ops = run.ops /\ run'.calls = CallsOf(op)
        /\ run'.at = run.at /\ run'.all = run.all /\ run'.result = "ok"
        /\ run'.got = run.got /\ run'.from = run.from /\ run'.outer = run.outer
        /\ run'.may = run.may /\ run'.unsure = run.unsure /\ run'.card = run.card
    <3>1. PICK t \in Seq(CallType) : t = CallsOf(op)  BY <2>1
    <3>2. run' = [run EXCEPT !.tries = 2, !.calls = t, !.result = "ok"]  BY <1>13, <3>1
    <3>3. "ok" \in Statuses  BY DEF Statuses
    <3>4. QED  BY <1>3, <3>1, <3>2, <3>3 DEF RunType
  <2>3. Working'  BY <1>1, <2>2 DEF Working
  <2>4. /\ Typed' /\ JobKept' /\ SlotKept' /\ FlagsKept' /\ HeldKept' /\ MemoryKept' /\ FilesKept'
        /\ LoadKept' /\ Sure' \subseteq Sure /\ op' = op
    BY <1>1, <1>4, <1>5, <2>2, <2>3, SameHeld
  <2>5. CallsOf(op)' = CallsOf(op)  BY <2>4 DEF CallsOf
  <2>6. CallsKept'
    <3>1. EndOf(run'.calls, run'.calls)  BY <2>1, <2>2, EndWhole
    <3>2. QED  BY <1>1, <2>2, <2>4, <2>5, <3>1 DEF CallsKept
  <2>7. ~Opened' /\ ~Erased'  BY <2>1, <2>2, <2>5 DEF Opened, Erased
  <2>9. FormatKept'  BY <1>13, <2>4, NotFormatting
  <2>10. WritesKept'  BY <1>1, <2>2, <2>4, <2>7, WritesSame
  <2>11. QED  BY <2>4, <2>6, <2>9, <2>10 DEF IndInv
<1>14. CASE /\ ~(run.result = "ok" /\ Len(run.ops) > 1)
            /\ run' = [run EXCEPT !.at = "ended"]
  <2>1. /\ run' \in RunType /\ run'.ops = run.ops /\ run'.calls = run.calls
        /\ run'.at = "ended" /\ run'.all = run.all /\ run'.result = run.result
        /\ run'.got = run.got /\ run'.from = run.from /\ run'.outer = run.outer
        /\ run'.may = run.may /\ run'.unsure = run.unsure /\ run'.card = run.card
    BY <1>3, <1>14 DEF RunType
  <2>2. Working'  BY <2>1 DEF Working
  <2>3. /\ Typed' /\ JobKept' /\ SlotKept' /\ FlagsKept' /\ HeldKept' /\ MemoryKept' /\ FilesKept'
        /\ LoadKept' /\ Sure' \subseteq Sure /\ op' = op
    BY <1>1, <1>4, <1>5, <2>1, <2>2, SameHeld
  <2>4. run.result = "ok" => Len(run.ops) = 1  BY <1>111, <1>14
  <2>5. CallsKept'  BY <2>1, <2>4 DEF CallsKept
  <2>7. FormatKept'  BY <2>1 DEF FormatKept
  <2>8. Nth' = Nth  BY <2>1 DEF Nth
  <2>9. op.kind = "save" /\ run.result = "ok" => ~op.make
    <3>1. Nth = 1 /\ run.result = "ok" => Len(run.all) = 1  BY <1>111, <1>14
    <3>2. run.all \in NewFiles => Len(run.all) # 1  BY CreationFacts
    <3>3. QED  BY <1>1, <1>2, <3>1, <3>2, OpOfJob
  <2>10. ~Opened' /\ ~Erased'  BY <2>1 DEF Opened, Erased, Saves
  <2>11. WritesKept'
    <3>1. WritesKept /\ card' = card  BY <1>1, <1>2
    <3>2. ASSUME NEW c \in Sure \ doubtful, op.kind = "save", run.result = "ok"
          PROVE  card[c].file /\ card[c].sector[op.place] # Blank
      BY <1>11, <2>9, <3>1, <3>2 DEF WritesKept
    <3>3. QED  BY <1>1, <2>1, <2>3, <2>8, <2>10, <3>1, <3>2 DEF WritesKept
  <2>12. QED  BY <2>3, <2>5, <2>7, <2>11 DEF IndInv
<1>15. QED  BY <1>12, <1>13, <1>14 DEF CallsEnd

----------------------------------------------------------------------------
(* What the player is asked before and after formatting                    *)

LEMMA FormatCalls ==
  ASSUME NEW o \in OpType, o.kind = "format"
  PROVE  /\ CallsOf(o) = <<Call("notice"), Call("mount"), Call("format"), Call("unmount")>>
         /\ CallsOf(o) \in Seq(CallType) /\ EndOf(CallsOf(o), CallsOf(o))
         /\ CallsOf(o) # <<>> /\ Head(CallsOf(o)).call = "notice"
<1>1. CallsOf(o) = <<Call("notice"), Call("mount"), Call("format"), Call("unmount")>>  BY OtherCalls
<1>2. CallsOf(o) \in Seq(CallType)  BY CallsOfTyped
<1>3. EndOf(CallsOf(o), CallsOf(o))  BY <1>2, EndWhole
<1>4. CallsOf(o) # <<>> /\ Head(CallsOf(o)).call = "notice"  BY <1>1 DEF Call
<1>5. QED  BY <1>1, <1>2, <1>3, <1>4

LEMMA AskedFacts ==
  ASSUME IndInv, run.at \in {"confirm", "changed", "format_failed"}
  PROVE  /\ Working /\ run \in RunType /\ op.kind = "format" /\ run.result = "ok"
         /\ Typed /\ JobKept /\ SlotKept /\ FormatKept
         /\ op \in OpType
         /\ run.at # "format_failed" => run.calls = CallsOf(op)
<1>1. Working  BY DEF Working
<1>2. Typed /\ JobKept /\ SlotKept /\ FormatKept /\ CallsKept /\ run \in RunType
  BY <1>1 DEF IndInv, Typed
<1>3. op \in OpType  BY <1>1, <1>2, OpFacts
<1>4. QED  BY <1>1, <1>2, <1>3 DEF CallsKept

LEMMA GivesUp ==
  ASSUME IndInv, run.at \in {"confirm", "changed", "format_failed"},
         run' = [run EXCEPT !.at = "ended", !.result = "failed"],
         UNCHANGED <<hardware, known, shown, faults>>
  PROVE  IndInv'
<1>1. /\ Working /\ run \in RunType /\ op.kind = "format" /\ Typed /\ JobKept /\ SlotKept
  BY AskedFacts
<1>2. "failed" \in Statuses  BY DEF Statuses
<1>3. /\ run' \in RunType /\ run'.ops = run.ops /\ run'.calls = run.calls
      /\ run'.at = "ended" /\ run'.all = run.all /\ run'.result = "failed"
      /\ run'.got = run.got /\ run'.from = run.from /\ run'.outer = run.outer
      /\ run'.may = run.may /\ run'.unsure = run.unsure /\ run'.card = run.card
  BY <1>1, <1>2 DEF RunType
<1>4. Working'  BY <1>3 DEF Working
<1>5. faults' \in 0 .. MaxFaults /\ attached' \in BOOLEAN /\ (attached' => slot # Nil)
  BY <1>1 DEF Typed, TypeOK, SlotKept, hardware
<1>6. Learned  BY <1>1, NothingLearned DEF known
<1>7. /\ Typed' /\ JobKept' /\ SlotKept' /\ FlagsKept' /\ HeldKept' /\ MemoryKept' /\ FilesKept'
      /\ LoadKept' /\ op' = op
  BY <1>1, <1>3, <1>4, <1>5, <1>6, SameHeld DEF hardware
<1>8. CallsKept'  BY <1>3 DEF CallsKept
<1>9. WritesKept'  BY <1>1, <1>3, <1>7, NotSaving
<1>10. FormatKept'  BY <1>3 DEF FormatKept
<1>11. QED  BY <1>7, <1>8, <1>9, <1>10 DEF IndInv

LEMMA ConfirmFormatKeeps ==
  ASSUME IndInv, ConfirmFormat
  PROVE  IndInv'
<1>1. run.at = "confirm" /\ UNCHANGED <<hardware, known, shown, faults>>
  BY DEF ConfirmFormat, Goes
<1>2. CASE run' = [run EXCEPT !.at = "ended", !.result = "failed"]  BY <1>1, <1>2, GivesUp
<1>3. CASE run' = [run EXCEPT !.at = "calls", !.may = {last_card_serial_no}]
  <2>1. /\ Working /\ run \in RunType /\ op.kind = "format" /\ run.result = "ok"
        /\ Typed /\ JobKept /\ SlotKept /\ op \in OpType /\ run.calls = CallsOf(op)
    BY <1>1, AskedFacts
  <2>2. /\ run' \in RunType /\ run'.ops = run.ops /\ run'.calls = run.calls
        /\ run'.at = "calls" /\ run'.all = run.all /\ run'.result = run.result
        /\ run'.got = run.got /\ run'.from = run.from /\ run'.outer = run.outer
        /\ run'.may = {last_card_serial_no} /\ run'.unsure = run.unsure
        /\ run'.card = run.card
    <3>1. PICK m \in SUBSET (Cards \cup {Nil}) : m = {last_card_serial_no}
      BY <2>1 DEF Typed
    <3>2. run' = [run EXCEPT !.at = "calls", !.may = m]  BY <1>3, <3>1
    <3>3. QED  BY <2>1, <3>1, <3>2 DEF RunType
  <2>3. Working'  BY <2>2 DEF Working
  <2>4. faults' \in 0 .. MaxFaults /\ attached' \in BOOLEAN /\ (attached' => slot # Nil)
    BY <1>1, <2>1 DEF Typed, TypeOK, SlotKept, hardware
  <2>5. Learned  BY <1>1, <2>1, NothingLearned DEF known
  <2>6. /\ Typed' /\ JobKept' /\ SlotKept' /\ FlagsKept' /\ HeldKept' /\ MemoryKept' /\ FilesKept'
        /\ LoadKept' /\ op' = op
    BY <1>1, <2>1, <2>2, <2>3, <2>4, <2>5, SameHeld DEF hardware
  <2>7. EndOf(CallsOf(op), CallsOf(op))  BY <2>1, FormatCalls
  <2>8. CallsOf(op)' = CallsOf(op)  BY <2>6 DEF CallsOf
  <2>9. CallsKept'  BY <2>1, <2>2, <2>7, <2>8 DEF CallsKept
  <2>10. WritesKept'  BY <2>1, <2>2, <2>6, NotSaving
  <2>11. FormatKept'  BY <1>1, <2>2 DEF FormatKept, known
  <2>12. QED  BY <2>6, <2>9, <2>10, <2>11 DEF IndInv
<1>4. QED  BY <1>2, <1>3 DEF ConfirmFormat, Goes

LEMMA CardChangedKeeps ==
  ASSUME IndInv, CardChanged
  PROVE  IndInv'
<1>1. run.at = "changed" /\ UNCHANGED <<card, slot, attached, doubtful, shown>>
  BY DEF CardChanged, Goes, hardware
<1>2. CASE run' = [run EXCEPT !.at = "ended", !.result = "failed"] /\ UNCHANGED <<known, faults>>
  BY <1>1, <1>2, GivesUp DEF hardware
<1>3. CASE \E read \in BOOLEAN :
             /\ run' = [Passed EXCEPT !.at = "calls", !.may = Cards]
             /\ StatusChanges(read) /\ Faults(Bad(read))
  <2>1. /\ Working /\ run \in RunType /\ op.kind = "format" /\ run.result = "ok"
        /\ Typed /\ JobKept /\ SlotKept /\ op \in OpType
    BY <1>1, AskedFacts
  <2>2. PICK read \in BOOLEAN :
             /\ run' = [Passed EXCEPT !.at = "calls", !.may = Cards]
             /\ StatusChanges(read) /\ Faults(Bad(read))
    BY <1>3
  <2>3. /\ run.calls = CallsOf(op) /\ run.calls \in Seq(CallType) /\ run.calls # <<>>
        /\ Tail(run.calls) \in Seq(CallType) /\ EndOf(Tail(run.calls), CallsOf(op))
    <3>1. run.calls = CallsOf(op)  BY <1>1, AskedFacts
    <3>2. CallsOf(op) \in Seq(CallType) /\ EndOf(CallsOf(op), CallsOf(op)) /\ CallsOf(op) # <<>>
      BY <2>1, FormatCalls
    <3>3. Len(CallsOf(op)) \in Nat \ {0}  BY <3>2
    <3>4. QED  BY <3>1, <3>2, <3>3, EndHead, HeadTailProperties
  <2>4. /\ run' \in RunType /\ run'.ops = run.ops /\ run'.calls = Tail(run.calls)
        /\ run'.at = "calls" /\ run'.all = run.all /\ run'.result = run.result
        /\ run'.got = run.got /\ run'.from = run.from /\ run'.outer = run.outer
        /\ run'.may = Cards /\ run'.unsure = run.unsure
        /\ run'.card = run.card
    <3>1. PICK s \in Seq(CallType) : s = Tail(run.calls)  BY <2>3
    <3>2. run' = [[run EXCEPT !.calls = s] EXCEPT !.at = "calls", !.may = Cards]
      BY <2>2, <3>1 DEF Passed
    <3>3. QED  BY <2>1, <3>1, <3>2 DEF RunType
  <2>5. Working'  BY <2>4 DEF Working
  <2>6. attached' \in BOOLEAN /\ (attached' => slot # Nil)
    BY <1>1, <2>1 DEF Typed, TypeOK, SlotKept
  <2>7. faults' \in 0 .. MaxFaults  BY <2>1, <2>2, BadIs, FaultsTyped
  <2>8. Learned  BY <2>1, <2>2, NoticedLearned
  <2>9. /\ Typed' /\ JobKept' /\ SlotKept' /\ FlagsKept' /\ HeldKept' /\ MemoryKept' /\ FilesKept'
        /\ LoadKept' /\ op' = op
    BY <1>1, <2>1, <2>4, <2>5, <2>6, <2>7, <2>8, SameHeld
  <2>10. CallsKept'
    <3>1. CallsOf(op)' = CallsOf(op)  BY <2>9 DEF CallsOf
    <3>2. QED  BY <2>1, <2>3, <2>4, <3>1 DEF CallsKept
  <2>11. WritesKept'  BY <2>1, <2>4, <2>9, NotSaving
  <2>12. last_card_serial_no' \in Cards \cup {Nil}  BY <2>9 DEF Typed
  <2>13. FormatKept'  BY <2>4, <2>12 DEF FormatKept
  <2>14. QED  BY <2>9, <2>10, <2>11, <2>13 DEF IndInv
<1>4. QED  BY <1>2, <1>3 DEF CardChanged, Goes

LEMMA FormatFailedKeeps ==
  ASSUME IndInv, FormatFailed
  PROVE  IndInv'
<1>1. run.at = "format_failed" /\ UNCHANGED <<hardware, known, shown, faults>>
  BY DEF FormatFailed, Goes
<1>2. CASE run' = [run EXCEPT !.at = "ended", !.result = "failed"]  BY <1>1, <1>2, GivesUp
<1>3. CASE run' = [run EXCEPT !.at = "calls", !.calls = CallsOf(op)]
  <2>1. /\ Working /\ run \in RunType /\ op.kind = "format" /\ run.result = "ok"
        /\ Typed /\ JobKept /\ SlotKept /\ FormatKept /\ op \in OpType
    BY <1>1, AskedFacts
  <2>2. /\ CallsOf(op) \in Seq(CallType) /\ EndOf(CallsOf(op), CallsOf(op))
    BY <2>1, FormatCalls
  <2>3. /\ run' \in RunType /\ run'.ops = run.ops /\ run'.calls = CallsOf(op)
        /\ run'.at = "calls" /\ run'.all = run.all /\ run'.result = run.result
        /\ run'.got = run.got /\ run'.from = run.from /\ run'.outer = run.outer
        /\ run'.may = run.may /\ run'.unsure = run.unsure
        /\ run'.card = run.card
    <3>1. PICK s \in Seq(CallType) : s = CallsOf(op)  BY <2>2
    <3>2. run' = [run EXCEPT !.at = "calls", !.calls = s]  BY <1>3, <3>1
    <3>3. QED  BY <2>1, <3>1, <3>2 DEF RunType
  <2>4. Working'  BY <2>3 DEF Working
  <2>5. faults' \in 0 .. MaxFaults /\ attached' \in BOOLEAN /\ (attached' => slot # Nil)
    BY <1>1, <2>1 DEF Typed, TypeOK, SlotKept, hardware
  <2>6. Learned  BY <1>1, <2>1, NothingLearned DEF known
  <2>7. /\ Typed' /\ JobKept' /\ SlotKept' /\ FlagsKept' /\ HeldKept' /\ MemoryKept' /\ FilesKept'
        /\ LoadKept' /\ op' = op
    BY <1>1, <2>1, <2>3, <2>4, <2>5, <2>6, SameHeld DEF hardware
  <2>8. CallsOf(op)' = CallsOf(op)  BY <2>7 DEF CallsOf
  <2>9. CallsKept'  BY <2>1, <2>2, <2>3, <2>8 DEF CallsKept
  <2>10. WritesKept'  BY <2>1, <2>3, <2>7, NotSaving
  <2>11. FormatKept'  BY <1>1, <2>1, <2>3, <2>7 DEF FormatKept, known
  <2>12. QED  BY <2>7, <2>9, <2>10, <2>11 DEF IndInv
<1>4. QED  BY <1>2, <1>3 DEF FormatFailed, Goes

----------------------------------------------------------------------------
(* A function is called                                                    *)

LEMMA KnownOwn ==
  ASSUME Typed, SlotKept, run.at # "idle", run.card # Nil
  PROVE  /\ Known \in Cards
         /\ \A c \in Sure : c = Known
<1>1. run.card \in Cards /\ last_card_serial_no \in Cards \cup {Nil}  BY DEF Typed, RunType
<1>2. Known \in Cards  BY <1>1 DEF Known
<1>3. ~run.unsure => slot = run.card /\ last_card_serial_no \in {slot, Nil}  BY DEF SlotKept
<1>4. ASSUME NEW c \in Sure PROVE c = Known
  <2>1. c \in Cards /\ (c = last_card_serial_no \/ (c = run.card /\ ~run.unsure))  BY DEF Sure
  <2>2. c # Nil  BY <2>1, NilApart
  <2>3. QED  BY <1>3, <2>1, <2>2 DEF Known
<1>5. QED  BY <1>2, <1>4

LEMMA NewFileOwn ==
  ASSUME Typed, SlotKept, HeldKept, run.at # "idle", run.card # Nil
  PROVE  /\ NewFile \in Data
         /\ origin # "other" => \A c \in Sure : NewFile.of = c
<1>1. Known \in Cards /\ \A c \in Sure : c = Known  BY KnownOwn
<1>2. CASE settings # Nil
  <2>1. NewFile = settings /\ settings \in Data  BY <1>2 DEF NewFile, Typed, TypeOK
  <2>2. settings \in Held  BY <1>2 DEF Held
  <2>3. QED  BY <2>1, <2>2 DEF HeldKept
<1>3. CASE settings = Nil
  <2>1. NewFile = [of |-> Known, version |-> 1]  BY <1>3 DEF NewFile
  <2>2. NewFile \in Data /\ NewFile.of = Known  BY <1>1, <2>1, FirstData
  <2>3. QED  BY <1>1, <2>2
<1>4. QED  BY <1>2, <1>3

LEMMA OneDatum ==
  ASSUME NEW a, NEW d, \A i \in 1 .. Len(a) : a[i].data = d
  PROVE  DataOf(a) \subseteq {d}
BY DEF DataOf

(* Something is known of the slot, so a card was there.                    *)
LEMMA CardThere ==
  ASSUME IndInv, Polled, settings # Nil \/ status # "absent"
  PROVE  run.card # Nil /\ Something
<1>1. SlotKept /\ run.at # "idle" /\ (run.at = "flags" => ~removals)  BY DEF IndInv, Polled
<1>2. QED  BY <1>1 DEF SlotKept, Something

LEMMA Begins ==
  ASSUME IndInv, Polled, run.card # Nil,
         NEW t \in Seq(Statuses \cup {"save"}), NEW a \in Jobs, a # Reload,
         run' = Begun([run EXCEPT !.then = t], a),
         UNCHANGED <<card, slot, attached, doubtful, last_card_serial_no, faults, status>>,
         origin' \in {origin, "other"},
         settings' \in Data \cup {Nil}, settings' = Nil <=> settings = Nil,
         a \in Profiles => settings # Nil,
         origin' # "other" => \A c \in Sure, d \in ({settings'} \cup DataOf(a)) \ {Nil} : d.of = c,
         last_card_state' \in BOOLEAN, removals' \in BOOLEAN, insertions' \in BOOLEAN,
         last_card_state' \/ removals', insertions' => last_card_state' /\ removals'
  PROVE  IndInv'
<1>1. /\ run.at \in {"polled", "flags"} /\ (run.at = "flags" => ~removals)
      /\ Typed /\ SlotKept /\ FlagsKept /\ JobKept /\ HeldKept /\ FilesKept
  BY DEF Polled, IndInv
<1>2. ~Working /\ run.outer = <<>> /\ run.got = Nil  BY <1>1 DEF Working, JobKept
<1>3. PICK r : r = [run EXCEPT !.then = t]  OBVIOUS
<1>4. /\ r \in RunType /\ r.got = Nil /\ r.outer = <<>> /\ r.card = run.card
      /\ r.unsure = run.unsure
  BY <1>1, <1>2, <1>3, ZenonT(60) DEF Typed, RunType
<1>5. run' = Begun(r, a)  BY <1>3
<1>6. /\ run' \in RunType /\ Working' /\ run'.at \in {"calls", "confirm"}
      /\ run'.all = a /\ run'.outer = <<>> /\ run'.card = run.card /\ run'.unsure = run.unsure
      /\ run'.tries = 1
      /\ JobKept' /\ CallsKept' /\ FormatKept' /\ WritesKept' /\ LoadKept'
  <2>1. \A i \in 1 .. Len(r.outer) :
          /\ r.outer[i] \in Profiles \cup NewFiles \cup {Reload}
          /\ r.outer[i] \in Profiles => r.outer[i][1].place = Settings
          /\ r.outer[i] = Reload => i = Len(r.outer)
    <3>1. Len(r.outer) = 0  BY <1>4
    <3>2. QED  BY <3>1
  <2>2. /\ run' \in RunType /\ Working' /\ run'.at \in {"calls", "confirm"}
        /\ run'.all = a /\ run'.ops = a /\ run'.got = Nil /\ run'.outer = r.outer
        /\ run'.card = r.card /\ run'.unsure = r.unsure /\ run'.then = r.then
        /\ run'.tries = 1
        /\ JobKept' /\ CallsKept' /\ FormatKept' /\ WritesKept' /\ LoadKept'
    BY <1>1, <1>4, <1>5, <2>1, Starting
  <2>3. QED  BY <1>4, <2>2
<1>7. Typed'
  <2>1. 1 \in 0 .. 2  OBVIOUS
  <2>2. QED  BY <1>1, <1>6, <2>1 DEF Typed, TypeOK
<1>8. SlotKept'  BY <1>1, <1>6 DEF SlotKept
<1>9. FlagsKept'  BY <1>1 DEF FlagsKept
<1>10. MemoryKept'  BY <1>6 DEF MemoryKept
<1>11. Held' = ({settings'} \cup DataOf(a)) \ {Nil}
  <2>1. DataOf(run.all)' = DataOf(a)  BY <1>6 DEF DataOf
  <2>2. QED  BY <1>6, <2>1 DEF Held
<1>12. Sure' \subseteq Sure
  <2> SUFFICES ASSUME NEW c \in Sure' PROVE c \in Sure
    OBVIOUS
  <2>1. /\ c \in Cards /\ run'.at \notin {"idle", "flags", "polled"}
        /\ c = last_card_serial_no \/ (c = run.card /\ ~run.unsure)
    BY <1>6 DEF Sure
  <2>2. QED  BY <1>1, <2>1 DEF Sure
<1>13. HeldKept'  BY <1>11, <1>12 DEF HeldKept
<1>14. FilesKept'  BY <1>1, <1>12 DEF FilesKept, Whole
<1>15. QED  BY <1>6, <1>7, <1>8, <1>9, <1>10, <1>13, <1>14 DEF IndInv

(* What is saved belongs to the card, as the settings in memory do.        *)
LEMMA NewVersion ==
  ASSUME Typed, HeldKept, settings # Nil, NEW v \in Versions
  PROVE  LET d == [settings EXCEPT !.version = v]
         IN d \in Data /\ (origin # "other" => \A c \in Sure : d.of = c /\ settings.of = c)
<1>1. settings \in Data  BY DEF Typed, TypeOK
<1>2. settings \in Held  BY DEF Held
<1>3. [settings EXCEPT !.version = v] \in Data /\ [settings EXCEPT !.version = v].of = settings.of
  BY <1>1 DEF Data
<1>4. QED  BY <1>2, <1>3 DEF HeldKept

LEMMA DoesFacts ==
  ASSUME IndInv, NEW ops, Does(ops)
  PROVE  /\ Polled /\ run.card # Nil /\ settings # Nil /\ Typed /\ HeldKept
         /\ <<>> \in Seq(Statuses \cup {"save"})
         /\ run' = Begun([run EXCEPT !.then = <<>>], ops)
         /\ UNCHANGED <<hardware, known, faults>>
         /\ last_card_state' \in BOOLEAN /\ removals' \in BOOLEAN /\ insertions' \in BOOLEAN
         /\ last_card_state' \/ removals'
         /\ insertions' => last_card_state' /\ removals'
<1>1. Polled /\ settings # Nil /\ UNCHANGED <<hardware, known, faults>>  BY DEF Does
<1>2. run.card # Nil /\ Something  BY <1>1, CardThere
<1>3. Typed /\ HeldKept /\ FlagsKept  BY DEF IndInv
<1>4. /\ last_card_state' \in BOOLEAN /\ removals' \in BOOLEAN /\ insertions' \in BOOLEAN
      /\ last_card_state' \/ removals'
      /\ insertions' => last_card_state' /\ removals'
  BY <1>1, <1>2, <1>3 DEF Typed, FlagsKept, known
<1>5. <<>> \in Seq(Statuses \cup {"save"})  OBVIOUS
<1>6. QED  BY <1>1, <1>2, <1>3, <1>4, <1>5 DEF Does

LEMMA ProfileIs ==
  ASSUME NEW p \in Places, NEW d \in Data
  PROVE  /\ Profile(p, d) \in Profiles /\ Profile(p, d) \in Jobs /\ Profile(p, d) # Reload
         /\ DataOf(Profile(p, d)) \subseteq {d}
<1>1. Profile(p, d) \in Profiles  BY DEF Profiles
<1>2. Profile(p, d) \in Jobs  BY <1>1 DEF Jobs
<1>3. Profile(p, d)[1].kind = "save"  BY <1>1, ProfileFacts
<1>4. Profile(p, d) # Reload  BY <1>3, OtherFacts
<1>5. Save(p, d, TRUE, FALSE) \in OpType /\ Save(p, d, TRUE, FALSE).data = d
  BY SaveTyped DEF Save
<1>6. Len(Profile(p, d)) = 1 /\ Profile(p, d)[1] = Save(p, d, TRUE, FALSE)
  BY <1>5, OneLong DEF Profile
<1>7. \A i \in 1 .. Len(Profile(p, d)) : Profile(p, d)[i].data = d
  <2>1. \A i \in 1 .. 1 : i = 1  OBVIOUS
  <2>2. QED  BY <1>5, <1>6, <2>1, Zenon
<1>8. DataOf(Profile(p, d)) \subseteq {d}  BY <1>7, OneDatum
<1>9. QED  BY <1>1, <1>2, <1>4, <1>8

LEMMA SaveProfileKeeps ==
  ASSUME IndInv, NEW v \in Versions, SaveProfile(v)
  PROVE  IndInv'
<1>1. PICK d : d = [settings EXCEPT !.version = v]  OBVIOUS
<1>2. Does(Profile(Settings, d)) /\ settings' = d /\ UNCHANGED <<status, origin>>
  BY <1>1 DEF SaveProfile, Profile
<1>3. /\ Polled /\ run.card # Nil /\ settings # Nil /\ Typed /\ HeldKept
      /\ <<>> \in Seq(Statuses \cup {"save"})
      /\ run' = Begun([run EXCEPT !.then = <<>>], Profile(Settings, d))
      /\ UNCHANGED <<hardware, known, faults>>
      /\ last_card_state' \in BOOLEAN /\ removals' \in BOOLEAN /\ insertions' \in BOOLEAN
      /\ last_card_state' \/ removals'
      /\ insertions' => last_card_state' /\ removals'
  BY <1>2, DoesFacts
<1>4. d \in Data /\ (origin # "other" => \A c \in Sure : d.of = c)  BY <1>1, <1>3, NewVersion
<1>5. PICK a : a = Profile(Settings, d)  OBVIOUS
<1>6. a \in Jobs /\ a # Reload /\ DataOf(a) \subseteq {d}  BY <1>4, <1>5, ProfileIs, PlacesTyped
<1>7. settings' \in Data \cup {Nil} /\ (settings' = Nil <=> settings = Nil)
  BY <1>2, <1>3, <1>4, NilApart
<1>8. origin # "other" => \A c \in Sure, e \in ({settings'} \cup DataOf(a)) \ {Nil} : e.of = c
  BY <1>2, <1>4, <1>6
<1>9. QED  BY <1>2, <1>3, <1>5, <1>6, <1>7, <1>8, Begins DEF hardware, known

LEMMA SaveRegionKeeps ==
  ASSUME IndInv, NEW v \in Versions, NEW p \in Places \ {Settings}, SaveRegion(p, v)
  PROVE  IndInv'
<1>1. PICK d : d = [settings EXCEPT !.version = v]  OBVIOUS
<1>2. Does(Profile(p, d)) /\ UNCHANGED shown
  BY <1>1 DEF SaveRegion, Profile
<1>3. /\ Polled /\ run.card # Nil /\ settings # Nil /\ Typed /\ HeldKept
      /\ <<>> \in Seq(Statuses \cup {"save"})
      /\ run' = Begun([run EXCEPT !.then = <<>>], Profile(p, d))
      /\ UNCHANGED <<hardware, known, faults>>
      /\ last_card_state' \in BOOLEAN /\ removals' \in BOOLEAN /\ insertions' \in BOOLEAN
      /\ last_card_state' \/ removals'
      /\ insertions' => last_card_state' /\ removals'
  BY <1>2, DoesFacts
<1>4. d \in Data /\ (origin # "other" => \A c \in Sure : d.of = c /\ settings.of = c)
  BY <1>1, <1>3, NewVersion
<1>5. PICK a : a = Profile(p, d)  OBVIOUS
<1>6. a \in Jobs /\ a # Reload /\ DataOf(a) \subseteq {d}  BY <1>4, <1>5, ProfileIs
<1>7. settings' \in Data \cup {Nil} /\ (settings' = Nil <=> settings = Nil)
  BY <1>2, <1>3 DEF Typed, TypeOK, shown
<1>8. origin # "other" => \A c \in Sure, e \in ({settings'} \cup DataOf(a)) \ {Nil} : e.of = c
  BY <1>2, <1>4, <1>6 DEF shown
<1>9. QED  BY <1>2, <1>3, <1>5, <1>6, <1>7, <1>8, Begins DEF hardware, known, shown

LEMMA LoadRegionKeeps ==
  ASSUME IndInv, NEW p \in Places \ {Settings}, LoadRegion(p)
  PROVE  IndInv'
<1>1. PICK a : a = <<Op("load", p)>>  OBVIOUS
<1>2. Does(a) /\ UNCHANGED shown  BY <1>1 DEF LoadRegion
<1>3. /\ Polled /\ run.card # Nil /\ settings # Nil /\ Typed /\ HeldKept
      /\ <<>> \in Seq(Statuses \cup {"save"})
      /\ run' = Begun([run EXCEPT !.then = <<>>], a)
      /\ UNCHANGED <<hardware, known, faults>>
      /\ last_card_state' \in BOOLEAN /\ removals' \in BOOLEAN /\ insertions' \in BOOLEAN
      /\ last_card_state' \/ removals'
      /\ insertions' => last_card_state' /\ removals'
  BY <1>2, DoesFacts
<1>4. a \in Loads /\ a \in Jobs /\ a \notin Profiles
  <2>1. a \in Loads  BY <1>1 DEF Loads
  <2>2. QED  BY <2>1, OtherFacts, ProfileFacts DEF Jobs
<1>5. a # Reload
  <2>1. Op("load", p) \in OpType /\ Op("load", p).place = p  BY DEF Op, OpType
  <2>2. a[1].place = p  BY <1>1, <2>1, OneLong
  <2>3. QED  BY <2>2, OtherFacts
<1>6. DataOf(a) = {}  BY <1>4, NoData
<1>7. settings' \in Data \cup {Nil} /\ (settings' = Nil <=> settings = Nil) /\ settings \in Held
  BY <1>2, <1>3 DEF Typed, TypeOK, shown, Held
<1>8. origin # "other" => \A c \in Sure, e \in ({settings'} \cup DataOf(a)) \ {Nil} : e.of = c
  BY <1>2, <1>3, <1>6, <1>7 DEF shown, HeldKept
<1>9. QED  BY <1>2, <1>3, <1>4, <1>5, <1>7, <1>8, Begins DEF hardware, known, shown

LEMMA RecreateKeeps ==
  ASSUME IndInv, Recreate
  PROVE  IndInv'
<1>1. Polled /\ UNCHANGED <<hardware, faults>>  BY DEF Recreate
<1>2. CASE run' = Idle /\ UNCHANGED <<known, shown>>  BY <1>1, <1>2, Ceases
<1>3. ASSUME NEW left \in {i \in DOMAIN run.then : run.then[i] = status},
             NEW r, r = [run EXCEPT !.then = SubSeq(@, left + 1, Len(@))],
             \/ /\ status = "unformatted"
                /\ run' = Begun(r, Formatted) /\ Formatting
             \/ /\ status = "damaged"
                /\ run' = Begun(r, Deletion) /\ UNCHANGED <<known, shown>>
             \/ /\ status = "no_file"
                /\ run' = Begun(r, Creation(NewFile)) /\ UNCHANGED <<known, shown>>
      PROVE  IndInv'
  <2>1. status # "absent"  BY <1>3
  <2>2. run.card # Nil /\ Something  BY <1>1, <2>1, CardThere
  <2>3. Typed /\ HeldKept /\ FlagsKept /\ SlotKept /\ run.at # "idle"  BY <1>1 DEF IndInv, Polled
  <2>4. PICK t \in Seq(Statuses \cup {"save"}) : r = [run EXCEPT !.then = t]
    <3>1. run.then \in Seq(Statuses \cup {"save"}) /\ left \in 1 .. Len(run.then)
      BY <2>3 DEF Typed, RunType
    <3>2. SubSeq(run.then, left + 1, Len(run.then)) \in Seq(Statuses \cup {"save"})
      BY <3>1
    <3>3. QED  BY <1>3, <3>2
  <2>5. NewFile \in Data /\ (origin # "other" => \A c \in Sure : NewFile.of = c)
    BY <2>2, <2>3, NewFileOwn
  <2>6. PICK a \in {Formatted, Deletion} \cup NewFiles :
          /\ run' = Begun(r, a)
          /\ DataOf(a) \subseteq {NewFile}
          /\ Formatting \/ UNCHANGED <<known, shown>>
    <3>1. CASE run' = Begun(r, Formatted) /\ Formatting
      <4>1. DataOf(Formatted) = {}  BY NoData
      <4>2. QED  BY <3>1, <4>1
    <3>2. CASE run' = Begun(r, Deletion) /\ UNCHANGED <<known, shown>>
      <4>1. DataOf(Deletion) = {}  BY NoData
      <4>2. QED  BY <3>2, <4>1
    <3>3. CASE run' = Begun(r, Creation(NewFile)) /\ UNCHANGED <<known, shown>>
      <4>1. PICK a : a = Creation(NewFile)  OBVIOUS
      <4>2. a \in NewFiles  BY <2>5, <4>1 DEF NewFiles
      <4>3. Len(a) = Regions + 2 /\ \A i \in 1 .. Regions + 2 : a[i].data = NewFile
        BY <2>5, <4>1, CreationOf
      <4>4. DataOf(a) \subseteq {NewFile}  BY <4>3, OneDatum
      <4>5. QED  BY <3>3, <4>1, <4>2, <4>4
    <3>4. QED  BY <1>3, <3>1, <3>2, <3>3
  <2>7. a \in Jobs /\ a # Reload /\ a \notin Profiles
    <3>1. a \in Jobs  BY <2>6 DEF Jobs
    <3>2. a[1].kind # "load" /\ (a[1].kind = "save" => a[1].make)
      BY <2>6, OtherFacts, CreationFacts, <3>1, JobFacts
    <3>3. QED  BY <3>1, <3>2, OtherFacts, ProfileFacts
  <2>8. /\ last_card_state' \in BOOLEAN /\ removals' \in BOOLEAN /\ insertions' \in BOOLEAN
        /\ last_card_state' \/ removals'
        /\ insertions' => last_card_state' /\ removals'
        /\ UNCHANGED <<last_card_serial_no, status, settings>>
        /\ origin' \in {origin, "other"}
    <3>1. CASE Formatting  BY <3>1 DEF Formatting
    <3>2. CASE UNCHANGED <<known, shown>>  BY <2>2, <2>3, <3>2 DEF Typed, FlagsKept, known, shown
    <3>3. QED  BY <2>6, <3>1, <3>2
  <2>9. settings' \in Data \cup {Nil} /\ (settings' = Nil <=> settings = Nil)
    BY <2>3, <2>8 DEF Typed, TypeOK
  <2>10. origin' # "other" => \A c \in Sure, e \in ({settings'} \cup DataOf(a)) \ {Nil} : e.of = c
    <3>1. settings' # Nil => settings' \in Held  BY <2>8 DEF Held
    <3>2. origin' # "other" => origin # "other"  BY <2>8
    <3>3. QED  BY <2>3, <2>5, <2>6, <3>1, <3>2 DEF HeldKept
  <2>11. QED
    BY <1>1, <2>2, <2>4, <2>6, <2>7, <2>8, <2>9, <2>10, Begins DEF hardware
<1>4. QED  BY <1>2, <1>3 DEF Recreate, Formatted, Deletion

----------------------------------------------------------------------------
(* The calls that write                                                    *)

LEMMA ChangesFacts ==
  ASSUME Typed, slot \in Cards, NEW f \in FileType, Changes(f)
  PROVE  /\ card' \in [Cards -> FileType] /\ DOMAIN card' = Cards
         /\ card'[slot] = f /\ \A c \in Cards \ {slot} : card'[c] = card[c]
         /\ doubtful' \subseteq Cards
         /\ \A c \in Cards \ doubtful' :
              c \notin doubtful \/ (c = slot /\ f = NoFile)
         /\ slot \notin doubtful' /\ f # NoFile => slot \notin doubtful /\ ~Suspect
         /\ f # NoFile /\ Suspect => \A c \in {slot, last_card_serial_no} \ {Nil} : c \in doubtful'
         /\ origin' \in {"own", "other", "gone"}
         /\ origin' = "other" <=> origin = "other"
         /\ settings = Nil => origin' = origin
         /\ settings # Nil /\ origin' = "own" => origin = "own" /\ f # NoFile
         /\ UNCHANGED <<slot, attached, known, status, settings, faults>>
<1>1. /\ card \in [Cards -> FileType] /\ doubtful \subseteq Cards
      /\ origin \in {"own", "other", "gone"} /\ last_card_serial_no \in Cards \cup {Nil}
  BY DEF Typed
<1>2. /\ card' = [card EXCEPT ![slot] = f]
      /\ UNCHANGED <<slot, attached, known, status, settings, faults>>
      /\ origin' = IF f = NoFile /\ settings # Nil /\ origin = "own" THEN "gone" ELSE origin
  BY DEF Changes
<1>3. /\ card' \in [Cards -> FileType] /\ DOMAIN card' = Cards
      /\ card'[slot] = f /\ \A c \in Cards \ {slot} : card'[c] = card[c]
  BY <1>1, <1>2
<1>4. \/ f = NoFile /\ doubtful' = doubtful \ {slot}
      \/ f # NoFile /\ Suspect /\ doubtful' = doubtful \cup ({slot, last_card_serial_no} \ {Nil})
      \/ f # NoFile /\ ~Suspect /\ doubtful' = doubtful
  BY DEF Changes
<1>5. QED  BY <1>1, <1>2, <1>3, <1>4, NilApart

LEMMA Changing ==
  ASSUME IndInv, At("calls"), attached, run.all \notin Loads, NEW f \in FileType, Changes(f),
         run' \in RunType, run'.at = "calls", run'.ops = run.ops, run'.all = run.all,
         run'.outer = run.outer, run'.got = run.got, run'.card = run.card,
         run'.unsure = run.unsure,
         f # NoFile /\ Whole(card[slot]) => Whole(f),
         f # NoFile /\ slot \notin doubtful /\ ~Suspect =>
           /\ f.sector[2].sum /\ f.sector[2].data # Nil => Whole(f)
           /\ \A s \in Sectors : f.sector[s].data # Nil => f.sector[s].data.of = slot
  PROVE  /\ Typed' /\ JobKept' /\ SlotKept' /\ FlagsKept' /\ HeldKept' /\ MemoryKept' /\ FilesKept'
         /\ LoadKept'
         /\ Sure' = Sure /\ op' = op
<1>1. /\ Typed /\ JobKept /\ SlotKept /\ FlagsKept /\ HeldKept /\ MemoryKept /\ FilesKept
      /\ LoadKept /\ Working
  BY DEF IndInv, Working
<1>2. slot \in Cards  BY <1>1 DEF Typed, TypeOK, SlotKept
<1>3. /\ card' \in [Cards -> FileType] /\ DOMAIN card' = Cards
      /\ card'[slot] = f /\ \A c \in Cards \ {slot} : card'[c] = card[c]
      /\ doubtful' \subseteq Cards
      /\ \A c \in Cards \ doubtful' :
           c \notin doubtful \/ (c = slot /\ f = NoFile)
      /\ slot \notin doubtful' /\ f # NoFile => slot \notin doubtful /\ ~Suspect
      /\ origin' \in {"own", "other", "gone"}
      /\ origin' = "other" <=> origin = "other"
      /\ settings = Nil => origin' = origin
      /\ settings # Nil /\ origin' = "own" => origin = "own" /\ f # NoFile
      /\ UNCHANGED <<slot, attached, known, status, settings, faults>>
  BY <1>1, <1>2, ChangesFacts
<1>4. Working' /\ run.at = "calls"  BY DEF Working
<1>5. Typed'
  <2>1. run'.tries \in 0 .. 2
    <3>1. run'.tries \in {0, 1, 2}  BY DEF RunType
    <3>2. QED  BY <3>1
  <2>2. QED  BY <1>1, <1>3, <2>1 DEF Typed, TypeOK, known
<1>6. JobKept'  BY <1>1, <1>4 DEF JobKept
<1>7. SlotKept'  BY <1>1, <1>3, <1>4 DEF SlotKept, known
<1>8. FlagsKept'  BY <1>1, <1>3, <1>4 DEF FlagsKept, known, Something
<1>9. MemoryKept'  BY <1>1, <1>3 DEF MemoryKept
<1>10. Sure' = Sure  BY <1>3 DEF Sure, known
<1>11. Held' = Held  BY <1>3, HeldSame
<1>12. HeldKept'  BY <1>1, <1>3, <1>10, <1>11 DEF HeldKept
<1>13. run.got = Nil  BY <1>1 DEF LoadKept
<1>14. LoadKept'  BY <1>13 DEF LoadKept
<1>15. FilesKept'
  <2>1. \A c \in Cards \ {slot} : Whole(card'[c]) <=> Whole(card[c])  BY <1>3
  <2>2. ASSUME NEW c \in Cards \ doubtful'
        PROVE  /\ card'[c].sector[2].sum /\ card'[c].sector[2].data # Nil => Whole(card'[c])
               /\ \A s \in Sectors : card'[c].sector[s].data # Nil => card'[c].sector[s].data.of = c
    <3>1. CASE c # slot  BY <1>1, <1>3, <2>1, <3>1 DEF FilesKept
    <3>2. CASE c = slot /\ f = NoFile
      <4>1. \A s \in Sectors : card'[c].sector[s].data = Nil
        BY <1>3, <3>2, BlankFiles DEF Blank
      <4>2. QED  BY <4>1, CallsTyped
    <3>3. CASE c = slot /\ f # NoFile  BY <1>3, <3>3
    <3>4. QED  BY <3>1, <3>2, <3>3
  <2>3. ASSUME settings' # Nil, origin' = "own", NEW c \in Sure \ doubtful' PROVE Whole(card'[c])
    <3>1. settings # Nil /\ origin = "own" /\ f # NoFile /\ c \in Cards /\ c \in Cards \ doubtful'
      BY <1>3, <2>3 DEF Sure
    <3>2. c \in Sure \ doubtful  BY <1>3, <2>3, <3>1
    <3>3. Whole(card[c])  BY <1>1, <3>1, <3>2 DEF FilesKept
    <3>4. CASE c # slot  BY <2>1, <3>1, <3>3, <3>4
    <3>5. CASE c = slot  BY <1>3, <3>1, <3>3, <3>5
    <3>6. QED  BY <3>4, <3>5
  <2>4. QED  BY <1>10, <2>2, <2>3 DEF FilesKept, Whole
<1>16. op' = op  BY DEF op
<1>17. QED  BY <1>5, <1>6, <1>7, <1>8, <1>9, <1>10, <1>12, <1>14, <1>15, <1>16

Put(g, s, x) == [g EXCEPT !.sector[s] = x]

LEMMA Rewritten ==
  ASSUME NEW g \in FileType, NEW s \in Sectors, NEW x \in SectorType,
         NEW f, f = Put(g, s, x)
  PROVE  /\ f \in FileType /\ f.file = g.file /\ f.icon = g.icon /\ f.sector[s] = x
         /\ \A i \in Sectors \ {s} : f.sector[i] = g.sector[i]
         /\ x # Blank => /\ f # NoFile
                         /\ Whole(g) => Whole(f)
                         /\ \A i \in Sectors : g.sector[i] # Blank => f.sector[i] # Blank
<1>1. PICK h : h = [g.sector EXCEPT ![s] = x]  OBVIOUS
<1>2. g.sector \in [Sectors -> SectorType]  BY DEF FileType
<1>3. /\ h \in [Sectors -> SectorType] /\ h[s] = x
      /\ \A i \in Sectors \ {s} : h[i] = g.sector[i]
  BY <1>1, <1>2
<1>4. f = [g EXCEPT !.sector = h]  BY <1>1 DEF Put
<1>5. f \in FileType /\ f.file = g.file /\ f.icon = g.icon /\ f.sector = h
  BY <1>3, <1>4 DEF FileType
<1>6. ASSUME x # Blank
      PROVE  /\ f # NoFile /\ (Whole(g) => Whole(f))
             /\ \A i \in Sectors : g.sector[i] # Blank => f.sector[i] # Blank
  <2>1. f # NoFile  BY <1>3, <1>5, <1>6, BlankFiles
  <2>2. \A i \in Sectors : g.sector[i] # Blank => f.sector[i] # Blank  BY <1>3, <1>5, <1>6
  <2>3. Places \subseteq Sectors  BY CallsTyped
  <2>4. QED  BY <1>5, <2>1, <2>2, <2>3 DEF Whole
<1>7. QED  BY <1>3, <1>5, <1>6

(* Where a save stands when it writes                                      *)
LEMMA Writing ==
  ASSUME IndInv, run.at = "calls", run.calls # <<>>, attached,
         call \in {"create", "erase", "program", "status"}
  PROVE  /\ Working /\ Typed /\ JobKept /\ CallsKept /\ SlotKept /\ FilesKept /\ WritesKept
         /\ op.kind = "save" /\ run.result = "ok" /\ Saves
         /\ slot \in Cards /\ card[slot] \in FileType
         /\ run.all \notin Loads /\ run.all \in Profiles \cup NewFiles
         /\ Left \in Nat /\ Calls \in Nat /\ Left < Calls
         /\ Len(Tail(run.calls)) = Left - 1
         /\ \A c \in Sure : c \in {slot, last_card_serial_no}
         /\ ~Suspect => slot \in Sure /\ \A c \in Sure : c = slot
         /\ call # "create" => Opened
<1>1. /\ Working /\ Typed /\ JobKept /\ CallsKept /\ SlotKept /\ FilesKept /\ WritesKept
  BY DEF IndInv, Working
<1>2. call # "release" /\ call \notin {"mount", "open", "read", "check", "unmount", "delete", "notice", "format"}
  OBVIOUS
<1>3. op.kind = "save"
  <2>1. op.kind \in {"save", "load", "delete", "format"}  BY <1>1, OpOfJob
  <2>2. QED  BY <1>1, <1>2, <2>1, OtherSteps
<1>4. run.result = "ok" /\ Len(Tail(run.calls)) = Left - 1 /\ Left \in Nat
  BY <1>1, <1>2, CallFacts DEF Left
<1>5. Saves  BY <1>3 DEF Saves
<1>6. slot \in Cards /\ card[slot] \in FileType  BY <1>1 DEF Typed, TypeOK, SlotKept
<1>7. run.all \in Profiles \cup NewFiles /\ run.all \notin Loads  BY <1>1, <1>3, OpOfJob
<1>8. /\ Calls \in {7, 9} /\ Left \in 1 .. Calls
      /\ call = "create" => Left + 2 = Calls
      /\ call # "create" => Left + 3 <= Calls
  <2>1. /\ Calls \in {7, 9} /\ Left \in 1 .. Calls
        /\ call \in {"open", "create"} <=> Left + 2 = Calls
        /\ call = "erase" => Left + 3 <= Calls
        /\ call \in {"program", "status", "unmount"} => Left + 4 <= Calls
    BY <1>1, <1>2, <1>3, SaveFacts
  <2>2. Left + 4 <= Calls => Left + 3 <= Calls  BY <1>4, <2>1
  <2>3. QED  BY <2>1, <2>2
<1>9. Left < Calls /\ Calls \in Nat  BY <1>4, <1>8
<1>10. ~run.unsure => slot = run.card /\ last_card_serial_no \in {slot, Nil}
  BY <1>1 DEF SlotKept, Working
<1>11. \A c \in Sure : c \in {slot, last_card_serial_no}  BY <1>10 DEF Sure
<1>12. ~Suspect => slot \in Sure /\ \A c \in Sure : c = slot
  BY <1>6, <1>10, <1>11 DEF Sure, Suspect
<1>13. call # "create" => Opened  BY <1>4, <1>5, <1>8 DEF Opened, Left, Calls
<1>14. QED
  BY <1>1, <1>3, <1>4, <1>5, <1>6, <1>7, <1>9, <1>10, <1>11, <1>12, <1>13

LEMMA WrittenKeeps ==
  ASSUME IndInv, run.at = "calls", run.calls # <<>>, attached,
         call \in {"erase", "program", "status"},
         NEW f \in FileType, Changes(f), run' = Passed, f # NoFile,
         f.file = card[slot].file,
         \A s \in Sectors : card[slot].sector[s] # Blank => f.sector[s] # Blank,
         call = "erase" /\ sector = op.place => f.sector[op.place] # Blank,
         slot \notin doubtful /\ ~Suspect =>
           /\ f.sector[2].sum /\ f.sector[2].data # Nil => Whole(f)
           /\ \A s \in Sectors : f.sector[s].data # Nil => f.sector[s].data.of = slot
  PROVE  IndInv'
<1>1. /\ Working /\ Typed /\ JobKept /\ CallsKept /\ SlotKept /\ FilesKept /\ WritesKept
      /\ op.kind = "save" /\ run.result = "ok" /\ Saves
      /\ slot \in Cards /\ card[slot] \in FileType
      /\ run.all \notin Loads
      /\ Left \in Nat /\ Calls \in Nat /\ Left < Calls
      /\ Len(Tail(run.calls)) = Left - 1
      /\ \A c \in Sure : c \in {slot, last_card_serial_no}
      /\ ~Suspect => \A c \in Sure : c = slot
      /\ call # "create" => Opened
  BY Writing
<1>2. /\ run' \in RunType /\ run'.at = run.at /\ run'.ops = run.ops /\ run'.all = run.all
      /\ run'.got = run.got /\ run'.outer = run.outer /\ run'.unsure = run.unsure
      /\ run'.card = run.card /\ run'.calls = Tail(run.calls) /\ run'.result = run.result
  BY <1>1, PassedFacts
<1>3. Whole(card[slot]) => Whole(f)
  <2>1. Places \subseteq Sectors  BY CallsTyped
  <2>2. QED  BY <2>1 DEF Whole
<1>4. /\ Typed' /\ JobKept' /\ SlotKept' /\ FlagsKept' /\ HeldKept' /\ MemoryKept' /\ FilesKept'
      /\ LoadKept' /\ Sure' = Sure /\ op' = op
  BY <1>1, <1>2, <1>3, Changing
<1>5. /\ card'[slot] = f /\ UNCHANGED <<slot, attached, known>>
      /\ slot \notin doubtful' => slot \notin doubtful /\ ~Suspect
      /\ Suspect => \A c \in {slot, last_card_serial_no} \ {Nil} : c \in doubtful'
  BY <1>1, ChangesFacts
<1>6. CallsKept'
  <2>1. call # "release"  OBVIOUS
  <2>2. QED  BY <1>1, <1>2, <2>1, Passes
<1>7. op.place \in Sectors
  <2>1. op.place \in Places  BY <1>1, OpFacts DEF OpType
  <2>2. QED  BY <2>1, CallsTyped
<1>8. Left + 3 <= Calls /\ (Left + 3 = Calls => f.sector[op.place] # Blank) /\ (Left + 3 # Calls => Erased)
  <2>1. call # "release"  OBVIOUS
  <2>2. /\ call = "erase" => Left + 3 <= Calls
        /\ Left + 3 = Calls => call = "erase" /\ sector = op.place
        /\ call \in {"program", "status", "unmount"} => Left + 4 <= Calls
    BY <1>1, <2>1, SaveFacts
  <2>3. (Left + 4 <= Calls => Left + 3 <= Calls) /\ (Left + 3 <= Calls /\ Left + 3 # Calls => Left + 4 <= Calls)
    BY <1>1
  <2>4. Left + 3 <= Calls  BY <2>2, <2>3
  <2>5. Left + 3 # Calls => Erased  BY <1>1, <2>3, <2>4 DEF Erased, Left, Calls
  <2>6. QED  BY <2>2, <2>4, <2>5
<1>9. Nth' = Nth  BY <1>2 DEF Nth
<1>10. WritesKept'
  <2>0. f.file  BY <1>1 DEF WritesKept
  <2>00. \A c \in Sure \ doubtful' : c = slot /\ slot \in Sure \ doubtful
    <3> SUFFICES ASSUME NEW c \in Sure \ doubtful' PROVE c = slot /\ slot \in Sure \ doubtful
      OBVIOUS
    <3>1. c # Nil  BY NilApart DEF Sure
    <3>2. ~Suspect  BY <1>1, <1>5, <3>1
    <3>3. QED  BY <1>1, <1>5, <3>2
  <2> SUFFICES ASSUME NEW c \in Sure \ doubtful'
               PROVE  /\ ~op.make => f.file /\ f.sector[op.place] # Blank
                      /\ run.all \in NewFiles => \A p \in 3 .. Nth : f.sector[p] # Blank
    <3>1. (\A c \in Sure \ doubtful' : c = slot) /\ run'.at # "ended"  BY <1>1, <1>2, <2>00
    <3>2. QED  BY <1>1, <1>2, <1>4, <1>5, <1>9, <2>0, <3>1 DEF WritesKept
  <2>1. slot \in Sure \ doubtful /\ Opened  BY <1>1, <2>00
  <2>2. ~op.make => f.file  BY <2>0
  <2>3. ~op.make => f.sector[op.place] # Blank
    <3>1. Erased /\ ~op.make => card[slot].sector[op.place] # Blank  BY <1>1, <2>1 DEF WritesKept
    <3>2. QED  BY <1>7, <1>8, <3>1
  <2>4. ASSUME run.all \in NewFiles, NEW p \in 3 .. Nth PROVE f.sector[p] # Blank
    <3>1. card[slot].sector[p] # Blank  BY <1>1, <2>1, <2>4 DEF WritesKept
    <3>2. Nth \in 1 .. Regions + 2  BY <1>1, <2>4, OpFacts, OpOfJob
    <3>3. p \in Sectors  BY <3>2 DEF Sectors
    <3>4. QED  BY <3>1, <3>3
  <2>5. QED  BY <2>2, <2>3, <2>4
<1>12. FormatKept'  BY <1>1, <1>4, NotFormatting
<1>13. QED  BY <1>4, <1>6, <1>10, <1>12 DEF IndInv

(* A sector is written in a file that is in order otherwise.               *)
LEMMA SectorKeeps ==
  ASSUME IndInv, run.at = "calls", run.calls # <<>>, attached, call \in {"erase", "program"},
         NEW x \in SectorType, x # Blank, sector \in Sectors,
         Changes([card[slot] EXCEPT !.sector[sector] = x]), run' = Passed,
         slot \notin doubtful /\ ~Suspect =>
           /\ x.data # Nil => x.data.of = slot
           /\ sector = 2 /\ x.sum /\ x.data # Nil => Whole(card[slot])
  PROVE  IndInv'
<1>1. PICK f : f = [card[slot] EXCEPT !.sector[sector] = x]  OBVIOUS
<1>2. slot \in Cards /\ card[slot] \in FileType /\ FilesKept  BY Writing
<1>3. /\ f \in FileType /\ f.file = card[slot].file /\ f.sector[sector] = x
      /\ \A i \in Sectors \ {sector} : f.sector[i] = card[slot].sector[i]
      /\ f # NoFile /\ (Whole(card[slot]) => Whole(f))
      /\ \A i \in Sectors : card[slot].sector[i] # Blank => f.sector[i] # Blank
  <2>1. /\ f \in FileType /\ f.file = card[slot].file /\ f.icon = card[slot].icon
        /\ f.sector[sector] = x
        /\ \A i \in Sectors \ {sector} : f.sector[i] = card[slot].sector[i]
        /\ x # Blank => /\ f # NoFile
                        /\ Whole(card[slot]) => Whole(f)
                        /\ \A i \in Sectors : card[slot].sector[i] # Blank => f.sector[i] # Blank
    <3>1. PICK g \in FileType, s \in Sectors : g = card[slot] /\ s = sector  BY <1>2
    <3>2. f = Put(g, s, x)  BY <1>1, <3>1 DEF Put
    <3>3. /\ f \in FileType /\ f.file = g.file /\ f.icon = g.icon /\ f.sector[s] = x
          /\ \A i \in Sectors \ {s} : f.sector[i] = g.sector[i]
          /\ x # Blank => /\ f # NoFile
                          /\ Whole(g) => Whole(f)
                          /\ \A i \in Sectors : g.sector[i] # Blank => f.sector[i] # Blank
      BY <3>2, Rewritten
    <3>4. QED  BY <3>1, <3>3
  <2>2. QED  BY <2>1
<1>4. ASSUME slot \notin doubtful, ~Suspect
      PROVE  /\ f.sector[2].sum /\ f.sector[2].data # Nil => Whole(f)
             /\ \A s \in Sectors : f.sector[s].data # Nil => f.sector[s].data.of = slot
  <2>1. /\ card[slot].sector[2].sum /\ card[slot].sector[2].data # Nil => Whole(card[slot])
        /\ \A s \in Sectors : card[slot].sector[s].data # Nil => card[slot].sector[s].data.of = slot
    BY <1>2, <1>4 DEF FilesKept
  <2>2. 2 \in Sectors  BY CallsTyped
  <2>3. CASE sector = 2  BY <1>3, <1>4, <2>1, <2>3
  <2>4. CASE sector # 2  BY <1>3, <1>4, <2>1, <2>2, <2>4
  <2>5. QED  BY <2>3, <2>4
<1>5. call = "erase" /\ sector = op.place => f.sector[op.place] # Blank  BY <1>3
<1>6. Changes(f) /\ call \in {"erase", "program", "status"}  BY <1>1
<1>7. QED  BY <1>3, <1>4, <1>5, <1>6, WrittenKeeps

LEMMA SectorTyped ==
  ASSUME IndInv, run.at = "calls", run.calls # <<>>, attached, call \in {"erase", "program"}
  PROVE  sector \in Sectors /\ (sector = op.place \/ (op.place = Settings /\ sector = 2))
<1>1. Typed /\ JobKept /\ CallsKept /\ op.kind = "save" /\ call # "release"  BY Writing
<1>2. QED  BY <1>1, SaveFacts

LEMMA EraseKeeps ==
  ASSUME IndInv, Erase
  PROVE  IndInv'
<1>1. /\ run.at = "calls" /\ run.calls # <<>> /\ call = "erase" /\ attached
      /\ Changes([card[slot] EXCEPT !.sector[sector] = Torn]) /\ run' = Passed
  BY DEF Erase, Works, Calling
<1>2. sector \in Sectors  BY <1>1, SectorTyped
<1>3. Torn \in SectorType /\ Torn # Blank /\ Torn.data = Nil  BY BlankFiles DEF Torn
<1>4. QED  BY <1>1, <1>2, <1>3, SectorKeeps

(* Before the settings get the checksum, the whole file is written.        *)
LEMMA AllWritten ==
  ASSUME IndInv, run.at = "calls", run.calls # <<>>, attached, call = "program",
         sector = 2, op.sum, slot \notin doubtful, ~Suspect
  PROVE  Whole(card[slot])
<1>1. /\ Working /\ Typed /\ JobKept /\ CallsKept /\ FilesKept /\ WritesKept /\ MemoryKept
      /\ op.kind = "save" /\ run.result = "ok" /\ Saves /\ slot \in Cards
      /\ run.all \in Profiles \cup NewFiles /\ Opened /\ Left \in Nat /\ Calls \in Nat
      /\ ~Suspect => slot \in Sure
  BY Writing DEF IndInv
<1>2. slot \in Sure \ doubtful /\ origin # "other" /\ ~(~job.make /\ origin = "gone")
  BY <1>1 DEF Suspect
<1>3. op.place = Settings
  <2>1. sector = op.place \/ op.place = Settings  BY <1>1, SectorTyped
  <2>2. op.place = Settings \/ op.place \in 3 .. Regions + 2  BY <1>1, OpOfJob
  <2>3. QED  BY <2>1, <2>2
<1>4. CASE run.all \in NewFiles
  <2>1. ~op.make /\ Nth # 1 /\ Len(run.all) = Regions + 2
        /\ (Nth \in 2 .. Regions + 1 => op.place = Nth + 1) /\ Nth \in 1 .. Len(run.all)
    BY <1>1, <1>4, OpOfJob, OpFacts
  <2>2. Nth = Regions + 2
    <3>1. Nth \in 2 .. Regions + 1 => op.place # Settings  BY <2>1 DEF Settings
    <3>2. QED  BY <1>3, <2>1, <3>1
  <2>3. \A p \in 3 .. Regions + 2 : card[slot].sector[p] # Blank
    BY <1>1, <1>2, <1>4, <2>2 DEF WritesKept
  <2>4. card[slot].file  BY <1>1 DEF WritesKept
  <2>5. Erased
    <3>1. call # "release" /\ call \in {"program", "status", "unmount"}  OBVIOUS
    <3>2. Left + 4 <= Calls  BY <1>1, <3>1, SaveFacts
    <3>3. QED  BY <1>1, <3>2 DEF Erased, Left, Calls
  <2>6. card[slot].sector[Settings] # Blank  BY <1>1, <1>2, <1>3, <2>1, <2>5 DEF WritesKept
  <2>7. QED  BY <2>3, <2>4, <2>6 DEF Whole, Places
<1>5. CASE run.all \in Profiles
  <2>1. ~job.make
    <3>1. run.all \notin NewFiles
      <4>1. ~run.all[1].make  BY <1>5, ProfileFacts
      <4>2. QED  BY <4>1, CreationFacts
    <3>2. QED  BY <1>1, <3>1, OpOfJob
  <2>2. origin = "own"  BY <1>1, <1>2, <2>1 DEF Typed
  <2>3. settings # Nil  BY <1>1, <1>5 DEF MemoryKept
  <2>4. QED  BY <1>1, <1>2, <2>2, <2>3 DEF FilesKept
<1>6. QED  BY <1>1, <1>4, <1>5

LEMMA ProgramKeeps ==
  ASSUME IndInv, Program
  PROVE  IndInv'
<1>1. /\ run.at = "calls" /\ run.calls # <<>> /\ call = "program" /\ attached
      /\ Changes([card[slot] EXCEPT !.sector[sector] = [data |-> op.data, sum |-> op.sum]])
      /\ run' = Passed
  BY DEF Program, Works, Calling
<1>2. sector \in Sectors  BY <1>1, SectorTyped
<1>3. PICK x : x = [data |-> op.data, sum |-> op.sum]  OBVIOUS
<1>4. /\ Typed /\ JobKept /\ Working /\ op.kind = "save" /\ HeldKept
      /\ ~Suspect => slot \in Sure
  BY <1>1, Writing DEF IndInv
<1>5. op.data \in Data /\ op.data \in DataOf(run.all) /\ op.sum \in BOOLEAN
  BY <1>4, OpOfJob, OpFacts DEF OpType
<1>6. x \in SectorType /\ x # Blank /\ x.data = op.data /\ x.sum = op.sum
  BY <1>3, <1>5, NilApart DEF SectorType, Blank
<1>7. ASSUME slot \notin doubtful, ~Suspect
      PROVE  /\ x.data # Nil => x.data.of = slot
             /\ sector = 2 /\ x.sum /\ x.data # Nil => Whole(card[slot])
  <2>1. slot \in Sure /\ origin # "other"  BY <1>4, <1>7 DEF Suspect
  <2>2. op.data \in Held  BY <1>5, NilApart DEF Held
  <2>3. op.data.of = slot  BY <1>4, <2>1, <2>2 DEF HeldKept
  <2>4. sector = 2 /\ op.sum => Whole(card[slot])  BY <1>1, <1>7, AllWritten
  <2>5. QED  BY <1>6, <2>3, <2>4
<1>8. Changes([card[slot] EXCEPT !.sector[sector] = x])  BY <1>1, <1>3
<1>9. QED  BY <1>1, <1>2, <1>6, <1>7, <1>8, SectorKeeps

LEMMA StatusKeeps ==
  ASSUME IndInv, Status
  PROVE  IndInv'
<1>1. /\ run.at = "calls" /\ run.calls # <<>> /\ call = "status" /\ attached
      /\ Changes([card[slot] EXCEPT !.icon = TRUE]) /\ run' = Passed
  BY DEF Status, Works, Calling
<1>2. slot \in Cards /\ card[slot] \in FileType /\ FilesKept  BY <1>1, Writing
<1>3. PICK f : f = [card[slot] EXCEPT !.icon = TRUE]  OBVIOUS
<1>4. f \in FileType /\ f.file = card[slot].file /\ f.sector = card[slot].sector /\ f.icon
  BY <1>2, <1>3 DEF FileType
<1>5. f # NoFile  BY <1>4, BlankFiles
<1>6. Whole(f) <=> Whole(card[slot])  BY <1>4 DEF Whole
<1>7. slot \notin doubtful /\ ~Suspect =>
           /\ f.sector[2].sum /\ f.sector[2].data # Nil => Whole(f)
           /\ \A s \in Sectors : f.sector[s].data # Nil => f.sector[s].data.of = slot
  BY <1>2, <1>4, <1>6 DEF FilesKept
<1>8. Changes(f)  BY <1>1, <1>3
<1>9. QED  BY <1>1, <1>4, <1>5, <1>7, <1>8, WrittenKeeps

LEMMA CreateKeeps ==
  ASSUME IndInv, Create
  PROVE  IndInv'
<1>1. /\ run.at = "calls" /\ run.calls # <<>> /\ call = "create" /\ attached
  BY DEF Create, Works, Calling
<1>2. /\ Working /\ Typed /\ JobKept /\ CallsKept /\ SlotKept /\ FilesKept /\ WritesKept
      /\ op.kind = "save" /\ run.result = "ok" /\ Saves
      /\ slot \in Cards /\ card[slot] \in FileType
      /\ run.all \notin Loads
  BY <1>1, Writing
<1>3. op.make /\ Nth = 1
  <2>1. call # "release"  BY <1>1
  <2>2. op.make  BY <1>1, <1>2, <2>1, SaveFacts
  <2>3. QED  BY <1>2, <2>2, OpOfJob
<1>4. PICK f \in FileType :
        /\ Changes(f) /\ f # NoFile /\ (Whole(card[slot]) => Whole(f))
        /\ slot \notin doubtful =>
             /\ f.sector[2].sum /\ f.sector[2].data # Nil => Whole(f)
             /\ \A s \in Sectors : f.sector[s].data # Nil => f.sector[s].data.of = slot
        /\ \/ run' = Passed /\ f.file
           \/ run' = Fails("damaged", Release)
  <2>1. CASE card[slot].file
    <3>1. PICK f : f = card[slot]  OBVIOUS
    <3>2. f \in FileType /\ f # NoFile  BY <1>2, <2>1, <3>1, BlankFiles
    <3>3. Changes(f) /\ run' = Fails("damaged", Release)  BY <2>1, <3>1 DEF Create
    <3>4. slot \notin doubtful =>
             /\ f.sector[2].sum /\ f.sector[2].data # Nil => Whole(f)
             /\ \A s \in Sectors : f.sector[s].data # Nil => f.sector[s].data.of = slot
      BY <1>2, <3>1 DEF FilesKept
    <3>5. QED  BY <3>1, <3>2, <3>3, <3>4
  <2>2. CASE ~card[slot].file
    <3>1. PICK f : f = [NoFile EXCEPT !.file = TRUE]  OBVIOUS
    <3>2. f \in FileType /\ f.file /\ f.sector = NoFile.sector  BY <3>1, BlankFiles DEF FileType
    <3>3. f # NoFile /\ \A s \in Sectors : f.sector[s].data = Nil
      BY <3>2, BlankFiles DEF Blank
    <3>4. Changes(f) /\ run' = Passed  BY <2>2, <3>1 DEF Create
    <3>5. ~Whole(card[slot])  BY <2>2 DEF Whole
    <3>6. 2 \in Sectors  BY CallsTyped
    <3>7. QED  BY <3>2, <3>3, <3>4, <3>5, <3>6
  <2>3. QED  BY <2>1, <2>2
<1>5. /\ run' \in RunType /\ run'.at = run.at /\ run'.ops = run.ops /\ run'.all = run.all
      /\ run'.got = run.got /\ run'.outer = run.outer /\ run'.unsure = run.unsure
      /\ run'.card = run.card /\ CallsKept' /\ (run'.result = "ok" => f.file)
  <2>1. CASE run' = Passed /\ f.file
    <3>1. /\ run' \in RunType /\ run'.at = run.at /\ run'.ops = run.ops /\ run'.all = run.all
          /\ run'.got = run.got /\ run'.outer = run.outer /\ run'.unsure = run.unsure
          /\ run'.card = run.card /\ run'.result = run.result /\ run'.calls = Tail(run.calls)
      BY <1>1, <1>2, <2>1, PassedFacts
    <3>2. call # "release"  BY <1>1
    <3>3. CallsKept'  BY <1>1, <1>2, <3>1, <3>2, Passes
    <3>4. QED  BY <2>1, <3>1, <3>3
  <2>2. CASE run' = Fails("damaged", Release)
    <3>1. "damaged" \in Statuses /\ Release \in {<<>>, Release}  BY DEF Statuses
    <3>2. /\ run' \in RunType /\ run'.at = run.at /\ run'.ops = run.ops /\ run'.all = run.all
          /\ run'.got = run.got /\ run'.outer = run.outer /\ run'.unsure = run.unsure
          /\ run'.card = run.card /\ run'.result = "damaged" /\ run'.calls = Release
      BY <1>2, <2>2, <3>1, FailsFacts
    <3>3. CallsKept'  BY <1>1, <1>2, <3>2, FailsThen
    <3>4. QED  BY <3>2, <3>3
  <2>3. QED  BY <1>4, <2>1, <2>2
<1>6. /\ Typed' /\ JobKept' /\ SlotKept' /\ FlagsKept' /\ HeldKept' /\ MemoryKept' /\ FilesKept'
      /\ LoadKept' /\ Sure' = Sure /\ op' = op
  BY <1>1, <1>2, <1>4, <1>5, Changing
<1>7. card'[slot] = f /\ UNCHANGED <<slot, attached, known>>  BY <1>2, <1>4, ChangesFacts
<1>8. WritesKept'
  <2>1. Nth' = 1 /\ op'.make  BY <1>3, <1>5, <1>6 DEF Nth
  <2>2. \A p : p \notin 3 .. 1  OBVIOUS
  <2>3. run'.at # "ended"  BY <1>1, <1>5
  <2>4. Opened' => card'[slot].file  BY <1>5, <1>7 DEF Opened
  <2>5. QED  BY <1>7, <2>1, <2>2, <2>3, <2>4 DEF WritesKept
<1>10. FormatKept'  BY <1>2, <1>6, NotFormatting
<1>11. QED  BY <1>5, <1>6, <1>8, <1>10 DEF IndInv

(* What a card loses when its file is deleted or it is formatted           *)
LEMMA Emptied ==
  ASSUME IndInv, run.at = "calls", run.calls # <<>>, attached, call \in {"delete", "format"},
         Changes(NoFile), run' = Passed \/ run' = Fails("failed", Release)
  PROVE  /\ Working /\ Typed /\ JobKept /\ CallsKept
         /\ op.kind = call
         /\ Typed' /\ JobKept' /\ SlotKept' /\ FlagsKept' /\ HeldKept' /\ MemoryKept' /\ FilesKept'
         /\ LoadKept' /\ CallsKept' /\ WritesKept'
         /\ op' = op /\ run'.at = "calls" /\ run'.may = run.may
         /\ UNCHANGED <<slot, attached, known>>
         /\ run' = Passed => run'.calls = Tail(run.calls)
<1>1. /\ Working /\ Typed /\ JobKept /\ CallsKept /\ SlotKept  BY DEF IndInv, Working
<1>2. slot \in Cards  BY <1>1 DEF Typed, TypeOK, SlotKept
<1>3. call # "release"  OBVIOUS
<1>4. op.kind = call
  <2>1. op.kind \in {"save", "load", "delete", "format"}  BY <1>1, OpOfJob
  <2>2. op.kind # "save"  BY <1>1, <1>3, SaveFacts
  <2>3. /\ op.kind = "load" => call \in {"mount", "open", "read", "check", "unmount"}
        /\ op.kind = "delete" => call \in {"mount", "delete", "unmount"}
        /\ op.kind = "format" => call \in {"notice", "mount", "format", "unmount"}
    BY <1>1, <1>3, OtherSteps
  <2>4. QED  BY <2>1, <2>2, <2>3
<1>5. run.all \notin Loads  BY <1>1, <1>4, OpOfJob
<1>6. /\ run' \in RunType /\ run'.at = run.at /\ run'.ops = run.ops /\ run'.all = run.all
      /\ run'.got = run.got /\ run'.outer = run.outer /\ run'.unsure = run.unsure
      /\ run'.card = run.card /\ run'.may = run.may /\ CallsKept'
      /\ run' = Passed => run'.calls = Tail(run.calls)
  <2>1. CASE run' = Passed
    <3>1. /\ run' \in RunType /\ run'.at = run.at /\ run'.ops = run.ops /\ run'.all = run.all
          /\ run'.got = run.got /\ run'.outer = run.outer /\ run'.unsure = run.unsure
          /\ run'.card = run.card /\ run'.may = run.may /\ run'.result = run.result
          /\ run'.calls = Tail(run.calls)
      BY <1>1, <2>1, PassedFacts
    <3>2. CallsKept'  BY <1>1, <1>3, <3>1, Passes
    <3>3. QED  BY <3>1, <3>2
  <2>2. CASE run' = Fails("failed", Release) /\ run' # Passed
    <3>1. "failed" \in Statuses /\ Release \in {<<>>, Release}  BY DEF Statuses
    <3>2. /\ run' \in RunType /\ run'.at = run.at /\ run'.ops = run.ops /\ run'.all = run.all
          /\ run'.got = run.got /\ run'.outer = run.outer /\ run'.unsure = run.unsure
          /\ run'.card = run.card /\ run'.may = run.may /\ run'.result = "failed"
          /\ run'.calls = Release
      BY <1>1, <2>2, <3>1, FailsFacts
    <3>3. CallsKept'  BY <1>1, <3>2, FailsThen
    <3>4. QED  BY <2>2, <3>2, <3>3
  <2>3. QED  BY <2>1, <2>2
<1>7. NoFile \in FileType  BY BlankFiles
<1>8. /\ Typed' /\ JobKept' /\ SlotKept' /\ FlagsKept' /\ HeldKept' /\ MemoryKept' /\ FilesKept'
      /\ LoadKept' /\ op' = op
  BY <1>5, <1>6, <1>7, Changing
<1>9. WritesKept'
  <2>1. op.kind # "save"  BY <1>4
  <2>2. QED  BY <1>1, <1>6, <1>8, <2>1, NotSaving
<1>10. UNCHANGED <<slot, attached, known>>  BY <1>1, <1>2, <1>7, ChangesFacts
<1>11. QED  BY <1>1, <1>4, <1>6, <1>8, <1>9, <1>10

LEMMA DeleteKeeps ==
  ASSUME IndInv, Delete
  PROVE  IndInv'
<1>1. /\ run.at = "calls" /\ run.calls # <<>> /\ call = "delete" /\ attached /\ Changes(NoFile)
      /\ run' = Passed \/ run' = Fails("failed", Release)
  BY DEF Delete, Works, Calling
<1>2. /\ op.kind = call
      /\ Typed' /\ JobKept' /\ SlotKept' /\ FlagsKept' /\ HeldKept' /\ MemoryKept' /\ FilesKept'
      /\ LoadKept' /\ CallsKept' /\ WritesKept' /\ op' = op
  BY <1>1, Emptied
<1>3. op.kind # "format"  BY <1>1, <1>2
<1>4. FormatKept'  BY <1>2, <1>3, NotFormatting
<1>5. QED  BY <1>2, <1>4 DEF IndInv

LEMMA FormatKeeps ==
  ASSUME IndInv, Format
  PROVE  IndInv'
<1>1. /\ run.at = "calls" /\ run.calls # <<>> /\ call = "format" /\ attached /\ Changes(NoFile)
      /\ run' = Passed
  BY DEF Format, Works, Calling
<1>2. /\ Working /\ Typed /\ JobKept /\ CallsKept
      /\ op.kind = call
      /\ Typed' /\ JobKept' /\ SlotKept' /\ FlagsKept' /\ HeldKept' /\ MemoryKept' /\ FilesKept'
      /\ LoadKept' /\ CallsKept' /\ WritesKept' /\ op' = op
      /\ run'.at = "calls" /\ run'.may = run.may /\ UNCHANGED <<slot, attached, known>>
      /\ run' = Passed => run'.calls = Tail(run.calls)
  BY <1>1, Emptied
<1>3. FormatKept  BY <1>2 DEF IndInv
<1>4. FormatKept'  BY <1>1, <1>2, <1>3, FormatSame DEF known
<1>5. QED  BY <1>2, <1>4 DEF IndInv

----------------------------------------------------------------------------
(* A function ends, or is tried again                                      *)

LEMMA EndedFacts ==
  ASSUME IndInv, run.at = "ended"
  PROVE  /\ Working /\ Typed /\ JobKept /\ CallsKept /\ SlotKept /\ FlagsKept /\ HeldKept
         /\ MemoryKept /\ WritesKept /\ LoadKept /\ FilesKept
         /\ run \in RunType /\ run.card # Nil /\ run.all \in Jobs /\ run.outer \in Seq(Jobs)
         /\ job = run.all[1] /\ job.kind = op.kind
         /\ last_card_state \in BOOLEAN /\ removals \in BOOLEAN /\ insertions \in BOOLEAN
         /\ last_card_state \/ removals
         /\ insertions => last_card_state /\ removals
         /\ job.kind = "save" <=> run.all \in Profiles \cup NewFiles
         /\ job.kind = "load" <=> run.all \in Loads
         /\ Insertion <=> run.all = Reload
         /\ run.all \in Loads => run.outer = <<>>
<1>1. /\ Working /\ Typed /\ JobKept /\ CallsKept /\ SlotKept /\ FlagsKept /\ HeldKept
      /\ MemoryKept /\ WritesKept /\ LoadKept /\ FilesKept
  BY DEF IndInv, Working
<1>2. run \in RunType /\ run.outer \in Seq(Jobs)  BY <1>1 DEF Typed, RunType
<1>3. run.card # Nil  BY <1>1 DEF SlotKept
<1>4. run.all \in Jobs /\ job = run.all[1] /\ job.kind = op.kind  BY <1>1, OpFacts, OpOfJob
<1>5. /\ job.kind = "save" <=> run.all \in Profiles \cup NewFiles
      /\ job.kind = "load" <=> run.all \in Loads
      /\ Insertion <=> run.all = Reload
  BY <1>4, JobFacts DEF Insertion
<1>6. Something  BY <1>1 DEF Something
<1>7. /\ last_card_state \in BOOLEAN /\ removals \in BOOLEAN /\ insertions \in BOOLEAN
      /\ last_card_state \/ removals
      /\ insertions => last_card_state /\ removals
  BY <1>1, <1>6 DEF Typed, FlagsKept
<1>8. run.all \in Loads => run.outer = <<>>  BY <1>1 DEF JobKept
<1>9. QED  BY <1>1, <1>2, <1>3, <1>4, <1>5, <1>7, <1>8

LEMMA Anew ==
  ASSUME IndInv, run.at = "ended", NEW r \in RunType, NEW a \in Jobs, run' = Begun(r, a),
         r.card = run.card, r.unsure = run.unsure,
         \A i \in 1 .. Len(r.outer) :
           /\ r.outer[i] \in Profiles \cup NewFiles \cup {Reload}
           /\ r.outer[i] \in Profiles => r.outer[i][1].place = Settings
           /\ r.outer[i] = Reload => i = Len(r.outer),
         a \in Loads => r.outer = <<>>,
         UNCHANGED <<card, slot, attached, doubtful, last_card_serial_no, faults>>,
         last_card_state' \in BOOLEAN, removals' \in BOOLEAN, insertions' \in BOOLEAN,
         last_card_state' \/ removals', insertions' => last_card_state' /\ removals',
         status' \in Statuses, settings' \in Data \cup {Nil}, origin' \in {"own", "other", "gone"}
  PROVE  /\ HeldKept' /\ MemoryKept' /\ FilesKept' => IndInv'
         /\ run'.all = a /\ run'.outer = r.outer
         /\ \A c \in Sure' : c \in Sure \/ (c = last_card_serial_no /\ removals /\ ~removals')
         /\ Held' = ({settings'} \cup DataOf(a)
                       \cup UNION {DataOf(r.outer[i]) : i \in 1 .. Len(r.outer)}) \ {Nil}
<1>1. Working /\ Typed /\ SlotKept /\ run.card # Nil  BY EndedFacts
<1>2. r.got \in Data \cup {Nil}  BY DEF RunType
<1>3. /\ run' \in RunType /\ Working' /\ run'.at \in {"calls", "confirm"}
      /\ run'.all = a /\ run'.ops = a /\ run'.got = Nil /\ run'.outer = r.outer
      /\ run'.card = r.card /\ run'.unsure = r.unsure /\ run'.then = r.then
      /\ run'.tries = 1
      /\ JobKept' /\ CallsKept' /\ FormatKept' /\ WritesKept' /\ LoadKept'
  BY <1>1, <1>2, Starting
<1>4. Typed'
  <2>1. 1 \in 0 .. 2  OBVIOUS
  <2>2. QED  BY <1>1, <1>3, <2>1 DEF Typed, TypeOK, Statuses
<1>5. SlotKept'  BY <1>1, <1>3 DEF SlotKept
<1>6. FlagsKept'  BY DEF FlagsKept
<1>7. ASSUME NEW c \in Sure'
      PROVE  c \in Sure \/ (c = last_card_serial_no /\ removals /\ ~removals')
  <2>1. /\ c \in Cards /\ run'.at \notin {"idle", "flags", "polled"}
        /\ (c = last_card_serial_no /\ ~removals') \/ (c = run.card /\ ~run.unsure)
    BY <1>3 DEF Sure
  <2>2. QED  BY <2>1 DEF Sure
<1>8. Held' = ({settings'} \cup DataOf(a)
                 \cup UNION {DataOf(r.outer[i]) : i \in 1 .. Len(r.outer)}) \ {Nil}
  BY <1>3 DEF Held, DataOf
<1>9. HeldKept' /\ MemoryKept' /\ FilesKept' => IndInv'
  BY <1>3, <1>4, <1>5, <1>6 DEF IndInv
<1>10. QED  BY <1>3, <1>7, <1>8, <1>9

(* The function is over.                                                   *)
LEMMA Over ==
  ASSUME IndInv, run.at = "ended",
         NEW w \in {"idle", "look", "polled"},
         run' = IF w = "idle" THEN Idle ELSE Back(w)
  PROVE  /\ run' \in RunType /\ run'.at = w /\ run'.all = <<>> /\ run'.outer = <<>>
         /\ run'.got = Nil /\ run'.tries = 0
         /\ w # "idle" => run'.card = run.card /\ run'.unsure = run.unsure
         /\ ~Working' /\ JobKept' /\ LoadKept'
<1>1. Typed  BY DEF IndInv
<1>2. CASE w = "idle"
  <2>1. run' = Idle  BY <1>2
  <2>2. QED  BY <1>2, <2>1, Rested
<1>3. CASE w \in {"look", "polled"}
  <2>1. run' = Back(w)  BY <1>3
  <2>2. /\ run' \in RunType /\ run'.at = w /\ run'.all = <<>> /\ run'.outer = <<>>
        /\ run'.got = Nil /\ run'.tries = 0
        /\ run'.card = run.card /\ run'.unsure = run.unsure
    BY <1>1, <1>3, <2>1, BackFacts
  <2>3. ~Working' /\ JobKept' /\ LoadKept'  BY <1>3, <2>2, Stopped
  <2>4. QED  BY <2>2, <2>3
<1>4. QED  BY <1>2, <1>3

LEMMA Finishes ==
  ASSUME IndInv, run.at = "ended",
         NEW w \in {"idle", "look", "polled"},
         run' = IF w = "idle" THEN Idle ELSE Back(w),
         UNCHANGED <<hardware, known, faults>>,
         status' \in Statuses, settings' \in Data \cup {Nil}, origin' \in {"own", "other", "gone"}
  PROVE  /\ HeldKept' /\ FilesKept' => IndInv'
         /\ Held' = {settings'} \ {Nil}
         /\ w # "polled" => Sure' \subseteq Sure
         /\ \A c \in Sure' : c = last_card_serial_no \/ (c = run.card /\ ~run.unsure)
<1>1. /\ Working /\ Typed /\ SlotKept /\ run.card # Nil
      /\ last_card_state \in BOOLEAN /\ removals \in BOOLEAN /\ insertions \in BOOLEAN
      /\ last_card_state \/ removals
      /\ insertions => last_card_state /\ removals
  BY EndedFacts
<1>2. /\ run' \in RunType /\ run'.at = w /\ run'.all = <<>> /\ run'.outer = <<>>
      /\ run'.got = Nil /\ run'.tries = 0
      /\ w # "idle" => run'.card = run.card /\ run'.unsure = run.unsure
      /\ ~Working' /\ JobKept' /\ LoadKept'
  BY Over
<1>3. Typed'
  <2>1. 0 \in 0 .. 2  OBVIOUS
  <2>2. TypeOK'  BY <1>1, <1>2, <2>1 DEF Typed, TypeOK, Statuses, hardware
  <2>3. QED  BY <1>1, <1>2, <2>2 DEF Typed, hardware, known
<1>4. SlotKept'  BY <1>1, <1>2 DEF SlotKept, hardware, known
<1>5. FlagsKept'  BY <1>1 DEF FlagsKept, known
<1>6. MemoryKept' /\ Held' = {settings'} \ {Nil}  BY <1>2, StoppedMemory
<1>7. w # "polled" => Sure' \subseteq Sure  BY <1>2 DEF Sure, known
<1>8. \A c \in Sure' : c = last_card_serial_no \/ (c = run.card /\ ~run.unsure)
  BY <1>2 DEF Sure, known
<1>9. HeldKept' /\ FilesKept' => IndInv'  BY <1>2, <1>3, <1>4, <1>5, <1>6 DEF IndInv
<1>10. QED  BY <1>6, <1>7, <1>8, <1>9

LEMMA TryAgainKeeps ==
  ASSUME IndInv, TryAgain
  PROVE  IndInv'
<1>1. /\ run.at = "ended" /\ run' = Begun(run, run.all)
      /\ UNCHANGED <<hardware, shown, known, faults>>
  BY DEF TryAgain, Goes
<1>2. /\ Working /\ Typed /\ JobKept /\ HeldKept /\ MemoryKept /\ FilesKept /\ FlagsKept
      /\ run \in RunType /\ run.all \in Jobs
      /\ last_card_state \in BOOLEAN /\ removals \in BOOLEAN /\ insertions \in BOOLEAN
      /\ last_card_state \/ removals
      /\ insertions => last_card_state /\ removals
      /\ run.all \in Loads => run.outer = <<>>
  BY <1>1, EndedFacts
<1>3. PICK r \in RunType, a \in Jobs : r = run /\ a = run.all  BY <1>2
<1>4. run' = Begun(r, a) /\ r.card = run.card /\ r.unsure = run.unsure /\ (a \in Loads => r.outer = <<>>)
  BY <1>1, <1>2, <1>3
<1>5. \A i \in 1 .. Len(r.outer) :
           /\ r.outer[i] \in Profiles \cup NewFiles \cup {Reload}
           /\ r.outer[i] \in Profiles => r.outer[i][1].place = Settings
           /\ r.outer[i] = Reload => i = Len(r.outer)
  BY <1>2, <1>3 DEF JobKept
<1>6. /\ UNCHANGED <<card, slot, attached, doubtful, last_card_serial_no, faults>>
      /\ last_card_state' \in BOOLEAN /\ removals' \in BOOLEAN /\ insertions' \in BOOLEAN
      /\ last_card_state' \/ removals'
      /\ insertions' => last_card_state' /\ removals'
      /\ status' \in Statuses /\ settings' \in Data \cup {Nil}
      /\ origin' \in {"own", "other", "gone"}
  BY <1>1, <1>2 DEF hardware, known, shown, Typed, TypeOK, Statuses, FlagsKept
<1>7. /\ HeldKept' /\ MemoryKept' /\ FilesKept' => IndInv'
      /\ run'.all = a /\ run'.outer = r.outer
  BY <1>1, <1>4, <1>5, <1>6, Anew
<1>8. run'.at \in {"calls", "confirm"} /\ run'.card = run.card /\ run'.unsure = run.unsure
  BY <1>2, <1>3, <1>4, <1>5, Starting, ZenonT(60) DEF RunType
<1>9. Sure' \subseteq Sure  BY <1>1, <1>8 DEF Sure, known
<1>10. Held' = Held  BY <1>1, <1>3, <1>7, HeldSame DEF shown
<1>11. HeldKept'  BY <1>1, <1>2, <1>9, <1>10 DEF HeldKept, shown
<1>12. MemoryKept'  BY <1>1, <1>2, <1>3, <1>7 DEF MemoryKept, shown
<1>13. FilesKept'  BY <1>1, <1>2, <1>9 DEF FilesKept, Whole, shown, hardware
<1>14. QED  BY <1>7, <1>11, <1>12, <1>13

LEMMA Before ==
  ASSUME NEW S, NEW x \in S, NEW u \in Seq(S)
  PROVE  /\ <<x>> \o u \in Seq(S)
         /\ \A i \in 1 .. Len(<<x>> \o u) :
              \/ (<<x>> \o u)[i] = x /\ (Len(u) = 0 => i = Len(<<x>> \o u))
              \/ \E j \in 1 .. Len(u) : /\ (<<x>> \o u)[i] = u[j]
                                        /\ j = Len(u) => i = Len(<<x>> \o u)
<1> DEFINE h == <<x>>
<1>1. h \in Seq(S) /\ Len(h) = 1 /\ h[1] = x  BY OneLong
<1> HIDE DEF h
<1>2. PICK v : v = h \o u  OBVIOUS
<1>3. /\ v \in Seq(S) /\ Len(v) = Len(h) + Len(u)
      /\ \A i \in 1 .. Len(h) : v[i] = h[i]
      /\ \A i \in 1 .. Len(u) : v[Len(h) + i] = u[i]
  <2>1. /\ h \o u \in Seq(S) /\ Len(h \o u) = Len(h) + Len(u)
        /\ \A i \in 1 .. Len(h) : (h \o u)[i] = h[i]
        /\ \A i \in 1 .. Len(u) : (h \o u)[Len(h) + i] = u[i]
    BY <1>1, Joined
  <2>2. QED  BY <1>2, <2>1
<1>4. Len(u) \in Nat /\ Len(v) = 1 + Len(u)  BY <1>1, <1>3
<1>5. ASSUME NEW i \in 1 .. Len(v)
      PROVE  \/ v[i] = x /\ (Len(u) = 0 => i = Len(v))
             \/ \E j \in 1 .. Len(u) : v[i] = u[j] /\ (j = Len(u) => i = Len(v))
  <2>1. CASE i = 1  BY <1>1, <1>3, <1>4, <2>1
  <2>2. CASE i # 1
    <3>1. PICK j \in 1 .. Len(u) : i = 1 + j
      <4>1. i - 1 \in 1 .. Len(u) /\ i = 1 + (i - 1)  BY <1>4, <2>2
      <4>2. QED  BY <4>1
    <3>2. v[i] = u[j]  BY <1>1, <1>3, <3>1
    <3>3. j = Len(u) => i = Len(v)  BY <1>4, <3>1
    <3>4. QED  BY <3>2, <3>3
  <2>3. QED  BY <2>1, <2>2
<1>6. QED  BY <1>2, <1>3, <1>5 DEF h

(* Something is done about it first, and the function waits.               *)
LEMMA Remedying ==
  ASSUME IndInv, run.at = "ended", run.all \in Profiles \cup NewFiles \cup {Reload}, ~Region,
         NEW a \in {Formatted, Deletion} \cup NewFiles, Remedied(a), DataOf(a) \subseteq {NewFile},
         UNCHANGED <<hardware, faults>>, UNCHANGED <<known, shown>> \/ Formatting
  PROVE  IndInv'
<1>1. /\ Working /\ Typed /\ JobKept /\ SlotKept /\ HeldKept /\ MemoryKept /\ FilesKept /\ FlagsKept
      /\ run \in RunType /\ run.card # Nil /\ run.all \in Jobs /\ run.outer \in Seq(Jobs)
      /\ job = run.all[1]
      /\ last_card_state \in BOOLEAN /\ removals \in BOOLEAN /\ insertions \in BOOLEAN
      /\ last_card_state \/ removals
      /\ insertions => last_card_state /\ removals
      /\ run.all \in Loads => run.outer = <<>>
  BY EndedFacts
<1>2. PICK o : o = <<run.all>> \o run.outer  OBVIOUS
<1>3. /\ o \in Seq(Jobs)
      /\ \A i \in 1 .. Len(o) :
           \/ o[i] = run.all /\ (Len(run.outer) = 0 => i = Len(o))
           \/ \E j \in 1 .. Len(run.outer) : o[i] = run.outer[j] /\ (j = Len(run.outer) => i = Len(o))
  <2>1. PICK x \in Jobs, u \in Seq(Jobs) : x = run.all /\ u = run.outer  BY <1>1
  <2>2. o = <<x>> \o u  BY <1>2, <2>1
  <2>3. /\ <<x>> \o u \in Seq(Jobs)
        /\ \A i \in 1 .. Len(<<x>> \o u) :
             \/ (<<x>> \o u)[i] = x /\ (Len(u) = 0 => i = Len(<<x>> \o u))
             \/ \E j \in 1 .. Len(u) : /\ (<<x>> \o u)[i] = u[j]
                                       /\ j = Len(u) => i = Len(<<x>> \o u)
    BY Before
  <2>4. QED  BY <2>1, <2>2, <2>3
<1>4. PICK r : r = [run EXCEPT !.outer = o]  OBVIOUS
<1>5. r \in RunType /\ r.outer = o /\ r.card = run.card /\ r.unsure = run.unsure
  BY <1>1, <1>3, <1>4 DEF RunType
<1>6. run' = Begun(r, a)  BY <1>2, <1>4 DEF Remedied
<1>7. a \in Jobs /\ a \notin Loads /\ a # Reload /\ a \notin Profiles
  <2>1. a \in Jobs  BY DEF Jobs
  <2>2. a[1].kind # "load" /\ (a[1].kind = "save" => a[1].make)
    BY <2>1, OtherFacts, JobFacts
  <2>3. QED  BY <2>1, <2>2, OtherFacts, ProfileFacts
<1>8. \A i \in 1 .. Len(o) :
           /\ o[i] \in Profiles \cup NewFiles \cup {Reload}
           /\ o[i] \in Profiles => o[i][1].place = Settings
           /\ o[i] = Reload => i = Len(o)
  <2> SUFFICES ASSUME NEW i \in 1 .. Len(o)
               PROVE  /\ o[i] \in Profiles \cup NewFiles \cup {Reload}
                      /\ o[i] \in Profiles => o[i][1].place = Settings
                      /\ o[i] = Reload => i = Len(o)
    OBVIOUS
  <2>1. CASE o[i] = run.all /\ (Len(run.outer) = 0 => i = Len(o))
    <3>1. run.all[1].place = Settings  BY <1>1 DEF Region
    <3>2. run.all = Reload => Len(run.outer) = 0  BY <1>1, OtherFacts
    <3>3. QED  BY <2>1, <3>1, <3>2
  <2>2. CASE \E j \in 1 .. Len(run.outer) : o[i] = run.outer[j] /\ (j = Len(run.outer) => i = Len(o))
    BY <1>1, <2>2 DEF JobKept
  <2>3. QED  BY <1>3, <2>1, <2>2
<1>9. /\ UNCHANGED <<card, slot, attached, doubtful, last_card_serial_no, faults>>
      /\ last_card_state' \in BOOLEAN /\ removals' \in BOOLEAN /\ insertions' \in BOOLEAN
      /\ last_card_state' \/ removals'
      /\ insertions' => last_card_state' /\ removals'
      /\ status' \in Statuses /\ settings' \in Data \cup {Nil}
      /\ origin' \in {"own", "other", "gone"}
      /\ UNCHANGED <<status, settings>>
  <2>1. CASE UNCHANGED <<known, shown>>
    BY <1>1, <2>1 DEF hardware, known, shown, Typed, TypeOK, Statuses, FlagsKept
  <2>2. CASE Formatting
    BY <1>1, <2>2 DEF hardware, Formatting, Typed, TypeOK, Statuses, FlagsKept
  <2>3. QED  BY <2>1, <2>2
<1>10. /\ HeldKept' /\ MemoryKept' /\ FilesKept' => IndInv'
       /\ run'.all = a /\ run'.outer = r.outer
       /\ \A c \in Sure' : c \in Sure \/ (c = last_card_serial_no /\ removals /\ ~removals')
       /\ Held' = ({settings'} \cup DataOf(a)
                     \cup UNION {DataOf(r.outer[i]) : i \in 1 .. Len(r.outer)}) \ {Nil}
  BY <1>5, <1>6, <1>7, <1>8, <1>9, Anew
<1>11. Held' \subseteq Held \cup {NewFile}
  <2>1. \A i \in 1 .. Len(o) : DataOf(o[i]) \ {Nil} \subseteq Held
    <3> SUFFICES ASSUME NEW i \in 1 .. Len(o) PROVE DataOf(o[i]) \ {Nil} \subseteq Held
      OBVIOUS
    <3>1. CASE o[i] = run.all  BY <3>1 DEF Held
    <3>2. CASE \E j \in 1 .. Len(run.outer) : o[i] = run.outer[j]  BY <3>2 DEF Held
    <3>3. QED  BY <1>3, <3>1, <3>2
  <2>2. {settings'} \ {Nil} \subseteq Held  BY <1>9 DEF Held
  <2>3. QED  BY <1>5, <1>10, <2>1, <2>2
<1>12. origin # "other" => \A c \in Sure : NewFile.of = c
  BY <1>1, NewFileOwn DEF Working
<1>13. MemoryKept'
  <2>1. /\ (\E i \in 1 .. Len(o) : o[i] = Reload) => settings = Nil
        /\ (\E i \in 1 .. Len(o) : o[i] \in Profiles) => settings # Nil
    BY <1>1, <1>3 DEF MemoryKept
  <2>2. QED  BY <1>5, <1>7, <1>9, <1>10, <2>1 DEF MemoryKept
<1>14. origin' # "other" => origin' = origin /\ Sure' \subseteq Sure
  <2>1. CASE UNCHANGED <<known, shown>>  BY <1>10, <2>1 DEF known, shown
  <2>2. CASE Formatting  BY <1>1, <1>10, <2>2 DEF Formatting
  <2>3. QED  BY <2>1, <2>2
<1>15. HeldKept'  BY <1>1, <1>11, <1>12, <1>14 DEF HeldKept
<1>16. FilesKept'  BY <1>1, <1>9, <1>14 DEF FilesKept, Whole
<1>17. QED  BY <1>10, <1>13, <1>15, <1>16

LEMMA DoSomethingKeeps ==
  ASSUME IndInv, DoSomething
  PROVE  IndInv'
<1>1. run.at = "ended" /\ ~Region /\ UNCHANGED <<hardware, faults>>
  BY DEF DoSomething
<1>2. /\ Working /\ Typed /\ JobKept /\ SlotKept /\ HeldKept
      /\ run.card # Nil /\ run.all \in Jobs /\ job = run.all[1] /\ job.kind = op.kind
      /\ job.kind = "save" <=> run.all \in Profiles \cup NewFiles
      /\ Insertion <=> run.all = Reload
  BY <1>1, EndedFacts
<1>3. job.kind = "load" => run.all = Reload  BY <1>1, <1>2 DEF Region, Insertion
<1>4. CASE job.kind \in {"save", "load"} /\ run.result = "unformatted" /\ Remedied(Formatted) /\ Formatting
  <2>1. DataOf(Formatted) = {}  BY NoData
  <2>2. run.all \in Profiles \cup NewFiles \cup {Reload}  BY <1>2, <1>3, <1>4
  <2>3. QED  BY <1>1, <1>4, <2>1, <2>2, Remedying
<1>5. CASE Insertion /\ Remedied(Deletion) /\ UNCHANGED <<known, shown>>
  <2>1. DataOf(Deletion) = {}  BY NoData
  <2>2. QED  BY <1>1, <1>2, <1>5, <2>1, Remedying
<1>6. CASE job.kind = "save" /\ Remedied(Creation(NewFile)) /\ UNCHANGED <<known, shown>>
  <2>1. NewFile \in Data  BY <1>2, NewFileOwn DEF Working
  <2>2. PICK a : a = Creation(NewFile)  OBVIOUS
  <2>3. a \in NewFiles  BY <2>1, <2>2 DEF NewFiles
  <2>4. Len(a) = Regions + 2 /\ \A i \in 1 .. Regions + 2 : a[i].data = NewFile
    BY <2>1, <2>2, CreationOf
  <2>5. DataOf(a) \subseteq {NewFile}  BY <2>4, OneDatum
  <2>6. QED  BY <1>1, <1>2, <1>6, <2>2, <2>3, <2>5, Remedying
<1>7. QED  BY <1>4, <1>5, <1>6 DEF DoSomething, Formatted, Deletion

LEMMA DidSomethingKeeps ==
  ASSUME IndInv, DidSomething
  PROVE  IndInv'
<1>1. /\ run.at = "ended" /\ run.outer # <<>>
      /\ run' = Begun([run EXCEPT !.outer = Tail(@)], Head(run.outer))
      /\ UNCHANGED <<hardware, shown, known, faults>>
  BY DEF DidSomething, Remedy, Goes
<1>2. /\ Working /\ Typed /\ JobKept /\ HeldKept /\ MemoryKept /\ FilesKept /\ FlagsKept
      /\ run \in RunType /\ run.outer \in Seq(Jobs)
      /\ last_card_state \in BOOLEAN /\ removals \in BOOLEAN /\ insertions \in BOOLEAN
      /\ last_card_state \/ removals
      /\ insertions => last_card_state /\ removals
  BY <1>1, EndedFacts
<1>3. PICK o : o = Tail(run.outer)  OBVIOUS
<1>4. PICK a : a = Head(run.outer)  OBVIOUS
<1>5. /\ o \in Seq(Jobs) /\ Len(o) = Len(run.outer) - 1 /\ Len(run.outer) \in Nat \ {0}
      /\ \A i \in 1 .. Len(o) : o[i] = run.outer[i + 1]
      /\ a = run.outer[1] /\ a \in Jobs
  <2>1. /\ Tail(run.outer) \in Seq(Jobs) /\ Len(Tail(run.outer)) = Len(run.outer) - 1
        /\ \A i \in 1 .. Len(Tail(run.outer)) : Tail(run.outer)[i] = run.outer[i + 1]
        /\ Head(run.outer) \in Jobs
    BY <1>1, <1>2, HeadTailProperties
  <2>2. Len(run.outer) \in Nat \ {0}  BY <1>1, <1>2, NotEmpty
  <2>3. Head(run.outer) = run.outer[1]  BY <1>2, <2>2
  <2>4. QED  BY <1>3, <1>4, <2>1, <2>2, <2>3
<1>6. /\ 1 \in 1 .. Len(run.outer)
      /\ \A i \in 1 .. Len(o) : i + 1 \in 1 .. Len(run.outer) /\ (i + 1 = Len(run.outer) => i = Len(o))
  <2>1. PICK m \in Nat, n \in Nat \ {0} : m = Len(o) /\ n = Len(run.outer) /\ m = n - 1  BY <1>5
  <2>2. 1 \in 1 .. n /\ \A i \in 1 .. m : i + 1 \in 1 .. n /\ (i + 1 = n => i = m)  BY <2>1
  <2>3. QED  BY <2>1, <2>2
<1>7. PICK r : r = [run EXCEPT !.outer = o]  OBVIOUS
<1>8. r \in RunType /\ r.outer = o /\ r.card = run.card /\ r.unsure = run.unsure
  BY <1>2, <1>5, <1>7 DEF RunType
<1>9. run' = Begun(r, a)  BY <1>1, <1>3, <1>4, <1>7
<1>10. \A i \in 1 .. Len(o) :
           /\ o[i] \in Profiles \cup NewFiles \cup {Reload}
           /\ o[i] \in Profiles => o[i][1].place = Settings
           /\ o[i] = Reload => i = Len(o)
  BY <1>2, <1>5, <1>6 DEF JobKept
<1>11. a \in Loads => o = <<>>
  <2> SUFFICES ASSUME a \in Loads PROVE o = <<>>
    OBVIOUS
  <2>1. a \in Profiles \cup NewFiles \cup {Reload}  BY <1>2, <1>5, <1>6 DEF JobKept
  <2>2. a[1].kind = "load"  BY OtherFacts
  <2>3. a \notin Profiles \cup NewFiles  BY <1>5, <2>2, JobFacts
  <2>4. 1 = Len(run.outer)  BY <1>2, <1>5, <1>6, <2>1, <2>3 DEF JobKept
  <2>5. QED  BY <1>5, <2>4, EmptySeq
<1>12. /\ UNCHANGED <<card, slot, attached, doubtful, last_card_serial_no, faults>>
       /\ last_card_state' \in BOOLEAN /\ removals' \in BOOLEAN /\ insertions' \in BOOLEAN
       /\ last_card_state' \/ removals'
       /\ insertions' => last_card_state' /\ removals'
       /\ status' \in Statuses /\ settings' \in Data \cup {Nil}
       /\ origin' \in {"own", "other", "gone"}
  BY <1>1, <1>2 DEF hardware, known, shown, Typed, TypeOK, Statuses, FlagsKept
<1>13. /\ HeldKept' /\ MemoryKept' /\ FilesKept' => IndInv'
       /\ run'.all = a /\ run'.outer = r.outer
       /\ \A c \in Sure' : c \in Sure \/ (c = last_card_serial_no /\ removals /\ ~removals')
       /\ Held' = ({settings'} \cup DataOf(a)
                     \cup UNION {DataOf(r.outer[i]) : i \in 1 .. Len(r.outer)}) \ {Nil}
  <2>1. \A i \in 1 .. Len(r.outer) :
           /\ r.outer[i] \in Profiles \cup NewFiles \cup {Reload}
           /\ r.outer[i] \in Profiles => r.outer[i][1].place = Settings
           /\ r.outer[i] = Reload => i = Len(r.outer)
    BY <1>8, <1>10
  <2>2. a \in Loads => r.outer = <<>>  BY <1>8, <1>11
  <2>3. r \in RunType /\ a \in Jobs /\ r.card = run.card /\ r.unsure = run.unsure  BY <1>5, <1>8
  <2>4. IndInv /\ run.at = "ended"  BY <1>1
  <2>5. QED  BY <1>9, <1>12, <2>1, <2>2, <2>3, <2>4, Anew
<1>14. Sure' \subseteq Sure  BY <1>1, <1>13 DEF known
<1>15. Held' \subseteq Held
  <2>1. DataOf(a) \ {Nil} \subseteq Held  BY <1>5, <1>6 DEF Held
  <2>2. \A i \in 1 .. Len(o) : DataOf(o[i]) \ {Nil} \subseteq Held  BY <1>5, <1>6 DEF Held
  <2>3. {settings'} \ {Nil} \subseteq Held  BY <1>1 DEF Held, shown
  <2>4. QED  BY <1>8, <1>13, <2>1, <2>2, <2>3
<1>16. HeldKept'  BY <1>1, <1>2, <1>14, <1>15 DEF HeldKept, shown
<1>17. MemoryKept'
  <2>1. /\ a = Reload \/ (\E i \in 1 .. Len(o) : o[i] = Reload) => settings = Nil
        /\ a \in Profiles \/ (\E i \in 1 .. Len(o) : o[i] \in Profiles) => settings # Nil
    BY <1>2, <1>5, <1>6 DEF MemoryKept
  <2>2. QED  BY <1>1, <1>8, <1>13, <2>1 DEF MemoryKept, shown
<1>18. FilesKept'  BY <1>1, <1>2, <1>14 DEF FilesKept, Whole, shown, hardware
<1>19. QED  BY <1>13, <1>16, <1>17, <1>18

(* What was read from a card is of that card, wherever it came from.       *)
LEMMA InsertionEndsKeeps ==
  ASSUME IndInv, run.at = "ended", NEW result \in Statuses, InsertionEnds(result),
         Insertion \/ run.all \notin Loads,
         UNCHANGED <<hardware, known, faults>>
  PROVE  IndInv'
<1>1. /\ Working /\ Typed /\ SlotKept /\ LoadKept /\ run \in RunType
      /\ Insertion <=> run.all = Reload
  BY EndedFacts
<1>2. PICK w \in {"look", "polled"} : run' = Back(w)  BY DEF InsertionEnds
<1>3. run' = IF w = "idle" THEN Idle ELSE Back(w)  BY <1>2
<1>4. status' = result  BY DEF InsertionEnds
<1>5. CASE settings' = Nil /\ origin' = "own"
  <2>1. /\ HeldKept' /\ FilesKept' => IndInv'
        /\ Held' = {settings'} \ {Nil}
    BY <1>3, <1>4, <1>5, Finishes
  <2>2. HeldKept'  BY <1>5, <2>1 DEF HeldKept
  <2>3. FilesKept'  BY <1>5 DEF FilesKept, IndInv, Whole, hardware
  <2>4. QED  BY <2>1, <2>2, <2>3
<1>6. CASE /\ run.got # Nil
           /\ settings' = [run.got EXCEPT !.of = run.from]
           /\ origin' = IF run.from = last_card_serial_no THEN "own" ELSE "other"
  <2>1. /\ run.all = Reload /\ run.from # Nil /\ (~run.unsure => run.from = run.card)
        /\ run.from \notin doubtful => Whole(card[run.from])
    BY <1>1, <1>6 DEF LoadKept
  <2>2. run.from \in Cards /\ run.got \in Data  BY <1>1, <1>6, <2>1 DEF RunType
  <2>3. settings' \in Data /\ settings'.of = run.from  BY <1>6, <2>2 DEF Data
  <2>4. settings' # Nil  BY <2>3, NilApart
  <2>5. /\ HeldKept' /\ FilesKept' => IndInv'
        /\ Held' = {settings'} \ {Nil}
        /\ \A c \in Sure' : c = last_card_serial_no \/ (c = run.card /\ ~run.unsure)
    BY <1>3, <1>4, <1>6, <2>3, <2>4, Finishes
  <2>6. origin' # "other" => \A c \in Sure' : c = run.from  BY <1>6, <2>1, <2>5
  <2>7. HeldKept'  BY <2>3, <2>5, <2>6 DEF HeldKept
  <2>8. FilesKept'
    <3>1. FilesKept /\ UNCHANGED <<card, doubtful>>  BY DEF IndInv, hardware
    <3>2. origin' = "own" => \A c \in Sure' \ doubtful : Whole(card[c])  BY <2>1, <2>6
    <3>3. QED  BY <3>1, <3>2 DEF FilesKept, Whole
  <2>9. QED  BY <2>5, <2>7, <2>8
<1>7. QED  BY <1>5, <1>6 DEF InsertionEnds

LEMMA NotDeletedKeeps ==
  ASSUME IndInv, NotDeleted
  PROVE  IndInv'
<1>1. /\ run.at = "ended" /\ job.kind = "delete" /\ InsertionEnds("damaged")
      /\ UNCHANGED <<hardware, known, faults>>
  BY DEF NotDeleted, Remedy
<1>2. run.all \notin Loads  BY <1>1, EndedFacts
<1>3. "damaged" \in Statuses  BY DEF Statuses
<1>4. QED  BY <1>1, <1>2, <1>3, InsertionEndsKeeps

(* A new file is whole when the function that created it ends.             *)
LEMMA NewFileWhole ==
  ASSUME IndInv, run.at = "ended", run.all \in NewFiles, run.result = "ok"
  PROVE  \A c \in Sure \ doubtful : Whole(card[c])
<1>1. Working /\ Typed /\ JobKept /\ CallsKept /\ WritesKept  BY EndedFacts
<1>2. /\ op.kind = "save" /\ Len(run.all) = Regions + 2
      /\ Nth = Regions + 2 => op.place = Settings
  BY <1>1, OpOfJob
<1>3. Len(run.ops) = 1  BY <1>1 DEF CallsKept
<1>4. Nth = Regions + 2
  <2>1. Nth = (Regions + 2) - 1 + 1  BY <1>2, <1>3, Zenon DEF Nth
  <2>2. Regions \in Nat  BY CardsAssumption
  <2>3. (Regions + 2) - 1 + 1 = Regions + 2  BY <2>2
  <2>4. QED  BY <2>1, <2>3, Zenon
<1>5. ASSUME NEW c \in Sure \ doubtful PROVE Whole(card[c])
  <2>1. card[c].file /\ card[c].sector[Settings] # Blank  BY <1>1, <1>2, <1>4 DEF WritesKept
  <2>2. \A p \in 3 .. Regions + 2 : card[c].sector[p] # Blank  BY <1>1, <1>4 DEF WritesKept
  <2>3. QED  BY <2>1, <2>2 DEF Whole, Places
<1>6. QED  BY <1>5

LEMMA SaveEndsKeeps ==
  ASSUME IndInv, run.at = "ended", job.kind = "save", SaveEnds, UNCHANGED <<hardware, known, faults>>
  PROVE  IndInv'
<1>1. /\ Working /\ Typed /\ JobKept /\ HeldKept /\ FilesKept /\ FlagsKept
      /\ run \in RunType /\ run.all \in Jobs /\ job = run.all[1]
      /\ run.all \in Profiles \cup NewFiles
  BY EndedFacts
<1>2. PICK w \in {"idle", "look"} : run' = IF w = "idle" THEN Idle ELSE Back(w)
  <2>1. CASE job.make
    <3>1. run' = IF "look" = "idle" THEN Idle ELSE Back("look")  BY <2>1 DEF SaveEnds
    <3>2. QED  BY <3>1
  <2>2. CASE ~job.make
    <3>1. run' = IF "idle" = "idle" THEN Idle ELSE Back("idle")  BY <2>2 DEF SaveEnds
    <3>2. QED  BY <3>1
  <2>3. QED  BY <2>1, <2>2
<1>3. job.make => run.all \in NewFiles  BY <1>1, OpOfJob
<1>4. job.data \in Data /\ job.data \in Held
  <2>1. Len(run.all) \in Nat \ {0} /\ run.all[1].kind = "save"  BY <1>1, JobFacts
  <2>2. 1 \in 1 .. Len(run.all)  BY <2>1
  <2>3. job.data \in DataOf(run.all)  BY <1>1, <2>1, <2>2, DataIn
  <2>4. job.data \in Data
    <3>1. CASE run.all \in Profiles  BY <1>1, <3>1, ProfileFacts
    <3>2. CASE run.all \in NewFiles
      <4>1. \A i \in 1 .. Regions + 2 : run.all[i].data \in Data  BY <3>2, CreationFacts
      <4>2. 1 \in 1 .. Regions + 2  OBVIOUS
      <4>3. QED  BY <1>1, <4>1, <4>2
    <3>3. QED  BY <1>1, <3>1, <3>2
  <2>5. QED  BY <2>3, <2>4, NilApart DEF Held
<1>5. /\ settings' \in {settings, job.data} /\ (settings' = settings \/ (job.make /\ run.result = "ok"))
      /\ status' \in Statuses /\ settings' \in Data \cup {Nil}
      /\ origin' \in {"own", "other", "gone"}
      /\ origin' = "other" <=> origin = "other"
      /\ origin' = "own" => origin = "own" \/ (job.make /\ run.result = "ok")
  <2>1. settings \in Data \cup {Nil} /\ status \in Statuses /\ origin \in {"own", "other", "gone"}
        /\ run.result \in Statuses
    BY <1>1 DEF Typed, TypeOK, Statuses, RunType
  <2>2. QED  BY <1>4, <2>1, NilApart DEF SaveEnds
<1>6. w \in {"idle", "look", "polled"}  OBVIOUS
<1>7. /\ HeldKept' /\ FilesKept' => IndInv'
      /\ Held' = {settings'} \ {Nil}
      /\ w # "polled" => Sure' \subseteq Sure
  BY <1>2, <1>5, <1>6, Finishes
<1>8. Sure' \subseteq Sure  BY <1>7
<1>9. HeldKept'
  <2>1. Held' \subseteq Held  BY <1>4, <1>5, <1>7 DEF Held
  <2>2. QED  BY <1>1, <1>5, <1>8, <2>1 DEF HeldKept
<1>10. FilesKept'
  <2>1. job.make /\ run.result = "ok" => \A c \in Sure \ doubtful : Whole(card[c])
    BY <1>3, NewFileWhole
  <2>2. settings' # Nil /\ origin' = "own" => \A c \in Sure' \ doubtful : Whole(card[c])
    BY <1>1, <1>5, <1>8, <2>1 DEF FilesKept, SaveEnds
  <2>3. QED  BY <1>1, <2>2 DEF FilesKept, Whole, hardware
<1>11. QED  BY <1>7, <1>9, <1>10

(* A function ends that keeps what is in memory.                           *)
LEMMA SameEnds ==
  ASSUME IndInv, run.at = "ended", NEW w \in {"idle", "look"},
         run' = IF w = "idle" THEN Idle ELSE Back(w),
         status' \in Statuses, UNCHANGED <<hardware, known, faults, settings, origin>>
  PROVE  IndInv'
<1>1. Typed /\ HeldKept /\ FilesKept /\ FlagsKept  BY EndedFacts
<1>2. settings' \in Data \cup {Nil} /\ origin' \in {"own", "other", "gone"}
  BY <1>1 DEF Typed, TypeOK
<1>3. w \in {"idle", "look", "polled"}  OBVIOUS
<1>4. /\ HeldKept' /\ FilesKept' => IndInv'
      /\ Held' = {settings'} \ {Nil}
      /\ w # "polled" => Sure' \subseteq Sure
  BY <1>2, <1>3, Finishes
<1>5. Held' \subseteq Held  BY <1>4 DEF Held
<1>6. HeldKept' /\ FilesKept'  BY <1>1, <1>4, <1>5 DEF HeldKept, FilesKept, Whole, hardware
<1>7. QED  BY <1>4, <1>6

LEMMA LoadEndsKeeps ==
  ASSUME IndInv, run.at = "ended", LoadEnds, UNCHANGED <<hardware, known, faults>>
  PROVE  IndInv'
<1>1. run.result \in Statuses  BY EndedFacts DEF RunType
<1>2. /\ run' = IF "idle" = "idle" THEN Idle ELSE Back("idle")
      /\ status' \in Statuses /\ UNCHANGED <<settings, origin>>
  BY <1>1 DEF LoadEnds
<1>3. QED  BY <1>2, SameEnds

LEMMA DeletionEndsKeeps ==
  ASSUME IndInv, run.at = "ended", DeletionEnds, UNCHANGED <<hardware, known, faults>>
  PROVE  IndInv'
<1>1. status \in Statuses  BY EndedFacts DEF Typed, TypeOK, Statuses
<1>2. /\ run' = IF "look" = "idle" THEN Idle ELSE Back("look")
      /\ status' \in Statuses /\ UNCHANGED <<settings, origin>>
  BY <1>1 DEF DeletionEnds, Statuses
<1>3. QED  BY <1>2, SameEnds

LEMMA FormatEndsKeeps ==
  ASSUME IndInv, run.at = "ended", run.outer = <<>>, FormatEnds, UNCHANGED <<hardware, known, faults>>
  PROVE  IndInv'
<1>1. /\ Typed /\ SlotKept /\ Working /\ FilesKept /\ run \in RunType /\ run.card # Nil
      /\ last_card_state \in BOOLEAN /\ removals \in BOOLEAN /\ insertions \in BOOLEAN
      /\ last_card_state \/ removals
      /\ insertions => last_card_state /\ removals
  BY EndedFacts
<1>2. CASE run' = Back("look") /\ UNCHANGED shown
  <2>1. status \in Statuses  BY <1>1 DEF Typed, TypeOK, Statuses
  <2>2. /\ run' = IF "look" = "idle" THEN Idle ELSE Back("look")
        /\ status' \in Statuses /\ UNCHANGED <<settings, origin>>
    BY <1>2, <2>1 DEF shown
  <2>3. QED  BY <2>2, SameEnds
<1>3. CASE /\ status' = "no_file" /\ settings' = Nil /\ origin' = "own"
           /\ run' = Begun(run, Creation([of |-> Known, version |-> 1]))
  <2>1. Known \in Cards /\ \A c \in Sure : c = Known  BY <1>1, KnownOwn DEF Working
  <2>2. PICK d : d = [of |-> Known, version |-> 1]  OBVIOUS
  <2>3. d \in Data /\ d.of = Known  BY <2>1, <2>2, FirstData
  <2>4. PICK a : a = Creation(d)  OBVIOUS
  <2>5. a \in NewFiles  BY <2>3, <2>4 DEF NewFiles
  <2>6. Len(a) = Regions + 2 /\ \A i \in 1 .. Regions + 2 : a[i].data = d
    BY <2>3, <2>4, CreationOf
  <2>7. DataOf(a) \subseteq {d}  BY <2>6, OneDatum
  <2>8. a \in Jobs /\ a \notin Profiles /\ a # Reload /\ a \notin Loads
    <3>1. a \in Jobs  BY <2>5 DEF Jobs
    <3>2. a[1].kind = "save" /\ a[1].make  BY <2>5, <3>1, JobFacts
    <3>3. QED  BY <3>1, <3>2, ProfileFacts, OtherFacts
  <2>9. PICK r \in RunType : r = run  BY <1>1
  <2>10. Len(r.outer) = 0 /\ r.outer = <<>> /\ r.card = run.card /\ r.unsure = run.unsure
         /\ run' = Begun(r, a)
    BY <1>3, <2>2, <2>4, <2>9
  <2>11. \A i \in 1 .. Len(r.outer) :
           /\ r.outer[i] \in Profiles \cup NewFiles \cup {Reload}
           /\ r.outer[i] \in Profiles => r.outer[i][1].place = Settings
           /\ r.outer[i] = Reload => i = Len(r.outer)
    <3>1. \A i : i \notin 1 .. 0  OBVIOUS
    <3>2. QED  BY <2>10, <3>1
  <2>12. /\ UNCHANGED <<card, slot, attached, doubtful, last_card_serial_no, faults>>
         /\ last_card_state' \in BOOLEAN /\ removals' \in BOOLEAN /\ insertions' \in BOOLEAN
         /\ last_card_state' \/ removals'
         /\ insertions' => last_card_state' /\ removals'
         /\ status' \in Statuses /\ settings' \in Data \cup {Nil}
         /\ origin' \in {"own", "other", "gone"}
    BY <1>1, <1>3 DEF hardware, known, Statuses
  <2>13. /\ HeldKept' /\ MemoryKept' /\ FilesKept' => IndInv'
         /\ run'.all = a /\ run'.outer = r.outer
         /\ \A c \in Sure' : c \in Sure \/ (c = last_card_serial_no /\ removals /\ ~removals')
         /\ Held' = ({settings'} \cup DataOf(a)
                       \cup UNION {DataOf(r.outer[i]) : i \in 1 .. Len(r.outer)}) \ {Nil}
    BY <2>8, <2>10, <2>11, <2>12, Anew
  <2>14. Sure' \subseteq Sure  BY <2>13 DEF known
  <2>15. Held' \subseteq {d}
    <3>1. \A i : i \notin 1 .. 0  OBVIOUS
    <3>2. UNION {DataOf(r.outer[i]) : i \in 1 .. Len(r.outer)} = {}  BY <2>10, <3>1
    <3>3. QED  BY <1>3, <2>7, <2>13, <3>2
  <2>16. HeldKept'  BY <2>1, <2>3, <2>14, <2>15 DEF HeldKept
  <2>17. MemoryKept'
    <3>1. \A i : i \notin 1 .. 0  OBVIOUS
    <3>2. QED  BY <2>8, <2>10, <2>13, <3>1 DEF MemoryKept
  <2>18. FilesKept'  BY <1>1, <1>3 DEF FilesKept, Whole, hardware
  <2>19. QED  BY <2>13, <2>16, <2>17, <2>18
<1>4. QED  BY <1>2, <1>3 DEF FormatEnds

LEMMA EndsKeeps ==
  ASSUME IndInv, Ends
  PROVE  IndInv'
<1>1. run.at = "ended" /\ run.outer = <<>> /\ UNCHANGED <<hardware, known, faults>>  BY DEF Ends
<1>2. run.result \in Statuses  BY <1>1, EndedFacts DEF RunType
<1>3. CASE Insertion /\ InsertionEnds(run.result)  BY <1>1, <1>2, <1>3, InsertionEndsKeeps
<1>4. CASE LoadEnds  BY <1>1, <1>4, LoadEndsKeeps
<1>5. CASE job.kind = "save" /\ SaveEnds  BY <1>1, <1>5, SaveEndsKeeps
<1>6. CASE DeletionEnds  BY <1>1, <1>6, DeletionEndsKeeps
<1>7. CASE FormatEnds  BY <1>1, <1>7, FormatEndsKeeps
<1>8. Insertion \/ (job.kind = "load" /\ Region) \/ job.kind \in {"save", "delete", "format"}
  <2>1. Working /\ Typed /\ JobKept /\ job.kind = op.kind  BY <1>1, EndedFacts
  <2>2. op.kind \in {"save", "load", "delete", "format"}  BY <2>1, OpOfJob
  <2>3. QED  BY <2>1, <2>2 DEF Insertion, Region
<1>9. QED  BY <1>3, <1>4, <1>5, <1>6, <1>7, <1>8 DEF Ends, Insertion, Region

----------------------------------------------------------------------------
(* Every step                                                              *)

LEMMA NothingHappens ==
  ASSUME IndInv, UNCHANGED vars
  PROVE  IndInv'
<1> USE DEF vars, hardware, known, shown
<1>1. Typed /\ JobKept /\ (Working => CallsKept)  BY DEF IndInv
<1>2. op' = op /\ job' = job /\ call' = call /\ Nth' = Nth  BY DEF op, job, call, Nth
<1>3. Typed'  BY <1>1 DEF Typed, TypeOK
<1>4. JobKept' /\ (Working' <=> Working)  BY <1>1 DEF JobKept, Working
<1>5. CallsOf(op)' = CallsOf(op)  BY <1>2 DEF CallsOf
<1>6. CallsKept => CallsKept'  BY <1>2, <1>5 DEF CallsKept
<1>7. SlotKept' /\ FlagsKept'  BY <1>4 DEF IndInv, SlotKept, FlagsKept, Something
<1>8. Sure' = Sure /\ Held' = Held  BY DEF Sure, Held, DataOf
<1>9. HeldKept' /\ MemoryKept'  BY <1>8 DEF IndInv, HeldKept, MemoryKept
<1>10. Saves' = Saves /\ Opened' = Opened /\ Erased' = Erased
  BY <1>2, <1>5 DEF Saves, Opened, Erased
<1>11. FormatKept => FormatKept'  BY <1>2 DEF FormatKept
<1>12. WritesKept => WritesKept'  BY <1>2, <1>8, <1>10 DEF WritesKept
<1>13. LoadKept' /\ FilesKept'  BY <1>8 DEF IndInv, LoadKept, FilesKept, Whole
<1>14. QED
  BY <1>3, <1>4, <1>6, <1>7, <1>9, <1>11, <1>12, <1>13 DEF IndInv

LEMMA NextKeeps ==
  ASSUME IndInv, [Next]_vars
  PROVE  IndInv'
<1>1. CASE World
  <2>1. CASE TakeOut  BY <2>1, TakeOutKeeps
  <2>2. CASE \E c \in Cards : PutIn(c)  BY <2>2, PutInKeeps
  <2>3. CASE PowerFails  BY <2>3, PowerFailsKeeps
  <2>4. QED  BY <1>1, <2>1, <2>2, <2>3 DEF World
<1>2. CASE Game
  <2>1. CASE \E then \in {<<>>, <<"save">>, Remedies} : Look(then)  BY <2>1, LookKeeps
  <2>2. CASE Inserted  BY <2>2, InsertedKeeps
  <2>3. CASE OnlyRemoved  BY <2>3, OnlyRemovedKeeps
  <2>4. CASE LookAgain  BY <2>4, LookAgainKeeps
  <2>5. CASE Nothing  BY <2>5, NothingKeeps
  <2>6. CASE Recreate  BY <2>6, RecreateKeeps
  <2>7. CASE \E v \in Versions : SaveProfile(v)  BY <2>7, SaveProfileKeeps
  <2>8. CASE \E v \in Versions : \E p \in Places \ {Settings} : SaveRegion(p, v)
    BY <2>8, SaveRegionKeeps
  <2>9. CASE \E p \in Places \ {Settings} : LoadRegion(p)  BY <2>9, LoadRegionKeeps
  <2>10. QED
    BY <1>2, <2>1, <2>2, <2>3, <2>4, <2>5, <2>6, <2>7, <2>8, <2>9 DEF Game
<1>3. CASE Library
  <2>1. CASE MountCard  BY <2>1, MountCardKeeps
  <2>2. CASE Notice  BY <2>2, NoticeKeeps
  <2>3. CASE Open  BY <2>3, OpenKeeps
  <2>4. CASE Read  BY <2>4, ReadKeeps
  <2>5. CASE Check  BY <2>5, CheckKeeps
  <2>6. CASE Create  BY <2>6, CreateKeeps
  <2>7. CASE Erase  BY <2>7, EraseKeeps
  <2>8. CASE Program  BY <2>8, ProgramKeeps
  <2>9. CASE Status  BY <2>9, StatusKeeps
  <2>10. CASE Delete  BY <2>10, DeleteKeeps
  <2>11. CASE Format  BY <2>11, FormatKeeps
  <2>12. CASE Unmount  BY <2>12, UnmountKeeps
  <2>13. CASE CallFails  BY <2>13, CallFailsKeeps
  <2>14. CASE CallsEnd  BY <2>14, CallsEndKeeps
  <2>15. QED
    BY <1>3, <2>1, <2>2, <2>3, <2>4, <2>5, <2>6, <2>7, <2>8, <2>9, <2>10, <2>11, <2>12,
       <2>13, <2>14 DEF Library
<1>4. CASE Player
  <2>1. CASE ConfirmFormat  BY <2>1, ConfirmFormatKeeps
  <2>2. CASE CardChanged  BY <2>2, CardChangedKeeps
  <2>3. CASE FormatFailed  BY <2>3, FormatFailedKeeps
  <2>4. CASE TryAgain  BY <2>4, TryAgainKeeps
  <2>5. CASE DoSomething  BY <2>5, DoSomethingKeeps
  <2>6. CASE DidSomething  BY <2>6, DidSomethingKeeps
  <2>7. CASE NotDeleted  BY <2>7, NotDeletedKeeps
  <2>8. CASE Ends  BY <2>8, EndsKeeps
  <2>9. QED
    BY <1>4, <2>1, <2>2, <2>3, <2>4, <2>5, <2>6, <2>7, <2>8 DEF Player
<1>5. CASE UNCHANGED vars  BY <1>5, NothingHappens
<1>6. QED  BY <1>1, <1>2, <1>3, <1>4, <1>5 DEF Next

(* Between any two calls of the card library the game's functions know of  *)
(* the cards what IndInv says, however cards are exchanged and calls fail. *)
THEOREM CardsInvariant == Spec => []IndInv
<1>1. Init => IndInv  BY Start
<1>2. IndInv /\ [Next]_vars => IndInv'  BY NextKeeps
<1>3. QED  BY <1>1, <1>2, PTL DEF Spec

----------------------------------------------------------------------------
(* What follows                                                            *)

LEMMA ContentFacts ==
  ASSUME NEW f, NEW p \in Places, Content(f, p) # Nil
  PROVE  /\ Content(f, p) = f.sector[p].data
         /\ p = Settings => f.sector[2].sum /\ f.sector[2].data = f.sector[p].data
<1>1. /\ Content(f, p) = f.sector[p].data /\ f.sector[Last(SectorsOf(p))].sum
      /\ \A s \in ToSet(SectorsOf(p)) : f.sector[s].data = f.sector[p].data
  BY Zenon DEF Content, Stored
<1>2. ASSUME p = Settings
      PROVE  f.sector[2].sum /\ f.sector[2].data = f.sector[p].data
  <2>1. SectorsOf(p) = <<1, 2>>  BY <1>2 DEF SectorsOf
  <2>2. Last(<<1, 2>>) = 2  BY DEF Last
  <2>3. 2 \in ToSet(<<1, 2>>)
    <3>1. 2 \in DOMAIN <<1, 2>> /\ <<1, 2>>[2] = 2  OBVIOUS
    <3>2. QED  BY <3>1 DEF ToSet
  <2>4. QED  BY <1>1, <2>1, <2>2, <2>3
<1>3. QED  BY <1>1, <1>2

(* A new file is created with a checksum that does not fit, then its       *)
(* regions, then the settings once more: one whose settings would be       *)
(* accepted has all of its regions.                                        *)
THEOREM NewFilesComplete == Spec => []NewFileComplete
<1>1. IndInv => NewFileComplete
  <2> SUFFICES ASSUME IndInv, NEW c \in Cards \ doubtful, Content(card[c], Settings) # Nil
               PROVE  \A p \in Places : card[c].sector[p] # Blank
    BY DEF NewFileComplete
  <2>1. Settings \in Places  BY PlacesTyped
  <2>2. card[c].sector[2].sum /\ card[c].sector[2].data # Nil  BY <2>1, ContentFacts
  <2>3. QED  BY <2>2 DEF IndInv, FilesKept, Whole
<1>2. QED  BY <1>1, CardsInvariant, PTL

(* What the game holds in memory, and what the functions that wait for     *)
(* another try hold, is of the card it takes to be in the slot, so that    *)
(* none of it gets to another one.                                         *)
THEOREM DataStayOnTheirCard == Spec => []OwnData
<1>1. IndInv => OwnData
  <2> SUFFICES ASSUME IndInv, NEW c \in Cards \ doubtful, NEW p \in Places,
                      Content(card[c], p) # Nil
               PROVE  Content(card[c], p).of = c
    BY DEF OwnData, IndInv, Typed
  <2>1. p \in Sectors  BY DEF Places, Sectors, Settings
  <2>2. Content(card[c], p) = card[c].sector[p].data  BY ContentFacts
  <2>3. QED  BY <2>1, <2>2 DEF IndInv, FilesKept
<1>2. QED  BY <1>1, CardsInvariant, PTL

(* Which actions write to the card                                         *)
LEMMA CardsWritten ==
  ASSUME [Next]_vars, Calling("format"), ~Format
  PROVE  card' = card
<1> USE DEF hardware
<1>1. CASE World  BY <1>1 DEF World, TakeOut, PutIn, PowerFails
<1>2. CASE Game
  <2>1. ~At("idle") /\ ~At("look") /\ ~Polled /\ ~At("flags")  BY DEF Calling, Polled
  <2>2. QED
    BY <1>2, <2>1 DEF Game, Look, Inserted, OnlyRemoved, LookAgain, Nothing, Recreate, SaveProfile,
                      SaveRegion, LoadRegion, Does
<1>3. CASE Library
  <2>1. call = "format"  BY DEF Calling
  <2>2. ~Create /\ ~Erase /\ ~Program /\ ~Status /\ ~Delete
    BY <2>1 DEF Create, Erase, Program, Status, Delete, Works, Calling
  <2>3. ~MountCard /\ ~Notice /\ ~Open /\ ~Read /\ ~Check
    BY <2>1 DEF MountCard, Notice, Open, Read, Check, Works, Calling
  <2>4. card' = card  BY <1>3, <2>2, <2>3 DEF Library, Unmount, CallFails, CallsEnd
  <2>5. QED  BY <2>4
<1>4. CASE Player
  <2>1. ~At("confirm") /\ ~At("changed") /\ ~At("format_failed") /\ ~At("ended")
    BY DEF Calling
  <2>2. QED
    BY <1>4, <2>1 DEF Player, ConfirmFormat, CardChanged, FormatFailed, TryAgain, DoSomething,
                      DidSomething, NotDeleted, Remedy, Ends
<1>5. CASE UNCHANGED vars  BY <1>5 DEF vars
<1>6. QED  BY <1>1, <1>2, <1>3, <1>4, <1>5 DEF Next

(* Of the cards that gc_format_procedure recognises when it looks at cards *)
(* before it formats, only the one that was known when the player agreed   *)
(* loses its file, unless he was told of an exchange.  Nothing is said of  *)
(* a card whose serial number could not be read in that look, nor of one   *)
(* that was put in after it.                                               *)
THEOREM FormattingTold == Spec => FormatTold
<1>1. ASSUME IndInv, [Next]_vars
      PROVE  [\A c \in Cards : card[c].file /\ ~card'[c].file /\ Calling("format")
                        /\ c = last_card_serial_no => c \in run.may]_vars
  <2> SUFFICES ASSUME NEW c \in Cards, card[c].file, ~card'[c].file, Calling("format"),
                      c = last_card_serial_no
               PROVE  c \in run.may
    OBVIOUS
  <2>1. Format  BY <1>1, CardsWritten
  <2>2. /\ run.at = "calls" /\ run.calls # <<>> /\ call = "format" /\ attached /\ Changes(NoFile)
        /\ run' = Passed
    BY <2>1 DEF Format, Works, Calling
  <2>3. op.kind = "format" /\ Working  BY <1>1, <2>2, Emptied
  <2>4. FormatKept  BY <1>1, <2>3 DEF IndInv
  <2>5. QED  BY <2>2, <2>3, <2>4, NilApart DEF FormatKept
<1>2. QED  BY <1>1, CardsInvariant, PTL DEF Spec, FormatTold

----------------------------------------------------------------------------
(* What a file holds                                                       *)

LEMMA SectorsAre ==
  ASSUME NEW p \in Places
  PROVE  /\ p = Settings => Last(SectorsOf(p)) = 2 /\ ToSet(SectorsOf(p)) = {1, 2}
         /\ p # Settings => Last(SectorsOf(p)) = p /\ ToSet(SectorsOf(p)) = {p}
<1>1. CASE p = Settings
  <2>1. SectorsOf(p) = <<1, 2>>  BY <1>1 DEF SectorsOf
  <2>2. Last(<<1, 2>>) = 2  BY DEF Last
  <2>3. ToSet(<<1, 2>>) = {1, 2}
    <3>1. DOMAIN <<1, 2>> = {1, 2} /\ <<1, 2>>[1] = 1 /\ <<1, 2>>[2] = 2  OBVIOUS
    <3>2. QED  BY <3>1 DEF ToSet
  <2>4. QED  BY <1>1, <2>1, <2>2, <2>3
<1>2. CASE p # Settings
  <2>1. SectorsOf(p) = <<p>>  BY <1>2 DEF SectorsOf
  <2>2. Last(<<p>>) = p  BY DEF Last
  <2>3. ToSet(<<p>>) = {p}
    <3>1. DOMAIN <<p>> = {1} /\ <<p>>[1] = p  OBVIOUS
    <3>2. QED  BY <3>1 DEF ToSet
  <2>4. QED  BY <1>2, <2>1, <2>2, <2>3
<1>3. QED  BY <1>1, <1>2

LEMMA StoredIs ==
  ASSUME NEW f \in FileType, NEW p \in Places
  PROVE  /\ p = Settings =>
              Stored(f, p) = IF f.sector[2].sum /\ f.sector[2].data = f.sector[1].data
                             THEN f.sector[1].data ELSE Nil
         /\ p # Settings => Stored(f, p) = IF f.sector[p].sum THEN f.sector[p].data ELSE Nil
         /\ Stored(f, p) \in Data \cup {Nil}
<1>1. CASE p = Settings
  <2>1. Last(SectorsOf(p)) = 2 /\ ToSet(SectorsOf(p)) = {1, 2}  BY <1>1, SectorsAre
  <2>2. p = 1  BY <1>1 DEF Settings
  <2>3. Stored(f, p) = IF f.sector[2].sum /\ f.sector[2].data = f.sector[1].data
                       THEN f.sector[1].data ELSE Nil
    <3>1. (\A s \in {1, 2} : f.sector[s].data = f.sector[1].data)
            <=> f.sector[2].data = f.sector[1].data
      OBVIOUS
    <3>2. QED  BY <2>1, <2>2, <3>1, Zenon DEF Stored
  <2>4. f.sector[1].data \in Data \cup {Nil}  BY CallsTyped DEF FileType, SectorType
  <2>5. QED  BY <1>1, <2>3, <2>4
<1>2. CASE p # Settings
  <2>1. Last(SectorsOf(p)) = p /\ ToSet(SectorsOf(p)) = {p}  BY <1>2, SectorsAre
  <2>2. Stored(f, p) = IF f.sector[p].sum THEN f.sector[p].data ELSE Nil
    BY <2>1, Zenon DEF Stored
  <2>3. p \in Sectors  BY CallsTyped
  <2>4. f.sector[p].data \in Data \cup {Nil}  BY <2>3 DEF FileType, SectorType
  <2>5. QED  BY <1>2, <2>2, <2>4
<1>3. QED  BY <1>1, <1>2

LEMMA Elsewhere ==
  ASSUME NEW f \in FileType, NEW g \in FileType, NEW p \in Places, NEW s \in Sectors,
         s # p, ~(p = Settings /\ s = 2),
         \A i \in Sectors \ {s} : f.sector[i] = g.sector[i]
  PROVE  Stored(f, p) = Stored(g, p)
<1>1. 1 \in Sectors /\ 2 \in Sectors /\ p \in Sectors  BY CallsTyped
<1>2. CASE p = Settings
  <2>1. f.sector[1] = g.sector[1] /\ f.sector[2] = g.sector[2]  BY <1>1, <1>2 DEF Settings
  <2>2. QED  BY <1>2, <2>1, StoredIs
<1>3. CASE p # Settings
  <2>1. f.sector[p] = g.sector[p]  BY <1>1
  <2>2. QED  BY <1>3, <2>1, StoredIs
<1>4. QED  BY <1>2, <1>3

LEMMA NothingStored ==
  ASSUME NEW f \in FileType, \A s \in Sectors : f.sector[s] = Blank, NEW p \in Places
  PROVE  Stored(f, p) = Nil
<1>1. 2 \in Sectors /\ p \in Sectors  BY CallsTyped
<1>2. ~f.sector[2].sum /\ ~f.sector[p].sum  BY <1>1 DEF Blank
<1>3. QED  BY <1>2, StoredIs

(* A place is written to sector by sector.                                 *)
LEMMA PlaceWritten ==
  ASSUME NEW g \in FileType, NEW o \in OpType, o.data \in Data, NEW s \in Sectors,
         s = o.place \/ (o.place = Settings /\ s = 2),
         NEW x \in {Torn, Written(o)}, NEW f, f = Put(g, s, x)
  PROVE  /\ f \in FileType /\ f.icon = g.icon /\ f.sector[s] = x
         /\ \A i \in Sectors \ {s} : f.sector[i] = g.sector[i]
         /\ \A p \in Places \ {o.place} : Stored(f, p) = Stored(g, p)
         /\ Stored(f, o.place) \in {Nil, o.data}
<1>1. o.place \in Places /\ Places \subseteq Sectors /\ 1 \in Sectors /\ 2 \in Sectors
  BY CallsTyped DEF OpType
<1>2. x \in SectorType /\ x.data \in {Nil, o.data}
  <2>1. Torn \in SectorType  BY BlankFiles
  <2>2. Written(o) \in SectorType  BY DEF Written, SectorType, OpType
  <2>3. CASE x = Torn  BY <2>1, <2>3 DEF Torn
  <2>4. CASE x = Written(o)  BY <2>2, <2>4 DEF Written
  <2>5. QED  BY <2>3, <2>4
<1>3. /\ f \in FileType /\ f.icon = g.icon /\ f.sector[s] = x
      /\ \A i \in Sectors \ {s} : f.sector[i] = g.sector[i]
  BY <1>2, Rewritten
<1>4. ASSUME NEW p \in Places \ {o.place} PROVE Stored(f, p) = Stored(g, p)
  <2>1. s # p /\ ~(p = Settings /\ s = 2)
    <3>1. 2 \notin Places  BY DEF Places, Settings
    <3>2. QED  BY <1>1, <3>1
  <2>2. QED  BY <1>3, <2>1, Elsewhere
<1>5. Stored(f, o.place) \in {Nil, o.data}
  <2>1. CASE o.place = Settings
    <3>1. \/ f.sector[1].data \in {Nil, o.data}
          \/ f.sector[2].data \in {Nil, o.data}
      BY <1>2, <1>3, <2>1 DEF Settings
    <3>2. Stored(f, o.place) = IF f.sector[2].sum /\ f.sector[2].data = f.sector[1].data
                               THEN f.sector[1].data ELSE Nil
      BY <1>1, <1>3, <2>1, StoredIs
    <3>3. QED  BY <3>1, <3>2
  <2>2. CASE o.place # Settings
    <3>1. f.sector[o.place].data \in {Nil, o.data}  BY <1>2, <1>3, <2>2
    <3>2. Stored(f, o.place) = IF f.sector[o.place].sum THEN f.sector[o.place].data ELSE Nil
      BY <1>1, <1>3, <2>2, StoredIs
    <3>3. QED  BY <3>1, <3>2
  <2>3. QED  BY <2>1, <2>2
<1>6. QED  BY <1>3, <1>4, <1>5

(* A place whose sectors were all written                                  *)
LEMMA AllOf ==
  ASSUME NEW f \in FileType, NEW o \in OpType, o.data \in Data,
         \A s \in ToSet(SectorsOf(o.place)) : f.sector[s] = Written(o)
  PROVE  /\ Stored(f, o.place) \in {Nil, o.data}
         /\ o.sum => Stored(f, o.place) = o.data
<1>1. o.place \in Places  BY DEF OpType
<1>2. Written(o).data = o.data /\ Written(o).sum = o.sum  BY DEF Written
<1>3. CASE o.place = Settings
  <2>1. ToSet(SectorsOf(o.place)) = {1, 2}  BY <1>1, <1>3, SectorsAre
  <2>2. f.sector[1] = Written(o) /\ f.sector[2] = Written(o)  BY <2>1
  <2>3. QED  BY <1>1, <1>2, <1>3, <2>2, StoredIs
<1>4. CASE o.place # Settings
  <2>1. ToSet(SectorsOf(o.place)) = {o.place}  BY <1>1, <1>4, SectorsAre
  <2>2. f.sector[o.place] = Written(o)  BY <2>1
  <2>3. QED  BY <1>1, <1>2, <1>4, <2>2, StoredIs
<1>5. QED  BY <1>3, <1>4

LEMMA WhatIsAccepted ==
  ASSUME NEW f \in FileType, NEW p \in Places, Accepted(f, p)
  PROVE  Content(f, p) = f.sector[p].data
<1>1. CASE p = Settings
  <2>1. Last(SectorsOf(p)) = 2  BY <1>1, SectorsAre
  <2>2. f.icon /\ f.sector[2].sum /\ f.sector[p].data = f.sector[2].data
    BY <2>1 DEF Accepted, Agree
  <2>3. p = 1  BY <1>1 DEF Settings
  <2>4. QED  BY <1>1, <2>2, <2>3, StoredIs DEF Content
<1>2. CASE p # Settings
  <2>1. Last(SectorsOf(p)) = p  BY <1>2, SectorsAre
  <2>2. f.icon /\ f.sector[p].sum  BY <2>1 DEF Accepted
  <2>3. QED  BY <1>2, <2>2, StoredIs DEF Content
<1>3. QED  BY <1>1, <1>2

----------------------------------------------------------------------------
(* Steps that keep the promise                                             *)

(* The calls of a load, by how many are left                               *)
LEMMA LoadSteps ==
  ASSUME Typed, JobKept, CallsKept, At("calls"), run.calls # <<>>, call # "release",
         op.kind = "load"
  PROVE  /\ Left \in 1 .. 5
         /\ call = "mount" <=> Left = 5
         /\ call = "open" <=> Left = 4
         /\ call = "read" <=> Left = 3
         /\ call = "check" <=> Left = 2
         /\ call = "unmount" <=> Left = 1
<1> DEFINE s == <<Call("mount"), Call("open"), Call("read"), Call("check"), Call("unmount")>>
<1>1. op \in OpType
  <2>1. Working  BY DEF Working
  <2>2. QED  BY <2>1, OpFacts
<1>2. CallsOf(op) \in Seq(CallType)  BY <1>1, CallsOfTyped
<1>3. /\ run.calls \in Seq(CallType) /\ call = run.calls[1].call
      /\ EndOf(run.calls, CallsOf(op))
  BY CallFacts
<1>4. s = CallsOf(op)  BY <1>1, OtherCalls
<1>5. /\ Len(s) = 5
      /\ s[1].call = "mount" /\ s[2].call = "open" /\ s[3].call = "read"
      /\ s[4].call = "check" /\ s[5].call = "unmount"
  BY DEF Call
<1> HIDE DEF s
<1>6. /\ Len(run.calls) \in 1 .. Len(s) /\ Len(s) - Len(run.calls) + 1 \in 1 .. Len(s)
      /\ run.calls[1] = s[Len(s) - Len(run.calls) + 1]
  BY <1>2, <1>3, <1>4, EndHead
<1>7. PICK k : k = Left  OBVIOUS
<1>8. k \in 1 .. 5 /\ run.calls[1] = s[5 - k + 1]  BY <1>5, <1>6, <1>7 DEF Left
<1>9. k = 1 \/ k = 2 \/ k = 3 \/ k = 4 \/ k = 5  BY <1>8
<1>10. QED  BY <1>3, <1>5, <1>7, <1>8, <1>9

(* The calls of an operation have only begun.                              *)
LEMMA Unwritten ==
  ASSUME op' \in OpType, run'.calls = CallsOf(op)', run'.at # "ended"
  PROVE  WrittenKept' /\ DoneKept' /\ ReadKept'
<1>1. PICK o \in OpType : o = op'  OBVIOUS
<1>2. run'.calls = CallsOf(o)  BY <1>1 DEF CallsOf
<1>3. CASE o.kind = "save"
  <2>1. Len(CallsOf(o)) = IF o.place = Settings THEN 9 ELSE 7  BY <1>3, SaveCalls
  <2>2. PICK n : n = Len(run'.calls)  OBVIOUS
  <2>3. ~(n <= 2) /\ ~(n <= 1) /\ (o.place = Settings => ~(n <= 4))
    <3>1. n = IF o.place = Settings THEN 9 ELSE 7  BY <1>2, <2>1, <2>2
    <3>2. QED  BY <3>1
  <2>4. Len(<<>>) = 0  OBVIOUS
  <2>5. run'.calls # <<>>  BY <2>2, <2>3, <2>4
  <2>6. WrittenKept'  BY <1>1, <2>2, <2>3 DEF WrittenKept
  <2>7. DoneKept' /\ ReadKept'  BY <1>1, <1>3, <2>5 DEF DoneKept, ReadKept
  <2>8. QED  BY <2>6, <2>7
<1>4. CASE o.kind # "save"
  <2>1. WrittenKept' /\ DoneKept'  BY <1>1, <1>4 DEF WrittenKept, DoneKept, Saves
  <2>2. ReadKept'
    <3>1. CASE o.kind = "load"
      <4>1. CallsOf(o) = <<Call("mount"), Call("open"), Call("read"), Call("check"), Call("unmount")>>
        BY <3>1, OtherCalls
      <4>2. Len(CallsOf(o)) = 5  BY <4>1
      <4>3. ~(Len(run'.calls) <= 1)  BY <1>2, <4>2
      <4>4. QED  BY <4>3 DEF ReadKept
    <3>2. CASE o.kind # "load"  BY <1>1, <3>2 DEF ReadKept
    <3>3. QED  BY <3>1, <3>2
  <2>3. QED  BY <2>1, <2>2
<1>5. QED  BY <1>3, <1>4

Fields == {"at", "ops", "all", "tries", "calls", "result", "got"}

LEMMA RunFields ==
  ASSUME Typed
  PROVE  /\ Fields \subseteq DOMAIN run
         /\ \A t : Fields \subseteq DOMAIN [run EXCEPT !.then = t]
         /\ \A o : Fields \subseteq DOMAIN [run EXCEPT !.outer = o]
<1>1. run \in RunType  BY DEF Typed
<1>2. Fields \subseteq DOMAIN run  BY <1>1 DEF RunType, Fields
<1>3. ASSUME NEW x PROVE DOMAIN [run EXCEPT !.then = x] = DOMAIN run  OBVIOUS
<1>4. ASSUME NEW x PROVE DOMAIN [run EXCEPT !.outer = x] = DOMAIN run  OBVIOUS
<1>5. QED  BY <1>2, <1>3, <1>4

(* A function begins.                                                      *)
LEMMA Beginning ==
  ASSUME IndInv', NEW r, Fields \subseteq DOMAIN r, NEW a, run' = Begun(r, a)
  PROVE  PromiseKept'
<1>1. /\ run'.at \in {"calls", "confirm"} /\ run'.all = a /\ run'.ops = a /\ run'.got = Nil
      /\ run'.calls = CallsOf(Head(a))
  <2> DEFINE w == IF Head(a).kind = "format" THEN "confirm" ELSE "calls"
             cs == CallsOf(Head(a))
  <2>1. run' = [r EXCEPT !.at = w, !.ops = a, !.all = a, !.tries = 1, !.calls = cs,
                         !.result = "ok", !.got = Nil]
    BY DEF Begun
  <2>2. w \in {"calls", "confirm"}  OBVIOUS
  <2> HIDE DEF w, cs
  <2>3. /\ run'.at = w /\ run'.all = a /\ run'.ops = a /\ run'.got = Nil /\ run'.calls = cs
    BY <2>1 DEF Fields
  <2>4. QED  BY <2>2, <2>3 DEF cs
<1>11. a \in Jobs
  <2>1. JobKept'  BY DEF IndInv
  <2>2. QED  BY <1>1, <2>1 DEF JobKept, Working
<1>12. /\ a \in Seq(OpType) /\ a # <<>> /\ Len(a) \in Nat \ {0} /\ a[1] \in OpType
       /\ Head(a) = a[1]
  BY <1>11, JobFacts
<1>3. op' = a[1]  BY <1>1, <1>12 DEF op
<1>4. op' \in OpType /\ run'.calls = CallsOf(op)' /\ run'.at # "ended"
  BY <1>1, <1>12, <1>3 DEF CallsOf
<1>5. WrittenKept' /\ DoneKept' /\ ReadKept'  BY <1>4, Unwritten
<1>6. Nth' = 1
  <2>1. Nth' = Len(a) - Len(a) + 1  BY <1>1 DEF Nth
  <2>2. QED  BY <1>12, <2>1
<1>7. EarlierKept'
  <2>1. \A i : i \notin 1 .. 1 - 1  OBVIOUS
  <2>2. QED  BY <1>6, <2>1 DEF EarlierKept
<1>8. GotKept'  BY <1>1 DEF GotKept
<1>9. QED  BY <1>5, <1>7, <1>8 DEF PromiseKept

(* What was promised of the earlier operations and of what was read, while *)
(* no card changes                                                         *)
LEMMA Standing ==
  ASSUME IndInv, PromiseKept, Working, card' = card,
         run'.all = run.all, run'.ops = run.ops, run'.got = run.got, run'.from = run.from
  PROVE  /\ EarlierKept' /\ GotKept' /\ op' = op
         /\ \A o : Done(o)' <=> Done(o)
<1>1. EarlierKept /\ GotKept  BY DEF PromiseKept
<1>2. op' = op /\ Nth' = Nth  BY DEF op, Nth
<1>3. \A o : Done(o)' <=> Done(o)  BY DEF Done, Content, Stored
<1>4. EarlierKept'
  <2>1. ASSUME NEW i \in 1 .. Nth - 1, run.all[i].sum
        PROVE  \E c \in Cards : Content(card'[c], run.all[i].place) = run.all[i].data
    BY <1>1, <2>1 DEF EarlierKept, Done
  <2>2. ASSUME NEW i \in 1 .. Nth' - 1, run'.all[i].sum
        PROVE  \E c \in Cards : Content(card'[c], run'.all[i].place) = run'.all[i].data
    BY <1>2, <2>1, <2>2
  <2>3. QED  BY <2>2 DEF EarlierKept, Done, Content, Stored
<1>5. GotKept'  BY <1>1, <1>2 DEF GotKept, Content, Stored
<1>6. QED  BY <1>2, <1>3, <1>4, <1>5

(* Deleting and formatting promise nothing.                                *)
LEMMA Indifferent ==
  ASSUME IndInv, IndInv', Working, op.kind \notin {"save", "load"},
         run'.all = run.all, run'.ops = run.ops
  PROVE  PromiseKept'
<1>1. Typed /\ JobKept  BY DEF IndInv
<1>2. run.all \notin NewFiles /\ run.all \notin Loads  BY <1>1, OpOfJob
<1>3. Nth = 1  BY <1>1, <1>2, OpOfJob
<1>4. op' = op /\ Nth' = 1  BY <1>3 DEF op, Nth
<1>5. run'.got = Nil  BY <1>2 DEF IndInv, LoadKept
<1>6. WrittenKept' /\ DoneKept' /\ ReadKept'
  BY <1>4 DEF WrittenKept, DoneKept, ReadKept, Saves
<1>7. EarlierKept'  BY <1>4 DEF EarlierKept
<1>8. GotKept'  BY <1>5 DEF GotKept
<1>9. QED  BY <1>6, <1>7, <1>8 DEF PromiseKept

(* A call was made that writes nothing, or one failed.                     *)
LEMMA Onward ==
  ASSUME IndInv, PromiseKept, At("calls"), run.calls # <<>>, card' = card,
         run'.at = "calls", run'.all = run.all, run'.ops = run.ops,
         run'.got = run.got, run'.from = run.from,
         \/ run'.result # "ok"
         \/ /\ call \in {"notice", "open", "mount", "check"}
            /\ run'.calls = Tail(run.calls)
            /\ call = "check" => run.got # Nil
         \/ op.kind = "save" /\ ~attached' /\ run'.calls # <<>>
  PROVE  PromiseKept'
<1>1. Working  BY DEF Working
<1>2. Typed /\ JobKept /\ CallsKept  BY <1>1 DEF IndInv
<1>3. EarlierKept' /\ GotKept' /\ op' = op  BY <1>1, Standing
<1>4. CASE run'.result # "ok"
  <2>1. WrittenKept' /\ DoneKept' /\ ReadKept'  BY <1>4 DEF WrittenKept, DoneKept, ReadKept
  <2>2. QED  BY <1>3, <2>1 DEF PromiseKept
<1>5. CASE op.kind = "save" /\ ~attached' /\ run'.calls # <<>>
  <2>1. WrittenKept' /\ DoneKept' /\ ReadKept'
    BY <1>3, <1>5 DEF WrittenKept, DoneKept, ReadKept
  <2>2. QED  BY <1>3, <2>1 DEF PromiseKept
<1>6. CASE /\ call \in {"notice", "open", "mount", "check"}
           /\ run'.calls = Tail(run.calls)
           /\ call = "check" => run.got # Nil
  <2>1. call # "release" /\ call \in {"notice", "open", "mount", "check"}  BY <1>6
  <2>2. Len(Tail(run.calls)) = Len(run.calls) - 1  BY <1>2, <2>1, CallFacts
  <2>3. PICK k : k = Left  OBVIOUS
  <2>4. PICK n : n = Len(run'.calls)  OBVIOUS
  <2>5. CASE op.kind = "save"
    <3>1. (op.place = Settings => k \in {7, 8, 9}) /\ (op.place # Settings => k \in {5, 6, 7})
      BY <1>2, <2>1, <2>3, <2>5, SaveSteps
    <3>2. n = k - 1  BY <1>6, <2>2, <2>3, <2>4 DEF Left
    <3>3. ~(n <= 2) /\ ~(n <= 1) /\ (op.place = Settings => ~(n <= 4)) /\ n # 0
      BY <3>1, <3>2
    <3>4. WrittenKept'  BY <1>3, <2>4, <3>3 DEF WrittenKept
    <3>5. run'.calls # <<>>  BY <2>4, <3>3
    <3>6. DoneKept' /\ ReadKept'  BY <1>3, <2>5, <3>5 DEF DoneKept, ReadKept
    <3>7. QED  BY <1>3, <3>4, <3>6 DEF PromiseKept
  <2>6. CASE op.kind = "load"
    <3>1. k \in 1 .. 5 /\ (call = "check" <=> k = 2) /\ (call = "read" <=> k = 3)
          /\ (call = "unmount" <=> k = 1)
      BY <1>2, <2>1, <2>3, <2>6, LoadSteps
    <3>2. n = k - 1  BY <1>6, <2>2, <2>3, <2>4 DEF Left
    <3>3. n <= 1 => call = "check"  BY <2>1, <3>1, <3>2
    <3>4. ReadKept'  BY <1>6, <2>4, <3>3 DEF ReadKept
    <3>5. WrittenKept' /\ DoneKept'  BY <1>3, <2>6 DEF WrittenKept, DoneKept, Saves
    <3>6. QED  BY <1>3, <3>4, <3>5 DEF PromiseKept
  <2>7. CASE op.kind \notin {"save", "load"}
    <3>1. run.all \notin NewFiles /\ run.all \notin Loads  BY <1>1, <1>2, <2>7, OpOfJob
    <3>2. WrittenKept' /\ DoneKept' /\ ReadKept'
      BY <1>3, <2>7 DEF WrittenKept, DoneKept, ReadKept, Saves
    <3>3. QED  BY <1>3, <3>2 DEF PromiseKept
  <2>8. QED  BY <2>5, <2>6, <2>7
<1>7. QED  BY <1>4, <1>5, <1>6

----------------------------------------------------------------------------
(* Steps that change a card                                                *)

LEMMA EarlierApart ==
  ASSUME IndInv, Working, NEW i \in 1 .. Nth - 1, run.all[i].sum
  PROVE  run.all[i].place \in Places \ {op.place} /\ run.all[i].data \in Data
<1>1. Typed /\ JobKept  BY DEF IndInv
<1>2. Nth \in 1 .. Len(run.all) /\ op \in OpType  BY <1>1, OpFacts
<1>3. run.all \in NewFiles
  <2>1. run.all \notin NewFiles => Nth = 1  BY <1>1, OpOfJob
  <2>2. \A j : j \notin 1 .. 1 - 1  OBVIOUS
  <2>3. QED  BY <2>1, <2>2
<1>4. /\ run.all \in Seq(OpType) /\ Len(run.all) = Regions + 2
      /\ ~run.all[1].sum
      /\ \A j \in 1 .. Regions + 2 : run.all[j].data \in Data
      /\ \A j \in 2 .. Regions + 1 : run.all[j].place = j + 1
  BY <1>3, CreationFacts
<1>5. PICK n : n = Nth  OBVIOUS
<1>6. n \in 1 .. Regions + 2 /\ i \in 1 .. n - 1 /\ i # 1  BY <1>2, <1>4, <1>5
<1>7. i \in 2 .. Regions + 1 /\ i \in 1 .. Regions + 2 /\ i < n  BY <1>6
<1>8. run.all[i].place = i + 1 /\ run.all[i].data \in Data  BY <1>4, <1>7
<1>9. i + 1 \in Places  BY <1>7 DEF Places
<1>10. op.place # i + 1
  <2>1. n \in 2 .. Regions + 1 => op.place = n + 1  BY <1>1, <1>3, <1>5, OpOfJob
  <2>2. n = Regions + 2 => op.place = 1  BY <1>1, <1>3, <1>5, OpOfJob DEF Settings
  <2>3. n \in 2 .. Regions + 1 \/ n = Regions + 2  BY <1>6, <1>7
  <2>4. QED  BY <1>7, <2>1, <2>2, <2>3
<1>11. QED  BY <1>8, <1>9, <1>10

(* What can be read elsewhere than where a save is writing stays.          *)
LEMMA EarlierStand ==
  ASSUME IndInv, PromiseKept, Working, run'.all = run.all, run'.ops = run.ops,
         \A c \in Cards, p \in Places \ {op.place} :
           Content(card[c], p) # Nil => Content(card'[c], p) = Content(card[c], p)
  PROVE  EarlierKept'
<1>1. Nth' = Nth  BY DEF Nth
<1>2. ASSUME NEW i \in 1 .. Nth - 1, run.all[i].sum
      PROVE  \E c \in Cards : Content(card'[c], run.all[i].place) = run.all[i].data
  <2>1. run.all[i].place \in Places \ {op.place} /\ run.all[i].data \in Data
    BY <1>2, EarlierApart
  <2>2. Done(run.all[i])  BY <1>2 DEF PromiseKept, EarlierKept
  <2>3. PICK c \in Cards : Content(card[c], run.all[i].place) = run.all[i].data
    BY <2>2 DEF Done
  <2>4. Content(card[c], run.all[i].place) # Nil  BY <2>1, <2>3, NilApart
  <2>5. QED  BY <2>1, <2>3, <2>4
<1>3. ASSUME NEW i \in 1 .. Nth' - 1, run'.all[i].sum
      PROVE  \E c \in Cards : Content(card'[c], run'.all[i].place) = run'.all[i].data
  BY <1>1, <1>2, <1>3
<1>4. QED  BY <1>3 DEF EarlierKept, Done, Content, Stored

(* A sector of a place was erased or written.                              *)
LEMMA SectorWritten ==
  ASSUME IndInv, run.at = "calls", run.calls # <<>>, attached, call \in {"erase", "program"},
         NEW x \in {Torn, Written(op)},
         Changes([card[slot] EXCEPT !.sector[sector] = x])
  PROVE  /\ op \in OpType /\ op.kind = "save" /\ op.data \in Data /\ slot \in Cards
         /\ card \in [Cards -> FileType] /\ card' \in [Cards -> FileType]
         /\ \A c \in Cards \ {slot} : card'[c] = card[c]
         /\ card'[slot].icon = card[slot].icon /\ card'[slot].sector[sector] = x
         /\ \A i \in Sectors \ {sector} : card'[slot].sector[i] = card[slot].sector[i]
         /\ \A p \in Places \ {op.place} : Stored(card'[slot], p) = Stored(card[slot], p)
         /\ Stored(card'[slot], op.place) \in {Nil, op.data}
         /\ UNCHANGED <<slot, attached, answer>>
<1>1. /\ Working /\ Typed /\ JobKept /\ op.kind = "save" /\ slot \in Cards
      /\ card[slot] \in FileType
  BY Writing
<1>2. op \in OpType /\ op.data \in Data  BY <1>1, OpFacts, OpOfJob
<1>3. sector \in Sectors /\ (sector = op.place \/ (op.place = Settings /\ sector = 2))
  BY SectorTyped
<1>4. PICK g \in FileType, o \in OpType, s \in Sectors : g = card[slot] /\ o = op /\ s = sector
  BY <1>1, <1>2, <1>3
<1>5. PICK f : f = Put(g, s, x)  OBVIOUS
<1>6. o.data \in Data /\ (s = o.place \/ (o.place = Settings /\ s = 2)) /\ x \in {Torn, Written(o)}
  BY <1>2, <1>3, <1>4
<1>7. /\ f \in FileType /\ f.icon = g.icon /\ f.sector[s] = x
      /\ \A i \in Sectors \ {s} : f.sector[i] = g.sector[i]
      /\ \A p \in Places \ {o.place} : Stored(f, p) = Stored(g, p)
      /\ Stored(f, o.place) \in {Nil, o.data}
  BY <1>5, <1>6, PlaceWritten
<1>8. Changes(f)  BY <1>4, <1>5 DEF Put
<1>9. /\ card' \in [Cards -> FileType] /\ card'[slot] = f
      /\ \A c \in Cards \ {slot} : card'[c] = card[c]
  BY <1>1, <1>7, <1>8, ChangesFacts
<1>10. UNCHANGED <<slot, attached, answer>>  BY <1>8 DEF Changes
<1>11. card \in [Cards -> FileType]  BY <1>1 DEF Typed
<1>12. QED  BY <1>1, <1>2, <1>4, <1>7, <1>9, <1>10, <1>11

(* How far a save is that writes a sector                                  *)
LEMMA SectorOnward ==
  ASSUME IndInv, PromiseKept, run.at = "calls", run.calls # <<>>, attached,
         call \in {"erase", "program"}, run' = Passed,
         NEW x \in {Torn, Written(op)}, call = "program" => x = Written(op),
         Changes([card[slot] EXCEPT !.sector[sector] = x])
  PROVE  PromiseKept'
<1>1. /\ Working /\ Typed /\ JobKept /\ CallsKept /\ run.result = "ok" /\ Saves
      /\ run.all \notin Loads /\ Len(Tail(run.calls)) = Left - 1
  BY Writing
<1>2. /\ op \in OpType /\ op.kind = "save" /\ slot \in Cards
      /\ \A c \in Cards \ {slot} : card'[c] = card[c]
      /\ card'[slot].icon = card[slot].icon /\ card'[slot].sector[sector] = x
      /\ \A i \in Sectors \ {sector} : card'[slot].sector[i] = card[slot].sector[i]
      /\ \A p \in Places \ {op.place} : Stored(card'[slot], p) = Stored(card[slot], p)
      /\ UNCHANGED <<slot, attached, answer>>
  BY SectorWritten
<1>3. /\ run'.at = run.at /\ run'.ops = run.ops /\ run'.all = run.all
      /\ run'.got = run.got /\ run'.calls = Tail(run.calls) /\ run'.result = run.result
  BY <1>1, PassedFacts
<1>4. op' = op  BY <1>3 DEF op
<1>5. EarlierKept'
  <2>1. ASSUME NEW c \in Cards, NEW p \in Places \ {op.place}
        PROVE  Content(card'[c], p) = Content(card[c], p)
    BY <1>2 DEF Content
  <2>2. QED  BY <1>1, <1>3, <2>1, EarlierStand
<1>6. GotKept'  BY <1>1, <1>3 DEF IndInv, LoadKept, GotKept
<1>7. PICK k : k = Left  OBVIOUS
<1>8. call # "release"  OBVIOUS
<1>9. /\ op.place = Settings =>
           \/ k = 6 /\ call = "erase" /\ sector = op.place
           \/ k = 5 /\ call = "program" /\ sector = op.place
           \/ k = 4 /\ call = "erase" /\ sector = 2
           \/ k = 3 /\ call = "program" /\ sector = 2
      /\ op.place # Settings =>
           \/ k = 4 /\ call = "erase" /\ sector = op.place
           \/ k = 3 /\ call = "program" /\ sector = op.place
  BY <1>1, <1>2, <1>7, <1>8, SaveSteps
<1>10. PICK n : n = Len(run'.calls)  OBVIOUS
<1>11. n = k - 1  BY <1>1, <1>3, <1>7, <1>10
<1>12. ~(n <= 1) /\ n # 0  BY <1>9, <1>11
<1>13. run'.calls # <<>>  BY <1>10, <1>12
<1>14. DoneKept' /\ ReadKept'  BY <1>2, <1>3, <1>4, <1>13 DEF DoneKept, ReadKept
<1>15. op.place = Settings /\ n <= 4 => card'[slot].sector[1] = Written(op)
  <2>1. SUFFICES ASSUME op.place = Settings, n <= 4 PROVE card'[slot].sector[1] = Written(op)
    OBVIOUS
  <2>2. CASE k = 5  BY <1>2, <1>9, <2>1, <2>2 DEF Settings
  <2>3. CASE k = 3 \/ k = 4
    <3>1. sector = 2  BY <1>9, <2>1, <2>3
    <3>2. k <= 4 /\ 1 \in Sectors  BY <2>3, CallsTyped
    <3>3. card[slot].sector[1] = Written(op)
      BY <1>1, <1>7, <2>1, <3>2 DEF PromiseKept, WrittenKept, Left
    <3>4. QED  BY <1>2, <3>1, <3>2, <3>3
  <2>4. QED  BY <1>9, <1>11, <2>1, <2>2, <2>3
<1>16. ASSUME n <= 2, NEW s \in ToSet(SectorsOf(op.place))
       PROVE  card'[slot].sector[s] = Written(op)
  <2>1. k = 3 /\ call = "program"  BY <1>9, <1>11, <1>16
  <2>2. card'[slot].sector[sector] = Written(op)  BY <1>2, <2>1
  <2>3. op.place \in Places  BY <1>2 DEF OpType
  <2>4. CASE op.place = Settings
    <3>1. sector = 2 /\ s \in {1, 2}  BY <1>9, <1>16, <2>1, <2>3, <2>4, SectorsAre
    <3>2. n <= 4  BY <1>11, <2>1
    <3>3. QED  BY <1>15, <2>2, <2>4, <3>1, <3>2
  <2>5. CASE op.place # Settings
    <3>1. sector = op.place /\ s = op.place  BY <1>9, <1>16, <2>1, <2>3, <2>5, SectorsAre
    <3>2. QED  BY <2>2, <3>1
  <2>6. QED  BY <2>4, <2>5
<1>17. WrittenKept'
  <2>1. PICK o \in OpType : o = op' /\ o = op  BY <1>2, <1>4
  <2>2. Written(o)' = Written(op)  BY <2>1 DEF Written
  <2>3. o.place = Settings /\ n <= 4 => card'[slot'].sector[1] = Written(o)'
    BY <1>2, <1>15, <2>1, <2>2
  <2>4. n <= 2 => \A s \in ToSet(SectorsOf(o.place)) : card'[slot'].sector[s] = Written(o)'
    BY <1>2, <1>16, <2>1, <2>2
  <2>5. QED  BY <1>10, <1>12, <2>1, <2>3, <2>4 DEF WrittenKept, Written
<1>18. QED  BY <1>5, <1>6, <1>14, <1>17 DEF PromiseKept

LEMMA ErasePromises ==
  ASSUME IndInv, PromiseKept, Erase
  PROVE  PromiseKept'
<1>1. /\ run.at = "calls" /\ run.calls # <<>> /\ call = "erase" /\ attached
      /\ Changes([card[slot] EXCEPT !.sector[sector] = Torn]) /\ run' = Passed
  BY DEF Erase, Works, Calling
<1>2. PICK x \in {Torn, Written(op)} : x = Torn  OBVIOUS
<1>3. Changes([card[slot] EXCEPT !.sector[sector] = x])  BY <1>1, <1>2
<1>4. QED  BY <1>1, <1>3, SectorOnward

LEMMA ProgramPromises ==
  ASSUME IndInv, PromiseKept, Program
  PROVE  PromiseKept'
<1>1. /\ run.at = "calls" /\ run.calls # <<>> /\ call = "program" /\ attached
      /\ Changes([card[slot] EXCEPT !.sector[sector] = Written(op)]) /\ run' = Passed
  BY DEF Program, Works, Calling, Written
<1>2. PICK x \in {Torn, Written(op)} : x = Written(op)  OBVIOUS
<1>3. Changes([card[slot] EXCEPT !.sector[sector] = x])  BY <1>1, <1>2
<1>4. QED  BY <1>1, <1>2, <1>3, SectorOnward

(* gc_set_status gives the file its icon.                                  *)
LEMMA StatusSets ==
  ASSUME IndInv, Status
  PROVE  /\ run.at = "calls" /\ run.calls # <<>> /\ attached /\ call = "status"
         /\ op \in OpType /\ op.kind = "save" /\ op.data \in Data /\ slot \in Cards
         /\ card \in [Cards -> FileType] /\ card' \in [Cards -> FileType]
         /\ \A c \in Cards \ {slot} : card'[c] = card[c]
         /\ card'[slot].icon /\ card'[slot].sector = card[slot].sector
         /\ Left = 2
         /\ run' = Passed /\ UNCHANGED <<slot, attached, answer>>
<1>1. /\ run.at = "calls" /\ run.calls # <<>> /\ call = "status" /\ attached
      /\ Changes([card[slot] EXCEPT !.icon = TRUE]) /\ run' = Passed
  BY DEF Status, Works, Calling
<1>2. /\ Working /\ Typed /\ JobKept /\ CallsKept /\ op.kind = "save" /\ slot \in Cards
      /\ card[slot] \in FileType
  BY <1>1, Writing
<1>3. op \in OpType /\ op.data \in Data  BY <1>2, OpFacts, OpOfJob
<1>4. PICK f : f = [card[slot] EXCEPT !.icon = TRUE]  OBVIOUS
<1>5. f \in FileType /\ f.sector = card[slot].sector /\ f.icon  BY <1>2, <1>4 DEF FileType
<1>6. Changes(f)  BY <1>1, <1>4
<1>7. /\ card' \in [Cards -> FileType] /\ card'[slot] = f
      /\ \A c \in Cards \ {slot} : card'[c] = card[c]
  BY <1>2, <1>5, <1>6, ChangesFacts
<1>8. UNCHANGED <<slot, attached, answer>>  BY <1>6 DEF Changes
<1>9. card \in [Cards -> FileType]  BY <1>2 DEF Typed
<1>10. Left = 2
  <2>1. call # "release"  BY <1>1
  <2>2. QED  BY <1>1, <1>2, <2>1, SaveSteps
<1>11. QED  BY <1>1, <1>2, <1>3, <1>5, <1>7, <1>8, <1>9, <1>10

LEMMA StatusPromises ==
  ASSUME IndInv, PromiseKept, Status
  PROVE  PromiseKept'
<1>1. /\ run.at = "calls" /\ run.calls # <<>> /\ attached /\ call = "status"
      /\ op \in OpType /\ op.kind = "save" /\ slot \in Cards
      /\ card \in [Cards -> FileType] /\ card' \in [Cards -> FileType]
      /\ \A c \in Cards \ {slot} : card'[c] = card[c]
      /\ card'[slot].icon /\ card'[slot].sector = card[slot].sector
      /\ Left = 2
      /\ run' = Passed /\ UNCHANGED <<slot, attached, answer>>
  BY StatusSets
<1>2. /\ Working /\ Typed /\ JobKept /\ CallsKept /\ run.result = "ok" /\ Saves
      /\ run.all \notin Loads /\ Len(Tail(run.calls)) = Left - 1
  BY <1>1, Writing
<1>3. /\ run'.at = run.at /\ run'.ops = run.ops /\ run'.all = run.all
      /\ run'.got = run.got /\ run'.calls = Tail(run.calls) /\ run'.result = run.result
  BY <1>1, <1>2, PassedFacts
<1>4. op' = op  BY <1>3 DEF op
<1>5. EarlierKept'
  <2>1. ASSUME NEW c \in Cards, NEW p \in Places \ {op.place}, Content(card[c], p) # Nil
        PROVE  Content(card'[c], p) = Content(card[c], p)
    <3>1. CASE c # slot  BY <1>1, <3>1
    <3>2. CASE c = slot
      <4>1. Stored(card'[slot], p) = Stored(card[slot], p)  BY <1>1 DEF Stored
      <4>2. card[slot].icon  BY <2>1, <3>2 DEF Content
      <4>3. QED  BY <1>1, <3>2, <4>1, <4>2 DEF Content
    <3>3. QED  BY <3>1, <3>2
  <2>2. QED  BY <1>2, <1>3, <2>1, EarlierStand
<1>6. GotKept'  BY <1>2, <1>3 DEF IndInv, LoadKept, GotKept
<1>7. Len(run'.calls) = 1  BY <1>1, <1>2, <1>3
<1>8. run'.calls # <<>>  BY <1>7
<1>9. DoneKept' /\ ReadKept'  BY <1>1, <1>3, <1>4, <1>8 DEF DoneKept, ReadKept
<1>10. /\ op.place = Settings => card[slot].sector[1] = Written(op)
       /\ \A s \in ToSet(SectorsOf(op.place)) : card[slot].sector[s] = Written(op)
  <2>1. Left <= 4 /\ Left <= 2  BY <1>1
  <2>2. WrittenKept  BY <1>2 DEF PromiseKept
  <2>3. QED  BY <1>1, <1>2, <2>1, <2>2 DEF WrittenKept, Left
<1>11. WrittenKept'  BY <1>1, <1>4, <1>10 DEF WrittenKept
<1>12. QED  BY <1>5, <1>6, <1>9, <1>11 DEF PromiseKept

LEMMA CreatePromises ==
  ASSUME IndInv, PromiseKept, IndInv', Create
  PROVE  PromiseKept'
<1>1. /\ run.at = "calls" /\ run.calls # <<>> /\ call = "create" /\ attached
      /\ run' = Passed \/ run' = Fails("damaged", Release)
  BY DEF Create, Works, Calling
<1>2. /\ Working /\ Typed /\ JobKept /\ CallsKept /\ op.kind = "save" /\ Saves
      /\ run.all \notin Loads /\ Len(Tail(run.calls)) = Left - 1
  BY <1>1, Writing
<1>3. /\ run'.at = run.at /\ run'.ops = run.ops /\ run'.all = run.all /\ run'.got = run.got
      /\ run'.calls = Tail(run.calls) \/ run'.result # "ok"
  <2>1. "damaged" \in Statuses /\ Release \in {<<>>, Release}  BY DEF Statuses
  <2>2. CASE run' = Passed  BY <1>1, <1>2, <2>2, PassedFacts
  <2>3. CASE run' = Fails("damaged", Release)
    <3>1. /\ run'.at = run.at /\ run'.ops = run.ops /\ run'.all = run.all /\ run'.got = run.got
          /\ run'.result = "damaged"
      BY <1>2, <2>1, <2>3, FailsFacts
    <3>2. QED  BY <3>1
  <2>4. QED  BY <1>1, <2>2, <2>3
<1>4. op' = op  BY <1>3 DEF op
<1>5. op.make /\ Nth = 1 /\ op.place = Settings
  <2>1. call # "release"  BY <1>1
  <2>2. op.make  BY <1>1, <1>2, <2>1, SaveFacts
  <2>3. QED  BY <1>2, <2>2, OpOfJob
<1>6. EarlierKept'
  <2>1. Nth' = 1  BY <1>3, <1>5 DEF Nth
  <2>2. \A i : i \notin 1 .. 1 - 1  OBVIOUS
  <2>3. QED  BY <2>1, <2>2 DEF EarlierKept
<1>7. GotKept'  BY <1>2, <1>3 DEF IndInv, LoadKept, GotKept
<1>8. CASE run'.result # "ok"
  <2>1. WrittenKept' /\ DoneKept' /\ ReadKept'  BY <1>8 DEF WrittenKept, DoneKept, ReadKept
  <2>2. QED  BY <1>6, <1>7, <2>1 DEF PromiseKept
<1>9. CASE run'.calls = Tail(run.calls)
  <2>1. Left = 7
    <3>1. call # "release"  BY <1>1
    <3>2. QED  BY <1>1, <1>2, <1>5, <3>1, SaveSteps
  <2>2. PICK n : n = Len(run'.calls)  OBVIOUS
  <2>3. n = 6  BY <1>2, <1>9, <2>1, <2>2
  <2>4. ~(n <= 4) /\ ~(n <= 2) /\ ~(n <= 1)  BY <2>3
  <2>5. WrittenKept'  BY <2>2, <2>4 DEF WrittenKept
  <2>6. run'.calls # <<>>
    <3>1. Len(<<>>) = 0  OBVIOUS
    <3>2. Len(run'.calls) # 0  BY <2>2, <2>3
    <3>3. QED  BY <3>1, <3>2, Zenon
  <2>7. DoneKept' /\ ReadKept'  BY <1>1, <1>2, <1>3, <1>4, <2>6 DEF DoneKept, ReadKept
  <2>8. QED  BY <1>6, <1>7, <2>5, <2>7 DEF PromiseKept
<1>10. QED  BY <1>3, <1>8, <1>9

LEMMA EmptiedPromises ==
  ASSUME IndInv, PromiseKept, IndInv', Delete \/ Format
  PROVE  PromiseKept'
<1>1. /\ run.at = "calls" /\ run.calls # <<>> /\ attached /\ call \in {"delete", "format"}
      /\ Changes(NoFile) /\ (run' = Passed \/ run' = Fails("failed", Release))
  BY DEF Delete, Format, Works, Calling
<1>2. Working /\ Typed /\ op.kind = call  BY <1>1, Emptied
<1>3. run'.ops = run.ops /\ run'.all = run.all
  <2>1. "failed" \in Statuses /\ Release \in {<<>>, Release}  BY DEF Statuses
  <2>2. CASE run' = Passed  BY <1>1, <1>2, <2>2, PassedFacts
  <2>3. CASE run' = Fails("failed", Release)  BY <1>2, <2>1, <2>3, FailsFacts
  <2>4. QED  BY <1>1, <2>2, <2>3
<1>4. QED  BY <1>1, <1>2, <1>3, Indifferent

----------------------------------------------------------------------------
(* The other calls                                                         *)

LEMMA MountPromises ==
  ASSUME IndInv, PromiseKept, IndInv', MountCard
  PROVE  PromiseKept'
<1>1. run.at = "calls" /\ run.calls # <<>> /\ call = "mount" /\ card' = card
  BY DEF MountCard, Calling
<1>2. Working /\ Typed /\ JobKept /\ CallsKept  BY <1>1 DEF IndInv, Working
<1>3. PICK fine \in BOOLEAN : Mount(fine)  BY DEF MountCard
<1>4. call # "release"  BY <1>1
<1>5. /\ run'.at = run.at /\ run'.ops = run.ops /\ run'.all = run.all
      /\ run'.got = run.got /\ run'.from = run.from
      /\ \/ run'.result = "ok" /\ run'.calls = Tail(run.calls)
         \/ run'.result # "ok" /\ run'.calls \in {<<>>, Release}
  BY <1>1, <1>2, <1>3, <1>4, MountFacts
<1>6. QED  BY <1>1, <1>5, Onward

LEMMA NoticePromises ==
  ASSUME IndInv, PromiseKept, IndInv', Notice
  PROVE  PromiseKept'
<1>1. run.at = "calls" /\ run.calls # <<>> /\ call = "notice" /\ card' = card /\ Working
  BY DEF Notice, Calling, Working
<1>2. Typed  BY DEF IndInv
<1>3. CASE run' = Passed
  <2>1. /\ run'.at = run.at /\ run'.ops = run.ops /\ run'.all = run.all
        /\ run'.got = run.got /\ run'.from = run.from /\ run'.calls = Tail(run.calls)
    BY <1>1, <1>2, <1>3, PassedFacts
  <2>2. QED  BY <1>1, <2>1, Onward
<1>4. CASE Exchanged /\ run' = [run EXCEPT !.at = "changed"]
  <2>1. op.kind = "format"  BY <1>4 DEF Exchanged
  <2>2. run'.all = run.all /\ run'.ops = run.ops  BY <1>2, <1>4 DEF Typed, RunType
  <2>3. QED  BY <1>1, <2>1, <2>2, Indifferent
<1>5. QED  BY <1>3, <1>4 DEF Notice

LEMMA OpenPromises ==
  ASSUME IndInv, PromiseKept, Open \/ Check
  PROVE  PromiseKept'
<1>1. /\ run.at = "calls" /\ run.calls # <<>> /\ call \in {"open", "check"} /\ card' = card
      /\ \/ run' = Passed /\ (call = "check" => run.got # Nil)
         \/ \E r \in {"no_file", "damaged"} : run' = Fails(r, Release)
  BY DEF Open, Check, Works, Calling, hardware
<1>2. Typed  BY DEF IndInv
<1>3. CASE run' = Passed /\ (call = "check" => run.got # Nil)
  <2>1. /\ run'.at = run.at /\ run'.ops = run.ops /\ run'.all = run.all
        /\ run'.got = run.got /\ run'.from = run.from /\ run'.calls = Tail(run.calls)
    BY <1>1, <1>2, <1>3, PassedFacts
  <2>2. QED  BY <1>1, <1>3, <2>1, Onward
<1>4. ASSUME NEW r \in {"no_file", "damaged"}, run' = Fails(r, Release)
      PROVE  PromiseKept'
  <2>1. r \in Statuses /\ r # "ok" /\ Release \in {<<>>, Release}  BY <1>4 DEF Statuses
  <2>2. /\ run'.at = run.at /\ run'.ops = run.ops /\ run'.all = run.all
        /\ run'.got = run.got /\ run'.from = run.from /\ run'.result = r
    BY <1>2, <1>4, <2>1, FailsFacts
  <2>3. QED  BY <1>1, <2>1, <2>2, Onward
<1>5. QED  BY <1>1, <1>3, <1>4

LEMMA CallFailsPromises ==
  ASSUME IndInv, PromiseKept, IndInv', CallFails
  PROVE  PromiseKept'
<1>1. /\ run.at = "calls" /\ run.calls # <<>> /\ call # "release" /\ Working
      /\ card' = card /\ attached' = attached
  BY DEF CallFails, hardware, Working
<1>2. Typed /\ JobKept /\ CallsKept  BY <1>1 DEF IndInv
<1>3. call = "create" => op.kind = "save"
  <2>1. op.kind \in {"save", "load", "delete", "format"}  BY <1>1, <1>2, OpOfJob
  <2>2. QED  BY <1>1, <1>2, <2>1, OtherSteps
<1>4. CASE call = "format" /\ run' = [run EXCEPT !.at = "format_failed"]
  <2>1. op.kind = "format"
    <3>1. op.kind \in {"save", "load", "delete", "format"}  BY <1>1, <1>2, OpOfJob
    <3>2. op.kind # "save"  BY <1>1, <1>2, <1>4, SaveFacts
    <3>3. QED  BY <1>1, <1>2, <1>4, <3>1, <3>2, OtherSteps
  <2>2. run'.all = run.all /\ run'.ops = run.ops  BY <1>2, <1>4 DEF Typed, RunType
  <2>3. QED  BY <1>1, <2>1, <2>2, Indifferent
<1>5. ASSUME NEW cleanup \in {<<>>, Release}, NEW result \in {"failed", "absent", "ok"},
             run' = Fails(result, cleanup),
             result = "ok" => call = "create" /\ ~attached /\ cleanup = Release
      PROVE  PromiseKept'
  <2>1. result \in Statuses  BY DEF Statuses
  <2>2. /\ run'.at = run.at /\ run'.ops = run.ops /\ run'.all = run.all
        /\ run'.got = run.got /\ run'.from = run.from
        /\ run'.calls = cleanup /\ run'.result = result
    BY <1>2, <1>5, <2>1, FailsFacts
  <2>3. Release # <<>>  BY DEF Release
  <2>4. run'.result # "ok" \/ (op.kind = "save" /\ ~attached' /\ run'.calls # <<>>)
    BY <1>1, <1>3, <1>5, <2>2, <2>3
  <2>5. QED  BY <1>1, <2>2, <2>4, Onward
<1>6. QED
  <2> DEFINE result == IF attached \/ call = "status" THEN "failed"
                     ELSE IF call = "create" THEN "ok" ELSE "absent"
  <2>1. \/ call = "format" /\ run' = [run EXCEPT !.at = "format_failed"]
        \/ call = "unmount" /\ run' = Fails(result, <<>>)
        \/ run' = Fails(result, Release)
    BY DEF CallFails
  <2>2. result \in {"failed", "absent", "ok"} /\ (result = "ok" => call = "create" /\ ~attached)
    OBVIOUS
  <2>3. call = "unmount" => result # "ok"  OBVIOUS
  <2> HIDE DEF result
  <2>4. CASE call = "unmount" /\ run' = Fails(result, <<>>)  BY <1>5, <2>2, <2>3, <2>4
  <2>5. CASE run' = Fails(result, Release)  BY <1>5, <2>2, <2>5
  <2>6. QED  BY <1>4, <2>1, <2>4, <2>5

(* What is accepted is what the card holds.                                *)
LEMMA ReadPromises ==
  ASSUME IndInv, PromiseKept, Read
  PROVE  PromiseKept'
<1>1. /\ run.at = "calls" /\ run.calls # <<>> /\ call = "read" /\ Working /\ attached
      /\ card' = card
  BY DEF Read, Works, Calling, Working, hardware
<1>2. Typed /\ JobKept /\ CallsKept /\ SlotKept  BY <1>1 DEF IndInv
<1>3. slot \in Cards /\ card[slot] \in FileType  BY <1>1, <1>2 DEF Typed, TypeOK, SlotKept
<1>4. op.kind = "load" /\ op.place \in Places /\ call # "release"
  <2>1. op \in OpType /\ op.kind \in {"save", "load", "delete", "format"}
    BY <1>1, <1>2, OpFacts, OpOfJob
  <2>2. op.kind # "save"  BY <1>1, <1>2, SaveFacts
  <2>3. QED  BY <1>1, <1>2, <2>1, <2>2, OtherSteps DEF OpType
<1>5. PICK g : g = IF Accepted(card[slot], op.place) THEN card[slot].sector[op.place].data ELSE Nil
  OBVIOUS
<1>6. run' = [Passed EXCEPT !.got = g, !.from = slot]  BY <1>5 DEF Read
<1>7. /\ run'.at = run.at /\ run'.ops = run.ops /\ run'.all = run.all
      /\ run'.got = g /\ run'.from = slot
      /\ run'.calls = Tail(run.calls) /\ run'.result = run.result
  <2>1. run \in RunType  BY <1>2 DEF Typed
  <2>2. PICK s : s = Tail(run.calls)  OBVIOUS
  <2>3. run' = [[run EXCEPT !.calls = s] EXCEPT !.got = g, !.from = slot]
    BY <1>6, <2>2 DEF Passed
  <2>4. QED  BY <2>1, <2>2, <2>3 DEF RunType
<1>8. op' = op /\ Nth' = Nth  BY <1>7 DEF op, Nth
<1>9. EarlierKept'
  <2>1. run.all \notin NewFiles  BY <1>1, <1>2, <1>4, OpOfJob
  <2>2. Nth' = 1  BY <1>1, <1>2, <1>8, <2>1, OpOfJob
  <2>3. \A i : i \notin 1 .. 1 - 1  OBVIOUS
  <2>4. QED  BY <2>2, <2>3 DEF EarlierKept
<1>10. GotKept'
  <2>1. ASSUME g # Nil PROVE Content(card[slot], op.place) = g
    <3>1. Accepted(card[slot], op.place) /\ g = card[slot].sector[op.place].data  BY <1>5, <2>1
    <3>2. QED  BY <1>3, <1>4, <3>1, WhatIsAccepted
  <2>2. QED  BY <1>1, <1>7, <1>8, <2>1 DEF GotKept, Content, Stored
<1>11. Len(run'.calls) = 2
  <2>1. Len(Tail(run.calls)) = Len(run.calls) - 1  BY <1>1, <1>2, <1>4, CallFacts
  <2>2. Left = 3  BY <1>1, <1>2, <1>4, LoadSteps
  <2>3. QED  BY <1>7, <2>1, <2>2 DEF Left
<1>12. ReadKept'
  <2>1. ~(Len(run'.calls) <= 1)  BY <1>11
  <2>2. run'.at # "ended"  BY <1>1, <1>7
  <2>3. QED  BY <2>1, <2>2, Zenon DEF ReadKept
<1>13. WrittenKept' /\ DoneKept'  BY <1>4, <1>8 DEF WrittenKept, DoneKept, Saves
<1>14. QED  BY <1>9, <1>10, <1>12, <1>13 DEF PromiseKept

(* The card is left: the sectors of the place and the icon were written.   *)
LEMMA UnmountPromises ==
  ASSUME IndInv, PromiseKept, Unmount
  PROVE  PromiseKept'
<1>1. /\ run.at = "calls" /\ run.calls # <<>> /\ Working /\ run' = Passed
      /\ ~attached' /\ card' = card
      /\ (call = "unmount" /\ attached) \/ call = "release"
  BY DEF Unmount, Works, Calling, Working
<1>2. Typed /\ JobKept /\ CallsKept /\ SlotKept  BY <1>1 DEF IndInv
<1>3. /\ run'.at = run.at /\ run'.ops = run.ops /\ run'.all = run.all
      /\ run'.got = run.got /\ run'.from = run.from
      /\ run'.calls = Tail(run.calls) /\ run'.result = run.result
  BY <1>1, <1>2, PassedFacts
<1>4. /\ EarlierKept' /\ GotKept' /\ op' = op
      /\ \A o : Done(o)' <=> Done(o)
  BY <1>1, <1>3, Standing
<1>5. WrittenKept'  BY <1>1 DEF WrittenKept
<1>6. ASSUME call = "unmount", attached, op.kind = "save", op.sum, run.result = "ok"
      PROVE  Done(op)
  <2>1. op \in OpType /\ op.data \in Data  BY <1>1, <1>2, <1>6, OpFacts, OpOfJob
  <2>2. slot \in Cards /\ card[slot] \in FileType  BY <1>2, <1>6 DEF Typed, TypeOK, SlotKept
  <2>3. Left = 1
    <3>1. call # "release"  BY <1>6
    <3>2. QED  BY <1>1, <1>2, <1>6, <3>1, SaveSteps
  <2>4. WrittenKept /\ Saves /\ Left <= 2 /\ Left <= 1
    BY <1>1, <1>6, <2>3 DEF PromiseKept, Saves
  <2>5. /\ \A s \in ToSet(SectorsOf(op.place)) : card[slot].sector[s] = Written(op)
        /\ card[slot].icon
    BY <1>6, <2>4 DEF WrittenKept, Left
  <2>6. Stored(card[slot], op.place) = op.data  BY <1>6, <2>1, <2>2, <2>5, AllOf
  <2>7. QED  BY <2>2, <2>5, <2>6 DEF Done, Content
<1>7. call = "release" => run.result # "ok" \/ (op.make /\ op.kind = "save" /\ ~op.sum)
  <2>1. call = "release" => run.result # "ok" \/ op.make  BY <1>1, <1>2, Releasing
  <2>2. op.make => op.kind = "save" /\ ~op.sum  BY <1>1, <1>2, OpOfJob
  <2>3. QED  BY <2>1, <2>2
<1>8. DoneKept'
  <2>1. op.kind = "save" /\ op.sum /\ run.result = "ok" => Done(op)  BY <1>1, <1>6, <1>7
  <2>2. PICK o : o = op  OBVIOUS
  <2>3. o.kind = "save" /\ o.sum /\ run.result = "ok" => Done(o)  BY <2>1, <2>2
  <2>4. o.kind = "save" /\ o.sum /\ run'.result = "ok" => Done(o)'  BY <1>3, <1>4, <2>3
  <2>5. op' = o  BY <1>4, <2>2
  <2>6. QED  BY <2>4, <2>5 DEF DoneKept, Done, Content, Stored
<1>9. ReadKept'
  <2>1. ASSUME op.kind = "load", run.result = "ok" PROVE run.got # Nil
    <3>1. call = "unmount"  BY <1>1, <1>7, <2>1
    <3>2. call # "release"  BY <3>1
    <3>3. Left = 1  BY <1>1, <1>2, <2>1, <3>1, <3>2, LoadSteps
    <3>4. Left <= 1  BY <3>3
    <3>5. QED  BY <1>1, <2>1, <3>4 DEF PromiseKept, ReadKept, Left
  <2>2. QED  BY <1>3, <1>4, <2>1 DEF ReadKept
<1>10. QED  BY <1>4, <1>5, <1>8, <1>9 DEF PromiseKept

LEMMA CallsEndPromises ==
  ASSUME IndInv, PromiseKept, IndInv', CallsEnd
  PROVE  PromiseKept'
<1>1. run.at = "calls" /\ run.calls = <<>> /\ Working /\ card' = card
  BY DEF CallsEnd, hardware, Working
<1>2. Typed /\ JobKept /\ CallsKept /\ run \in RunType  BY <1>1 DEF IndInv, Typed
<1>3. /\ run.all \in Jobs /\ run.ops \in Seq(OpType) /\ run.ops # <<>>
      /\ op \in OpType /\ Nth \in 1 .. Len(run.all) /\ op = run.all[Nth]
      /\ EndOf(run.ops, run.all)
  BY <1>1, <1>2, OpFacts
<1>4. CASE /\ run.result = "ok" /\ Len(run.ops) > 1
           /\ run' = [run EXCEPT !.ops = Tail(@), !.tries = 1, !.calls = CallsOf(run.ops[2])]
  <2>1. run.all \in Seq(OpType)  BY <1>3, JobFacts
  <2>2. /\ Tail(run.ops) \in Seq(OpType) /\ Head(Tail(run.ops)) = run.ops[2]
        /\ run.ops[2] \in OpType /\ Len(run.ops) # 1
        /\ Len(run.all) - Len(Tail(run.ops)) + 1 = (Len(run.all) - Len(run.ops) + 1) + 1
    BY <1>3, <1>4, <2>1, NextOne, ZenonT(60)
  <2>3. run.all \in NewFiles  BY <1>1, <1>2, <2>2, OpOfJob
  <2>4. run.all[1].kind = "save" /\ run.all \notin Loads
    <3>1. run.all \in NewFiles <=> run.all[1].make  BY <1>3, JobFacts
    <3>2. QED  BY <2>3, <3>1, OtherFacts, <1>3, JobFacts
  <2>5. /\ run'.at = run.at /\ run'.all = run.all /\ run'.ops = Tail(run.ops)
        /\ run'.calls = CallsOf(run.ops[2]) /\ run'.got = run.got /\ run'.result = run.result
    <3>1. PICK s, u : s = Tail(run.ops) /\ u = CallsOf(run.ops[2])  OBVIOUS
    <3>2. run' = [run EXCEPT !.ops = s, !.tries = 1, !.calls = u]  BY <1>4, <3>1
    <3>3. QED  BY <1>2, <3>1, <3>2 DEF RunType
  <2>6. op' = run.ops[2]  BY <2>2, <2>5 DEF op
  <2>7. run'.calls = CallsOf(op)' /\ op' \in OpType /\ run'.at # "ended"
    BY <1>1, <2>2, <2>5, <2>6 DEF CallsOf
  <2>8. WrittenKept' /\ DoneKept' /\ ReadKept'  BY <2>7, Unwritten
  <2>9. GotKept'  BY <2>4, <2>5 DEF IndInv, LoadKept, GotKept
  <2>10. Nth' = Nth + 1  BY <2>2, <2>5 DEF Nth
  <2>11. EarlierKept'
    <3>1. op.kind = "save"  BY <1>1, <1>2, <2>3, OpOfJob
    <3>2. op.sum => Done(op)  BY <1>1, <1>4, <3>1 DEF PromiseKept, DoneKept
    <3>3. PICK n \in Nat : n = Nth  BY <1>3
    <3>4. ASSUME NEW i \in 1 .. Nth, run.all[i].sum PROVE Done(run.all[i])
      <4>1. CASE i = Nth  BY <1>3, <3>2, <3>4, <4>1
      <4>2. CASE i # Nth
        <5>1. i \in 1 .. n - 1  BY <3>3, <4>2
        <5>2. QED  BY <3>3, <3>4, <5>1, <1>1 DEF PromiseKept, EarlierKept
      <4>3. QED  BY <4>1, <4>2
    <3>5. ASSUME NEW i \in 1 .. Nth' - 1, run'.all[i].sum
          PROVE  \E c \in Cards : Content(card'[c], run'.all[i].place) = run'.all[i].data
      <4>1. i \in 1 .. Nth
        <5>1. i \in 1 .. (n + 1) - 1  BY <2>10, <3>3
        <5>2. QED  BY <3>3, <5>1
      <4>2. Done(run.all[i])  BY <2>5, <3>4, <3>5, <4>1
      <4>3. QED  BY <1>1, <2>5, <4>2 DEF Done
    <3>6. QED  BY <3>5 DEF EarlierKept, Done, Content, Stored
  <2>12. QED  BY <2>8, <2>9, <2>11 DEF PromiseKept
<1>5. CASE run' = [run EXCEPT !.tries = 2, !.calls = CallsOf(op), !.result = "ok"]
  <2>1. /\ run'.at = run.at /\ run'.all = run.all /\ run'.ops = run.ops
        /\ run'.calls = CallsOf(op) /\ run'.got = run.got /\ run'.from = run.from
    <3>1. PICK u : u = CallsOf(op)  OBVIOUS
    <3>2. run' = [run EXCEPT !.tries = 2, !.calls = u, !.result = "ok"]  BY <1>5, <3>1
    <3>3. QED  BY <1>2, <3>1, <3>2 DEF RunType
  <2>2. EarlierKept' /\ GotKept' /\ op' = op  BY <1>1, <2>1, Standing
  <2>3. run'.calls = CallsOf(op)' /\ op' \in OpType /\ run'.at # "ended"
    BY <1>1, <1>3, <2>1, <2>2 DEF CallsOf
  <2>4. WrittenKept' /\ DoneKept' /\ ReadKept'  BY <2>3, Unwritten
  <2>5. QED  BY <2>2, <2>4 DEF PromiseKept
<1>6. CASE run' = [run EXCEPT !.at = "ended"]
  <2>1. /\ run'.at = "ended" /\ run'.all = run.all /\ run'.ops = run.ops
        /\ run'.calls = run.calls /\ run'.got = run.got /\ run'.from = run.from
        /\ run'.result = run.result
    BY <1>2, <1>6 DEF RunType
  <2>2. /\ EarlierKept' /\ GotKept' /\ op' = op
        /\ \A o : Done(o)' <=> Done(o)
    BY <1>1, <2>1, Standing
  <2>3. WrittenKept'  BY <2>1 DEF WrittenKept, Saves
  <2>4. DoneKept'
    <3>1. PICK o : o = op  OBVIOUS
    <3>2. o.kind = "save" /\ o.sum /\ run.result = "ok" => Done(o)
      BY <1>1, <3>1 DEF PromiseKept, DoneKept
    <3>3. o.kind = "save" /\ o.sum /\ run'.result = "ok" => Done(o)'  BY <2>1, <2>2, <3>2
    <3>4. op' = o  BY <2>2, <3>1
    <3>5. QED  BY <3>3, <3>4 DEF DoneKept, Done, Content, Stored
  <2>5. ReadKept'
    <3>1. Len(run.calls) <= 1  BY <1>1
    <3>2. op.kind = "load" /\ run.result = "ok" => run.got # Nil
      BY <1>1, <3>1 DEF PromiseKept, ReadKept
    <3>3. QED  BY <2>1, <2>2, <3>2 DEF ReadKept
  <2>6. QED  BY <2>2, <2>3, <2>4, <2>5 DEF PromiseKept
<1>7. QED  BY <1>4, <1>5, <1>6 DEF CallsEnd

----------------------------------------------------------------------------
(* The world, the game and the player                                      *)

LEMMA TakeOutPromises ==
  ASSUME IndInv, PromiseKept, Working, TakeOut
  PROVE  PromiseKept'
<1>1. ~attached' /\ card' = card /\ run' = [run EXCEPT !.unsure = ~At("idle")]
  BY DEF TakeOut
<1>2. run \in RunType  BY DEF IndInv, Typed
<1>3. /\ run'.at = run.at /\ run'.all = run.all /\ run'.ops = run.ops
      /\ run'.calls = run.calls /\ run'.got = run.got /\ run'.from = run.from
      /\ run'.result = run.result
  <2>1. PICK u : u = ~At("idle")  OBVIOUS
  <2>2. run' = [run EXCEPT !.unsure = u]  BY <1>1, <2>1
  <2>3. QED  BY <1>2, <2>2 DEF RunType
<1>4. /\ EarlierKept' /\ GotKept' /\ op' = op
      /\ \A o : Done(o)' <=> Done(o)
  BY <1>1, <1>3, Standing
<1>5. WrittenKept'  BY <1>1 DEF WrittenKept
<1>6. DoneKept'
  <2>1. PICK o : o = op  OBVIOUS
  <2>2. /\ o.kind = "save" /\ o.sum /\ run.result = "ok"
        /\ run.at = "ended" \/ (run.at = "calls" /\ run.calls = <<>>)
        => Done(o)
    BY <2>1 DEF PromiseKept, DoneKept
  <2>3. /\ o.kind = "save" /\ o.sum /\ run'.result = "ok"
        /\ run'.at = "ended" \/ (run'.at = "calls" /\ run'.calls = <<>>)
        => Done(o)'
    BY <1>3, <1>4, <2>2
  <2>4. op' = o  BY <1>4, <2>1
  <2>5. QED  BY <2>3, <2>4 DEF DoneKept, Done, Content, Stored
<1>7. ReadKept'  BY <1>3, <1>4 DEF PromiseKept, ReadKept
<1>8. QED  BY <1>4, <1>5, <1>6, <1>7 DEF PromiseKept

LEMMA PutInPromises ==
  ASSUME IndInv, PromiseKept, Working, NEW x \in Cards, PutIn(x)
  PROVE  PromiseKept'
<1>1. slot = Nil /\ run' = run /\ card' = card /\ attached' = attached  BY DEF PutIn
<1>2. ~attached'  BY <1>1 DEF IndInv, SlotKept
<1>3. /\ EarlierKept' /\ GotKept' /\ op' = op
      /\ \A o : Done(o)' <=> Done(o)
  BY <1>1, Standing
<1>4. WrittenKept'  BY <1>2 DEF WrittenKept
<1>5. DoneKept'
  <2>1. PICK o : o = op  OBVIOUS
  <2>2. /\ o.kind = "save" /\ o.sum /\ run.result = "ok"
        /\ run.at = "ended" \/ (run.at = "calls" /\ run.calls = <<>>)
        => Done(o)
    BY <2>1 DEF PromiseKept, DoneKept
  <2>3. /\ o.kind = "save" /\ o.sum /\ run'.result = "ok"
        /\ run'.at = "ended" \/ (run'.at = "calls" /\ run'.calls = <<>>)
        => Done(o)'
    BY <1>1, <1>3, <2>2
  <2>4. op' = o  BY <1>3, <2>1
  <2>5. QED  BY <2>3, <2>4 DEF DoneKept, Done, Content, Stored
<1>6. ReadKept'  BY <1>1, <1>3 DEF PromiseKept, ReadKept
<1>7. QED  BY <1>3, <1>4, <1>5, <1>6 DEF PromiseKept

LEMMA PolledIdles ==
  ASSUME NEW then, Poll(then)
  PROVE  ~Working' /\ card' = card /\ answer' = answer
<1>1. PICK u, c : run' = [Idle EXCEPT !.at = "flags", !.then = then, !.card = c, !.unsure = u]
  BY DEF Poll
<1>2. run'.at = "flags"  BY <1>1 DEF Idle
<1>3. QED  BY <1>2 DEF Working, Poll

LEMMA BackIdles ==
  ASSUME NEW w \in {"look", "polled"}, run' = Back(w)
  PROVE  ~Working'
<1>1. run'.at = w  BY DEF Back, Idle
<1>2. QED  BY <1>1 DEF Working

LEMMA GamePromises ==
  ASSUME IndInv, IndInv', Game
  PROVE  PromiseKept'
<1>1. Typed /\ Typed'  BY DEF IndInv
<1>2. ASSUME ~Working' PROVE PromiseKept'  BY <1>2 DEF PromiseKept
<1>3. CASE \E then \in {<<>>, <<"save">>, Remedies} : Look(then)
  BY <1>2, <1>3, PolledIdles DEF Look
<1>4. CASE LookAgain  BY <1>2, <1>4, PolledIdles DEF LookAgain
<1>5. CASE OnlyRemoved
  <2>1. PICK w \in {"look", "polled"} : run' = Back(w)  BY <1>5 DEF OnlyRemoved
  <2>2. QED  BY <1>2, <2>1, BackIdles
<1>6. ASSUME run' = Idle PROVE PromiseKept'
  <2>1. ~Working'  BY <1>6 DEF Idle, Working
  <2>2. QED  BY <1>2, <2>1
<1>7. ASSUME NEW ops, Does(ops) PROVE PromiseKept'
  <2>1. PICK r : r = [run EXCEPT !.then = <<>>]  OBVIOUS
  <2>2. Fields \subseteq DOMAIN r /\ run' = Begun(r, ops)  BY <1>1, <1>7, <2>1, RunFields DEF Does
  <2>3. QED  BY <2>2, Beginning
<1>8. CASE Inserted
  <2>1. PICK a : run' = Begun(run, a)  BY <1>8 DEF Inserted
  <2>2. QED  BY <1>1, <2>1, RunFields, Beginning
<1>9. CASE Recreate
  <2>1. CASE run' = Idle  BY <1>6, <2>1
  <2>2. CASE \E t, a : run' = Begun([run EXCEPT !.then = t], a)
    <3>1. PICK t, a : run' = Begun([run EXCEPT !.then = t], a)  BY <2>2
    <3>2. PICK r : r = [run EXCEPT !.then = t]  OBVIOUS
    <3>3. Fields \subseteq DOMAIN r /\ run' = Begun(r, a)  BY <1>1, <3>1, <3>2, RunFields
    <3>4. QED  BY <3>3, Beginning
  <2>3. QED  BY <1>9, <2>1, <2>2 DEF Recreate
<1>10. CASE Nothing  BY <1>6, <1>10 DEF Nothing
<1>11. CASE \E v \in Versions : SaveProfile(v)  BY <1>7, <1>11 DEF SaveProfile
<1>12. CASE \E v \in Versions : \E p \in Places \ {Settings} : SaveRegion(p, v)
  BY <1>7, <1>12 DEF SaveRegion
<1>13. CASE \E p \in Places \ {Settings} : LoadRegion(p)  BY <1>7, <1>13 DEF LoadRegion
<1>14. QED
  BY <1>3, <1>4, <1>5, <1>8, <1>9, <1>10, <1>11, <1>12, <1>13 DEF Game

LEMMA PlayerPromises ==
  ASSUME IndInv, PromiseKept, IndInv', Player
  PROVE  PromiseKept'
<1>1. Typed /\ run \in RunType  BY DEF IndInv, Typed
<1>2. ASSUME ~Working' PROVE PromiseKept'  BY <1>2 DEF PromiseKept
<1>3. ASSUME run.at \in {"confirm", "changed", "format_failed"},
             run'.all = run.all, run'.ops = run.ops
      PROVE  PromiseKept'
  <2>1. Working /\ op.kind = "format"  BY <1>3, AskedFacts
  <2>2. QED  BY <1>3, <2>1, Indifferent
<1>4. CASE ConfirmFormat
  <2>1. run.at = "confirm"  BY <1>4 DEF ConfirmFormat
  <2>2. run'.all = run.all /\ run'.ops = run.ops  BY <1>1, <1>4 DEF ConfirmFormat, Goes, RunType
  <2>3. QED  BY <1>3, <2>1, <2>2
<1>5. CASE CardChanged
  <2>1. run.at = "changed"  BY <1>5 DEF CardChanged
  <2>2. \/ run' = [run EXCEPT !.at = "ended", !.result = "failed"]
        \/ \E s : run' = [[run EXCEPT !.calls = s] EXCEPT !.at = "calls", !.may = Cards]
    BY <1>5 DEF CardChanged, Goes, Passed
  <2>3. run'.all = run.all /\ run'.ops = run.ops  BY <1>1, <2>2 DEF RunType
  <2>4. QED  BY <1>3, <2>1, <2>3
<1>6. CASE FormatFailed
  <2>1. run.at = "format_failed"  BY <1>6 DEF FormatFailed
  <2>2. \/ run' = [run EXCEPT !.at = "ended", !.result = "failed"]
        \/ \E s : run' = [run EXCEPT !.at = "calls", !.calls = s]
    BY <1>6 DEF FormatFailed, Goes
  <2>3. run'.all = run.all /\ run'.ops = run.ops  BY <1>1, <2>2 DEF RunType
  <2>4. QED  BY <1>3, <2>1, <2>3
<1>7. CASE TryAgain
  <2>1. run' = Begun(run, run.all)  BY <1>7 DEF TryAgain, Goes
  <2>2. QED  BY <1>1, <2>1, RunFields, Beginning
<1>8. ASSUME NEW o, NEW a, run' = Begun([run EXCEPT !.outer = o], a) PROVE PromiseKept'
  <2>1. PICK r : r = [run EXCEPT !.outer = o]  OBVIOUS
  <2>2. Fields \subseteq DOMAIN r /\ run' = Begun(r, a)  BY <1>1, <1>8, <2>1, RunFields
  <2>3. QED  BY <2>2, Beginning
<1>9. CASE DoSomething
  <2>1. PICK a : Remedied(a)  BY <1>9 DEF DoSomething
  <2>2. PICK o : o = <<run.all>> \o run.outer  OBVIOUS
  <2>3. run' = Begun([run EXCEPT !.outer = o], a)  BY <2>1, <2>2 DEF Remedied
  <2>4. QED  BY <1>8, <2>3
<1>10. CASE DidSomething
  <2>1. PICK o, a : o = Tail(run.outer) /\ a = Head(run.outer)  OBVIOUS
  <2>2. run' = Begun([run EXCEPT !.outer = o], a)  BY <1>10, <2>1 DEF DidSomething, Goes
  <2>3. QED  BY <1>8, <2>2
<1>11. ASSUME NEW result, InsertionEnds(result) PROVE PromiseKept'
  <2>1. PICK w \in {"look", "polled"} : run' = Back(w)  BY <1>11 DEF InsertionEnds
  <2>2. QED  BY <1>2, <2>1, BackIdles
<1>12. CASE NotDeleted  BY <1>11, <1>12 DEF NotDeleted
<1>13. CASE Ends
  <2>1. Idle.at = "idle"  BY DEF Idle
  <2>2. CASE run' = Idle  BY <1>2, <2>1, <2>2 DEF Working
  <2>3. CASE run' = Back("look")  BY <1>2, <2>3, BackIdles
  <2>4. CASE \E a : run' = Begun(run, a)  BY <1>1, <2>4, RunFields, Beginning
  <2>5. CASE InsertionEnds(run.result)  BY <1>11, <2>5
  <2>6. Insertion \/ (job.kind = "load" /\ Region) \/ job.kind \in {"save", "delete", "format"}
    <3>1. run.at = "ended"  BY <1>13 DEF Ends
    <3>2. Working /\ Typed /\ JobKept /\ job.kind = op.kind  BY <3>1, EndedFacts
    <3>3. op.kind \in {"save", "load", "delete", "format"}  BY <3>2, OpOfJob
    <3>4. QED  BY <3>2, <3>3 DEF Insertion, Region
  <2>7. InsertionEnds(run.result) \/ LoadEnds \/ SaveEnds \/ DeletionEnds \/ FormatEnds
    BY <1>13, <2>6 DEF Ends, Insertion
  <2>8. QED  BY <2>2, <2>3, <2>4, <2>5, <2>7 DEF LoadEnds, SaveEnds, DeletionEnds, FormatEnds
<1>14. QED
  BY <1>4, <1>5, <1>6, <1>7, <1>9, <1>10, <1>12, <1>13 DEF Player

LEMMA PromiseStays ==
  ASSUME IndInv, PromiseKept, UNCHANGED vars
  PROVE  PromiseKept'
<1> USE DEF vars, hardware
<1>1. CASE ~Working  BY <1>1 DEF PromiseKept, Working
<1>2. CASE Working
  <2>1. /\ EarlierKept' /\ GotKept' /\ op' = op
        /\ \A o : Done(o)' <=> Done(o)
    BY <1>2, Standing
  <2>2. WrittenKept'
    <3>1. WrittenKept  BY <1>2 DEF PromiseKept
    <3>2. Saves' <=> Saves  BY <2>1 DEF Saves
    <3>3. QED  BY <2>1, <3>1, <3>2 DEF WrittenKept
  <2>3. DoneKept'
    <3>1. PICK o : o = op  OBVIOUS
    <3>2. /\ o.kind = "save" /\ o.sum /\ run.result = "ok"
          /\ run.at = "ended" \/ (run.at = "calls" /\ run.calls = <<>>)
          => Done(o)
      BY <1>2, <3>1 DEF PromiseKept, DoneKept
    <3>3. /\ o.kind = "save" /\ o.sum /\ run'.result = "ok"
          /\ run'.at = "ended" \/ (run'.at = "calls" /\ run'.calls = <<>>)
          => Done(o)'
      BY <2>1, <3>2
    <3>4. op' = o  BY <2>1, <3>1
    <3>5. QED  BY <3>3, <3>4 DEF DoneKept, Done, Content, Stored
  <2>4. ReadKept'  BY <1>2, <2>1 DEF PromiseKept, ReadKept
  <2>5. QED  BY <2>1, <2>2, <2>3, <2>4 DEF PromiseKept
<1>3. QED  BY <1>1, <1>2

LEMMA NextPromises ==
  ASSUME IndInv, PromiseKept, IndInv', [Next]_vars
  PROVE  PromiseKept'
<1>1. CASE World
  <2>1. CASE Working /\ TakeOut  BY <2>1, TakeOutPromises
  <2>2. CASE Working /\ \E c \in Cards : PutIn(c)  BY <2>2, PutInPromises
  <2>3. CASE PowerFails
    <3>1. run'.at = "idle"  BY <2>3 DEF PowerFails, Idle
    <3>2. QED  BY <3>1 DEF PromiseKept, Working
  <2>4. CASE ~Working /\ (TakeOut \/ \E c \in Cards : PutIn(c))
    <3>1. run'.at = run.at
      <4>1. CASE TakeOut
        <5>1. PICK u : run' = [run EXCEPT !.unsure = u]  BY <4>1 DEF TakeOut
        <5>2. QED  BY <5>1 DEF IndInv, Typed, RunType
      <4>2. CASE \E c \in Cards : PutIn(c)  BY <4>2 DEF PutIn
      <4>3. QED  BY <2>4, <4>1, <4>2
    <3>2. QED  BY <2>4, <3>1 DEF PromiseKept, Working
  <2>5. QED  BY <1>1, <2>1, <2>2, <2>3, <2>4 DEF World
<1>2. CASE Game  BY <1>2, GamePromises
<1>3. CASE Library
  <2>1. CASE MountCard  BY <2>1, MountPromises
  <2>2. CASE Notice  BY <2>2, NoticePromises
  <2>3. CASE Open \/ Check  BY <2>3, OpenPromises
  <2>4. CASE Read  BY <2>4, ReadPromises
  <2>5. CASE Create  BY <2>5, CreatePromises
  <2>6. CASE Erase  BY <2>6, ErasePromises
  <2>7. CASE Program  BY <2>7, ProgramPromises
  <2>8. CASE Status  BY <2>8, StatusPromises
  <2>9. CASE Delete \/ Format  BY <2>9, EmptiedPromises
  <2>10. CASE Unmount  BY <2>10, UnmountPromises
  <2>11. CASE CallFails  BY <2>11, CallFailsPromises
  <2>12. CASE CallsEnd  BY <2>12, CallsEndPromises
  <2>13. QED
    BY <1>3, <2>1, <2>2, <2>3, <2>4, <2>5, <2>6, <2>7, <2>8, <2>9, <2>10, <2>11, <2>12
    DEF Library
<1>4. CASE Player  BY <1>4, PlayerPromises
<1>5. CASE UNCHANGED vars  BY <1>5, PromiseStays
<1>6. QED  BY <1>1, <1>2, <1>3, <1>4, <1>5 DEF Next

(* As soon as the calls that write something are through it is on a card,  *)
(* and what was read is still there: no call of the functions that save    *)
(* and load takes back what an earlier one did.                            *)
THEOREM PromisesInvariant == Spec => []PromiseKept
<1>1. Init => PromiseKept
  <2>1. Init => run.at = "idle"  BY DEF Init, Idle
  <2>2. QED  BY <2>1 DEF PromiseKept, Working
<1>2. IndInv /\ PromiseKept /\ IndInv' /\ [Next]_vars => PromiseKept'  BY NextPromises
<1>3. QED  BY <1>1, <1>2, CardsInvariant, PTL DEF Spec

----------------------------------------------------------------------------
(* The functions implement CardStore.                                      *)

Holds == [c \in Cards |-> [p \in Places |-> Stored(card[c], p)]]
Readables == {c \in Cards : card[c].icon}
Savings == Saving(run.all)
Step == Promised!Next \/ UNCHANGED <<Holds, Readables, Savings, answer>>

LEMMA SavingTyped ==
  ASSUME NEW a \in Jobs \cup {<<>>}
  PROVE  Saving(a) \subseteq [place : Places, data : Data]
<1>1. CASE a = <<>>
  <2>1. DOMAIN a = {}  BY <1>1
  <2>2. QED  BY <2>1 DEF Saving
<1>2. CASE a \in Jobs
  <2>1. a \in Seq(OpType)  BY <1>2, JobFacts
  <2>2. ASSUME NEW i \in DOMAIN a, a[i].kind = "save"
        PROVE  a[i].place \in Places /\ a[i].data \in Data
    <3>1. i \in 1 .. Len(a) /\ a[i] \in OpType  BY <2>1
    <3>2. a[i].data \in Data
      <4>1. CASE a \in NewFiles  BY <3>1, <4>1, CreationFacts
      <4>2. CASE a \notin NewFiles
        <5>1. Len(a) = 1  BY <1>2, <4>2, JobFacts
        <5>2. i = 1  BY <3>1, <5>1
        <5>3. a \in Profiles  BY <1>2, <2>2, <4>2, <5>2, JobFacts
        <5>4. QED  BY <5>2, <5>3, ProfileFacts
      <4>3. QED  BY <4>1, <4>2
    <3>3. QED  BY <3>1, <3>2 DEF OpType
  <2>3. QED  BY <2>2 DEF Saving
<1>3. QED  BY <1>1, <1>2

LEMMA NothingToSave == Saving(<<>>) = {}
<1>1. DOMAIN <<>> = {}  OBVIOUS
<1>2. QED  BY <1>1 DEF Saving

LEMMA SavingIs ==
  ASSUME IndInv, Working, op.kind = "save"
  PROVE  [place |-> op.place, data |-> op.data] \in Saving(run.all)
<1>1. Typed /\ JobKept  BY DEF IndInv
<1>2. run.all \in Jobs /\ Nth \in 1 .. Len(run.all) /\ op = run.all[Nth]  BY <1>1, OpFacts
<1>3. Nth \in DOMAIN run.all
  <2>1. run.all \in Seq(OpType)  BY <1>2, JobFacts
  <2>2. QED  BY <1>2, <2>1
<1>4. QED  BY <1>2, <1>3 DEF Saving

(* While no card changes a call begins, or goes on.                        *)
LEMMA GoesOn ==
  ASSUME IndInv', card' = card, answer' \in {[call |-> "none"], answer}
  PROVE  Step
<1>1. run'.all \in Jobs \cup {<<>>}  BY DEF IndInv, Typed, RunType
<1>2. Saving(run'.all) \subseteq [place : Places, data : Data]  BY <1>1, SavingTyped
<1>3. Promised!Begin  BY <1>2 DEF Promised!Begin, Promised!None, Saving, Stored
<1>4. QED  BY <1>3 DEF Step, Promised!Next

LEMMA Touches ==
  ASSUME IndInv, IndInv', Erase \/ Program
  PROVE  Step
<1>1. /\ run.at = "calls" /\ run.calls # <<>> /\ call \in {"erase", "program"} /\ attached
      /\ run' = Passed
  BY DEF Erase, Program, Works, Calling
<1>2. PICK x \in {Torn, Written(op)} : Changes([card[slot] EXCEPT !.sector[sector] = x])
  BY DEF Erase, Program, Written
<1>3. /\ op \in OpType /\ op.kind = "save" /\ op.data \in Data /\ slot \in Cards
      /\ card \in [Cards -> FileType] /\ card' \in [Cards -> FileType]
      /\ \A c \in Cards \ {slot} : card'[c] = card[c]
      /\ card'[slot].icon = card[slot].icon
      /\ \A p \in Places \ {op.place} : Stored(card'[slot], p) = Stored(card[slot], p)
      /\ Stored(card'[slot], op.place) \in {Nil, op.data}
      /\ UNCHANGED <<slot, attached, answer>>
  BY <1>1, <1>2, SectorWritten
<1>4. PICK w : w = [place |-> op.place, data |-> op.data]  OBVIOUS
<1>5. w \in Saving(run.all) /\ w.place = op.place /\ w.data = op.data /\ w.place \in Places
  <2>1. Working  BY <1>1 DEF Working
  <2>2. QED  BY <1>3, <1>4, <2>1, SavingIs DEF OpType
<1>6. PICK d : d = Stored(card'[slot], op.place)  OBVIOUS
<1>7. Holds' = [Holds EXCEPT ![slot][w.place] = d]
  <2>1. PICK h : h = [Holds EXCEPT ![slot][w.place] = d]  OBVIOUS
  <2>2. \A c \in Cards : Holds[c] = [p \in Places |-> Stored(card[c], p)]  BY DEF Holds
  <2>3. h = [c \in Cards |-> IF c = slot THEN [Holds[c] EXCEPT ![w.place] = d] ELSE Holds[c]]
    BY <2>1 DEF Holds
  <2>4. [Holds[slot] EXCEPT ![w.place] = d] = [p \in Places |-> Stored(card'[slot], p)]
    <3>1. [Holds[slot] EXCEPT ![w.place] = d]
            = [p \in Places |-> IF p = w.place THEN d ELSE Stored(card[slot], p)]
      <4>1. Holds[slot] = [p \in Places |-> Stored(card[slot], p)]  BY <1>3, <2>2
      <4>2. PICK s : s = Holds[slot]  OBVIOUS
      <4>3. [s EXCEPT ![w.place] = d] = [p \in Places |-> IF p = w.place THEN d ELSE s[p]]
        BY <4>1, <4>2
      <4>4. \A p \in Places : s[p] = Stored(card[slot], p)  BY <4>1, <4>2
      <4>5. QED  BY <4>2, <4>3, <4>4
    <3>2. \A p \in Places : (IF p = w.place THEN d ELSE Stored(card[slot], p)) = Stored(card'[slot], p)
      BY <1>3, <1>5, <1>6
    <3>3. QED  BY <3>1, <3>2
  <2>5. \A c \in Cards : (IF c = slot THEN [Holds[c] EXCEPT ![w.place] = d] ELSE Holds[c])
                           = [p \in Places |-> Stored(card'[c], p)]
    BY <1>3, <2>2, <2>4
  <2>6. h = [c \in Cards |-> [p \in Places |-> Stored(card'[c], p)]]  BY <2>3, <2>5
  <2>7. QED  BY <2>1, <2>6 DEF Holds, Stored
<1>8. Readables' = Readables  BY <1>3 DEF Readables
<1>9. run'.all = run.all  BY <1>1, PassedFacts DEF IndInv
<1>10. Promised!Touch
  <2>1. UNCHANGED <<Readables, Savings, answer>>  BY <1>3, <1>8, <1>9 DEF Savings, Saving
  <2>2. d \in {Nil, w.data}  BY <1>3, <1>5, <1>6
  <2>3. \E e \in {Nil, w.data} : Holds' = [Holds EXCEPT ![slot][w.place] = e]
    BY <1>7, <2>2, Zenon
  <2>4. slot \in Cards /\ w \in Savings  BY <1>3, <1>5 DEF Savings
  <2>5. QED  BY <2>1, <2>3, <2>4, Zenon DEF Promised!Touch, Holds, Readables, Savings
<1>11. QED  BY <1>10 DEF Step, Promised!Next

LEMMA Shows ==
  ASSUME IndInv, PromiseKept, IndInv', Status
  PROVE  Step
<1>1. /\ run.at = "calls" /\ run.calls # <<>> /\ attached /\ call = "status"
      /\ op \in OpType /\ op.kind = "save" /\ op.data \in Data /\ slot \in Cards
      /\ card \in [Cards -> FileType] /\ card' \in [Cards -> FileType]
      /\ \A c \in Cards \ {slot} : card'[c] = card[c]
      /\ card'[slot].icon /\ card'[slot].sector = card[slot].sector
      /\ Left = 2
      /\ run' = Passed /\ UNCHANGED <<slot, attached, answer>>
  BY StatusSets
<1>2. Working /\ run.result = "ok" /\ Saves  BY <1>1, Writing
<1>3. PICK w : w = [place |-> op.place, data |-> op.data]  OBVIOUS
<1>4. w \in Saving(run.all) /\ w.place = op.place /\ w.data = op.data /\ w.place \in Places
  BY <1>1, <1>2, <1>3, SavingIs DEF OpType
<1>5. Stored(card[slot], w.place) \in {Nil, w.data}
  <2>1. Left <= 2  BY <1>1
  <2>2. \A s \in ToSet(SectorsOf(op.place)) : card[slot].sector[s] = Written(op)
    BY <1>1, <1>2, <2>1 DEF PromiseKept, WrittenKept, Left
  <2>3. QED  BY <1>1, <1>4, <2>2, AllOf
<1>6. Holds[slot][w.place] = Stored(card[slot], w.place)  BY <1>1, <1>4 DEF Holds
<1>7. Holds' = Holds
  <2>1. ASSUME NEW c \in Cards, NEW p \in Places PROVE Stored(card'[c], p) = Stored(card[c], p)
    <3>1. CASE c = slot  BY <1>1, <3>1 DEF Stored
    <3>2. CASE c # slot  BY <1>1, <3>2
    <3>3. QED  BY <3>1, <3>2
  <2>2. QED  BY <2>1 DEF Holds, Stored
<1>8. Readables' = Readables \cup {slot}  BY <1>1 DEF Readables
<1>9. run'.all = run.all  BY <1>1, PassedFacts DEF IndInv
<1>10. Promised!Show
  <2>1. UNCHANGED <<Savings, answer>>  BY <1>1, <1>9 DEF Savings, Saving
  <2>2. QED
    BY <1>1, <1>4, <1>5, <1>6, <1>7, <1>8, <2>1 DEF Promised!Show, Holds, Readables, Savings
<1>11. QED  BY <1>10 DEF Step, Promised!Next

(* A file is created, deleted, or goes with the card's format.             *)
LEMMA Wipes ==
  ASSUME IndInv, NEW f \in FileType, ~f.icon, \A s \in Sectors : f.sector[s] = Blank,
         slot \in Cards, Changes(f), run'.all = run.all
  PROVE  Step
<1>1. Typed  BY DEF IndInv
<1>2. /\ card' \in [Cards -> FileType] /\ card'[slot] = f
      /\ \A c \in Cards \ {slot} : card'[c] = card[c]
  BY <1>1, ChangesFacts
<1>3. answer' = answer  BY DEF Changes
<1>4. \A p \in Places : Stored(f, p) = Nil  BY NothingStored
<1>5. Holds' = [Holds EXCEPT ![slot] = [p \in Places |-> Nil]]
  <2>1. PICK h : h = [Holds EXCEPT ![slot] = [p \in Places |-> Nil]]  OBVIOUS
  <2>2. h = [c \in Cards |-> IF c = slot THEN [p \in Places |-> Nil]
                                         ELSE [p \in Places |-> Stored(card[c], p)]]
    BY <2>1 DEF Holds
  <2>3. [p \in Places |-> Nil] = [p \in Places |-> Stored(card'[slot], p)]  BY <1>2, <1>4
  <2>4. \A c \in Cards : (IF c = slot THEN [p \in Places |-> Nil]
                                      ELSE [p \in Places |-> Stored(card[c], p)])
                           = [p \in Places |-> Stored(card'[c], p)]
    BY <1>2, <2>3
  <2>5. h = [c \in Cards |-> [p \in Places |-> Stored(card'[c], p)]]  BY <2>2, <2>4
  <2>6. QED  BY <2>1, <2>5 DEF Holds, Stored
<1>6. Readables' = Readables \ {slot}  BY <1>2 DEF Readables
<1>7. Promised!Wipe
  <2>1. UNCHANGED <<Savings, answer>>  BY <1>3 DEF Savings, Saving
  <2>2. QED
    BY <1>5, <1>6, <2>1 DEF Promised!Wipe, Promised!Empty, Holds, Readables, Savings
<1>8. QED  BY <1>7 DEF Step, Promised!Next

LEMMA Empties ==
  ASSUME IndInv, IndInv', Create \/ Delete \/ Format
  PROVE  Step
<1>1. /\ run.at = "calls" /\ run.calls # <<>> /\ attached
      /\ call \in {"create", "delete", "format"}
      /\ run' = Passed \/ \E r \in {"damaged", "failed"} : run' = Fails(r, Release)
  BY DEF Create, Delete, Format, Works, Calling
<1>2. Typed /\ SlotKept  BY DEF IndInv
<1>3. slot \in Cards /\ card[slot] \in FileType  BY <1>1, <1>2 DEF Typed, TypeOK, SlotKept
<1>4. run'.all = run.all
  <2>1. CASE run' = Passed  BY <1>1, <1>2, <2>1, PassedFacts
  <2>2. ASSUME NEW r \in {"damaged", "failed"}, run' = Fails(r, Release)
        PROVE  run'.all = run.all
    <3>1. r \in Statuses /\ Release \in {<<>>, Release}  BY <2>2 DEF Statuses
    <3>2. QED  BY <1>2, <2>2, <3>1, FailsFacts
  <2>3. QED  BY <1>1, <2>1, <2>2
<1>5. CASE Changes(card[slot])
  <2>1. card' = card /\ answer' = answer
    <3>1. DOMAIN card = Cards  BY <1>2 DEF Typed, TypeOK
    <3>2. card' = [card EXCEPT ![slot] = card[slot]] /\ answer' = answer  BY <1>5 DEF Changes
    <3>3. card \in [Cards -> FileType]  BY <1>2 DEF Typed
    <3>4. QED  BY <3>2, <3>3
  <2>2. QED  BY <2>1, GoesOn
<1>6. CASE Changes([NoFile EXCEPT !.file = TRUE])
  <2>1. PICK f : f = [NoFile EXCEPT !.file = TRUE]  OBVIOUS
  <2>2. f \in FileType /\ ~f.icon /\ \A s \in Sectors : f.sector[s] = Blank
    BY <2>1, BlankFiles DEF FileType
  <2>3. Changes(f)  BY <1>6, <2>1
  <2>4. QED  BY <1>3, <1>4, <2>2, <2>3, Wipes
<1>7. CASE Changes(NoFile)
  <2>1. NoFile \in FileType /\ ~NoFile.icon /\ \A s \in Sectors : NoFile.sector[s] = Blank
    BY BlankFiles
  <2>2. PICK f \in FileType : f = NoFile  BY <2>1
  <2>3. ~f.icon /\ (\A s \in Sectors : f.sector[s] = Blank) /\ Changes(f)  BY <1>7, <2>1, <2>2
  <2>4. QED  BY <1>3, <1>4, <2>3, Wipes
<1>8. QED  BY <1>5, <1>6, <1>7 DEF Create, Delete, Format

(* A call ends: it failed,                                                 *)
LEMMA EndsFailed ==
  ASSUME card' = card, run'.all = <<>>, answer' = [call |-> "failed"]
  PROVE  Step
<1>1. Savings' = {}  BY NothingToSave DEF Savings, Saving
<1>2. Holds' = Holds /\ Readables' = Readables  BY DEF Holds, Readables, Stored
<1>3. Promised!End
  BY <1>1, <1>2 DEF Promised!End, Promised!Fail, Promised!Failed, Holds, Readables, Savings
<1>4. QED  BY <1>3 DEF Step, Promised!Next

(* or has loaded what the card holds that it was read from,                *)
LEMMA EndsLoaded ==
  ASSUME IndInv, PromiseKept, run.at = "ended", run.result = "ok", job.kind = "load",
         card' = card, run'.all = <<>>,
         answer' = [call |-> "loaded", place |-> job.place, data |-> run.got]
  PROVE  Step
<1>1. Working /\ Typed /\ JobKept  BY DEF Working, IndInv
<1>2. op.kind = "load" /\ op = job /\ job \in OpType
  <2>1. op.kind = "load"  BY <1>1, OpOfJob
  <2>2. run.all \notin NewFiles  BY <1>1, <2>1, OpOfJob
  <2>3. QED  BY <1>1, <2>1, <2>2, OpOfJob, OpFacts
<1>3. run.got # Nil  BY <1>1, <1>2 DEF PromiseKept, ReadKept
<1>4. Content(card[run.from], job.place) = run.got  BY <1>1, <1>2, <1>3 DEF PromiseKept, GotKept
<1>5. run.from \in Cards
  <2>1. run.from # Nil  BY <1>3 DEF IndInv, LoadKept
  <2>2. run.from \in Cards \cup {Nil}  BY <1>1 DEF Typed, RunType
  <2>3. QED  BY <2>1, <2>2
<1>6. job.place \in Places  BY <1>2 DEF OpType
<1>7. PICK c \in Cards, p \in Places : c = run.from /\ p = job.place  BY <1>5, <1>6
<1>8. Promised!Content(c, p) = run.got  BY <1>4, <1>7 DEF Promised!Content, Content
<1>9. Promised!Load  BY <1>3, <1>7, <1>8 DEF Promised!Load, Promised!Loaded
<1>10. Savings' = {}  BY NothingToSave DEF Savings, Saving
<1>11. Holds' = Holds /\ Readables' = Readables  BY DEF Holds, Readables, Stored
<1>12. Promised!End  BY <1>9, <1>10, <1>11 DEF Promised!End, Holds, Readables, Savings
<1>13. QED  BY <1>12 DEF Step, Promised!Next

(* or all that was to be saved can be read.                                *)
LEMMA AllSaved ==
  ASSUME IndInv, PromiseKept, run.at = "ended", run.result = "ok", op.kind = "save",
         NEW i \in DOMAIN run.all
  PROVE  \E c \in Cards : Content(card[c], run.all[i].place) = run.all[i].data
<1>1. Working /\ Typed /\ JobKept /\ CallsKept  BY DEF Working, IndInv
<1>2. /\ run.all \in Jobs /\ op = run.all[Nth] /\ Nth \in 1 .. Len(run.all)
      /\ Len(run.ops) = Len(run.all) - Nth + 1
  BY <1>1, OpFacts
<1>3. run.all \in Seq(OpType) /\ Len(run.all) \in Nat  BY <1>2, JobFacts
<1>4. Len(run.ops) = 1  BY <1>1 DEF CallsKept
<1>5. Nth = Len(run.all) /\ i \in 1 .. Len(run.all)
  <2>1. PICK n, m : n = Nth /\ m = Len(run.all)  OBVIOUS
  <2>2. m \in Nat /\ n \in 1 .. m /\ 1 = m - n + 1  BY <1>2, <1>3, <1>4, <2>1
  <2>3. n = m  BY <2>2
  <2>4. QED  BY <1>3, <2>1, <2>3
<1>6. op.sum => Done(op)  BY <1>1 DEF PromiseKept, DoneKept
<1>7. CASE run.all \in Profiles
  <2>1. Len(run.all) = 1 /\ run.all[1].sum  BY <1>7, ProfileFacts
  <2>2. Nth = 1 /\ i = 1  BY <1>5, <2>1
  <2>3. QED  BY <1>2, <1>6, <2>1, <2>2 DEF Done
<1>8. CASE run.all \in NewFiles
  <2>1. /\ Len(run.all) = Regions + 2 /\ run.all[1].place = Settings
        /\ run.all[Regions + 2].place = Settings
        /\ \A j \in 1 .. Regions + 2 : run.all[j].data = run.all[1].data
        /\ \A j \in 2 .. Regions + 2 : run.all[j].sum
    BY <1>8, CreationFacts
  <2>2. Regions + 2 \in 2 .. Regions + 2 /\ Regions + 2 \in 1 .. Regions + 2 /\ 1 \in 1 .. Regions + 2
    OBVIOUS
  <2>3. \E c \in Cards : Content(card[c], Settings) = run.all[1].data
    BY <1>2, <1>5, <1>6, <2>1, <2>2 DEF Done
  <2>4. CASE i = 1 \/ i = Regions + 2  BY <2>1, <2>2, <2>3, <2>4
  <2>5. CASE i # 1 /\ i # Regions + 2
    <3>1. PICK n : n = Nth  OBVIOUS
    <3>2. n = Regions + 2 /\ i \in 1 .. Regions + 2  BY <1>5, <2>1, <3>1
    <3>3. i \in 1 .. n - 1 /\ i \in 2 .. Regions + 2  BY <2>5, <3>2
    <3>4. Done(run.all[i])  BY <1>1, <2>1, <3>1, <3>3 DEF PromiseKept, EarlierKept
    <3>5. QED  BY <3>4 DEF Done
  <2>6. QED  BY <2>4, <2>5
<1>9. run.all \in Profiles \cup NewFiles  BY <1>1, OpOfJob
<1>10. QED  BY <1>7, <1>8, <1>9

LEMMA EndsSaved ==
  ASSUME IndInv, PromiseKept, run.at = "ended", run.result = "ok", job.kind = "save",
         card' = card, run'.all = <<>>,
         answer' = [call |-> "saved", data |-> Saving(run.all)]
  PROVE  Step
<1>1. op.kind = "save"  BY OpOfJob DEF IndInv, Working
<1>2. ASSUME NEW w \in Saving(run.all)
      PROVE  \E c \in Cards : Promised!Content(c, w.place) = w.data
  <2>1. PICK i \in DOMAIN run.all : w = [place |-> run.all[i].place, data |-> run.all[i].data]
    BY <1>2 DEF Saving
  <2>2. w.place = run.all[i].place /\ w.data = run.all[i].data  BY <2>1
  <2>3. PICK c \in Cards : Content(card[c], w.place) = w.data  BY <1>1, <2>2, AllSaved
  <2>4. w.place \in Places
    <3>1. run.all \in Jobs \cup {<<>>}  BY DEF IndInv, Typed, RunType
    <3>2. QED  BY <1>2, <3>1, SavingTyped
  <2>5. Promised!Content(c, w.place) = w.data  BY <2>3, <2>4 DEF Promised!Content, Content
  <2>6. QED  BY <2>5
<1>3. Promised!Save  BY <1>2 DEF Promised!Save, Promised!Saved
<1>4. Savings' = {}  BY NothingToSave DEF Savings, Saving
<1>5. Holds' = Holds /\ Readables' = Readables  BY DEF Holds, Readables, Stored
<1>6. Promised!End  BY <1>3, <1>4, <1>5 DEF Promised!End, Holds, Readables, Savings
<1>7. QED  BY <1>6 DEF Step, Promised!Next

LEMMA Ended ==
  ASSUME IndInv, PromiseKept, IndInv', NotDeleted \/ Ends
  PROVE  Step
<1>1. run.at = "ended" /\ card' = card  BY DEF NotDeleted, Remedy, Ends, hardware
<1>2. /\ Working /\ Typed /\ JobKept /\ run \in RunType /\ job.kind = op.kind
  BY <1>1, EndedFacts
<1>3. \A w \in {"look", "polled"} : Back(w).all = <<>>  BY DEF Back, Idle
<1>4. Idle.all = <<>>  BY DEF Idle
<1>5. CASE \E w \in {"look", "polled"} : run' = Back(w)
           /\ run.result # "ok" /\ answer' = [call |-> "failed"]
  BY <1>1, <1>3, <1>5, EndsFailed
<1>6. CASE NotDeleted
  <2>1. run.result # "ok" /\ InsertionEnds("damaged")  BY <1>6 DEF NotDeleted
  <2>2. answer' = [call |-> "failed"]  BY <2>1 DEF InsertionEnds, Answer
  <2>3. QED  BY <1>5, <2>1, <2>2 DEF InsertionEnds
<1>7. CASE Insertion /\ InsertionEnds(run.result)
  <2>1. job.kind = "load" /\ job.place = Settings  BY <1>7 DEF Insertion
  <2>2. PICK w \in {"look", "polled"} : run' = Back(w)  BY <1>7 DEF InsertionEnds
  <2>3. CASE run.result # "ok"
    <3>1. answer' = [call |-> "failed"]  BY <1>7, <2>3 DEF InsertionEnds, Answer
    <3>2. QED  BY <1>5, <2>2, <2>3, <3>1
  <2>4. CASE run.result = "ok"
    <3>1. answer' = [call |-> "loaded", place |-> job.place, data |-> run.got]
      BY <1>7, <2>1, <2>4 DEF InsertionEnds, Answer
    <3>2. QED  BY <1>1, <1>3, <2>1, <2>2, <2>4, <3>1, EndsLoaded
  <2>5. QED  BY <2>3, <2>4
<1>8. CASE job.kind = "load" /\ LoadEnds
  <2>1. run'.all = <<>>  BY <1>4, <1>8 DEF LoadEnds
  <2>2. CASE run.result # "ok"
    <3>1. answer' = [call |-> "failed"]  BY <1>8, <2>2 DEF LoadEnds, Answer
    <3>2. QED  BY <1>1, <2>1, <3>1, EndsFailed
  <2>3. CASE run.result = "ok"
    <3>1. answer' = [call |-> "loaded", place |-> job.place, data |-> run.got]
      BY <1>8, <2>3 DEF LoadEnds, Answer
    <3>2. QED  BY <1>1, <1>8, <2>1, <2>3, <3>1, EndsLoaded
  <2>4. QED  BY <2>2, <2>3
<1>9. CASE job.kind = "save" /\ SaveEnds
  <2>1. run'.all = <<>>  BY <1>3, <1>4, <1>9 DEF SaveEnds
  <2>2. CASE run.result # "ok"
    <3>1. answer' = [call |-> "failed"]  BY <1>9, <2>2 DEF SaveEnds, Answer
    <3>2. QED  BY <1>1, <2>1, <3>1, EndsFailed
  <2>3. CASE run.result = "ok"
    <3>1. answer' = [call |-> "saved", data |-> Saving(run.all)]
      BY <1>9, <2>3 DEF SaveEnds, Answer
    <3>2. QED  BY <1>1, <1>9, <2>1, <2>3, <3>1, EndsSaved
  <2>4. QED  BY <2>2, <2>3
<1>10. CASE DeletionEnds \/ FormatEnds
  <2>1. answer' = answer  BY <1>10 DEF DeletionEnds, FormatEnds
  <2>2. QED  BY <1>1, <2>1, GoesOn
<1>11. Insertion \/ (job.kind = "load" /\ Region) \/ job.kind \in {"save", "delete", "format"}
  <2>1. op.kind \in {"save", "load", "delete", "format"}  BY <1>2, OpOfJob
  <2>2. QED  BY <1>2, <2>1 DEF Insertion, Region
<1>12. ASSUME Ends
       PROVE  \/ (Insertion /\ InsertionEnds(run.result)) \/ (job.kind = "load" /\ LoadEnds)
              \/ (job.kind = "save" /\ SaveEnds) \/ DeletionEnds \/ FormatEnds
  BY <1>11, <1>12 DEF Ends, Insertion
<1>13. QED  BY <1>6, <1>7, <1>8, <1>9, <1>10, <1>12

LEMMA StepsImplement ==
  ASSUME IndInv, PromiseKept, IndInv', [Next]_vars
  PROVE  Step
<1>1. CASE World
  <2>1. CASE TakeOut
    <3>1. card' = card /\ answer' = answer  BY <2>1 DEF TakeOut
    <3>2. QED  BY <3>1, GoesOn
  <2>2. CASE \E c \in Cards : PutIn(c)
    <3>1. card' = card /\ answer' = answer  BY <2>2 DEF PutIn
    <3>2. QED  BY <3>1, GoesOn
  <2>3. CASE PowerFails
    <3>1. card' = card /\ answer' = [call |-> "failed"] /\ run' = Idle  BY <2>3 DEF PowerFails
    <3>2. run'.all = <<>>  BY <3>1 DEF Idle
    <3>3. QED  BY <3>1, <3>2, EndsFailed
  <2>4. QED  BY <1>1, <2>1, <2>2, <2>3 DEF World
<1>2. CASE Game
  <2>1. card' = card /\ answer' \in {[call |-> "none"], answer}
    <3>1. ASSUME NEW then, Poll(then) PROVE card' = card /\ answer' = answer
      BY <3>1, PolledIdles
    <3>2. ASSUME NEW ops, Does(ops) PROVE card' = card /\ answer' = [call |-> "none"]
      BY <3>2 DEF Does, hardware
    <3>3. CASE \/ \E then \in {<<>>, <<"save">>, Remedies} : Look(then)
               \/ LookAgain
      BY <3>1, <3>3 DEF Look, LookAgain
    <3>4. CASE Inserted \/ OnlyRemoved \/ Nothing \/ Recreate
      BY <3>4 DEF Inserted, OnlyRemoved, Nothing, Recreate, hardware
    <3>5. CASE \/ \E v \in Versions : SaveProfile(v)
               \/ \E v \in Versions : \E p \in Places \ {Settings} : SaveRegion(p, v)
               \/ \E p \in Places \ {Settings} : LoadRegion(p)
      BY <3>2, <3>5 DEF SaveProfile, SaveRegion, LoadRegion
    <3>6. QED  BY <1>2, <3>3, <3>4, <3>5 DEF Game
  <2>2. QED  BY <2>1, GoesOn
<1>3. CASE Library
  <2>1. CASE Erase \/ Program  BY <2>1, Touches
  <2>2. CASE Status  BY <2>2, Shows
  <2>3. CASE Create \/ Delete \/ Format  BY <2>3, Empties
  <2>4. CASE MountCard \/ Notice \/ Open \/ Read \/ Check \/ Unmount \/ CallFails \/ CallsEnd
    <3>1. card' = card /\ answer' = answer
      BY <2>4 DEF MountCard, Notice, Open, Read, Check, Unmount, CallFails, CallsEnd, hardware
    <3>2. QED  BY <3>1, GoesOn
  <2>5. QED  BY <1>3, <2>1, <2>2, <2>3, <2>4 DEF Library
<1>4. CASE Player
  <2>1. CASE NotDeleted \/ Ends  BY <2>1, Ended
  <2>2. CASE \/ ConfirmFormat \/ CardChanged \/ FormatFailed \/ TryAgain
             \/ DoSomething \/ DidSomething
    <3>1. card' = card /\ answer' = answer
      BY <2>2 DEF ConfirmFormat, CardChanged, FormatFailed, TryAgain, DoSomething, DidSomething,
                  Goes, hardware
    <3>2. QED  BY <3>1, GoesOn
  <2>3. QED  BY <1>4, <2>1, <2>2 DEF Player
<1>5. CASE UNCHANGED vars
  <2>1. card' = card /\ answer' = answer  BY <1>5 DEF vars, hardware
  <2>2. QED  BY <2>1, GoesOn
<1>6. QED  BY <1>1, <1>2, <1>3, <1>4, <1>5 DEF Next

LEMMA StartImplements ==
  ASSUME Init
  PROVE  Promised!Init
<1>1. Typed  BY Start DEF IndInv
<1>2. \A c \in Cards, p \in Places : Stored(card[c], p) \in Data \cup {Nil}
  <2>1. card \in [Cards -> FileType]  BY <1>1 DEF Typed
  <2>2. QED  BY <2>1, StoredIs
<1>3. Holds \in [Cards -> [Places -> Data \cup {Nil}]]  BY <1>2 DEF Holds
<1>4. Readables \subseteq Cards  BY DEF Readables
<1>5. Savings = {}
  <2>1. run.all = <<>>  BY DEF Init, Idle
  <2>2. QED  BY <2>1, NothingToSave DEF Savings
<1>6. answer = [call |-> "none"]  BY DEF Init
<1>7. QED
  BY <1>3, <1>4, <1>5, <1>6 DEF Promised!Init, Promised!None, Holds, Readables, Savings

(* What a place of a card's file holds changes only while something is     *)
(* being saved there; what the functions call saved can be read from a     *)
(* card, and what they call loaded was there, whichever card is taken out, *)
(* call fails or try is repeated between.                                  *)
THEOREM CardsImplementStore == Spec => CardStoreSpec
<1>1. Init => Promised!Init  BY StartImplements
<1>2. IndInv /\ PromiseKept /\ IndInv' /\ [Next]_vars
        => [Promised!Next]_<<Holds, Readables, Savings, answer>>
  BY StepsImplement DEF Step
<1>3. QED
  BY <1>1, <1>2, CardsInvariant, PromisesInvariant, PTL
  DEF Spec, CardStoreSpec, Promised!Spec, Promised!vars, Holds, Readables, Savings
=============================================================================
