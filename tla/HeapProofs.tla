---------------------------- MODULE HeapProofs ----------------------------
(***************************************************************************)
(* The heap, for memory of any size and any requests: as long as its start *)
(* is not handed out every unit is in one block, free always comes to an   *)
(* end, and a request is refused only without room.                        *)
(***************************************************************************)
EXTENDS Heap, FiniteSetTheorems, SequenceTheorems, NaturalsInduction, WellFoundedInduction, TLAPS

\* A set of numbers has a least one.
LEMMA LeastNumber ==
    ASSUME NEW S \in SUBSET Nat, S # {}
    PROVE  \E x \in S : \A y \in S : x <= y
<1> DEFINE R == {x \in Nat \X Nat : x[1] < x[2]}
<1>1. IsWellFoundedOn(R, Nat)
  BY NatLessThanWellFounded DEF OpToRel
<1>2. PICK x \in S : \A y \in S : ~ (<<y, x>> \in R)
  <2> HIDE DEF R
  <2> QED BY <1>1, WFMin
<1>3. \A y \in S : x <= y
  <2> TAKE y \in S
  <2>1. <<y, x>> \in Nat \X Nat /\ ~ (<<y, x>>[1] < <<y, x>>[2])
    BY <1>2
  <2> QED BY <2>1
<1> QED BY <1>3

-----------------------------------------------------------------------------
(***************************************************************************)
(* Rings.  The block behind the k-th, and the addresses between two.       *)
(***************************************************************************)
Behind(s, k) == s[IF k = Len(s) THEN 1 ELSE k + 1]
Between(a, x, b) == (x > a /\ x < b) \/ (a >= b /\ (x > a \/ x < b))

\* The blocks of a ring come in the order of their addresses, each once.
InOrder(s) ==
    /\ Len(s) # 0
    /\ \A k, j \in 1 .. Len(s) : s[k] = s[j] => k = j
    /\ \A k, j \in 1 .. Len(s) : ~ Between(s[k], s[j], Behind(s, k))

Members(s) == {s[k] : k \in 1 .. Len(s)}

LEMMA UnitsFacts ==
    /\ Units \subseteq Nat /\ Base \in Units
    /\ \A u \in Units : 1 <= u /\ u <= Arena
    /\ \A u \in Nat : 1 <= u /\ u <= Arena => u \in Units
BY HeapAssumption DEF Units, Base

LEMMA RotateElements ==
    ASSUME NEW s \in Seq(Units), NEW k \in 1 .. Len(s),
           NEW t, t = SubSeq(s, k, Len(s)) \o SubSeq(s, 1, k - 1)
    PROVE  /\ t \in Seq(Units) /\ Len(t) = Len(s)
           /\ \A i \in 1 .. Len(s) - k + 1 : t[i] = s[i + k - 1]
           /\ \A i \in Len(s) - k + 2 .. Len(s) : t[i] = s[i - (Len(s) - k + 1)]
<1>1. Len(s) \in Nat /\ k \in Nat /\ 1 <= k /\ k <= Len(s)
  OBVIOUS
<1>2. PICK a, b : a = SubSeq(s, k, Len(s)) /\ b = SubSeq(s, 1, k - 1)
  OBVIOUS
<1>3. /\ a \in Seq(Units) /\ Len(a) = Len(s) - k + 1
      /\ \A i \in 1 .. Len(s) - k + 1 : a[i] = s[i + k - 1]
  BY <1>1, <1>2
<1>4. /\ b \in Seq(Units) /\ Len(b) = k - 1
      /\ \A i \in 1 .. k - 1 : b[i] = s[i]
  BY <1>1, <1>2
<1>5. t = a \o b /\ t \in Seq(Units) /\ Len(t) = Len(s)
  BY <1>1, <1>2, <1>3, <1>4
<1>6. \A i \in 1 .. Len(a) + Len(b) : t[i] = IF i <= Len(a) THEN a[i] ELSE b[i - Len(a)]
  BY <1>3, <1>4, <1>5
<1>7. ASSUME NEW i \in 1 .. Len(s) - k + 1 PROVE t[i] = s[i + k - 1]
  BY <1>1, <1>3, <1>4, <1>6
<1>8. ASSUME NEW i \in Len(s) - k + 2 .. Len(s) PROVE t[i] = s[i - (Len(s) - k + 1)]
  <2>1. i - Len(a) \in 1 .. k - 1 /\ i \in 1 .. Len(a) + Len(b) /\ ~ (i <= Len(a))
    BY <1>1, <1>3, <1>4
  <2> QED BY <1>3, <1>4, <1>6, <2>1
<1> QED BY <1>5, <1>7, <1>8

\* A ring is the same from whichever block on.
LEMMA RotateRing ==
    ASSUME NEW s \in Seq(Units), NEW k \in 1 .. Len(s), InOrder(s),
           NEW t \in Seq(Units), Len(t) = Len(s),
           \A i \in 1 .. Len(s) - k + 1 : t[i] = s[i + k - 1],
           \A i \in Len(s) - k + 2 .. Len(s) : t[i] = s[i - (Len(s) - k + 1)]
    PROVE  /\ InOrder(t) /\ Members(t) = Members(s)
           /\ t[1] = s[k]
           /\ Behind(t, 1) = Behind(s, k)
           /\ Len(s) > 1 => t[2] = Behind(s, k)
<1> DEFINE L == Len(s)
           At(i) == IF i <= L - k + 1 THEN i + k - 1 ELSE i - (L - k + 1)
           Back(j) == IF j >= k THEN j - k + 1 ELSE j + (L - k + 1)
<1>1. L \in Nat /\ k \in Nat /\ 1 <= k /\ k <= L
  OBVIOUS
<1>2. Len(t) = L
  OBVIOUS
<1>3. \A i \in 1 .. L : At(i) \in 1 .. L /\ t[i] = s[At(i)]
  <2> TAKE i \in 1 .. L
  <2>1. CASE i <= L - k + 1
    BY <1>1, <1>2, <2>1
  <2>2. CASE ~ (i <= L - k + 1)
    BY <1>1, <1>2, <2>2
  <2> QED BY <2>1, <2>2
<1>4. \A j \in 1 .. L : Back(j) \in 1 .. L /\ At(Back(j)) = j
  BY <1>1
<1>5. \A i, j \in 1 .. L : At(i) = At(j) => i = j
  BY <1>1
<1>6. \A i \in 1 .. L : Behind(t, i) = Behind(s, At(i))
  <2> TAKE i \in 1 .. L
  <2>1. PICK n \in 1 .. L : n = IF i = L THEN 1 ELSE i + 1
    BY <1>1
  <2>2. At(n) = IF At(i) = L THEN 1 ELSE At(i) + 1
    <3>1. CASE i < L - k + 1
      BY <1>1, <2>1, <3>1
    <3>2. CASE i = L - k + 1
      BY <1>1, <2>1, <3>2
    <3>3. CASE i > L - k + 1
      BY <1>1, <2>1, <3>3
    <3>4. i < L - k + 1 \/ i = L - k + 1 \/ i > L - k + 1
      BY <1>1
    <3> HIDE DEF At
    <3> QED BY <3>1, <3>2, <3>3, <3>4
  <2>3. Behind(t, i) = t[n]
    BY <1>2, <2>1 DEF Behind
  <2>4. t[n] = s[At(n)]
    BY <1>3
  <2> HIDE DEF At
  <2> QED BY <2>2, <2>3, <2>4 DEF Behind
<1>7. At(1) = k
  BY <1>1
<1> HIDE DEF At, Back
<1>8. 1 \in 1 .. L
  BY <1>1
<1>9. \A i, j \in 1 .. L : t[i] = t[j] => i = j
  <2> TAKE i, j \in 1 .. L
  <2>1. At(i) \in 1 .. L /\ At(j) \in 1 .. L /\ t[i] = s[At(i)] /\ t[j] = s[At(j)]
    BY <1>3
  <2> QED BY <1>5, <2>1 DEF InOrder
<1>10. \A i, j \in 1 .. L : ~ Between(t[i], t[j], Behind(t, i))
  <2> TAKE i, j \in 1 .. L
  <2>1. At(i) \in 1 .. L /\ At(j) \in 1 .. L /\ t[i] = s[At(i)] /\ t[j] = s[At(j)]
        /\ Behind(t, i) = Behind(s, At(i))
    BY <1>3, <1>6
  <2> QED BY <2>1 DEF InOrder
<1>11. Members(t) = Members(s)
  <2>1. \A i \in 1 .. L : t[i] \in Members(s)
    BY <1>3 DEF Members
  <2>2. \A j \in 1 .. L : s[j] = t[Back(j)] /\ Back(j) \in 1 .. L
    BY <1>3, <1>4
  <2> QED BY <1>2, <2>1, <2>2 DEF Members
<1>12. InOrder(t)
  BY <1>1, <1>2, <1>9, <1>10 DEF InOrder
<1>13. t[1] = s[k] /\ Behind(t, 1) = Behind(s, k)
  BY <1>3, <1>6, <1>7, <1>8
<1>14. L > 1 => t[2] = Behind(s, k)
  BY <1>1, <1>2, <1>13 DEF Behind
<1> QED BY <1>2, <1>11, <1>12, <1>13, <1>14

LEMMA RingElements ==
    ASSUME NEW s \in Seq(Units), InOrder(s)
    PROVE  /\ Len(s) \in Nat /\ Len(s) >= 1
           /\ \A i \in 1 .. Len(s) : /\ s[i] \in Units /\ s[i] \in Nat
                                     /\ Behind(s, i) \in Nat
                                     /\ \E j \in 1 .. Len(s) : Behind(s, i) = s[j]
<1>1. Len(s) \in Nat /\ Len(s) >= 1
  BY DEF InOrder
<1>2. \A i \in 1 .. Len(s) : s[i] \in Units
  BY <1>1
<1>3. \A i \in 1 .. Len(s) : s[i] \in Nat
  BY <1>2, UnitsFacts
<1>4. \A i \in 1 .. Len(s) : \E j \in 1 .. Len(s) : Behind(s, i) = s[j]
  BY <1>1 DEF Behind
<1> QED BY <1>1, <1>2, <1>3, <1>4

\* Arithmetic of rings.
LEMMA BetweenJoin ==
    ASSUME NEW a \in Nat, NEW b \in Nat, NEW c \in Nat, NEW x \in Nat, a # b, x # b,
           ~ Between(a, x, b), ~ Between(b, x, c), ~ Between(a, c, b), ~ Between(b, a, c)
    PROVE  ~ Between(a, x, c)
BY DEF Between

LEMMA BetweenSplit ==
    ASSUME NEW a \in Nat, NEW b \in Nat, NEW x \in Nat, NEW y \in Nat,
           Between(a, x, b), ~ Between(a, y, b)
    PROVE  ~ Between(a, y, x) /\ ~ Between(x, y, b)
BY DEF Between

LEMMA BetweenSelf ==
    ASSUME NEW a \in Nat, NEW x \in Nat
    PROVE  ~ Between(a, x, x) /\ ~ Between(x, x, a)
BY DEF Between

LEMMA BetweenOther ==
    ASSUME NEW a \in Nat, NEW b \in Nat, NEW x \in Nat, NEW c \in Nat, NEW d \in Nat, a # c,
           Between(a, x, b), ~ Between(a, c, b), ~ Between(a, d, b), ~ Between(c, a, d)
    PROVE  ~ Between(c, x, d)
BY DEF Between

\* Unlinking the second block.
LEMMA UnlinkElements ==
    ASSUME NEW s \in Seq(Units), Len(s) > 1
    PROVE  /\ Unlink(s) \in Seq(Units) /\ Len(Unlink(s)) = Len(s) - 1
           /\ Unlink(s)[1] = s[1]
           /\ \A i \in 2 .. Len(s) - 1 : Unlink(s)[i] = s[i + 1]
<1>1. Len(s) \in Nat
  OBVIOUS
<1>2. PICK t : t = Tail(Tail(s))
  OBVIOUS
<1>3. Tail(s) \in Seq(Units) /\ Len(Tail(s)) = Len(s) - 1
      /\ \A i \in 1 .. Len(s) - 1 : Tail(s)[i] = s[i + 1]
  BY <1>1
<1>4. t \in Seq(Units) /\ Len(t) = Len(s) - 2
      /\ \A i \in 1 .. Len(s) - 2 : t[i] = s[i + 2]
  <2>1. PICK q \in Seq(Units) : q = Tail(s)
    BY <1>3
  <2>2. t = Tail(q) /\ Len(q) = Len(s) - 1 /\ \A i \in 1 .. Len(s) - 1 : q[i] = s[i + 1]
    BY <1>2, <1>3, <2>1
  <2>3. Tail(q) \in Seq(Units) /\ Len(Tail(q)) = Len(q) - 1
        /\ \A i \in 1 .. Len(q) - 1 : Tail(q)[i] = q[i + 1]
    BY <1>1, <2>1, <2>2
  <2> QED BY <1>1, <2>2, <2>3
<1>5. Head(s) = s[1] /\ s[1] \in Units
  BY <1>1
<1>6. Unlink(s) = <<s[1]>> \o t
  BY <1>2, <1>5 DEF Unlink
<1>7. PICK h \in Seq(Units) : h = <<s[1]>> /\ Len(h) = 1 /\ h[1] = s[1]
  <2>1. <<s[1]>> \in Seq(Units)
    BY <1>5
  <2> QED BY <2>1
<1>8. Unlink(s) \in Seq(Units) /\ Len(Unlink(s)) = 1 + Len(t)
      /\ \A i \in 1 .. 1 + Len(t) : Unlink(s)[i] = IF i <= 1 THEN h[i] ELSE t[i - 1]
  BY <1>4, <1>6, <1>7
<1>9. Len(Unlink(s)) = Len(s) - 1 /\ Unlink(s)[1] = s[1]
  BY <1>1, <1>4, <1>7, <1>8
<1>10. ASSUME NEW i \in 2 .. Len(s) - 1 PROVE Unlink(s)[i] = s[i + 1]
  <2>1. i \in 1 .. 1 + Len(t) /\ i - 1 \in 1 .. Len(s) - 2 /\ ~ (i <= 1) /\ (i - 1) + 2 = i + 1
    BY <1>1, <1>4
  <2> QED BY <1>4, <1>8, <2>1
<1> QED BY <1>8, <1>9, <1>10

LEMMA UnlinkRing ==
    ASSUME NEW s \in Seq(Units), Len(s) > 1, InOrder(s),
           NEW u \in Seq(Units), Len(u) = Len(s) - 1, u[1] = s[1],
           \A i \in 2 .. Len(s) - 1 : u[i] = s[i + 1]
    PROVE  /\ InOrder(u) /\ Members(u) = Members(s) \ {s[2]}
           /\ Behind(u, 1) = Behind(s, 2)
<1> DEFINE L == Len(s)
           At(i) == IF i = 1 THEN 1 ELSE i + 1
<1>1. L \in Nat /\ L > 1 /\ Len(u) = L - 1
  OBVIOUS
<1>2. \A i \in 1 .. L - 1 : At(i) \in 1 .. L /\ At(i) # 2 /\ u[i] = s[At(i)]
  <2> TAKE i \in 1 .. L - 1
  <2>1. CASE i = 1
    BY <1>1, <2>1
  <2>2. CASE i # 1
    BY <1>1, <2>2
  <2> QED BY <2>1, <2>2
<1>3. \A i, j \in 1 .. L - 1 : At(i) = At(j) => i = j
  BY <1>1
<1>4. Behind(u, 1) = Behind(s, 2)
  <2>1. CASE L = 2
    BY <1>1, <2>1 DEF Behind
  <2>2. CASE L # 2
    BY <1>1, <2>2 DEF Behind
  <2> QED BY <2>1, <2>2
<1>5. \A i \in 2 .. L - 1 : Behind(u, i) = Behind(s, i + 1)
  <2> TAKE i \in 2 .. L - 1
  <2>1. CASE i = L - 1
    BY <1>1, <2>1 DEF Behind
  <2>2. CASE i # L - 1
    <3>1. i + 1 \in 2 .. L - 1 /\ i + 1 # L
      BY <1>1, <2>2
    <3>2. Behind(u, i) = u[i + 1] /\ Behind(s, i + 1) = s[(i + 1) + 1]
      BY <1>1, <2>2, <3>1 DEF Behind
    <3> QED BY <3>1, <3>2
  <2> QED BY <2>1, <2>2
<1>6. \A i \in 1 .. L : s[i] \in Nat /\ Behind(s, i) \in Nat
                        /\ \E j \in 1 .. L : Behind(s, i) = s[j]
  BY RingElements
<1>7. 1 \in 1 .. L /\ 2 \in 1 .. L /\ Behind(s, 1) = s[2]
  BY <1>1 DEF Behind
<1>8. s[1] # s[2]
  BY <1>7 DEF InOrder
<1>9. ASSUME NEW i \in 1 .. L - 1, NEW j \in 1 .. L - 1
      PROVE  ~ Between(u[i], u[j], Behind(u, i))
  <2>1. At(i) \in 1 .. L /\ u[i] = s[At(i)] /\ At(j) \in 1 .. L /\ At(j) # 2 /\ u[j] = s[At(j)]
    BY <1>2
  <2>2. PICK n \in 1 .. L : n = At(j)
    BY <2>1
  <2>3. n # 2 /\ u[j] = s[n]
    BY <2>1, <2>2
  <2>4. CASE i = 1
    <3>1. s[n] # s[2]
      BY <1>7, <2>3 DEF InOrder
    <3>2. ~ Between(s[1], s[n], s[2]) /\ ~ Between(s[2], s[n], Behind(s, 2))
          /\ ~ Between(s[1], Behind(s, 2), s[2]) /\ ~ Between(s[2], s[1], Behind(s, 2))
      <4>1. PICK m \in 1 .. L : Behind(s, 2) = s[m]
        BY <1>6, <1>7
      <4> QED BY <1>7, <4>1 DEF InOrder
    <3>3. s[1] \in Nat /\ s[2] \in Nat /\ s[n] \in Nat /\ Behind(s, 2) \in Nat
      BY <1>6, <1>7
    <3>4. ~ Between(s[1], s[n], Behind(s, 2))
      BY <1>8, <3>1, <3>2, <3>3, BetweenJoin
    <3> QED BY <1>4, <2>3, <2>4, <3>4
  <2>5. CASE i # 1
    <3>1. i \in 2 .. L - 1 /\ i + 1 \in 1 .. L
      BY <1>1, <2>5
    <3>2. u[i] = s[i + 1] /\ Behind(u, i) = Behind(s, i + 1)
      BY <1>5, <3>1
    <3> QED BY <2>3, <3>1, <3>2 DEF InOrder
  <2> QED BY <2>4, <2>5
<1>10. \A i, j \in 1 .. L - 1 : u[i] = u[j] => i = j
  <2> TAKE i, j \in 1 .. L - 1
  <2>1. At(i) \in 1 .. L /\ u[i] = s[At(i)] /\ At(j) \in 1 .. L /\ u[j] = s[At(j)]
    BY <1>2
  <2> HIDE DEF At
  <2> QED BY <1>3, <2>1 DEF InOrder
<1>11. InOrder(u)
  BY <1>1, <1>9, <1>10 DEF InOrder
<1>12. Members(u) = Members(s) \ {s[2]}
  <2>1. ASSUME NEW i \in 1 .. L - 1 PROVE u[i] \in Members(s) \ {s[2]}
    <3>1. At(i) \in 1 .. L /\ At(i) # 2 /\ u[i] = s[At(i)]
      BY <1>2
    <3> HIDE DEF At
    <3> QED BY <1>7, <3>1 DEF InOrder, Members
  <2>2. ASSUME NEW j \in 1 .. L, s[j] # s[2] PROVE s[j] \in Members(u)
    <3>1. CASE j = 1
      BY <1>1, <3>1 DEF Members
    <3>2. CASE j # 1
      <4>1. j # 2
        BY <2>2
      <4>2. j - 1 \in 2 .. L - 1 /\ j - 1 \in 1 .. L - 1 /\ (j - 1) + 1 = j
        BY <1>1, <3>2, <4>1
      <4>3. u[j - 1] = s[j]
        BY <4>2
      <4> QED BY <1>1, <4>2, <4>3 DEF Members
    <3> QED BY <3>1, <3>2
  <2>3. Members(u) \subseteq Members(s) \ {s[2]}
    <3> HIDE DEF L
    <3> QED BY <1>1, <2>1 DEF Members
  <2>4. ASSUME NEW x \in Members(s), x # s[2] PROVE x \in Members(u)
    <3>1. PICK j \in 1 .. L : x = s[j]
      BY DEF Members
    <3> QED BY <2>2, <2>4, <3>1
  <2> QED BY <2>3, <2>4
<1> QED BY <1>4, <1>11, <1>12

\* Linking a block in behind the first.
Linked(s, x, u) ==
    /\ Len(u) = Len(s) + 1 /\ u[1] = s[1] /\ u[2] = x
    /\ \A i \in 3 .. Len(s) + 1 : u[i] = s[i - 1]

LEMMA LinkElements ==
    ASSUME NEW s \in Seq(Units), Len(s) # 0, NEW x \in Units,
           NEW u, u = <<s[1], x>> \o Tail(s)
    PROVE  u \in Seq(Units) /\ Linked(s, x, u)
<1>1. Len(s) \in Nat /\ Len(s) >= 1
  OBVIOUS
<1>2. s[1] \in Units
  BY <1>1
<1>3. PICK h \in Seq(Units) : h = <<s[1], x>> /\ Len(h) = 2 /\ h[1] = s[1] /\ h[2] = x
  <2>1. <<s[1], x>> \in Seq(Units)
    BY <1>2
  <2> QED BY <2>1
<1>4. PICK t \in Seq(Units) : t = Tail(s) /\ Len(t) = Len(s) - 1
                              /\ \A i \in 1 .. Len(s) - 1 : t[i] = s[i + 1]
  <2>1. Tail(s) \in Seq(Units) /\ Len(Tail(s)) = Len(s) - 1
        /\ \A i \in 1 .. Len(s) - 1 : Tail(s)[i] = s[i + 1]
    BY <1>1
  <2> QED BY <2>1
<1>5. u \in Seq(Units) /\ Len(u) = 2 + Len(t)
      /\ \A i \in 1 .. 2 + Len(t) : u[i] = IF i <= 2 THEN h[i] ELSE t[i - 2]
  BY <1>3, <1>4
<1>6. Len(u) = Len(s) + 1 /\ u[1] = s[1] /\ u[2] = x
  BY <1>1, <1>3, <1>4, <1>5
<1>7. ASSUME NEW i \in 3 .. Len(s) + 1 PROVE u[i] = s[i - 1]
  <2>1. i \in 1 .. 2 + Len(t) /\ i - 2 \in 1 .. Len(s) - 1 /\ ~ (i <= 2) /\ (i - 2) + 1 = i - 1
    BY <1>1, <1>4
  <2> QED BY <1>4, <1>5, <2>1
<1> QED BY <1>5, <1>6, <1>7 DEF Linked

LEMMA LinkRing ==
    ASSUME NEW s \in Seq(Units), InOrder(s), NEW x \in Units, x \notin Members(s),
           Between(s[1], x, Behind(s, 1)), NEW u \in Seq(Units), Linked(s, x, u)
    PROVE  InOrder(u) /\ Members(u) = Members(s) \cup {x}
<1> DEFINE L == Len(s)
<1>1. L \in Nat /\ L >= 1 /\ Len(u) = L + 1 /\ 1 \in 1 .. L /\ u[1] = s[1] /\ u[2] = x
  BY RingElements DEF Linked
<1>2. \A i \in 1 .. L + 1 : i = 1 \/ i = 2 \/ (i \in 3 .. L + 1 /\ i - 1 \in 1 .. L /\ i - 1 # 1)
  BY <1>1
<1>3. Behind(u, 1) = x
  BY <1>1 DEF Behind
<1>4. Behind(u, 2) = Behind(s, 1)
  <2>1. CASE L = 1
    BY <1>1, <2>1 DEF Behind
  <2>2. CASE L # 1
    <3>1. 3 \in 3 .. L + 1 /\ Len(u) # 2 /\ 3 - 1 = 2 /\ 2 + 1 = 3 /\ 1 + 1 = 2
      <4>0. PICK n \in Nat : n = L /\ n >= 1 /\ Len(u) = n + 1
        BY <1>1
      <4>1. n # 1
        BY <2>2, <4>0
      <4>2. 3 \in 3 .. n + 1 /\ n + 1 # 2 /\ 3 - 1 = 2 /\ 2 + 1 = 3 /\ 1 + 1 = 2
        BY <4>0, <4>1
      <4> QED BY <4>0, <4>2
    <3>2. u[3] = s[3 - 1]
      BY <3>1 DEF Linked
    <3>3. Behind(u, 2) = u[2 + 1]
      BY <3>1, Zenon DEF Behind
    <3>4. Behind(s, 1) = s[1 + 1]
      BY <2>2, Zenon DEF Behind
    <3> QED BY <3>1, <3>2, <3>3, <3>4
  <2> QED BY <2>1, <2>2
<1>5. \A i \in 3 .. L + 1 : u[i] = s[i - 1] /\ Behind(u, i) = Behind(s, i - 1)
  <2> TAKE i \in 3 .. L + 1
  <2>0. u[i] = s[i - 1]
    BY DEF Linked
  <2>1. CASE i = L + 1
    BY <1>1, <2>0, <2>1 DEF Behind
  <2>2. CASE i # L + 1
    <3>1. i + 1 \in 3 .. L + 1 /\ i - 1 # L /\ (i + 1) - 1 = (i - 1) + 1
      BY <1>1, <2>2
    <3>2. Behind(u, i) = u[i + 1] /\ Behind(s, i - 1) = s[(i - 1) + 1]
      BY <1>1, <2>2, <3>1 DEF Behind
    <3>3. u[i + 1] = s[(i + 1) - 1]
      BY <3>1 DEF Linked
    <3> QED BY <2>0, <3>1, <3>2, <3>3
  <2> QED BY <2>1, <2>2
<1>6. \A i \in 1 .. L : s[i] \in Nat /\ Behind(s, i) \in Nat /\ s[i] # x
                        /\ \E j \in 1 .. L : Behind(s, i) = s[j]
  <2>1. \A i \in 1 .. L : s[i] # x
    BY DEF Members
  <2> QED BY <2>1, RingElements
<1>7. x \in Nat /\ s[1] \in Nat /\ Behind(s, 1) \in Nat
  BY <1>1, <1>6, UnitsFacts
<1>8. ASSUME NEW i \in 1 .. L + 1, NEW j \in 1 .. L + 1
      PROVE  ~ Between(u[i], u[j], Behind(u, i))
  <2>1. u[j] = x \/ \E n \in 1 .. L : u[j] = s[n]
    BY <1>1, <1>2, <1>5
  <2>2. CASE i = 1
    <3>1. ~ Between(s[1], x, x)
      BY <1>7, BetweenSelf
    <3>2. \A n \in 1 .. L : ~ Between(s[1], s[n], x)
      <4> TAKE n \in 1 .. L
      <4>1. s[n] \in Nat /\ ~ Between(s[1], s[n], Behind(s, 1))
        BY <1>1, <1>6 DEF InOrder
      <4> QED BY <1>7, <4>1, BetweenSplit
    <3> QED BY <1>1, <1>3, <2>1, <2>2, <3>1, <3>2
  <2>3. CASE i = 2
    <3>1. ~ Between(x, x, Behind(s, 1))
      <4>1. \A i1 \in 1 .. L : Behind(s, 1) = s[i1] => s[i1] # x
        BY <1>6
      <4>2. Behind(s, 1) # x
        BY <1>1, <1>6, <4>1
      <4> QED BY <1>7, <4>2, BetweenSelf
    <3>2. \A n \in 1 .. L : ~ Between(x, s[n], Behind(s, 1))
      <4> TAKE n \in 1 .. L
      <4>1. s[n] \in Nat /\ ~ Between(s[1], s[n], Behind(s, 1))
        BY <1>1, <1>6 DEF InOrder
      <4> QED BY <1>7, <4>1, BetweenSplit
    <3> QED BY <1>1, <1>4, <2>1, <2>3, <3>1, <3>2
  <2>4. CASE i \in 3 .. L + 1
    <3>1. PICK m \in 1 .. L : m = i - 1 /\ m # 1
      BY <1>1, <2>4
    <3>2. u[i] = s[m] /\ Behind(u, i) = Behind(s, m)
      BY <1>5, <2>4, <3>1
    <3>3. \A n \in 1 .. L : ~ Between(s[m], s[n], Behind(s, m))
      BY <3>1 DEF InOrder
    <3>4. ~ Between(s[m], x, Behind(s, m))
      <4>1. PICK d \in 1 .. L : Behind(s, m) = s[d]
        BY <1>6
      <4>2. s[1] # s[m]
        BY <1>1, <3>1 DEF InOrder
      <4>3. ~ Between(s[1], s[m], Behind(s, 1)) /\ ~ Between(s[1], s[d], Behind(s, 1))
            /\ ~ Between(s[m], s[1], s[d])
        BY <1>1, <4>1 DEF InOrder
      <4>4. s[1] \in Nat /\ s[m] \in Nat /\ s[d] \in Nat /\ Behind(s, 1) \in Nat
        BY <1>1, <1>6
      <4>5. ~ Between(s[m], x, s[d])
        BY <1>7, <4>2, <4>3, <4>4, BetweenOther
      <4> QED BY <4>1, <4>5
    <3> QED BY <2>1, <3>2, <3>3, <3>4
  <2> QED BY <1>2, <2>2, <2>3, <2>4
<1>9. ASSUME NEW i \in 1 .. L + 1, NEW j \in 1 .. L + 1, u[i] = u[j] PROVE i = j
  <2>1. \A n \in 3 .. L + 1 : n - 1 \in 1 .. L /\ n - 1 # 1 /\ u[n] = s[n - 1]
    BY <1>1, <1>5
  <2>2. \A n \in 3 .. L + 1 : u[n] # s[1] /\ u[n] # x
    <3> TAKE n \in 3 .. L + 1
    <3>1. PICK m \in 1 .. L : m # 1 /\ u[n] = s[m]
      BY <2>1
    <3> QED BY <1>1, <1>6, <3>1 DEF InOrder
  <2>3. u[1] # x
    BY <1>1, <1>6
  <2>4. CASE i \in 3 .. L + 1 /\ j \in 3 .. L + 1
    <3>1. i - 1 = j - 1
      BY <1>9, <2>1, <2>4 DEF InOrder
    <3> QED BY <3>1
  <2> QED BY <1>1, <1>2, <1>9, <2>2, <2>3, <2>4
<1>10. InOrder(u)
  BY <1>1, <1>8, <1>9 DEF InOrder
<1>11. Members(u) \subseteq Members(s) \cup {x}
  <2>1. \A i \in 1 .. L + 1 : u[i] = x \/ \E n \in 1 .. L : u[i] = s[n]
    BY <1>1, <1>2, <1>5
  <2> QED BY <1>1, <2>1 DEF Members
<1>12. ASSUME NEW j \in 1 .. L PROVE s[j] \in Members(u)
  <2>1. CASE j = 1
    BY <1>1, <2>1 DEF Members
  <2>2. CASE j # 1
    <3>1. j + 1 \in 3 .. L + 1 /\ j + 1 \in 1 .. L + 1 /\ (j + 1) - 1 = j
      BY <1>1, <2>2
    <3>2. u[j + 1] = s[j]
      BY <1>5, <3>1
    <3> QED BY <1>1, <3>1, <3>2 DEF Members
  <2> QED BY <2>1, <2>2
<1>13. x \in Members(u)
  <2>1. 2 \in 1 .. L + 1
    BY <1>1
  <2> QED BY <1>1, <2>1 DEF Members
<1>14. Members(s) \subseteq Members(u)
  BY <1>12 DEF Members
<1> QED BY <1>10, <1>11, <1>13, <1>14

-----------------------------------------------------------------------------
(***************************************************************************)
(* The invariant.                                                          *)
(***************************************************************************)
Free == Members(ring)

HeapTypes ==
    /\ ring \in Seq(Units) /\ InOrder(ring)
    /\ size \in [Units -> Nat]
    /\ blocks \in SUBSET Units

\* No block is empty or longer than the memory.
Fits == \A b \in blocks \cup Free : size[b] >= 1 /\ b + size[b] <= Arena + 1

\* Free blocks never stay side by side.
NoNeighbours == \A f, g \in Free : f + size[f] # g

\* The blocks of A fill the memory one behind the other.
Layout(A, sz) ==
    /\ \A a, b \in A : a < b => a + sz[a] <= b
    /\ \A u \in Units : \E a \in A : a <= u /\ u < a + sz[a]
Laid == blocks \cap Free = {} /\ Layout(blocks \cup Free, size)

HeapInv ==
    /\ HeapTypes /\ Fits /\ NoNeighbours
    /\ ~ bottom => Base \notin blocks /\ Laid

-----------------------------------------------------------------------------
LEMMA FreeFacts ==
    ASSUME HeapTypes
    PROVE  /\ Len(ring) \in Nat /\ Len(ring) >= 1 /\ DOMAIN ring = 1 .. Len(ring)
           /\ \A k \in 1 .. Len(ring) : ring[k] \in Units /\ ring[k] \in Nat /\ ring[k] \in Free
           /\ Free \in SUBSET Units
           /\ \A u \in Units : u \in Nat /\ size[u] \in Nat
<1>1. Len(ring) \in Nat /\ Len(ring) >= 1 /\ DOMAIN ring = 1 .. Len(ring)
  BY RingElements DEF HeapTypes
<1>2. \A k \in 1 .. Len(ring) : ring[k] \in Units /\ ring[k] \in Nat
  BY RingElements DEF HeapTypes
<1>3. \A u \in Units : u \in Nat /\ size[u] \in Nat
  BY UnitsFacts DEF HeapTypes
<1> QED BY <1>1, <1>2, <1>3 DEF Free, Members

\* One of two finite sets has one element.
LEMMA SumIsOne ==
    ASSUME NEW S, NEW T, IsFiniteSet(S), IsFiniteSet(T)
    PROVE  Cardinality(S) + Cardinality(T) = 1 <=>
              \/ T = {} /\ \E x : S = {x}
              \/ S = {} /\ \E x : T = {x}
<1>1. Cardinality(S) \in Nat /\ Cardinality(T) \in Nat
  BY FS_CardinalityType
<1>2. /\ Cardinality(S) = 0 <=> S = {}
      /\ Cardinality(T) = 0 <=> T = {}
  BY FS_EmptySet
<1>3. /\ Cardinality(S) = 1 <=> \E x : S = {x}
      /\ Cardinality(T) = 1 <=> \E x : T = {x}
  BY FS_Singleton
<1>4. Cardinality(S) + Cardinality(T) = 1 <=>
         \/ Cardinality(T) = 0 /\ Cardinality(S) = 1
         \/ Cardinality(S) = 0 /\ Cardinality(T) = 1
  BY <1>1
<1> QED BY <1>2, <1>3, <1>4

UsedAt(u) == {b \in blocks : u \in Extent(b, size[b])}
FreeAt(u) == {k \in DOMAIN ring : u \in Extent(ring[k], size[ring[k]])}

LEMMA OwnersFinite ==
    ASSUME HeapTypes, NEW u \in Units
    PROVE  IsFiniteSet(UsedAt(u)) /\ IsFiniteSet(FreeAt(u))
<1>1. IsFiniteSet(Units) /\ IsFiniteSet(DOMAIN ring)
  <2>1. Base \in Int /\ Arena \in Int /\ 1 \in Int /\ Len(ring) \in Int
    BY FreeFacts, HeapAssumption DEF Base
  <2> QED BY <2>1, FreeFacts, FS_Interval DEF Units
<1>2. UsedAt(u) \subseteq Units /\ FreeAt(u) \subseteq DOMAIN ring
  BY DEF UsedAt, FreeAt, HeapTypes
<1> QED BY <1>1, <1>2, FS_Subset

LEMMA SoundOwners ==
    ASSUME HeapTypes
    PROVE  Sound <=> \A u \in Units : \/ FreeAt(u) = {} /\ \E x : UsedAt(u) = {x}
                                      \/ UsedAt(u) = {} /\ \E x : FreeAt(u) = {x}
<1>1. Sound <=> \A u \in Units : Cardinality(UsedAt(u)) + Cardinality(FreeAt(u)) = 1
  BY DEF Sound, UsedAt, FreeAt
<1>2. ASSUME NEW u \in Units
      PROVE  Cardinality(UsedAt(u)) + Cardinality(FreeAt(u)) = 1 <=>
                \/ FreeAt(u) = {} /\ \E x : UsedAt(u) = {x}
                \/ UsedAt(u) = {} /\ \E x : FreeAt(u) = {x}
  BY OwnersFinite, SumIsOne
<1> QED BY <1>1, <1>2

LEMMA OwnersMembers ==
    ASSUME HeapTypes, NEW u \in Units
    PROVE  /\ \A b \in blocks : b \in UsedAt(u) <=> b <= u /\ u < b + size[b]
           /\ \A k \in 1 .. Len(ring) : k \in FreeAt(u) <=> ring[k] <= u /\ u < ring[k] + size[ring[k]]
           /\ UsedAt(u) \subseteq blocks /\ FreeAt(u) \subseteq 1 .. Len(ring)
<1>1. u \in Nat
  BY UnitsFacts
<1>2. \A b \in Nat, n \in Nat : u \in Extent(b, n) <=> b <= u /\ u < b + n
  BY <1>1 DEF Extent
<1>3. \A b \in blocks : b \in Nat /\ size[b] \in Nat
  BY FreeFacts DEF HeapTypes
<1>4. \A k \in 1 .. Len(ring) : ring[k] \in Nat /\ size[ring[k]] \in Nat
  BY FreeFacts
<1>5. DOMAIN ring = 1 .. Len(ring)
  BY FreeFacts
<1> QED BY <1>2, <1>3, <1>4, <1>5 DEF UsedAt, FreeAt

\* Sound counts, Laid says the same in terms of addresses.
LEMMA SoundLaid ==
    ASSUME HeapTypes, Fits, Sound
    PROVE  Laid
<1>1. \A u \in Units : \/ FreeAt(u) = {} /\ \E x : UsedAt(u) = {x}
                       \/ UsedAt(u) = {} /\ \E x : FreeAt(u) = {x}
  BY SoundOwners
<1>2. \A b \in blocks \cup Free : b \in Units /\ b \in Nat /\ size[b] \in Nat /\ size[b] >= 1
  BY FreeFacts DEF HeapTypes, Fits
<1>3. \A b \in Free : \E k \in 1 .. Len(ring) : ring[k] = b
  BY DEF Free, Members
<1>4. \A b \in Free, u \in Units : b <= u /\ u < b + size[b] =>
          \E k \in 1 .. Len(ring) : ring[k] = b /\ k \in FreeAt(u)
  BY <1>3, OwnersMembers
<1>5. \A b \in blocks, u \in Units : b <= u /\ u < b + size[b] => b \in UsedAt(u)
  BY OwnersMembers
<1>6. ASSUME NEW a \in blocks \cup Free, NEW b \in blocks \cup Free, NEW u \in Units,
             a <= u, u < a + size[a], b <= u, u < b + size[b]
      PROVE  a = b
  <2>1. CASE FreeAt(u) = {}
    <3>1. a \in blocks /\ b \in blocks
      BY <1>4, <1>6, <2>1
    <3> QED BY <1>1, <1>5, <1>6, <2>1, <3>1
  <2>2. CASE UsedAt(u) = {}
    <3>1. a \in Free /\ b \in Free
      BY <1>5, <1>6, <2>2
    <3>2. PICK k \in FreeAt(u) : ring[k] = a
      BY <1>4, <1>6, <3>1
    <3>3. PICK j \in FreeAt(u) : ring[j] = b
      BY <1>4, <1>6, <3>1
    <3> QED BY <1>1, <2>2, <3>2, <3>3
  <2> QED BY <1>1, <2>1, <2>2
<1>7. blocks \cap Free = {}
  <2> SUFFICES ASSUME NEW b \in blocks, b \in Free PROVE FALSE
    OBVIOUS
  <2>1. b \in Units /\ b <= b /\ b < b + size[b]
    BY <1>2
  <2>2. b \in UsedAt(b) /\ FreeAt(b) # {}
    BY <1>4, <1>5, <2>1
  <2> QED BY <1>1, <2>1, <2>2
<1>8. ASSUME NEW a \in blocks \cup Free, NEW b \in blocks \cup Free, a < b
      PROVE  a + size[a] <= b
  <2>1. CASE a + size[a] > b
    <3>1. a = b
      BY <1>2, <1>6, <1>8, <2>1
    <3> QED BY <1>2, <1>8, <3>1
  <2> QED BY <1>2, <2>1
<1>9. ASSUME NEW u \in Units
      PROVE  \E a \in blocks \cup Free : a <= u /\ u < a + size[a]
  <2>1. CASE UsedAt(u) # {}
    BY <2>1, OwnersMembers
  <2>2. CASE FreeAt(u) # {}
    BY <2>2, OwnersMembers, FreeFacts
  <2> QED BY <1>1, <2>1, <2>2
<1> QED BY <1>7, <1>8, <1>9 DEF Laid, Layout

LEMMA LaidSound ==
    ASSUME HeapTypes, Fits, Laid
    PROVE  Sound
<1>1. \A b \in blocks \cup Free : b \in Units /\ b \in Nat /\ size[b] \in Nat /\ size[b] >= 1
  BY FreeFacts DEF HeapTypes, Fits
<1>2. ASSUME NEW a \in blocks \cup Free, NEW b \in blocks \cup Free, NEW u \in Units,
             a <= u, u < a + size[a], b <= u, u < b + size[b]
      PROVE  a = b
  <2>1. a < b => a + size[a] <= b
    BY DEF Laid, Layout
  <2>2. b < a => b + size[b] <= a
    BY DEF Laid, Layout
  <2>3. u \in Nat
    BY UnitsFacts
  <2> QED BY <1>1, <1>2, <2>1, <2>2, <2>3
<1>3. ASSUME NEW u \in Units
      PROVE  \/ FreeAt(u) = {} /\ \E x : UsedAt(u) = {x}
             \/ UsedAt(u) = {} /\ \E x : FreeAt(u) = {x}
  <2>1. PICK a \in blocks \cup Free : a <= u /\ u < a + size[a]
    BY DEF Laid, Layout
  <2>2. \A b \in UsedAt(u) : b = a /\ b \in blocks
    BY <1>2, <2>1, OwnersMembers
  <2>3. \A k \in FreeAt(u) : ring[k] = a /\ k \in 1 .. Len(ring) /\ ring[k] \in Free
    BY <1>2, <2>1, OwnersMembers, FreeFacts
  <2>4. CASE a \in blocks
    <3>1. a \in UsedAt(u) /\ a \notin Free
      BY <2>1, <2>4, OwnersMembers DEF Laid
    <3> QED BY <2>2, <2>3, <3>1
  <2>5. CASE a \in Free
    <3>1. PICK k \in 1 .. Len(ring) : ring[k] = a
      BY <2>5 DEF Free, Members
    <3>2. k \in FreeAt(u) /\ a \notin blocks
      BY <2>1, <2>5, <3>1, OwnersMembers DEF Laid
    <3>3. \A j \in FreeAt(u) : j = k
      BY <2>3, <3>1 DEF HeapTypes, InOrder
    <3> QED BY <2>2, <3>2, <3>3
  <2> QED BY <2>4, <2>5
<1> QED BY <1>3, SoundOwners

-----------------------------------------------------------------------------
(***************************************************************************)
(* alloc.                                                                  *)
(***************************************************************************)
LEMMA NunitsFacts ==
    ASSUME NEW n \in Requests
    PROVE  /\ n \in Nat /\ Nunits(n) \in Nat /\ Nunits(n) >= 1
           /\ n <= Word - HeaderSize => HeaderSize * (Nunits(n) - 1) >= n
<1>1. /\ n \in Nat /\ HeaderSize \in Nat /\ HeaderSize >= 1 /\ Word \in Nat /\ Word >= 1
  BY HeapAssumption
<1>2. PICK x \in Nat : x = n + HeaderSize - 1
  BY <1>1
<1>3. PICK y \in Nat : y = x % Word
  BY <1>1
<1>4. PICK q \in Nat : q = y \div HeaderSize
  BY <1>1
<1>5. Nunits(n) = q + 1
  BY <1>2, <1>3, <1>4 DEF Nunits
<1>6. PICK h \in Nat : h = HeaderSize /\ h >= 1
  BY <1>1
<1>7. h * q > y - h
  BY <1>4, <1>6
<1>8. PICK z \in Int : z = h * q
  OBVIOUS
<1>9. n <= Word - HeaderSize => y = x
  BY <1>1, <1>2, <1>3
<1>10. n <= Word - HeaderSize => z >= n
  BY <1>1, <1>2, <1>6, <1>7, <1>8, <1>9
<1>11. HeaderSize * (Nunits(n) - 1) = z
  BY <1>5, <1>6, <1>8
<1> QED BY <1>1, <1>5, <1>10, <1>11

\* The ring from its k-th block on.
LEMMA FromRing ==
    ASSUME HeapTypes, NEW k \in 1 .. Len(ring)
    PROVE  /\ From(k) \in Seq(Units) /\ Len(From(k)) = Len(ring) /\ InOrder(From(k))
           /\ Members(From(k)) = Free /\ From(k)[1] = ring[k]
           /\ Behind(From(k), 1) = Succ(k)
           /\ Len(ring) > 1 => From(k)[2] = Succ(k)
<1>1. From(k) = SubSeq(ring, k, Len(ring)) \o SubSeq(ring, 1, k - 1)
  BY DEF From
<1>2. ring \in Seq(Units) /\ InOrder(ring)
  BY DEF HeapTypes
<1>3. PICK t : t = From(k)
  OBVIOUS
<1>4. /\ t \in Seq(Units) /\ Len(t) = Len(ring)
      /\ \A i \in 1 .. Len(ring) - k + 1 : t[i] = ring[i + k - 1]
      /\ \A i \in Len(ring) - k + 2 .. Len(ring) : t[i] = ring[i - (Len(ring) - k + 1)]
  BY <1>1, <1>2, <1>3, RotateElements
<1>5. /\ InOrder(t) /\ Members(t) = Members(ring) /\ t[1] = ring[k]
      /\ Behind(t, 1) = Behind(ring, k)
      /\ Len(ring) > 1 => t[2] = Behind(ring, k)
  BY <1>2, <1>4, RotateRing
<1>6. Behind(ring, k) = Succ(k)
  BY DEF Behind, Succ
<1> QED BY <1>3, <1>4, <1>5, <1>6 DEF Free

LEMMA PredFacts ==
    ASSUME HeapTypes, NEW k \in 1 .. Len(ring)
    PROVE  Pred(k) \in 1 .. Len(ring) /\ Succ(Pred(k)) = ring[k]
<1>1. Len(ring) \in Nat /\ Len(ring) >= 1
  BY FreeFacts
<1>2. Pred(k) \in 1 .. Len(ring) /\ (IF Pred(k) = Len(ring) THEN 1 ELSE Pred(k) + 1) = k
  BY <1>1 DEF Pred
<1> QED BY <1>2 DEF Succ

\* The block of the ring that alloc takes from.
LEMMA FitFacts ==
    ASSUME HeapTypes, NEW n, NEW k \in FirstFit(n)
    PROVE  k \in 1 .. Len(ring) /\ size[ring[k]] >= n
BY FreeFacts DEF FirstFit

\* If no block is found none is large enough.
LEMMA NoFit ==
    ASSUME HeapTypes, NEW n, FirstFit(n) = {}, NEW f \in Free
    PROVE  ~ (size[f] >= n)
<1> SUFFICES ASSUME size[f] >= n PROVE FALSE
  OBVIOUS
<1>0. DOMAIN ring = 1 .. Len(ring) /\ Len(ring) \in Nat
  BY FreeFacts
<1>1. PICK k \in 1 .. Len(ring) : ring[k] = f
  BY DEF Free, Members
<1> DEFINE S == {j \in 1 .. Len(ring) : j # 1 /\ size[ring[j]] >= n}
<1>2. CASE S = {}
  <2>1. k = 1
    BY <1>1, <1>2
  <2>2. \A j \in DOMAIN ring : size[ring[j]] >= n => ~ Earlier(j, k)
    BY <1>0, <1>2, <2>1 DEF Earlier
  <2>3. k \in FirstFit(n)
    BY <1>0, <1>1, <2>2 DEF FirstFit
  <2> QED BY <2>3
<1>3. CASE S # {}
  <2>1. S \in SUBSET Nat
    BY <1>0
  <2>2. PICK j \in S : \A i \in S : j <= i
    <3> HIDE DEF S
    <3> QED BY <1>3, <2>1, LeastNumber
  <2>3. \A i \in DOMAIN ring : size[ring[i]] >= n => ~ Earlier(i, j)
    BY <1>0, <2>2 DEF Earlier
  <2>4. j \in FirstFit(n)
    BY <1>0, <2>2, <2>3 DEF FirstFit
  <2> QED BY <2>4
<1> QED BY <1>2, <1>3

\* Everything about the free and the used blocks in one place.
LEMMA BlockFacts ==
    ASSUME HeapInv
    PROVE  \A b \in blocks \cup Free : /\ b \in Units /\ b \in Nat /\ b >= 1
                                       /\ size[b] \in Nat /\ size[b] >= 1
                                       /\ b + size[b] <= Arena + 1
<1>1. \A b \in blocks \cup Free : b \in Units /\ b \in Nat /\ size[b] \in Nat
  BY FreeFacts DEF HeapInv, HeapTypes
<1>2. \A b \in blocks \cup Free : b >= 1
  BY <1>1, UnitsFacts
<1> QED BY <1>1, <1>2 DEF HeapInv, Fits

\* The block at the start of the memory is free while it was never handed out.
LEMMA BottomFree ==
    ASSUME HeapInv, Laid, ~ bottom
    PROVE  Base \in Free
<1>1. PICK a \in blocks \cup Free : a <= Base
  BY UnitsFacts DEF Laid, Layout
<1>2. a = Base
  BY <1>1, BlockFacts DEF Base
<1> QED BY <1>1, <1>2 DEF HeapInv

LEMMA ExactStep ==
    ASSUME HeapInv, Laid, NEW n \in Requests, AllocExact(n)
    PROVE  HeapInv'
<1>1. PICK k \in FirstFit(Nunits(n)) :
          /\ ring' = IF Len(ring) = 1 THEN ring ELSE Unlink(From(Pred(k)))
          /\ blocks' = blocks \cup {ring[k]}
          /\ bottom' = (bottom \/ ring[k] = Base)
          /\ UNCHANGED size
  BY DEF AllocExact
<1>2. HeapTypes /\ k \in 1 .. Len(ring)
  BY <1>1, FitFacts DEF HeapInv
<1>3. PICK a : a = ring[k]
  OBVIOUS
<1>4. a \in Free /\ a \in Units
  BY <1>2, <1>3, FreeFacts
<1>5. CASE Len(ring) = 1
  <2>1. Free = {a}
    <3>1. 1 .. 1 = {1}
      OBVIOUS
    <3> QED BY <1>2, <1>3, <1>5, <3>1 DEF Free, Members
  <2>2. ring' = ring /\ Free' = Free /\ blocks' = blocks \cup {a}
    BY <1>1, <1>3, <1>5 DEF Free
  <2>3. HeapTypes'
    BY <1>1, <1>2, <1>4, <2>2 DEF HeapTypes
  <2>4. Fits' /\ NoNeighbours'
    BY <1>1, <1>4, <2>2 DEF HeapInv, Fits, NoNeighbours
  <2>5. bottom'
    <3>1. CASE bottom
      BY <1>1, <3>1
    <3>2. CASE ~ bottom
      BY <1>1, <1>3, <2>1, <3>2, BottomFree
    <3> QED BY <3>1, <3>2
  <2> QED BY <2>3, <2>4, <2>5 DEF HeapInv
<1>6. CASE Len(ring) # 1
  <2>1. Len(ring) > 1
    BY <1>2, <1>6, FreeFacts
  <2>2. PICK t : t = From(Pred(k))
    OBVIOUS
  <2>3. t \in Seq(Units) /\ Len(t) > 1 /\ InOrder(t) /\ Members(t) = Free /\ t[2] = a
    <3>1. Pred(k) \in 1 .. Len(ring) /\ Succ(Pred(k)) = a
      BY <1>2, <1>3, PredFacts
    <3> QED BY <1>2, <2>1, <2>2, <3>1, FromRing
  <2>4. ring' = Unlink(t)
    BY <1>1, <1>6, <2>2
  <2>5. ring' \in Seq(Units) /\ InOrder(ring') /\ Members(ring') = Free \ {a}
    BY <2>3, <2>4, UnlinkElements, UnlinkRing
  <2>6. Free' = Free \ {a} /\ blocks' = blocks \cup {a}
    BY <1>1, <1>3, <2>5 DEF Free
  <2>7. HeapTypes'
    BY <1>1, <1>2, <1>4, <2>5, <2>6 DEF HeapTypes
  <2>8. blocks' \cup Free' = blocks \cup Free
    BY <1>4, <2>6
  <2>9. Fits' /\ NoNeighbours'
    BY <1>1, <2>6, <2>8 DEF HeapInv, Fits, NoNeighbours
  <2>10. blocks' \cap Free' = {}
    BY <2>6 DEF Laid
  <2>11. Layout(blocks' \cup Free', size')
    BY <1>1, <2>8 DEF Laid
  <2>12. ~ bottom' => Base \notin blocks'
    BY <1>1, <1>3, <2>6 DEF HeapInv
  <2> QED BY <2>7, <2>9, <2>10, <2>11, <2>12 DEF HeapInv, Laid
<1> QED BY <1>5, <1>6

\* Cutting a block in two.
Cut(p, tail, n, sz) ==
    /\ tail = p + size[p] - n /\ sz[p] = size[p] - n /\ sz[tail] = n
    /\ \A u \in Units : u # p /\ u # tail => sz[u] = size[u]

LEMMA CutLayout ==
    ASSUME HeapInv, NEW p \in Free, NEW n \in Nat, n >= 1, n < size[p], Laid,
           NEW tail, NEW sz, Cut(p, tail, n, sz)
    PROVE  /\ tail \in Units /\ tail \notin blocks \cup Free
           /\ tail > p /\ tail + n <= Arena + 1
           /\ Layout(blocks \cup Free \cup {tail}, sz)
<1> DEFINE A == blocks \cup Free
<1> USE DEF Cut
<1>1. \A b \in A : b \in Units /\ b \in Nat /\ b >= 1 /\ size[b] \in Nat /\ size[b] >= 1
                   /\ b + size[b] <= Arena + 1
  BY BlockFacts
<1>2. p \in A
  OBVIOUS
<1>3. \A a, b \in A : a < b => a + size[a] <= b
  BY DEF Laid, Layout
<1>4. \A u \in Units : \E a \in A : a <= u /\ u < a + size[a]
  BY DEF Laid, Layout
<1> HIDE DEF A
<1>5. tail \in Nat /\ tail > p /\ tail + n = p + size[p] /\ Arena \in Nat
  BY <1>1, <1>2, HeapAssumption
<1>6. tail \in Units /\ tail + n <= Arena + 1
  BY <1>1, <1>2, <1>5, UnitsFacts
<1>7. tail \notin A
  BY <1>1, <1>2, <1>3, <1>5
<1>8. \A b \in A : b # p => sz[b] = size[b]
  BY <1>1, <1>7
<1>9. ASSUME NEW a \in A \cup {tail}, NEW b \in A \cup {tail}, a < b
      PROVE  a + sz[a] <= b
  <2>1. CASE a = tail
    BY <1>1, <1>2, <1>3, <1>5, <1>7, <1>9, <2>1
  <2>2. CASE a = p
    BY <1>1, <1>2, <1>3, <1>5, <1>9, <2>2
  <2>3. CASE a \in A /\ a # p /\ b = tail
    BY <1>1, <1>2, <1>3, <1>5, <1>8, <1>9, <2>3
  <2>4. CASE a \in A /\ a # p /\ b \in A
    BY <1>3, <1>8, <1>9, <2>4
  <2> QED BY <2>1, <2>2, <2>3, <2>4
<1>10. ASSUME NEW u \in Units
       PROVE  \E a \in A \cup {tail} : a <= u /\ u < a + sz[a]
  <2>1. PICK a \in A : a <= u /\ u < a + size[a]
    BY <1>4
  <2>2. u \in Nat
    BY UnitsFacts
  <2>3. CASE a # p
    BY <1>8, <2>1, <2>3
  <2>4. CASE a = p /\ u < tail
    BY <1>1, <1>2, <1>5, <2>1, <2>2, <2>4
  <2>5. CASE a = p /\ u >= tail
    BY <1>1, <1>2, <1>5, <2>1, <2>2, <2>5
  <2> QED BY <1>5, <2>2, <2>3, <2>4, <2>5
<1> QED BY <1>5, <1>6, <1>7, <1>9, <1>10 DEF Layout, A

LEMMA TailStep ==
    ASSUME HeapInv, Laid, NEW n \in Requests, AllocTail(n)
    PROVE  HeapInv'
<1>1. PICK w : w = Nunits(n)
  OBVIOUS
<1>2. PICK k \in FirstFit(w) :
          LET p == ring[k]
              tail == p + size[p] - w
          IN  /\ size[p] > w
              /\ ring' = From(Pred(k))
              /\ size' = [size EXCEPT ![p] = TailSize(@, w), ![tail] = w]
              /\ blocks' = blocks \cup {tail}
              /\ UNCHANGED bottom
  BY <1>1 DEF AllocTail
<1>3. HeapTypes /\ k \in 1 .. Len(ring) /\ w \in Nat /\ w >= 1
  BY <1>1, <1>2, FitFacts, NunitsFacts DEF HeapInv
<1>4. PICK p, tail : p = ring[k] /\ tail = p + size[p] - w
  OBVIOUS
<1>5. /\ size[p] > w /\ ring' = From(Pred(k)) /\ blocks' = blocks \cup {tail} /\ UNCHANGED bottom
      /\ size' = [size EXCEPT ![p] = TailSize(@, w), ![tail] = w]
  BY <1>2, <1>4
<1>6. p \in Free /\ p \in Units /\ p \in Nat /\ size[p] \in Nat
  BY <1>3, <1>4, FreeFacts
<1>7. w < size[p]
  BY <1>3, <1>5, <1>6
<1>8. tail \in Nat /\ tail > p /\ tail \in Units
  <2>1. tail \in Nat /\ tail > p
    BY <1>3, <1>4, <1>6, <1>7
  <2>2. p + size[p] <= Arena + 1 /\ p >= 1 /\ Arena \in Nat
    BY <1>6, BlockFacts, HeapAssumption
  <2>3. tail <= Arena /\ 1 <= tail
    BY <1>3, <1>4, <1>6, <2>1, <2>2
  <2> QED BY <2>1, <2>3, UnitsFacts
<1>9. /\ size'[p] = size[p] - w /\ size'[tail] = w
      /\ \A u \in Units : u # p /\ u # tail => size'[u] = size[u]
  BY <1>3, <1>5, <1>6, <1>8 DEF HeapTypes, TailSize
<1>10. size' \in [Units -> Nat]
  <2>1. size[p] - w \in Nat
    BY <1>3, <1>6, <1>7
  <2> QED BY <1>3, <1>5, <1>6, <1>8, <2>1 DEF HeapTypes, TailSize
<1>11. /\ tail \notin blocks \cup Free /\ tail + w <= Arena + 1
       /\ Layout(blocks \cup Free \cup {tail}, size')
  <2>1. PICK sz : sz = size'
    OBVIOUS
  <2>2. Cut(p, tail, w, sz)
    BY <1>4, <1>9, <2>1 DEF Cut
  <2>3. /\ tail \notin blocks \cup Free /\ tail + w <= Arena + 1
        /\ Layout(blocks \cup Free \cup {tail}, sz)
    BY <1>3, <1>6, <1>7, <2>2, CutLayout
  <2> QED BY <2>1, <2>3
<1>12. ring' \in Seq(Units) /\ InOrder(ring') /\ Members(ring') = Free
  BY <1>3, <1>5, PredFacts, FromRing
<1>13. Free' = Free
  BY <1>12 DEF Free
<1>14. HeapTypes'
  BY <1>3, <1>5, <1>8, <1>10, <1>12 DEF HeapTypes
<1>15. \A b \in blocks \cup Free : b \in Units /\ b \in Nat /\ size[b] \in Nat /\ size[b] >= 1 /\ b + size[b] <= Arena + 1
  BY BlockFacts
<1>16. Fits'
  <2> SUFFICES ASSUME NEW b \in blocks \cup Free \cup {tail}
               PROVE  size'[b] >= 1 /\ b + size'[b] <= Arena + 1
    BY <1>5, <1>13 DEF Fits
  <2>1. CASE b = tail
    BY <1>3, <1>9, <1>11, <2>1
  <2>2. CASE b = p
    <3>1. Arena \in Nat /\ p + size[p] <= Arena + 1
      BY <1>6, <1>15, HeapAssumption
    <3> QED BY <1>3, <1>6, <1>7, <1>9, <2>2, <3>1
  <2>3. CASE b # tail /\ b # p
    BY <1>9, <1>15, <2>3
  <2> QED BY <2>1, <2>2, <2>3
<1>17. NoNeighbours'
  <2> SUFFICES ASSUME NEW f \in Free, NEW g \in Free PROVE f + size'[f] # g
    BY <1>13 DEF NoNeighbours
  <2>1. f # tail /\ g # tail
    BY <1>11
  <2>2. CASE f = p
    <3>1. p + size'[p] = tail
      BY <1>3, <1>4, <1>6, <1>9
    <3> QED BY <2>1, <2>2, <3>1
  <2>3. CASE f # p
    <3>1. size'[f] = size[f]
      BY <1>9, <1>15, <2>1, <2>3
    <3> QED BY <3>1 DEF HeapInv, NoNeighbours
  <2> QED BY <2>2, <2>3
<1>18. ~ bottom' => Base \notin blocks'
  <2>1. tail # Base
    BY <1>6, <1>8, UnitsFacts DEF Base
  <2> QED BY <1>5, <2>1 DEF HeapInv
<1>19. Laid'
  <2>1. blocks' \cap Free' = {}
    BY <1>5, <1>11, <1>13 DEF Laid
  <2>2. blocks' \cup Free' = blocks \cup Free \cup {tail}
    BY <1>5, <1>13
  <2>3. Layout(blocks' \cup Free', size')
    BY <1>11, <2>2
  <2> QED BY <2>1, <2>3 DEF Laid
<1> QED BY <1>14, <1>16, <1>17, <1>18, <1>19 DEF HeapInv

-----------------------------------------------------------------------------
(***************************************************************************)
(* free.                                                                   *)
(***************************************************************************)
LEMMA BetweenFarther ==
    ASSUME NEW a \in Nat, NEW b \in Nat, NEW c \in Nat, NEW x \in Nat,
           Between(a, x, b), x < b, a # b, ~ Between(a, c, b)
    PROVE  Between(a, x, c)
BY DEF Between

\* A block put in front of the rest of a ring that it begins.
LEMMA HeadTail ==
    ASSUME NEW s \in Seq(Units), Len(s) # 0
    PROVE  <<s[1]>> \o Tail(s) = s
<1>1. s # << >>
  OBVIOUS
<1>2. s[1] = Head(s)
  BY <1>1
<1> QED BY <1>1, <1>2, HeadTailProperties

LEMMA PlaceFacts ==
    ASSUME HeapTypes, NEW bp \in Units, bp \notin Free, NEW k \in Places(bp)
    PROVE  /\ k \in 1 .. Len(ring)
           /\ ring[k] \in Free /\ Succ(k) \in Free
           /\ Between(ring[k], bp, Succ(k))
           /\ \A f \in Free : ~ Between(ring[k], f, Succ(k))
<1>1. k \in 1 .. Len(ring) /\ Before(k, bp)
  BY FreeFacts DEF Places
<1>2. Succ(k) = Behind(ring, k)
  BY DEF Succ, Behind
<1>3. Succ(k) \in Free
  BY <1>1, <1>2, RingElements DEF HeapTypes, Free, Members
<1>4. \A f \in Free : ~ Between(ring[k], f, Succ(k))
  BY <1>1, <1>2 DEF HeapTypes, InOrder, Free, Members
<1> QED BY <1>1, <1>3, <1>4, FreeFacts DEF Before, Between

\* What free makes of the ring.
Relinked(k, bp, above, below, t, r) ==
    /\ \/ above = {}
       \/ above = {Succ(k)} /\ ring[k] # Succ(k) /\ bp < Succ(k)
    /\ below = {} \/ below = {bp}
    /\ t = IF above = {} THEN From(k) ELSE Unlink(From(k))
    /\ r = IF below = {} THEN <<ring[k], bp>> \o Tail(t) ELSE <<ring[k]>> \o Tail(t)

LEMMA FreeRing ==
    ASSUME HeapTypes, NEW bp \in Units, bp \notin Free, NEW k \in Places(bp),
           NEW above, NEW below, NEW t, NEW r, Relinked(k, bp, above, below, t, r)
    PROVE  /\ r \in Seq(Units) /\ InOrder(r)
           /\ Members(r) = (Free \ above) \cup ({bp} \ below)
<1> USE DEF Relinked
<1>1. /\ k \in 1 .. Len(ring) /\ ring[k] \in Free /\ Succ(k) \in Free
      /\ Between(ring[k], bp, Succ(k))
      /\ \A f \in Free : ~ Between(ring[k], f, Succ(k))
  BY PlaceFacts
<1>2. PICK s : s = From(k)
  OBVIOUS
<1>3. /\ s \in Seq(Units) /\ Len(s) = Len(ring) /\ InOrder(s) /\ Members(s) = Free
      /\ s[1] = ring[k] /\ Behind(s, 1) = Succ(k) /\ (Len(ring) > 1 => s[2] = Succ(k))
  BY <1>1, <1>2, FromRing
<1>4. /\ t \in Seq(Units) /\ InOrder(t) /\ Members(t) = Free \ above
      /\ t[1] = ring[k] /\ Between(t[1], bp, Behind(t, 1))
  <2>1. CASE above = {}
    BY <1>1, <1>2, <1>3, <2>1
  <2>2. CASE above # {}
    <3>1. above = {Succ(k)} /\ ring[k] # Succ(k) /\ bp < Succ(k)
      BY <2>2
    <3>2. Len(s) \in Nat /\ Len(s) > 1
      <4>1. Len(s) \in Nat /\ Len(s) >= 1
        BY <1>3, RingElements
      <4>2. Len(s) = 1 => Behind(s, 1) = s[1]
        BY DEF Behind
      <4> QED BY <1>3, <3>1, <4>1, <4>2
    <3>3. s[2] = Succ(k) /\ 2 \in 1 .. Len(s)
      BY <1>3, <3>2
    <3>4. t = Unlink(s)
      BY <1>2, <2>2
    <3>5. /\ t \in Seq(Units) /\ Len(t) = Len(s) - 1 /\ t[1] = s[1]
          /\ \A i \in 2 .. Len(s) - 1 : t[i] = s[i + 1]
      BY <1>3, <3>2, <3>4, UnlinkElements
    <3>6. InOrder(t) /\ Members(t) = Members(s) \ {s[2]} /\ Behind(t, 1) = Behind(s, 2)
      BY <1>3, <3>2, <3>5, UnlinkRing
    <3>7. Behind(s, 2) \in Free
      BY <1>3, <3>3, RingElements DEF Members
    <3>8. ring[k] \in Nat /\ Succ(k) \in Nat /\ Behind(s, 2) \in Nat /\ bp \in Nat
      BY <1>1, <3>7, FreeFacts
    <3>9. Between(ring[k], bp, Behind(s, 2))
      BY <1>1, <3>1, <3>7, <3>8, BetweenFarther
    <3> QED BY <1>3, <3>1, <3>3, <3>5, <3>6, <3>9
  <2> QED BY <2>1, <2>2
<1>5. Len(t) # 0
  BY <1>4 DEF InOrder
<1>6. CASE below = {}
  <2>1. r = <<t[1], bp>> \o Tail(t)
    BY <1>4, <1>6
  <2>2. r \in Seq(Units) /\ Linked(t, bp, r)
    BY <1>4, <1>5, <2>1, LinkElements
  <2>3. bp \notin Members(t)
    BY <1>4
  <2>4. InOrder(r) /\ Members(r) = Members(t) \cup {bp}
    BY <1>4, <2>2, <2>3, LinkRing
  <2> QED BY <1>4, <1>6, <2>2, <2>4
<1>7. CASE below # {}
  <2>1. r = t
    <3>1. r = <<t[1]>> \o Tail(t)
      BY <1>4, <1>7
    <3> QED BY <1>4, <1>5, <3>1, HeadTail
  <2>2. {bp} \ below = {}
    BY <1>7
  <2> QED BY <1>4, <2>1, <2>2
<1> QED BY <1>6, <1>7

\* The free blocks below and above bp lie before and behind its place.
LEMMA PlaceOrder ==
    ASSUME HeapTypes, NEW bp \in Units, bp \notin Free, NEW k \in Places(bp), NEW f \in Free
    PROVE  /\ f > bp => bp < Succ(k) /\ Succ(k) <= f
           /\ f < bp => f <= ring[k] /\ ring[k] < bp
<1>1. /\ ring[k] \in Free /\ Succ(k) \in Free /\ Between(ring[k], bp, Succ(k))
      /\ ~ Between(ring[k], f, Succ(k))
  BY PlaceFacts
<1>2. ring[k] \in Nat /\ Succ(k) \in Nat /\ f \in Nat /\ bp \in Nat
  BY <1>1, FreeFacts
<1> QED BY <1>1, <1>2 DEF Between

\* What free makes of the sizes.  The block bp ends at e, with the block above.
Freed(bp, p, up, above, below, grown, sz) ==
    /\ above = IF bp + size[bp] = up THEN {up} \ {p} ELSE {}
    /\ below = IF p + size[p] = bp THEN {bp} ELSE {}
    /\ grown = IF bp + size[bp] = up THEN size[bp] + size[up] ELSE size[bp]
    /\ below = {} => sz[bp] = grown
    /\ below # {} => sz[p] = size[p] + grown
    /\ \A u \in Units : u \notin above \cup below /\ ~ (u = p /\ below # {}) /\ ~ (u = bp /\ below = {})
                            => sz[u] = size[u]

LEMMA GrownFacts ==
    ASSUME HeapInv, Laid, NEW bp \in blocks, NEW k \in Places(bp),
           NEW above, NEW below, NEW grown, NEW sz,
           Freed(bp, ring[k], Succ(k), above, below, grown, sz)
    PROVE  /\ grown \in Nat /\ grown >= 1 /\ bp + grown <= Arena + 1
           /\ \A g \in Free : bp + grown # g
           /\ \A b \in blocks \cup Free : b > bp =>
                 bp + grown <= b \/ (b = Succ(k) /\ bp + size[bp] = Succ(k))
           /\ bp + size[bp] <= bp + grown
<1>1. HeapTypes /\ bp \in Units /\ bp \notin Free
  BY DEF HeapInv, HeapTypes, Laid
<1>2. PICK p, up : p = ring[k] /\ up = Succ(k)
  OBVIOUS
<1>3. p \in Free /\ up \in Free
  BY <1>1, <1>2, PlaceFacts
<1>4. \A b \in blocks \cup Free : b \in Nat /\ size[b] \in Nat /\ size[b] >= 1 /\ b + size[b] <= Arena + 1
  BY BlockFacts
<1>5. Arena \in Nat /\ bp \in blocks \cup Free /\ up \in blocks \cup Free
  BY <1>3, HeapAssumption
<1>6. \A a, b \in blocks \cup Free : a < b => a + size[a] <= b
  BY DEF Laid, Layout
<1>7. \A f, g \in Free : f + size[f] # g
  BY DEF HeapInv, NoNeighbours
<1>8. \A g \in Free : g > bp => bp < up /\ up <= g
  BY <1>1, <1>2, PlaceOrder
<1>9. grown = IF bp + size[bp] = up THEN size[bp] + size[up] ELSE size[bp]
  BY <1>2 DEF Freed
<1>10. CASE bp + size[bp] = up
  <2>1. grown = size[bp] + size[up] /\ bp + grown = up + size[up]
    BY <1>4, <1>5, <1>9, <1>10
  <2>2. \A b \in blocks \cup Free : b > bp => up + size[up] <= b \/ b = up
    <3> TAKE b \in blocks \cup Free
    <3> HAVE b > bp
    <3>1. up <= b
      BY <1>4, <1>5, <1>6, <1>10
    <3>2. up < b => up + size[up] <= b
      BY <1>5, <1>6
    <3> QED BY <1>4, <1>5, <3>1, <3>2
  <2>3. \A g \in Free : bp + grown # g
    BY <1>3, <1>7, <2>1
  <2> QED BY <1>2, <1>4, <1>5, <1>10, <2>1, <2>2, <2>3
<1>11. CASE bp + size[bp] # up
  <2>1. grown = size[bp]
    BY <1>9, <1>11
  <2>2. \A b \in blocks \cup Free : b > bp => bp + grown <= b
    BY <1>4, <1>5, <1>6, <2>1
  <2>3. ASSUME NEW g \in Free, bp + grown = g PROVE FALSE
    <3>1. g > bp
      BY <1>4, <1>5, <2>1, <2>3
    <3>2. bp < up /\ up <= g
      BY <1>8, <3>1
    <3>3. bp + size[bp] <= up
      BY <1>4, <1>5, <1>6, <3>2
    <3> QED BY <1>4, <1>5, <1>11, <2>1, <2>3, <3>2, <3>3
  <2> QED BY <1>4, <1>5, <2>1, <2>2, <2>3
<1> QED BY <1>10, <1>11

\* The blocks after a call of free, F of them free.
FreeThen(F, bp, above, below) == F = (Free \ above) \cup ({bp} \ below)

LEMMA FreedApart ==
    ASSUME HeapInv, Laid, NEW bp \in blocks, NEW k \in Places(bp),
           NEW above, NEW below, NEW grown, NEW sz,
           Freed(bp, ring[k], Succ(k), above, below, grown, sz),
           NEW F, FreeThen(F, bp, above, below)
    PROVE  /\ \A b \in (blocks \ {bp}) \cup F : sz[b] >= 1 /\ b + sz[b] <= Arena + 1
           /\ \A f, g \in F : f + sz[f] # g
<1> USE DEF FreeThen
<1>1. HeapTypes /\ bp \in Units /\ bp \notin Free
  BY DEF HeapInv, HeapTypes, Laid
<1>2. PICK p, up : p = ring[k] /\ up = Succ(k)
  OBVIOUS
<1>3. p \in Free /\ up \in Free /\ p # bp
  BY <1>1, <1>2, PlaceFacts
<1>4. \A b \in blocks \cup Free : b \in Units /\ b \in Nat /\ size[b] \in Nat /\ size[b] >= 1 /\ b + size[b] <= Arena + 1
  BY BlockFacts
<1>5. Arena \in Nat /\ bp \in blocks \cup Free /\ p \in blocks \cup Free
  BY <1>3, HeapAssumption
<1>6. /\ grown \in Nat /\ grown >= 1 /\ bp + grown <= Arena + 1
      /\ \A g \in Free : bp + grown # g
  BY GrownFacts
<1>7. \A f, g \in Free : f + size[f] # g
  BY DEF HeapInv, NoNeighbours
<1>8. /\ above = IF bp + size[bp] = up THEN {up} \ {p} ELSE {}
      /\ below = IF p + size[p] = bp THEN {bp} ELSE {}
      /\ below = {} => sz[bp] = grown
      /\ below # {} => sz[p] = size[p] + grown
      /\ \A u \in Units : u \notin above \cup below /\ ~ (u = p /\ below # {}) /\ ~ (u = bp /\ below = {})
                            => sz[u] = size[u]
  BY <1>2 DEF Freed
<1>9. \A b \in (blocks \ {bp}) \cup F : b \in blocks \cup Free /\ b \notin above \cup below
  <2>1. above \subseteq Free /\ below \subseteq {bp}
    BY <1>3, <1>8
  <2>2. blocks \cap above = {}
    BY <2>1 DEF Laid
  <2> QED BY <1>1, <2>1, <2>2
<1>10. \A b \in (blocks \ {bp}) \cup F :
          \/ b = p /\ below # {} /\ p + size[p] = bp /\ sz[b] = size[p] + grown
          \/ b = bp /\ below = {} /\ sz[b] = grown
          \/ sz[b] = size[b] /\ b # bp /\ (b = p => below = {})
  BY <1>3, <1>4, <1>8, <1>9
<1>11. ASSUME NEW b \in (blocks \ {bp}) \cup F PROVE sz[b] >= 1 /\ b + sz[b] <= Arena + 1
  <2>1. CASE b = p /\ p + size[p] = bp /\ sz[b] = size[p] + grown
    BY <1>4, <1>5, <1>6, <2>1
  <2>2. CASE b = bp /\ sz[b] = grown
    BY <1>6, <2>2
  <2>3. CASE sz[b] = size[b]
    BY <1>4, <1>9, <2>3
  <2> QED BY <1>10, <2>1, <2>2, <2>3
<1>12. ASSUME NEW f \in F, NEW g \in F, f + sz[f] = g PROVE FALSE
  <2>1. g \in Free \/ (g = bp /\ below = {})
    <3>1. below = {} \/ below = {bp}
      BY <1>8
    <3> QED BY <3>1
  <2>2. CASE f = p /\ below # {} /\ p + size[p] = bp /\ sz[f] = size[p] + grown
    <3>1. f + sz[f] = bp + grown
      BY <1>4, <1>5, <1>6, <2>2
    <3> QED BY <1>6, <1>12, <2>1, <2>2, <3>1
  <2>3. CASE f = bp /\ below = {} /\ sz[f] = grown
    <3>1. bp + grown # bp
      BY <1>4, <1>5, <1>6
    <3> QED BY <1>6, <1>12, <2>1, <2>3, <3>1
  <2>4. CASE sz[f] = size[f] /\ f # bp /\ (f = p => below = {})
    <3>1. f \in Free
      BY <2>4
    <3>2. CASE g \in Free
      BY <1>7, <1>12, <2>4, <3>1, <3>2
    <3>3. CASE g = bp /\ below = {}
      <4>1. f < bp
        BY <1>4, <1>5, <1>12, <2>4, <3>1, <3>3
      <4>2. f <= p /\ p < bp
        BY <1>1, <1>2, <3>1, <4>1, PlaceOrder
      <4>3. f # p
        BY <1>8, <1>12, <2>4, <3>3
      <4>4. f < p => f + size[f] <= p
        BY <1>3, <3>1 DEF Laid, Layout
      <4> QED BY <1>4, <1>5, <1>12, <2>4, <3>1, <3>3, <4>2, <4>3, <4>4
    <3> QED BY <2>1, <3>2, <3>3
  <2> QED BY <1>10, <2>2, <2>3, <2>4
<1> QED BY <1>11, <1>12

\* Joined blocks fill the memory as they did apart.
LEMMA FreedLayout ==
    ASSUME HeapInv, Laid, NEW bp \in blocks, NEW k \in Places(bp),
           NEW above, NEW below, NEW grown, NEW sz,
           Freed(bp, ring[k], Succ(k), above, below, grown, sz),
           bp + size[bp] = Succ(k) => ring[k] # Succ(k)
    PROVE  Layout((blocks \cup Free) \ (above \cup below), sz)
<1>1. HeapTypes /\ bp \in Units /\ bp \notin Free
  BY DEF HeapInv, HeapTypes, Laid
<1>2. PICK p, up : p = ring[k] /\ up = Succ(k)
  OBVIOUS
<1>3. p \in Free /\ up \in Free /\ p # bp /\ up # bp
  BY <1>1, <1>2, PlaceFacts
<1>4. PICK A : A = blocks \cup Free
  OBVIOUS
<1>5. \A b \in A : b \in Units /\ b \in Nat /\ size[b] \in Nat /\ size[b] >= 1
  BY <1>4, BlockFacts
<1>6. bp \in A /\ p \in A /\ up \in A
  BY <1>3, <1>4
<1>7. /\ grown \in Nat /\ grown >= 1
      /\ \A b \in A : b > bp => bp + grown <= b \/ (b = up /\ bp + size[bp] = up)
      /\ bp + size[bp] <= bp + grown
  BY <1>2, <1>4, GrownFacts
<1>8. /\ above = IF bp + size[bp] = up THEN {up} ELSE {}
      /\ below = IF p + size[p] = bp THEN {bp} ELSE {}
      /\ grown = IF bp + size[bp] = up THEN size[bp] + size[up] ELSE size[bp]
      /\ below = {} => sz[bp] = grown
      /\ below # {} => sz[p] = size[p] + grown
      /\ \A u \in Units : u \notin above \cup below /\ ~ (u = p /\ below # {}) /\ ~ (u = bp /\ below = {})
                            => sz[u] = size[u]
  <2>1. above = IF bp + size[bp] = up THEN {up} \ {p} ELSE {}
    BY <1>2 DEF Freed
  <2>2. bp + size[bp] = up => p # up
    BY <1>2
  <2>3. above = IF bp + size[bp] = up THEN {up} ELSE {}
    BY <2>1, <2>2
  <2> QED BY <1>2, <2>3 DEF Freed
<1>9. /\ \A a, b \in A : a < b => a + size[a] <= b
      /\ \A u \in Units : \E a \in A : a <= u /\ u < a + size[a]
  BY <1>4 DEF Laid, Layout
\* The block that bp is in after the call.
<1>10. PICK m : m = IF below = {} THEN bp ELSE p
  OBVIOUS
<1>11. /\ m \in A /\ m \notin above \cup below /\ sz[m] \in Nat /\ m + sz[m] = bp + grown /\ m <= bp
  <2>1. bp + size[bp] = up => p # up
    BY <1>2
  <2>2. CASE below = {}
    BY <1>3, <1>5, <1>6, <1>7, <1>8, <1>10, <2>2
  <2>3. CASE below # {}
    BY <1>3, <1>5, <1>6, <1>7, <1>8, <1>10, <2>1, <2>3
  <2> QED BY <2>2, <2>3
<1>12. \A b \in A : b \notin above \cup below /\ b # m => sz[b] = size[b] /\ b # bp
  BY <1>5, <1>8, <1>10
<1> DEFINE B == A \ (above \cup below)
<1>13. ASSUME NEW a \in B, NEW b \in B, a < b PROVE a + sz[a] <= b
  <2>1. CASE a # m
    BY <1>9, <1>12, <1>13, <2>1
  <2>2. CASE a = m
    <3>1. b # bp /\ b \notin above
      <4>1. b = bp => below = {}
        BY <1>8
      <4> QED BY <1>5, <1>6, <1>10, <1>13, <2>2, <4>1
    <3>2. b > bp
      <4>1. CASE below = {}
        BY <1>10, <1>13, <2>2, <4>1
      <4>2. CASE below # {}
        <5>1. a = p /\ p + size[p] = bp
          BY <1>8, <1>10, <2>2, <4>2
        <5>2. bp <= b
          BY <1>6, <1>9, <1>13, <5>1
        <5> QED BY <1>5, <1>6, <3>1, <5>2
      <4> QED BY <4>1, <4>2
    <3>3. ~ (b = up /\ bp + size[bp] = up)
      BY <1>8, <3>1
    <3> QED BY <1>7, <1>11, <2>2, <3>2, <3>3
  <2> QED BY <2>1, <2>2
<1>14. ASSUME NEW u \in Units PROVE \E a \in B : a <= u /\ u < a + sz[a]
  <2>1. PICK a \in A : a <= u /\ u < a + size[a]
    BY <1>9
  <2>2. u \in Nat
    BY UnitsFacts
  <2>3. CASE a \in B /\ a # m
    BY <1>12, <2>1, <2>3
  <2>4. CASE a = m
    <3>1. m + size[m] <= m + sz[m]
      BY <1>5, <1>6, <1>7, <1>8, <1>10
    <3> QED BY <1>5, <1>11, <2>1, <2>2, <2>4, <3>1
  <2>5. CASE a = bp
    BY <1>5, <1>6, <1>7, <1>11, <2>1, <2>2, <2>5
  <2>6. CASE a \in above
    <3>1. a = up /\ bp + size[bp] = up /\ grown = size[bp] + size[up]
      BY <1>8, <2>6
    <3>2. bp <= u /\ u < bp + grown
      BY <1>5, <1>6, <2>1, <2>2, <3>1
    <3> QED BY <1>5, <1>6, <1>7, <1>11, <2>2, <3>2
  <2>7. a \in B \/ a = bp \/ a \in above
    BY <1>8
  <2> QED BY <2>3, <2>4, <2>5, <2>6, <2>7
<1> QED BY <1>4, <1>13, <1>14 DEF Layout

LEMMA FreeStep ==
    ASSUME HeapInv, Laid, NEW bp \in blocks, free(bp)
    PROVE  HeapInv'
<1>1. PICK k \in Places(bp) :
        LET p     == ring[k]
            above == IF JoinsUpper(k, bp) THEN {Succ(k)} \ {p} ELSE {}
            below == IF JoinsLower(k, bp) THEN {bp} ELSE {}
            grown == IF JoinsUpper(k, bp) THEN size[bp] + size[Succ(k)] ELSE size[bp]
            rest  == Tail(IF above = {} THEN From(k) ELSE Unlink(From(k)))
        IN  /\ ring' = IF below = {} THEN <<p, bp>> \o rest ELSE <<p>> \o rest
            /\ size' = [u \in Units |->
                   CASE u \in above \cup below -> 0
                     [] u = p /\ below # {} -> size[p] + grown
                     [] u = bp /\ below = {} -> grown
                     [] OTHER -> size[u]]
            /\ blocks' = blocks \ {bp}
            /\ UNCHANGED bottom
  BY DEF free
<1>2. PICK p, up, above, below, grown, t :
        /\ p = ring[k] /\ up = Succ(k)
        /\ above = IF JoinsUpper(k, bp) THEN {up} \ {p} ELSE {}
        /\ below = IF JoinsLower(k, bp) THEN {bp} ELSE {}
        /\ grown = IF JoinsUpper(k, bp) THEN size[bp] + size[up] ELSE size[bp]
        /\ t = IF above = {} THEN From(k) ELSE Unlink(From(k))
  OBVIOUS
<1>3. /\ ring' = IF below = {} THEN <<p, bp>> \o Tail(t) ELSE <<p>> \o Tail(t)
      /\ size' = [u \in Units |->
             CASE u \in above \cup below -> 0
               [] u = p /\ below # {} -> size[p] + grown
               [] u = bp /\ below = {} -> grown
               [] OTHER -> size[u]]
      /\ blocks' = blocks \ {bp}
      /\ bottom' = bottom
  BY <1>1, <1>2
<1>4. HeapTypes /\ bp \in Units /\ bp \notin Free
  BY DEF HeapInv, HeapTypes, Laid
<1>5. p \in Free /\ up \in Free /\ p # bp /\ up # bp /\ p \in Units
  BY <1>2, <1>4, PlaceFacts, FreeFacts
<1>6. \A b \in blocks \cup Free : b \in Nat /\ b >= 1 /\ size[b] \in Nat /\ size[b] >= 1
  BY BlockFacts
<1>7. /\ above = IF bp + size[bp] = up THEN {up} \ {p} ELSE {}
      /\ below = IF p + size[p] = bp THEN {bp} ELSE {}
      /\ grown = IF bp + size[bp] = up THEN size[bp] + size[up] ELSE size[bp]
  BY <1>2 DEF JoinsUpper, JoinsLower
<1>8. p \notin above \cup below /\ bp \notin above
  BY <1>5, <1>7
<1>9. PICK sz : sz = size'
  OBVIOUS
<1>10. Freed(bp, p, up, above, below, grown, sz)
  <2>1. below = {} => sz[bp] = grown
    BY <1>3, <1>4, <1>5, <1>8, <1>9
  <2>2. below # {} => sz[p] = size[p] + grown
    BY <1>3, <1>5, <1>8, <1>9
  <2>3. \A u \in Units : u \notin above \cup below /\ ~ (u = p /\ below # {}) /\ ~ (u = bp /\ below = {})
                            => sz[u] = size[u]
    BY <1>3, <1>9
  <2> QED BY <1>7, <2>1, <2>2, <2>3 DEF Freed
<1>11. PICK F : F = (Free \ above) \cup ({bp} \ below)
  OBVIOUS
<1>12. ring' \in Seq(Units) /\ InOrder(ring') /\ Members(ring') = F
  <2>1. PICK r : r = ring'
    OBVIOUS
  <2>2. r = IF below = {} THEN <<ring[k], bp>> \o Tail(t) ELSE <<ring[k]>> \o Tail(t)
    BY <1>2, <1>3, <2>1
  <2>3. \/ above = {}
        \/ above = {Succ(k)} /\ ring[k] # Succ(k) /\ bp < Succ(k)
    <3>1. bp + size[bp] = up => bp < up
      BY <1>5, <1>6
    <3> QED BY <1>2, <1>7, <3>1
  <2>4. below = {} \/ below = {bp}
    BY <1>7
  <2>5. t = IF above = {} THEN From(k) ELSE Unlink(From(k))
    BY <1>2
  <2>6. /\ r \in Seq(Units) /\ InOrder(r)
        /\ Members(r) = (Free \ above) \cup ({bp} \ below)
    <3>1. Relinked(k, bp, above, below, t, r)
      BY <2>2, <2>3, <2>4, <2>5 DEF Relinked
    <3> QED BY <1>4, <3>1, FreeRing
  <2> QED BY <1>11, <2>1, <2>6
<1>13. Free' = F
  BY <1>12 DEF Free
<1>14. size' \in [Units -> Nat]
  <2>1. grown \in Nat /\ size[p] \in Nat /\ size[bp] \in Nat
    BY <1>5, <1>6, <1>7
  <2>2. \A u \in Units : size[u] \in Nat
    BY <1>4, FreeFacts
  <2>3. \A u \in Units : (CASE u \in above \cup below -> 0
                            [] u = p /\ below # {} -> size[p] + grown
                            [] u = bp /\ below = {} -> grown
                            [] OTHER -> size[u]) \in Nat
    <3> TAKE u \in Units
    <3>1. CASE u \in above \cup below
      BY <1>8, <3>1
    <3>2. CASE u \notin above \cup below
      BY <1>5, <2>1, <2>2, <3>2
    <3> QED BY <3>1, <3>2
  <2> QED BY <1>3, <2>3
<1>15. HeapTypes'
  BY <1>3, <1>4, <1>12, <1>14 DEF HeapTypes
<1>16. /\ \A b \in (blocks \ {bp}) \cup F : sz[b] >= 1 /\ b + sz[b] <= Arena + 1
       /\ \A f, g \in F : f + sz[f] # g
  <2>1. Freed(bp, ring[k], Succ(k), above, below, grown, sz)
    BY <1>2, <1>10
  <2>2. FreeThen(F, bp, above, below)
    BY <1>11 DEF FreeThen
  <2> QED BY <2>1, <2>2, FreedApart
<1>17. Fits' /\ NoNeighbours'
  BY <1>3, <1>9, <1>13, <1>16 DEF Fits, NoNeighbours
<1>18. ~ bottom' => Base \notin blocks'
  BY <1>3 DEF HeapInv
<1>19. ASSUME ~ bottom PROVE Laid'
  <2>1. bp + size[bp] = up => p # up
    <3> SUFFICES ASSUME bp + size[bp] = up, p = up PROVE FALSE
      OBVIOUS
    <3>1. Base \in Free
      BY <1>19, BottomFree
    <3>2. bp < p
      BY <1>5, <1>6
    <3>3. Base < bp
      BY <1>4, <1>6, <3>1 DEF Base
    <3>4. Base <= p /\ p < bp
      BY <1>2, <1>4, <3>1, <3>3, PlaceOrder
    <3> QED BY <1>5, <1>6, <3>2, <3>4
  <2>2. Layout((blocks \cup Free) \ (above \cup below), sz)
    BY <1>2, <1>10, <2>1, FreedLayout
  <2>3. above \subseteq Free /\ below \subseteq {bp}
    BY <1>5, <1>7
  <2>4. blocks \cap Free = {}
    BY DEF Laid
  <2>5. blocks' \cap Free' = {}
    BY <1>3, <1>11, <1>13, <2>4
  <2>6. blocks' \cup Free' = (blocks \cup Free) \ (above \cup below)
    BY <1>3, <1>4, <1>11, <1>13, <2>3, <2>4
  <2>7. Layout(blocks' \cup Free', size')
    BY <1>9, <2>2, <2>6
  <2> QED BY <2>5, <2>7 DEF Laid
<1> QED BY <1>3, <1>15, <1>17, <1>18, <1>19 DEF HeapInv

-----------------------------------------------------------------------------
LEMMA HeapInit == Init => HeapInv
<1> SUFFICES ASSUME Init PROVE HeapInv
  OBVIOUS
<1>1. ring = <<Base>> /\ blocks = {} /\ size = [u \in Units |-> IF u = Base THEN Arena ELSE 0]
  BY DEF Init
<1>2. Base \in Units /\ Arena \in Nat /\ Arena >= 1 /\ Base = 1 /\ \A u \in Units : u \in Nat
  BY UnitsFacts, HeapAssumption DEF Base
<1>3. ring \in Seq(Units) /\ Len(ring) = 1 /\ ring[1] = Base /\ 1 .. 1 = {1}
  BY <1>1, <1>2
<1>4. Free = {Base}
  BY <1>3 DEF Free, Members
<1>5. Behind(ring, 1) = Base
  BY <1>3 DEF Behind
<1>6. InOrder(ring)
  <2>1. ~ Between(Base, Base, Base)
    BY <1>2 DEF Between
  <2> QED BY <1>3, <1>5, <2>1 DEF InOrder
<1>7. size[Base] = Arena /\ size \in [Units -> Nat]
  BY <1>1, <1>2
<1>8. HeapTypes
  BY <1>1, <1>3, <1>6, <1>7 DEF HeapTypes
<1>9. Fits /\ NoNeighbours
  BY <1>1, <1>2, <1>4, <1>7 DEF Fits, NoNeighbours
<1>10. Laid
  <2>1. \A u \in Units : Base <= u /\ u < Base + size[Base]
    BY <1>2, <1>7, UnitsFacts
  <2>2. ~ (Base < Base)
    BY <1>2
  <2>3. blocks \cup Free = {Base}
    BY <1>1, <1>4
  <2>4. Layout({Base}, size)
    BY <2>1, <2>2 DEF Layout
  <2> QED BY <1>1, <2>3, <2>4 DEF Laid
<1> QED BY <1>1, <1>8, <1>9, <1>10 DEF HeapInv

LEMMA HeapStep == HeapInv /\ [Next]_vars => HeapInv'
<1> SUFFICES ASSUME HeapInv, [Next]_vars PROVE HeapInv'
  OBVIOUS
<1>1. ASSUME UNCHANGED <<ring, size, blocks, bottom>> PROVE HeapInv'
  <2>1. HeapTypes' /\ Free' = Free
    BY <1>1 DEF HeapInv, HeapTypes, Free
  <2>2. Fits' /\ NoNeighbours' /\ (Laid' <=> Laid)
    BY <1>1, <2>1 DEF HeapInv, Fits, NoNeighbours, Laid
  <2> QED BY <1>1, <2>1, <2>2 DEF HeapInv
<1>2. CASE UNCHANGED vars
  BY <1>1, <1>2 DEF vars
<1>3. ASSUME Next PROVE HeapInv'
  <2>1. Laid
    BY <1>3, SoundLaid DEF HeapInv, Next
  <2>2. ASSUME NEW n \in Requests, AllocFails(n) PROVE HeapInv'
    BY <1>1, <2>2 DEF AllocFails
  <2>3. ASSUME NEW n \in Requests, AllocExact(n) PROVE HeapInv'
    BY <2>1, <2>3, ExactStep
  <2>4. ASSUME NEW n \in Requests, AllocTail(n) PROVE HeapInv'
    BY <2>1, <2>4, TailStep
  <2>5. ASSUME NEW bp \in blocks, free(bp) PROVE HeapInv'
    BY <2>1, <2>5, FreeStep
  <2> QED BY <1>3, <2>2, <2>3, <2>4, <2>5 DEF Next
<1> QED BY <1>2, <1>3

\* heap.cc:53 and :80, for every history of calls: as long as the start of the
\* heap has not been handed out no unit is lost or belongs to two blocks.
THEOREM EveryUnitAlwaysOnce == Spec => []EveryUnitOnce
<1>1. HeapInv => EveryUnitOnce
  BY LaidSound DEF HeapInv, EveryUnitOnce
<1> QED BY <1>1, HeapInit, HeapStep, PTL DEF Spec

-----------------------------------------------------------------------------
\* Every block outside of the ring has a place in it.
LEMMA PlaceExists ==
    ASSUME HeapTypes, NEW b \in Units, b \notin Free
    PROVE  Places(b) # {}
<1>1. b \in Nat /\ \A f \in Free : f \in Nat /\ f # b /\ f <= Arena
  BY FreeFacts, UnitsFacts
<1>2. \A f \in Free : \E k \in DOMAIN ring : ring[k] = f /\ Succ(k) \in Free
  <2> TAKE f \in Free
  <2>1. PICK k \in 1 .. Len(ring) : ring[k] = f
    BY DEF Free, Members
  <2>2. Succ(k) \in Free
    <3>1. Succ(k) = Behind(ring, k)
      BY DEF Succ, Behind
    <3> QED BY <3>1, RingElements DEF HeapTypes, Free, Members
  <2> QED BY <2>1, <2>2, FreeFacts
<1> DEFINE Lower == {b - f : f \in {f \in Free : f < b}}
           Down  == {Arena - f : f \in Free}
<1>3. CASE Lower # {}
  <2>1. Lower \in SUBSET Nat
    BY <1>1
  <2>2. PICK x \in Lower : \A y \in Lower : x <= y
    <3> HIDE DEF Lower
    <3> QED BY <1>3, <2>1, LeastNumber
  <2>3. PICK f \in Free : f < b /\ x = b - f
    BY <2>2
  <2>4. \A g \in Free : g < b => g <= f
    <3> TAKE g \in Free
    <3> HAVE g < b
    <3>1. b - g \in Lower
      OBVIOUS
    <3>2. b - f <= b - g
      <4> HIDE DEF Lower
      <4> QED BY <2>2, <2>3, <3>1
    <3> QED BY <1>1, <3>2
  <2>5. PICK k \in DOMAIN ring : ring[k] = f /\ Succ(k) \in Free
    BY <1>2
  <2>6. Before(k, b)
    <3>1. CASE Succ(k) < b
      BY <1>1, <2>3, <2>4, <2>5, <3>1 DEF Before
    <3>2. CASE ~ (Succ(k) < b)
      BY <1>1, <2>3, <2>5, <3>2 DEF Before
    <3> QED BY <3>1, <3>2
  <2> QED BY <2>6 DEF Places
<1>4. CASE Lower = {}
  <2>1. \A f \in Free : b < f
    BY <1>1, <1>4
  <2>2. Arena \in Nat /\ Down \in SUBSET Nat
    BY <1>1, HeapAssumption
  <2>3. Down # {}
    BY FreeFacts
  <2>4. PICK x \in Down : \A y \in Down : x <= y
    <3> HIDE DEF Down
    <3> QED BY <2>2, <2>3, LeastNumber
  <2>5. PICK f \in Free : x = Arena - f
    BY <2>4
  <2>6. \A g \in Free : g <= f
    BY <1>1, <2>2, <2>4, <2>5
  <2>7. PICK k \in DOMAIN ring : ring[k] = f /\ Succ(k) \in Free
    BY <1>2
  <2>8. Before(k, b)
    BY <1>1, <2>1, <2>6, <2>7 DEF Before
  <2> QED BY <2>8 DEF Places
<1> QED BY <1>3, <1>4

\* heap.cc:76, for every history of calls: the search of free for the place of
\* a block ends, whichever block is freed first.
THEOREM FreeAlwaysReturns == Spec => []FreeReturns
<1>1. HeapInv => FreeReturns
  <2> SUFFICES ASSUME HeapInv, Sound, NEW b \in blocks PROVE Places(b) # {}
    BY DEF FreeReturns
  <2>1. Laid
    BY SoundLaid DEF HeapInv
  <2>2. HeapTypes /\ b \in Units /\ b \notin Free
    BY <2>1 DEF HeapInv, HeapTypes, Laid
  <2> QED BY <2>2, PlaceExists
<1> QED BY <1>1, HeapInit, HeapStep, PTL DEF Spec

-----------------------------------------------------------------------------
\* Where no free block has w units no w units side by side are free: the end
\* of a free block in their midst would begin another one.
LEMMA NoRoom ==
    ASSUME HeapInv, Laid, NEW w \in Nat, w >= 1, \A f \in Free : ~ (size[f] >= w),
           NEW u \in Units, u + w - 1 <= Arena
    PROVE  \E b \in blocks : Extent(b, size[b]) \cap Extent(u, w) # {}
<1> SUFFICES ASSUME \A b \in blocks : Extent(b, size[b]) \cap Extent(u, w) = {} PROVE FALSE
  OBVIOUS
<1>1. \A b \in blocks \cup Free : b \in Nat /\ b >= 1 /\ size[b] \in Nat /\ size[b] >= 1
  BY BlockFacts
<1>2. u \in Nat /\ u >= 1 /\ Arena \in Nat
  BY UnitsFacts, HeapAssumption
<1>3. \A v \in Nat : u <= v /\ v < u + w => \E f \in Free : f <= v /\ v < f + size[f]
  <2> TAKE v \in Nat
  <2> HAVE u <= v /\ v < u + w
  <2>1. v \in Units /\ v \in Extent(u, w)
    BY <1>2, UnitsFacts DEF Extent
  <2>2. PICK a \in blocks \cup Free : a <= v /\ v < a + size[a]
    BY <2>1 DEF Laid, Layout
  <2>3. v \in Extent(a, size[a])
    BY <1>1, <2>2 DEF Extent
  <2>4. a \notin blocks
    BY <2>1, <2>3
  <2> QED BY <2>2, <2>4
<1>4. PICK a \in Free : a <= u /\ u < a + size[a]
  BY <1>2, <1>3
<1>5. PICK v \in Nat : v = a + size[a] /\ u <= v /\ v < u + w
  <2>1. a \in Nat /\ size[a] \in Nat /\ ~ (size[a] >= w)
    BY <1>1
  <2> QED BY <1>2, <1>4, <2>1
<1>6. PICK c \in Free : c <= v /\ v < c + size[c]
  BY <1>3, <1>5
<1>7. a < c => a + size[a] <= c
  BY DEF Laid, Layout
<1>8. c < a => c + size[c] <= a
  BY DEF Laid, Layout
<1>9. a + size[a] # c
  BY DEF HeapInv, NoNeighbours
<1> QED BY <1>1, <1>4, <1>5, <1>6, <1>7, <1>8, <1>9

LEMMA AnswerStep == HeapInv /\ RefusedOnlyWithoutRoom /\ [Next]_vars => RefusedOnlyWithoutRoom'
<1> SUFFICES ASSUME HeapInv, RefusedOnlyWithoutRoom, [Next]_vars PROVE RefusedOnlyWithoutRoom'
  OBVIOUS
<1>1. CASE UNCHANGED vars
  BY <1>1 DEF vars, RefusedOnlyWithoutRoom, RoomForRequest
<1>2. ASSUME Next PROVE RefusedOnlyWithoutRoom'
  <2>1. Laid
    BY <1>2, SoundLaid DEF HeapInv, Next
  <2>2. ASSUME NEW n \in Requests, AllocFails(n) PROVE RefusedOnlyWithoutRoom'
    <3>1. PICK w \in Nat : w = Nunits(n) /\ w >= 1
      BY NunitsFacts
    <3>2. \A f \in Free : ~ (size[f] >= w)
      BY <2>2, <3>1, NoFit DEF AllocFails, HeapInv
    <3>3. /\ answer'.returns = "NULL" /\ answer'.nunits = w
          /\ UNCHANGED <<size, blocks>>
      BY <2>2, <3>1 DEF AllocFails, Returns
    <3>4. \A u \in Units : u + w - 1 <= Arena =>
              \E b \in blocks : Extent(b, size[b]) \cap Extent(u, w) # {}
      BY <2>1, <3>1, <3>2, NoRoom
    <3>5. RoomForRequest'
      BY <3>3 DEF RoomForRequest
    <3> QED BY <3>3, <3>4, <3>5 DEF RefusedOnlyWithoutRoom
  <2>3. ASSUME NEW n \in Requests, AllocExact(n) \/ AllocTail(n) PROVE RefusedOnlyWithoutRoom'
    <3>1. answer' = [returns |-> "block", nbytes |-> n, nunits |-> Nunits(n)]
      BY <2>3 DEF AllocExact, AllocTail, Returns
    <3>2. answer'.returns = "block" /\ answer'.nbytes = n /\ answer'.nunits = Nunits(n)
      BY <3>1
    <3>3. RoomForRequest'
      BY <3>2, NunitsFacts DEF RoomForRequest
    <3> QED BY <3>2, <3>3 DEF RefusedOnlyWithoutRoom
  <2>4. ASSUME NEW bp \in blocks, free(bp) PROVE RefusedOnlyWithoutRoom'
    <3>1. answer' = NoAnswer
      BY <2>4 DEF free
    <3>2. answer'.returns = "nothing"
      BY <3>1 DEF NoAnswer
    <3> QED BY <3>2 DEF RefusedOnlyWithoutRoom, RoomForRequest
  <2> QED BY <1>2, <2>2, <2>3, <2>4 DEF Next
<1> QED BY <1>1, <1>2

\* heap.cc:43, :63 and :80, for every history of calls: alloc returns NULL only
\* when there are not so many free units side by side, and a block it hands out
\* has room for the bytes asked for unless the rounding overflows.
THEOREM RefusedAlwaysWithoutRoom == Spec => []RefusedOnlyWithoutRoom
<1>1. Init => RefusedOnlyWithoutRoom
  BY DEF Init, NoAnswer, RefusedOnlyWithoutRoom, RoomForRequest
<1> QED BY <1>1, HeapInit, HeapStep, AnswerStep, PTL DEF Spec
=============================================================================
