---------------------------- MODULE Sigma0Proofs ----------------------------
(***************************************************************************)
(* The memory of sigma0, for address spaces, machines and requests of any  *)
(* size.                                                                   *)
(***************************************************************************)
EXTENDS Sigma0, FiniteSetTheorems, NaturalsInduction, WellFoundedInduction, TLAPS

-----------------------------------------------------------------------------
(***************************************************************************)
(* Sequences of regions.  A region is empty when its last pages went into  *)
(* sigma0's list of descriptors.                                           *)
(***************************************************************************)
Regs == {r \in [low : Nat, high : Nat, owner : Owners] : r.low <= r.high + 1 /\ r.high < Word}

In(rs, p) == \E i \in DOMAIN rs : p \in PagesOf(rs[i])
Has(rs, p, o) == \E i \in DOMAIN rs : p \in PagesOf(rs[i]) /\ rs[i].owner = o
Apart(rs) == \A i, j \in DOMAIN rs : \A p : p \in PagesOf(rs[i]) /\ p \in PagesOf(rs[j]) => i = j

\* t has the pages of rs and those of region r.
Grown(rs, r, t) ==
    /\ t \in Seq(Regs) /\ Apart(t)
    /\ \A p : \A o : Has(t, p, o) <=> Has(rs, p, o) \/ (p \in PagesOf(r) /\ r.owner = o)

\* t has the pages of rs.
Same(rs, t) ==
    /\ t \in Seq(Regs) /\ Apart(t)
    /\ \A p : \A o : Has(t, p, o) <=> Has(rs, p, o)

\* x covers a and b.
Covers(x, a, b) ==
    /\ x \in Regs /\ x.owner = a.owner /\ x.owner = b.owner
    /\ \A p : p \in PagesOf(x) <=> p \in PagesOf(a) \/ p \in PagesOf(b)

Replaced(rs, k, x, t) ==
    /\ DOMAIN t = DOMAIN rs
    /\ \A i \in DOMAIN rs : t[i] = IF i = k THEN x ELSE rs[i]

LEMMA ReplaceElements ==
    ASSUME NEW rs \in Seq(Regs), NEW k \in DOMAIN rs, NEW x \in Regs
    PROVE  ReplaceAt(rs, k, x) \in Seq(Regs) /\ Replaced(rs, k, x, ReplaceAt(rs, k, x))
BY DEF ReplaceAt, Replaced

LEMMA ReplaceGrown ==
    ASSUME NEW rs \in Seq(Regs), Apart(rs), NEW k \in DOMAIN rs, NEW r \in Regs, NEW x \in Regs,
           Covers(x, rs[k], r), \A p : p \in PagesOf(r) => ~ In(rs, p),
           NEW t \in Seq(Regs), Replaced(rs, k, x, t)
    PROVE  Grown(rs, r, t)
<1>1. ASSUME NEW i \in DOMAIN t, NEW j \in DOMAIN t, NEW p, p \in PagesOf(t[i]), p \in PagesOf(t[j])
      PROVE  i = j
  <2>1. i \in DOMAIN rs /\ j \in DOMAIN rs
    BY DEF Replaced
  <2>2. p \in PagesOf(rs[i]) \/ (i = k /\ p \in PagesOf(r))
    BY <1>1, <2>1 DEF Replaced, Covers
  <2>3. p \in PagesOf(rs[j]) \/ (j = k /\ p \in PagesOf(r))
    BY <1>1, <2>1 DEF Replaced, Covers
  <2> QED BY <2>1, <2>2, <2>3 DEF Apart, In
<1>2. ASSUME NEW p, NEW o PROVE Has(t, p, o) <=> Has(rs, p, o) \/ (p \in PagesOf(r) /\ r.owner = o)
  <2>1. ASSUME NEW i \in DOMAIN rs
        PROVE  p \in PagesOf(t[i]) /\ t[i].owner = o <=>
                   (p \in PagesOf(rs[i]) /\ rs[i].owner = o) \/ (i = k /\ p \in PagesOf(r) /\ r.owner = o)
    BY <2>1 DEF Replaced, Covers
  <2> QED BY <2>1 DEF Has, Replaced
<1> QED BY <1>1, <1>2 DEF Grown, Apart

Removed(rs, k, t) ==
    /\ Len(t) = Len(rs) - 1
    /\ \A j \in 1 .. Len(rs) - 1 : t[j] = rs[IF j < k THEN j ELSE j + 1]

Joins(s, u, joined) == joined = s \o u

LEMMA JoinFacts ==
    ASSUME NEW S, NEW s \in Seq(S), NEW u \in Seq(S), NEW joined, Joins(s, u, joined)
    PROVE  /\ joined \in Seq(S) /\ Len(joined) = Len(s) + Len(u)
           /\ \A i \in 1 .. Len(s) : joined[i] = s[i]
           /\ \A i \in 1 .. Len(u) : joined[Len(s) + i] = u[i]
<1>1. PICK l \in Nat : l = Len(s)
  OBVIOUS
<1>2. PICK g \in Nat : g = Len(u)
  OBVIOUS
<1>3. joined \in Seq(S) /\ Len(joined) = l + g
  BY <1>1, <1>2 DEF Joins
<1>4. \A i \in 1 .. l + g : joined[i] = IF i <= l THEN s[i] ELSE u[i - l]
  BY <1>1, <1>2 DEF Joins
<1>5. ASSUME NEW i \in 1 .. l PROVE joined[i] = s[i]
  <2>1. i \in 1 .. l + g /\ i <= l
    BY <1>1, <1>2
  <2> QED BY <1>4, <2>1
<1>6. ASSUME NEW i \in 1 .. g PROVE joined[l + i] = u[i]
  <2>1. l + i \in 1 .. l + g /\ ~ (l + i <= l) /\ (l + i) - l = i
    BY <1>1, <1>2
  <2> QED BY <1>4, <2>1
<1> QED BY <1>1, <1>2, <1>3, <1>5, <1>6

\* A part of a sequence.
Part(rs, a, b, t) ==
    Len(t) = (IF a <= b THEN b - a + 1 ELSE 0) /\ \A i \in 1 .. Len(t) : t[i] = rs[a + i - 1]

LEMMA SubSeqFacts ==
    ASSUME NEW S, NEW rs \in Seq(S), NEW a \in Nat \ {0}, NEW b \in 0 .. Len(rs)
    PROVE  SubSeq(rs, a, b) \in Seq(S) /\ Part(rs, a, b, SubSeq(rs, a, b))
<1>1. PICK n \in Nat : n = Len(rs)
  OBVIOUS
<1>2. PICK t : t = SubSeq(rs, a, b)
  OBVIOUS
<1>3. t \in Seq(S)
  BY <1>1, <1>2
<1>4. Len(t) = IF a <= b THEN b - a + 1 ELSE 0
  BY <1>1, <1>2
<1>5. \A i \in 1 .. Len(t) : t[i] = rs[a + i - 1]
  BY <1>1, <1>2, <1>4
<1> QED BY <1>2, <1>3, <1>4, <1>5 DEF Part


LEMMA RemoveElements ==
    ASSUME NEW S, NEW rs \in Seq(S), NEW k \in DOMAIN rs
    PROVE  RemoveAt(rs, k) \in Seq(S) /\ Removed(rs, k, RemoveAt(rs, k))
<1>1. PICK n \in Nat : n = Len(rs)
  OBVIOUS
<1>2. k \in 1 .. n
  BY <1>1
<1>3. PICK u : u = SubSeq(rs, 1, k - 1)
  OBVIOUS
<1>4. PICK v : v = SubSeq(rs, k + 1, n)
  OBVIOUS
<1>5. u \in Seq(S) /\ Len(u) = k - 1 /\ \A i \in 1 .. k - 1 : u[i] = rs[1 + i - 1]
  <2>1. 1 \in Nat \ {0} /\ k - 1 \in 0 .. n
    BY <1>1, <1>2
  <2>2. u \in Seq(S) /\ Part(rs, 1, k - 1, u)
    BY <1>1, <1>3, <2>1, SubSeqFacts
  <2>3. Len(u) = k - 1
    BY <1>2, <2>2 DEF Part
  <2> QED BY <2>2, <2>3 DEF Part
<1>6. v \in Seq(S) /\ Len(v) = n - k /\ \A i \in 1 .. n - k : v[i] = rs[(k + 1) + i - 1]
  <2>1. k + 1 \in Nat \ {0} /\ n \in 0 .. n
    BY <1>1, <1>2
  <2>2. v \in Seq(S) /\ Part(rs, k + 1, n, v)
    BY <1>1, <1>4, <2>1, SubSeqFacts
  <2>3. Len(v) = n - k
    BY <1>1, <1>2, <2>2 DEF Part
  <2> QED BY <2>2, <2>3 DEF Part
<1>7. PICK t : Joins(u, v, t)
  BY DEF Joins
<1>8. t = RemoveAt(rs, k)
  BY <1>1, <1>3, <1>4, <1>7 DEF Joins, RemoveAt
<1>9. t \in Seq(S) /\ Len(t) = n - 1
      /\ (\A i \in 1 .. k - 1 : t[i] = u[i]) /\ (\A i \in 1 .. n - k : t[(k - 1) + i] = v[i])
  <2>1. t \in Seq(S) /\ Len(t) = Len(u) + Len(v)
        /\ (\A i \in 1 .. Len(u) : t[i] = u[i]) /\ (\A i \in 1 .. Len(v) : t[Len(u) + i] = v[i])
    BY <1>5, <1>6, <1>7, JoinFacts
  <2> QED BY <1>1, <1>2, <1>5, <1>6, <2>1
<1>10. ASSUME NEW j \in 1 .. n - 1 PROVE t[j] = rs[IF j < k THEN j ELSE j + 1]
  <2>1. CASE j < k
    <3>1. j \in 1 .. k - 1 /\ 1 + j - 1 = j
      BY <1>1, <1>2, <2>1
    <3> QED BY <1>5, <1>9, <2>1, <3>1
  <2>2. CASE ~ (j < k)
    <3>1. PICK i \in 1 .. n - k : i = j - (k - 1)
      BY <1>1, <1>2, <2>2
    <3>2. (k - 1) + i = j /\ (k + 1) + i - 1 = j + 1
      BY <1>1, <1>2, <3>1
    <3>3. t[(k - 1) + i] = v[i] /\ v[i] = rs[(k + 1) + i - 1]
      BY <1>6, <1>9
    <3> QED BY <2>2, <3>2, <3>3
  <2> QED BY <2>1, <2>2
<1> QED BY <1>1, <1>8, <1>9, <1>10 DEF Removed

Inserted(rs, k, x, t) ==
    /\ Len(t) = Len(rs) + 1 /\ t[k] = x
    /\ \A j \in 1 .. Len(rs) : t[IF j < k THEN j ELSE j + 1] = rs[j]

LEMMA InsertElements ==
    ASSUME NEW S, NEW rs \in Seq(S), NEW k \in 1 .. Len(rs) + 1, NEW x \in S
    PROVE  InsertAt(rs, k, x) \in Seq(S) /\ Inserted(rs, k, x, InsertAt(rs, k, x))
<1>1. PICK n \in Nat : n = Len(rs)
  OBVIOUS
<1>2. k \in 1 .. n + 1
  BY <1>1
<1>3. PICK u : u = SubSeq(rs, 1, k - 1)
  OBVIOUS
<1>4. PICK v : v = SubSeq(rs, k, n)
  OBVIOUS
<1>5. u \in Seq(S) /\ Len(u) = k - 1 /\ \A i \in 1 .. k - 1 : u[i] = rs[1 + i - 1]
  <2>1. 1 \in Nat \ {0} /\ k - 1 \in 0 .. n
    BY <1>1, <1>2
  <2>2. u \in Seq(S) /\ Part(rs, 1, k - 1, u)
    BY <1>1, <1>3, <2>1, SubSeqFacts
  <2>3. Len(u) = k - 1
    BY <1>2, <2>2 DEF Part
  <2> QED BY <2>2, <2>3 DEF Part
<1>6. v \in Seq(S) /\ Len(v) = n - k + 1 /\ \A i \in 1 .. n - k + 1 : v[i] = rs[k + i - 1]
  <2>1. k \in Nat \ {0} /\ n \in 0 .. n
    BY <1>1, <1>2
  <2>2. v \in Seq(S) /\ Part(rs, k, n, v)
    BY <1>1, <1>4, <2>1, SubSeqFacts
  <2>3. Len(v) = n - k + 1
    BY <1>1, <1>2, <2>2 DEF Part
  <2> QED BY <2>2, <2>3 DEF Part
<1>7. PICK one \in Seq(S) : one = <<x>> /\ Len(one) = 1 /\ one[1] = x
  <2>1. <<x>> \in Seq(S) /\ Len(<<x>>) = 1 /\ <<x>>[1] = x
    OBVIOUS
  <2> QED BY <2>1
<1>8. PICK w : Joins(u, one, w)
  BY DEF Joins
<1>9. w \in Seq(S) /\ Len(w) = k /\ (\A i \in 1 .. k - 1 : w[i] = u[i]) /\ w[k] = x
  <2>1. w \in Seq(S) /\ Len(w) = Len(u) + Len(one)
        /\ (\A i \in 1 .. Len(u) : w[i] = u[i]) /\ (\A i \in 1 .. Len(one) : w[Len(u) + i] = one[i])
    <3>1. u \in Seq(S) /\ one \in Seq(S)
      BY <1>5, <1>7
    <3> QED BY <1>8, <3>1, JoinFacts
  <2>2. 1 \in 1 .. Len(one) /\ Len(u) + 1 = k
    BY <1>2, <1>5, <1>7
  <2> QED BY <1>2, <1>5, <1>7, <2>1, <2>2
<1>10. PICK t : Joins(w, v, t)
  BY DEF Joins
<1>11. t = InsertAt(rs, k, x)
  BY <1>1, <1>3, <1>4, <1>7, <1>8, <1>10 DEF Joins, InsertAt
<1>12. t \in Seq(S) /\ Len(t) = n + 1
      /\ (\A i \in 1 .. k : t[i] = w[i]) /\ (\A i \in 1 .. n - k + 1 : t[k + i] = v[i])
  <2>1. t \in Seq(S) /\ Len(t) = Len(w) + Len(v)
        /\ (\A i \in 1 .. Len(w) : t[i] = w[i]) /\ (\A i \in 1 .. Len(v) : t[Len(w) + i] = v[i])
    <3>1. w \in Seq(S) /\ v \in Seq(S)
      BY <1>6, <1>9
    <3> QED BY <1>10, <3>1, JoinFacts
  <2> QED BY <1>1, <1>2, <1>6, <1>9, <2>1
<1>13. t[k] = x
  BY <1>2, <1>9, <1>12
<1>14. ASSUME NEW j \in 1 .. n PROVE t[IF j < k THEN j ELSE j + 1] = rs[j]
  <2>1. CASE j < k
    <3>1. j \in 1 .. k - 1 /\ j \in 1 .. k /\ 1 + j - 1 = j
      BY <1>1, <1>2, <2>1
    <3> QED BY <1>5, <1>9, <1>12, <2>1, <3>1
  <2>2. CASE ~ (j < k)
    <3>1. PICK i \in 1 .. n - k + 1 : i = j - k + 1
      BY <1>1, <1>2, <2>2
    <3>2. k + i = j + 1 /\ k + i - 1 = j
      BY <1>1, <1>2, <3>1
    <3>3. t[k + i] = v[i] /\ v[i] = rs[k + i - 1]
      BY <1>6, <1>12
    <3> QED BY <2>2, <3>2, <3>3
  <2> QED BY <2>1, <2>2
<1> QED BY <1>1, <1>11, <1>12, <1>13, <1>14 DEF Inserted

\* Where an element of rs is after an insertion or a removal at k, and back.
LEMMA MergeSame ==
    ASSUME NEW rs \in Seq(Regs), Apart(rs), NEW k \in DOMAIN rs, k + 1 \in DOMAIN rs, NEW x \in Regs,
           Covers(x, rs[k], rs[k + 1]),
           NEW u \in Seq(Regs), Replaced(rs, k, x, u), NEW t \in Seq(Regs), Removed(u, k + 1, t)
    PROVE  Same(rs, t)
<1>1. PICK n \in Nat : n = Len(rs) /\ DOMAIN rs = 1 .. n /\ k \in 1 .. n /\ k + 1 \in 1 .. n
  OBVIOUS
<1>2. Len(u) = n /\ DOMAIN u = 1 .. n
  BY <1>1 DEF Replaced
<1>3. DOMAIN t = 1 .. n - 1 /\ \A j \in 1 .. n - 1 : t[j] = u[IF j < k + 1 THEN j ELSE j + 1]
  BY <1>1, <1>2 DEF Removed
<1> DEFINE Old(j) == IF j < k + 1 THEN j ELSE j + 1
<1>4. ASSUME NEW j \in 1 .. n - 1
      PROVE  /\ Old(j) \in 1 .. n /\ Old(j) # k + 1 /\ t[j] = u[Old(j)]
             /\ j = (IF Old(j) <= k THEN Old(j) ELSE Old(j) - 1)
  BY <1>1, <1>3
<1>5. ASSUME NEW i \in 1 .. n, i # k + 1 PROVE \E j \in 1 .. n - 1 : Old(j) = i
  <2>1. CASE i <= k
    <3>1. i \in 1 .. n - 1 /\ Old(i) = i
      BY <1>1, <2>1
    <3> QED BY <3>1
  <2>2. CASE ~ (i <= k)
    <3>1. i - 1 \in 1 .. n - 1 /\ Old(i - 1) = i
      BY <1>1, <1>5, <2>2
    <3> QED BY <3>1
  <2> QED BY <2>1, <2>2
<1>6. ASSUME NEW i \in 1 .. n, NEW p
      PROVE  p \in PagesOf(u[i]) <=> p \in PagesOf(rs[i]) \/ (i = k /\ p \in PagesOf(rs[k + 1]))
  BY <1>1 DEF Replaced, Covers
<1>7. \A i \in 1 .. n : u[i].owner = rs[i].owner
  BY <1>1 DEF Replaced, Covers
<1>8. rs[k].owner = rs[k + 1].owner
  BY DEF Covers
<1> HIDE DEF Old
<1>9. ASSUME NEW i \in 1 .. n - 1, NEW j \in 1 .. n - 1, NEW p, p \in PagesOf(t[i]), p \in PagesOf(t[j])
      PROVE  i = j
  <2>1. p \in PagesOf(u[Old(i)]) /\ p \in PagesOf(u[Old(j)]) /\ Old(i) \in 1 .. n /\ Old(j) \in 1 .. n
        /\ Old(i) # k + 1 /\ Old(j) # k + 1
    BY <1>4, <1>9
  <2>2. /\ p \in PagesOf(rs[Old(i)]) \/ (Old(i) = k /\ p \in PagesOf(rs[k + 1]))
        /\ p \in PagesOf(rs[Old(j)]) \/ (Old(j) = k /\ p \in PagesOf(rs[k + 1]))
    BY <1>6, <2>1
  <2>3. Old(i) = Old(j)
    BY <1>1, <2>1, <2>2 DEF Apart
  <2> QED BY <1>4, <2>3
<1>10. ASSUME NEW p, NEW o PROVE Has(t, p, o) <=> Has(rs, p, o)
  <2>1. ASSUME Has(t, p, o) PROVE Has(rs, p, o)
    <3>1. PICK j \in 1 .. n - 1 : p \in PagesOf(t[j]) /\ t[j].owner = o
      BY <1>3, <2>1 DEF Has
    <3>2. Old(j) \in 1 .. n /\ p \in PagesOf(u[Old(j)]) /\ u[Old(j)].owner = o
      BY <1>4, <3>1
    <3>3. p \in PagesOf(rs[Old(j)]) \/ (Old(j) = k /\ p \in PagesOf(rs[k + 1]))
      BY <1>6, <3>2
    <3>4. rs[Old(j)].owner = o
      BY <1>7, <3>2
    <3> QED BY <1>1, <1>8, <3>2, <3>3, <3>4 DEF Has
  <2>2. ASSUME Has(rs, p, o) PROVE Has(t, p, o)
    <3>1. PICK i \in 1 .. n : p \in PagesOf(rs[i]) /\ rs[i].owner = o
      BY <1>1, <2>2 DEF Has
    <3>2. PICK h \in 1 .. n : h # k + 1 /\ p \in PagesOf(u[h]) /\ u[h].owner = o
      <4>1. CASE i # k + 1
        BY <1>6, <1>7, <3>1, <4>1
      <4>2. CASE i = k + 1
        <5>1. p \in PagesOf(u[k]) /\ u[k].owner = o /\ k # k + 1
          BY <1>1, <1>6, <1>7, <1>8, <3>1, <4>2
        <5> QED BY <1>1, <5>1
      <4> QED BY <4>1, <4>2
    <3>3. PICK j \in 1 .. n - 1 : Old(j) = h
      BY <1>5, <3>2
    <3> QED BY <1>3, <1>4, <3>2, <3>3 DEF Has
  <2> QED BY <2>1, <2>2
<1> QED BY <1>3, <1>9, <1>10 DEF Same, Apart

LEMMA InsertGrown ==
    ASSUME NEW rs \in Seq(Regs), Apart(rs), NEW k \in 1 .. Len(rs) + 1, NEW r \in Regs,
           \A p : p \in PagesOf(r) => ~ In(rs, p),
           NEW t \in Seq(Regs), Inserted(rs, k, r, t)
    PROVE  Grown(rs, r, t)
<1>1. PICK n \in Nat : n = Len(rs) /\ DOMAIN rs = 1 .. n /\ k \in 1 .. n + 1
  OBVIOUS
<1> DEFINE New(j) == IF j < k THEN j ELSE j + 1
<1>2. DOMAIN t = 1 .. n + 1 /\ t[k] = r /\ \A j \in 1 .. n : t[New(j)] = rs[j]
  BY <1>1 DEF Inserted
<1>3. ASSUME NEW j \in 1 .. n PROVE New(j) \in 1 .. n + 1 /\ New(j) # k
  BY <1>1
<1>4. ASSUME NEW i \in 1 .. n + 1, i # k PROVE \E j \in 1 .. n : New(j) = i
  <2>1. CASE i < k
    <3>1. i \in 1 .. n /\ New(i) = i
      BY <1>1, <2>1
    <3> QED BY <3>1
  <2>2. CASE ~ (i < k)
    <3>1. i - 1 \in 1 .. n /\ New(i - 1) = i
      BY <1>1, <1>4, <2>2
    <3> QED BY <3>1
  <2> QED BY <2>1, <2>2
<1> HIDE DEF New
<1>5. ASSUME NEW i \in 1 .. n + 1, NEW p, p \in PagesOf(t[i])
      PROVE  (i = k /\ p \in PagesOf(r)) \/ \E j \in 1 .. n : New(j) = i /\ p \in PagesOf(rs[j])
  <2>1. CASE i = k
    BY <1>2, <1>5, <2>1
  <2>2. CASE i # k
    <3>1. PICK j \in 1 .. n : New(j) = i
      BY <1>4, <2>2
    <3> QED BY <1>2, <1>5, <3>1
  <2> QED BY <2>1, <2>2
<1>6. ASSUME NEW i \in 1 .. n + 1, NEW j \in 1 .. n + 1, NEW p, p \in PagesOf(t[i]), p \in PagesOf(t[j])
      PROVE  i = j
  <2>1. (i = k /\ p \in PagesOf(r)) \/ \E h \in 1 .. n : New(h) = i /\ p \in PagesOf(rs[h])
    BY <1>5, <1>6
  <2>2. (j = k /\ p \in PagesOf(r)) \/ \E h \in 1 .. n : New(h) = j /\ p \in PagesOf(rs[h])
    BY <1>5, <1>6
  <2>3. ~ (p \in PagesOf(r) /\ \E h \in 1 .. n : p \in PagesOf(rs[h]))
    BY <1>1 DEF In
  <2>4. CASE p \in PagesOf(r)
    BY <2>1, <2>2, <2>3, <2>4
  <2>5. CASE p \notin PagesOf(r)
    <3>1. PICK h \in 1 .. n : New(h) = i /\ p \in PagesOf(rs[h])
      BY <2>1, <2>5
    <3>2. PICK g \in 1 .. n : New(g) = j /\ p \in PagesOf(rs[g])
      BY <2>2, <2>5
    <3>3. h = g
      BY <1>1, <3>1, <3>2 DEF Apart
    <3> QED BY <3>1, <3>2, <3>3
  <2> QED BY <2>4, <2>5
<1>7. ASSUME NEW p, NEW o PROVE Has(t, p, o) <=> Has(rs, p, o) \/ (p \in PagesOf(r) /\ r.owner = o)
  <2>1. ASSUME Has(t, p, o) PROVE Has(rs, p, o) \/ (p \in PagesOf(r) /\ r.owner = o)
    <3>1. PICK i \in 1 .. n + 1 : p \in PagesOf(t[i]) /\ t[i].owner = o
      BY <1>2, <2>1 DEF Has
    <3>2. CASE i = k
      BY <1>2, <3>1, <3>2
    <3>3. CASE i # k
      <4>1. PICK j \in 1 .. n : New(j) = i
        BY <1>4, <3>3
      <4> QED BY <1>1, <1>2, <3>1, <4>1 DEF Has
    <3> QED BY <3>2, <3>3
  <2>2. ASSUME Has(rs, p, o) PROVE Has(t, p, o)
    <3>1. PICK j \in 1 .. n : p \in PagesOf(rs[j]) /\ rs[j].owner = o
      BY <1>1, <2>2 DEF Has
    <3> QED BY <1>2, <1>3, <3>1 DEF Has
  <2>3. ASSUME p \in PagesOf(r), r.owner = o PROVE Has(t, p, o)
    BY <1>1, <1>2, <2>3 DEF Has
  <2> QED BY <2>1, <2>2, <2>3
<1> QED BY <1>2, <1>6, <1>7 DEF Grown, Apart

LEMMA JoinCovers ==
    ASSUME NEW a \in Regs, NEW b \in Regs, CanJoin(a, b)
    PROVE  Covers(concatenate(a, b), a, b)
<1>1. /\ a.low \in Nat /\ a.high \in Nat /\ a.low <= a.high + 1 /\ a.high < Word /\ a.owner \in Owners
      /\ b.low \in Nat /\ b.high \in Nat /\ b.low <= b.high + 1 /\ b.high < Word /\ a.owner = b.owner
      /\ a = [low |-> a.low, high |-> a.high, owner |-> a.owner] /\ Word \in Nat
  BY KickstartAssumption DEF Regs, CanJoin
<1>2. (a.high + 1) % Word = (IF a.high + 1 = Word THEN 0 ELSE a.high + 1)
      /\ (b.high + 1) % Word = (IF b.high + 1 = Word THEN 0 ELSE b.high + 1)
  BY <1>1
<1>3. CASE a.low = (b.high + 1) % Word /\ a.low # 0
  <2>1. concatenate(a, b) = [low |-> b.low, high |-> a.high, owner |-> a.owner]
    BY <1>1, <1>3 DEF concatenate
  <2>2. a.low = b.high + 1
    BY <1>1, <1>2, <1>3
  <2> QED BY <1>1, <2>1, <2>2 DEF Covers, PagesOf, Regs
<1>4. CASE ~ (a.low = (b.high + 1) % Word /\ a.low # 0)
  <2>1. concatenate(a, b) = [low |-> a.low, high |-> b.high, owner |-> a.owner]
    BY <1>1, <1>4 DEF concatenate
  <2>2. a.high + 1 = b.low
    BY <1>1, <1>2, <1>4 DEF CanJoin
  <2> QED BY <1>1, <2>1, <2>2 DEF Covers, PagesOf, Regs
<1> QED BY <1>3, <1>4

-----------------------------------------------------------------------------
(***************************************************************************)
(* memregion_pool_t::insert.                                               *)
(***************************************************************************)
\* A set of numbers has a least one.
LEMMA LeastNumber ==
    ASSUME NEW S \in SUBSET Nat, S # {}
    PROVE  \E x \in S : \A y \in S : x <= y
<1> DEFINE R == {x \in Nat \X Nat : x[1] < x[2]}
<1>1. IsWellFoundedOn(R, Nat)
  BY NatLessThanWellFounded DEF OpToRel
<1>2. PICK x \in S : \A y \in S : ~ (<<y, x>> \in R)
  <2> HIDE DEF R
  <2> QED BY <1>1, WFMin
<1>3. \A y \in S : x <= y
  <2> TAKE y \in S
  <2>1. <<y, x>> \in Nat \X Nat /\ ~ (<<y, x>>[1] < <<y, x>>[2])
    BY <1>2
  <2> QED BY <2>1
<1> QED BY <1>3

LEMMA LeastIsMin ==
    ASSUME NEW S \in SUBSET Nat, S # {}
    PROVE  Min(S) \in S /\ \A y \in S : Min(S) <= y
BY LeastNumber DEF Min

LEMMA LocationFacts ==
    ASSUME NEW rs \in Seq(Regs), NEW r \in Regs, NEW k, k = InsertLocation(rs, r)
    PROVE  /\ k \in 0 .. Len(rs)
           /\ \A i \in 1 .. k : rs[i].high < r.low
           /\ k < Len(rs) => r.low <= rs[k + 1].high
<1>1. PICK n \in Nat : n = Len(rs) /\ DOMAIN rs = 1 .. n
  OBVIOUS
<1>2. PICK later : later = {i \in 1 .. n : r.low <= rs[i].high}
  OBVIOUS
<1>3. k = IF later = {} THEN n ELSE Min(later) - 1
  BY <1>1, <1>2 DEF InsertLocation
<1>4. \A i \in 1 .. n : rs[i].high \in Nat
  BY <1>1 DEF Regs
<1>5. r.low \in Nat
  BY DEF Regs
<1>6. CASE later = {}
  BY <1>1, <1>2, <1>3, <1>4, <1>5, <1>6
<1>7. CASE later # {}
  <2>1. PICK h : h = Min(later)
    OBVIOUS
  <2>2. h \in later /\ \A y \in later : h <= y
    <3>1. later \in SUBSET Nat
      BY <1>1, <1>2
    <3> QED BY <1>7, <2>1, <3>1, LeastIsMin
  <2>3. h \in 1 .. n /\ r.low <= rs[h].high
    BY <1>2, <2>2
  <2>4. \A i \in 1 .. n : i < h => rs[i].high < r.low
    BY <1>2, <1>4, <1>5, <2>2, <2>3
  <2>5. k = h - 1 /\ k + 1 = h
    BY <1>3, <1>7, <2>1, <2>3
  <2>6. \A i \in 1 .. k : i \in 1 .. n /\ i < h
    BY <2>3, <2>5
  <2> QED BY <1>1, <2>3, <2>4, <2>5, <2>6
<1> QED BY <1>6, <1>7

\* What insert makes of the pool: r extends the region before it, which then may
\* reach the next one, or it extends the next one, or it is a region of its own.
JoinsBoth(rs, k, r, t) ==
    /\ k > 0 /\ k < Len(rs) /\ CanJoin(rs[k], r)
    /\ \E grown, whole \in Seq(Regs) :
          /\ Replaced(rs, k, concatenate(rs[k], r), grown)
          /\ CanJoin(grown[k], rs[k + 1])
          /\ Replaced(grown, k, concatenate(grown[k], grown[k + 1]), whole)
          /\ Removed(whole, k + 1, t)
JoinsLower(rs, k, r, t) ==
    /\ k > 0 /\ CanJoin(rs[k], r) /\ Replaced(rs, k, concatenate(rs[k], r), t)
    /\ k < Len(rs) => ~ CanJoin(concatenate(rs[k], r), rs[k + 1])
JoinsUpper(rs, k, r, t) ==
    /\ k > 0 => ~ CanJoin(rs[k], r)
    /\ k < Len(rs) /\ CanJoin(rs[k + 1], r) /\ Replaced(rs, k + 1, concatenate(rs[k + 1], r), t)
Alone(rs, k, r, t) ==
    /\ k > 0 => ~ CanJoin(rs[k], r)
    /\ k < Len(rs) => ~ CanJoin(rs[k + 1], r)
    /\ Inserted(rs, k + 1, r, t)

Fields == PoolNames \cup {"list", "dead"}

\* t differs from s in the pool and the length of the list only.
Changed(s, pool, t) ==
    /\ DOMAIN t = Fields /\ t.dead = s.dead
    /\ \A q \in PoolNames : q # pool => t[q] = s[q]

LEMMA InsertCases ==
    ASSUME NEW s, DOMAIN s = Fields, NEW pool \in PoolNames, NEW rs \in Seq(Regs), rs = s[pool],
           NEW r \in Regs, NEW t, t = insert(s, pool, r)
    PROVE  /\ Changed(s, pool, t) /\ t[pool] \in Seq(Regs)
           /\ \E k \in 0 .. Len(rs) :
                 /\ k = InsertLocation(rs, r)
                 /\ \/ JoinsBoth(rs, k, r, t[pool]) \/ JoinsLower(rs, k, r, t[pool])
                    \/ JoinsUpper(rs, k, r, t[pool]) \/ Alone(rs, k, r, t[pool])
<1>1. PICK k \in 0 .. Len(rs) : k = InsertLocation(rs, r)
  BY LocationFacts
<1>2. PICK n \in Nat : n = Len(rs) /\ DOMAIN rs = 1 .. n
  OBVIOUS
<1>3. PICK grown : grown = ReplaceAt(rs, k, concatenate(rs[k], r))
  OBVIOUS
<1>4. t = IF k > 0 /\ CanJoin(rs[k], r)
          THEN IF k < n /\ CanJoin(grown[k], rs[k + 1])
               THEN [s EXCEPT ![pool] = Merged(grown, k), !.list = s.list + 2]
               ELSE [s EXCEPT ![pool] = grown, !.list = s.list + 1]
          ELSE IF k < n /\ CanJoin(rs[k + 1], r)
          THEN [s EXCEPT ![pool] = ReplaceAt(rs, k + 1, concatenate(rs[k + 1], r)), !.list = s.list + 1]
          ELSE [s EXCEPT ![pool] = InsertAt(rs, k + 1, r)]
  BY <1>1, <1>2, <1>3 DEF insert
<1>5. CASE k > 0 /\ CanJoin(rs[k], r)
  <2>1. k \in DOMAIN rs /\ rs[k] \in Regs
    BY <1>1, <1>2, <1>5
  <2>2. concatenate(rs[k], r) \in Regs
    BY <1>5, <2>1, JoinCovers DEF Covers
  <2>3. grown \in Seq(Regs) /\ Replaced(rs, k, concatenate(rs[k], r), grown)
    BY <1>3, <2>1, <2>2, ReplaceElements
  <2>4. grown[k] = concatenate(rs[k], r)
    BY <2>1, <2>3 DEF Replaced
  <2>5. CASE k < n /\ CanJoin(grown[k], rs[k + 1])
    <3>1. k + 1 \in DOMAIN rs /\ k + 1 # k /\ k \in DOMAIN grown /\ k + 1 \in DOMAIN grown
      BY <1>1, <1>2, <2>1, <2>3, <2>5 DEF Replaced
    <3>2. grown[k + 1] = rs[k + 1] /\ rs[k + 1] \in Regs /\ grown[k] \in Regs
      BY <2>2, <2>3, <2>4, <3>1 DEF Replaced
    <3>3. concatenate(grown[k], grown[k + 1]) \in Regs
      BY <2>5, <3>2, JoinCovers DEF Covers
    <3>4. PICK whole : whole = ReplaceAt(grown, k, concatenate(grown[k], grown[k + 1]))
      OBVIOUS
    <3>5. whole \in Seq(Regs) /\ Replaced(grown, k, concatenate(grown[k], grown[k + 1]), whole)
      BY <2>3, <3>1, <3>3, <3>4, ReplaceElements
    <3>6. k + 1 \in DOMAIN whole
      BY <3>1, <3>5 DEF Replaced
    <3>7. RemoveAt(whole, k + 1) \in Seq(Regs) /\ Removed(whole, k + 1, RemoveAt(whole, k + 1))
      BY <3>5, <3>6, RemoveElements
    <3>8. t = [s EXCEPT ![pool] = RemoveAt(whole, k + 1), !.list = s.list + 2]
      BY <1>4, <1>5, <2>5, <3>4 DEF Merged
    <3>9. Changed(s, pool, t) /\ t[pool] = RemoveAt(whole, k + 1)
      BY <3>8 DEF Changed, PoolNames, Fields
    <3>10. JoinsBoth(rs, k, r, t[pool])
      BY <1>2, <1>5, <2>3, <2>5, <3>5, <3>7, <3>9 DEF JoinsBoth
    <3> QED BY <1>1, <3>7, <3>9, <3>10
  <2>6. CASE ~ (k < n /\ CanJoin(grown[k], rs[k + 1]))
    <3>1. t = [s EXCEPT ![pool] = grown, !.list = s.list + 1]
      BY <1>4, <1>5, <2>6
    <3>2. Changed(s, pool, t) /\ t[pool] = grown
      BY <3>1 DEF Changed, PoolNames, Fields
    <3>3. JoinsLower(rs, k, r, t[pool])
      BY <1>2, <1>5, <2>3, <2>4, <2>6, <3>2 DEF JoinsLower
    <3> QED BY <1>1, <2>3, <3>2, <3>3
  <2> QED BY <2>5, <2>6
<1>6. CASE ~ (k > 0 /\ CanJoin(rs[k], r)) /\ k < n /\ CanJoin(rs[k + 1], r)
  <2>1. k + 1 \in DOMAIN rs /\ rs[k + 1] \in Regs
    BY <1>1, <1>2, <1>6
  <2>2. concatenate(rs[k + 1], r) \in Regs
    BY <1>6, <2>1, JoinCovers DEF Covers
  <2>3. PICK u : u = ReplaceAt(rs, k + 1, concatenate(rs[k + 1], r))
    OBVIOUS
  <2>4. u \in Seq(Regs) /\ Replaced(rs, k + 1, concatenate(rs[k + 1], r), u)
    BY <2>1, <2>2, <2>3, ReplaceElements
  <2>5. t = [s EXCEPT ![pool] = u, !.list = s.list + 1]
    BY <1>4, <1>6, <2>3
  <2>6. Changed(s, pool, t) /\ t[pool] = u
    BY <2>5 DEF Changed, PoolNames, Fields
  <2>7. JoinsUpper(rs, k, r, t[pool])
    BY <1>2, <1>6, <2>4, <2>6 DEF JoinsUpper
  <2> QED BY <1>1, <2>4, <2>6, <2>7
<1>7. CASE ~ (k > 0 /\ CanJoin(rs[k], r)) /\ ~ (k < n /\ CanJoin(rs[k + 1], r))
  <2>1. PICK u : u = InsertAt(rs, k + 1, r)
    OBVIOUS
  <2>2. k + 1 \in 1 .. Len(rs) + 1
    BY <1>1, <1>2
  <2>3. u \in Seq(Regs) /\ Inserted(rs, k + 1, r, u)
    BY <2>1, <2>2, InsertElements
  <2>4. t = [s EXCEPT ![pool] = u]
    BY <1>4, <1>7, <2>1
  <2>5. Changed(s, pool, t) /\ t[pool] = u
    BY <2>4 DEF Changed, PoolNames, Fields
  <2>6. Alone(rs, k, r, t[pool])
    BY <1>2, <1>7, <2>3, <2>5 DEF Alone
  <2> QED BY <1>1, <2>3, <2>5, <2>6
<1> QED BY <1>5, <1>6, <1>7

LEMMA SameGrown ==
    ASSUME NEW rs, NEW r, NEW u, Grown(rs, r, u), NEW t, Same(u, t)
    PROVE  Grown(rs, r, t)
BY DEF Same, Grown

LEMMA InsertPool ==
    ASSUME NEW s, DOMAIN s = Fields, NEW pool \in PoolNames, NEW rs \in Seq(Regs), rs = s[pool],
           Apart(rs), NEW r \in Regs, \A p : p \in PagesOf(r) => ~ In(rs, p),
           NEW t, t = insert(s, pool, r)
    PROVE  Changed(s, pool, t) /\ Grown(rs, r, t[pool])
<1>1. Changed(s, pool, t)
  BY InsertCases
<1>2. PICK u \in Seq(Regs) : u = t[pool]
  BY InsertCases
<1>3. PICK k \in 0 .. Len(rs) : JoinsBoth(rs, k, r, u) \/ JoinsLower(rs, k, r, u)
                                \/ JoinsUpper(rs, k, r, u) \/ Alone(rs, k, r, u)
  BY <1>2, InsertCases
<1>4. PICK n \in Nat : n = Len(rs) /\ DOMAIN rs = 1 .. n
  OBVIOUS
<1>5. ASSUME NEW j \in DOMAIN rs, CanJoin(rs[j], r), NEW v \in Seq(Regs),
             Replaced(rs, j, concatenate(rs[j], r), v)
      PROVE  Grown(rs, r, v)
  <2>1. rs[j] \in Regs
    BY <1>5
  <2>2. PICK x : x = concatenate(rs[j], r)
    OBVIOUS
  <2>3. Covers(x, rs[j], r) /\ x \in Regs
    BY <1>5, <2>1, <2>2, JoinCovers DEF Covers
  <2>4. Replaced(rs, j, x, v)
    BY <1>5, <2>2
  <2> QED BY <1>5, <2>3, <2>4, ReplaceGrown
<1>6. CASE JoinsBoth(rs, k, r, u)
  <2>1. k \in DOMAIN rs /\ k + 1 \in DOMAIN rs /\ CanJoin(rs[k], r)
    BY <1>4, <1>6 DEF JoinsBoth
  <2>2. PICK grown, whole \in Seq(Regs) :
          /\ Replaced(rs, k, concatenate(rs[k], r), grown)
          /\ CanJoin(grown[k], rs[k + 1])
          /\ Replaced(grown, k, concatenate(grown[k], grown[k + 1]), whole)
          /\ Removed(whole, k + 1, u)
    BY <1>6 DEF JoinsBoth
  <2>3. Grown(rs, r, grown)
    BY <1>5, <2>1, <2>2
  <2>4. k \in DOMAIN grown /\ k + 1 \in DOMAIN grown /\ grown[k + 1] = rs[k + 1]
    BY <1>4, <2>1, <2>2 DEF Replaced
  <2>5. grown[k] \in Regs /\ grown[k + 1] \in Regs /\ CanJoin(grown[k], grown[k + 1])
    BY <2>2, <2>4
  <2>6. PICK x : x = concatenate(grown[k], grown[k + 1])
    OBVIOUS
  <2>7. Covers(x, grown[k], grown[k + 1]) /\ x \in Regs
    BY <2>5, <2>6, JoinCovers DEF Covers
  <2>8. Same(grown, u)
    <3>1. Apart(grown) /\ Replaced(grown, k, x, whole) /\ Removed(whole, k + 1, u)
      BY <2>2, <2>3, <2>6 DEF Grown
    <3> QED BY <2>2, <2>4, <2>7, <3>1, MergeSame
  <2> QED BY <1>1, <1>2, <2>3, <2>8, SameGrown
<1>7. CASE JoinsLower(rs, k, r, u)
  <2>1. k \in DOMAIN rs /\ CanJoin(rs[k], r) /\ Replaced(rs, k, concatenate(rs[k], r), u)
    BY <1>4, <1>7 DEF JoinsLower
  <2> QED BY <1>1, <1>2, <1>5, <2>1
<1>8. CASE JoinsUpper(rs, k, r, u)
  <2>1. k + 1 \in DOMAIN rs /\ CanJoin(rs[k + 1], r) /\ Replaced(rs, k + 1, concatenate(rs[k + 1], r), u)
    BY <1>4, <1>8 DEF JoinsUpper
  <2> QED BY <1>1, <1>2, <1>5, <2>1
<1>9. CASE Alone(rs, k, r, u)
  <2>1. k + 1 \in 1 .. Len(rs) + 1 /\ Inserted(rs, k + 1, r, u)
    BY <1>4, <1>9 DEF Alone
  <2> QED BY <1>1, <1>2, <2>1, InsertGrown
<1> QED BY <1>3, <1>6, <1>7, <1>8, <1>9

-----------------------------------------------------------------------------
(***************************************************************************)
(* While sigma0 reads the descriptors, regions lie in order, with gaps     *)
(* between those that could be joined.                                     *)
(***************************************************************************)
Gaps(rs, g) ==
    /\ \A i \in DOMAIN rs : rs[i].low <= rs[i].high
    /\ \A i, j \in DOMAIN rs : i < j => rs[i].high + g < rs[j].low

Around(rs, k, x, g) ==
    /\ x.low <= x.high
    /\ \A i \in DOMAIN rs : /\ i < k => rs[i].high + g < x.low
                            /\ i > k => x.high + g < rs[i].low

LEMMA ReplacedGaps ==
    ASSUME NEW rs \in Seq(Regs), NEW g \in 0 .. 1, Gaps(rs, g), NEW k \in DOMAIN rs, NEW x \in Regs,
           Around(rs, k, x, g), NEW t \in Seq(Regs), Replaced(rs, k, x, t)
    PROVE  Gaps(t, g)
<1>1. PICK n \in Nat : n = Len(rs) /\ DOMAIN rs = 1 .. n
  OBVIOUS
<1>2. DOMAIN t = 1 .. n /\ \A i \in 1 .. n : t[i] = IF i = k THEN x ELSE rs[i]
  BY <1>1 DEF Replaced
<1>3. \A i \in 1 .. n : t[i].low <= t[i].high
  BY <1>1, <1>2 DEF Gaps, Around
<1>4. ASSUME NEW i \in 1 .. n, NEW j \in 1 .. n, i < j PROVE t[i].high + g < t[j].low
  <2>1. CASE i = k
    <3>1. j > k /\ j # k
      BY <1>1, <1>4, <2>1
    <3> QED BY <1>1, <1>2, <2>1, <3>1 DEF Around
  <2>2. CASE j = k
    <3>1. i # k
      BY <1>1, <1>4, <2>2
    <3> QED BY <1>1, <1>2, <1>4, <2>2, <3>1 DEF Around
  <2>3. CASE i # k /\ j # k
    BY <1>1, <1>2, <1>4, <2>3 DEF Gaps
  <2> QED BY <2>1, <2>2, <2>3
<1> QED BY <1>2, <1>3, <1>4 DEF Gaps

LEMMA InsertedGaps ==
    ASSUME NEW rs \in Seq(Regs), NEW g \in 0 .. 1, Gaps(rs, g), NEW k \in 0 .. Len(rs), NEW r \in Regs,
           r.low <= r.high, \A i \in 1 .. k : rs[i].high + g < r.low,
           \A i \in k + 1 .. Len(rs) : r.high + g < rs[i].low,
           NEW t \in Seq(Regs), Inserted(rs, k + 1, r, t)
    PROVE  Gaps(t, g)
<1>1. PICK n \in Nat : n = Len(rs) /\ DOMAIN rs = 1 .. n /\ k \in 0 .. n
  OBVIOUS
<1> DEFINE Old(j) == IF j < k + 1 THEN j ELSE j - 1
<1>2. DOMAIN t = 1 .. n + 1 /\ t[k + 1] = r /\ \A j \in 1 .. n + 1 : j # k + 1 => t[j] = rs[Old(j)]
  <2>1. DOMAIN t = 1 .. n + 1 /\ t[k + 1] = r
        /\ \A j \in 1 .. n : t[IF j < k + 1 THEN j ELSE j + 1] = rs[j]
    BY <1>1 DEF Inserted
  <2>2. ASSUME NEW j \in 1 .. n + 1, j # k + 1 PROVE t[j] = rs[Old(j)]
    <3>1. Old(j) \in 1 .. n /\ (IF Old(j) < k + 1 THEN Old(j) ELSE Old(j) + 1) = j
      BY <1>1, <2>2
    <3> QED BY <2>1, <3>1
  <2> QED BY <2>1, <2>2
<1>3. \A j \in 1 .. n + 1 : j # k + 1 => Old(j) \in 1 .. n /\ (j < k + 1 => Old(j) \in 1 .. k)
                                         /\ (j > k + 1 => Old(j) \in k + 1 .. n)
  BY <1>1
<1>4. \A i, j \in 1 .. n + 1 : i # k + 1 /\ j # k + 1 /\ i < j => Old(i) < Old(j)
  BY <1>1
<1> HIDE DEF Old
<1>5. ASSUME NEW j \in 1 .. n + 1 PROVE t[j].low <= t[j].high
  BY <1>1, <1>2, <1>3 DEF Gaps
<1>6. ASSUME NEW i \in 1 .. n + 1, NEW j \in 1 .. n + 1, i < j PROVE t[i].high + g < t[j].low
  <2>1. CASE i = k + 1
    <3>1. j > k + 1 /\ j # k + 1
      BY <1>1, <1>6, <2>1
    <3> QED BY <1>1, <1>2, <1>3, <2>1, <3>1
  <2>2. CASE j = k + 1
    <3>1. i < k + 1 /\ i # k + 1
      BY <1>1, <1>6, <2>2
    <3> QED BY <1>1, <1>2, <1>3, <2>2, <3>1
  <2>3. CASE i # k + 1 /\ j # k + 1
    <3>1. Old(i) \in 1 .. n /\ Old(j) \in 1 .. n /\ Old(i) < Old(j) /\ t[i] = rs[Old(i)] /\ t[j] = rs[Old(j)]
      BY <1>2, <1>3, <1>4, <1>6, <2>3
    <3> QED BY <1>1, <3>1 DEF Gaps
  <2> QED BY <2>1, <2>2, <2>3
<1> QED BY <1>2, <1>5, <1>6 DEF Gaps

LEMMA MergedGaps ==
    ASSUME NEW rs \in Seq(Regs), NEW g \in 0 .. 1, NEW k \in DOMAIN rs, k + 1 \in DOMAIN rs, NEW x \in Regs,
           Gaps(rs, 0), \A i, j \in DOMAIN rs : i < j /\ i # k => rs[i].high + g < rs[j].low,
           x.low = rs[k].low, x.high = rs[k + 1].high,
           NEW u \in Seq(Regs), Replaced(rs, k, x, u), NEW t \in Seq(Regs), Removed(u, k + 1, t)
    PROVE  Gaps(t, g)
<1>1. PICK n \in Nat : n = Len(rs) /\ DOMAIN rs = 1 .. n /\ k \in 1 .. n /\ k + 1 \in 1 .. n
  OBVIOUS
<1>2. Len(u) = n /\ \A i \in 1 .. n : u[i] = IF i = k THEN x ELSE rs[i]
  BY <1>1 DEF Replaced
<1> DEFINE Old(j) == IF j < k + 1 THEN j ELSE j + 1
<1>3. DOMAIN t = 1 .. n - 1 /\ \A j \in 1 .. n - 1 : t[j] = u[Old(j)]
  BY <1>1, <1>2 DEF Removed
<1>4. /\ \A j \in 1 .. n - 1 : Old(j) \in 1 .. n /\ Old(j) # k + 1
      /\ \A i, j \in 1 .. n - 1 : i < j => Old(i) < Old(j)
  BY <1>1
<1> HIDE DEF Old
<1>5. /\ \A i \in 1 .. n : rs[i].low \in Nat /\ rs[i].high \in Nat
      /\ rs[k].low <= rs[k].high /\ rs[k].high < rs[k + 1].low /\ rs[k + 1].low <= rs[k + 1].high
  <2>1. k < k + 1
    BY <1>1
  <2>2. \A i \in 1 .. n : rs[i] \in Regs
    BY <1>1
  <2>3. \A i \in 1 .. n : rs[i].low \in Nat /\ rs[i].high \in Nat
    BY <2>2 DEF Regs
  <2>4. rs[k].high + 0 < rs[k + 1].low /\ rs[k].low <= rs[k].high /\ rs[k + 1].low <= rs[k + 1].high
    BY <1>1, <2>1 DEF Gaps
  <2> QED BY <1>1, <2>3, <2>4
<1>6. ASSUME NEW j \in 1 .. n - 1 PROVE t[j].low <= t[j].high
  <2>1. CASE Old(j) = k
    <3>1. t[j] = x
      BY <1>1, <1>2, <1>3, <2>1
    <3>2. x.low <= x.high
      BY <1>1, <1>5
    <3> QED BY <3>1, <3>2
  <2>2. CASE Old(j) # k
    BY <1>1, <1>2, <1>3, <1>4, <2>2 DEF Gaps
  <2> QED BY <2>1, <2>2
<1>7. ASSUME NEW i \in 1 .. n - 1, NEW j \in 1 .. n - 1, i < j PROVE t[i].high + g < t[j].low
  <2>1. Old(i) \in 1 .. n /\ Old(j) \in 1 .. n /\ Old(i) < Old(j) /\ Old(j) # k + 1 /\ Old(i) # k + 1
        /\ t[i] = u[Old(i)] /\ t[j] = u[Old(j)]
    BY <1>3, <1>4, <1>7
  <2>2. u[Old(j)].low = rs[Old(j)].low
    BY <1>2, <2>1
  <2>3. CASE Old(i) = k
    <3>1. k + 1 < Old(j) /\ k + 1 # k
      BY <1>1, <2>1, <2>3
    <3>2. rs[k + 1].high + g < rs[Old(j)].low
      BY <1>1, <2>1, <3>1
    <3> QED BY <1>2, <2>1, <2>2, <2>3, <3>2
  <2>4. CASE Old(i) # k
    <3>1. rs[Old(i)].high + g < rs[Old(j)].low
      BY <1>1, <2>1, <2>4
    <3> QED BY <1>2, <2>1, <2>2, <2>4, <3>1
  <2> QED BY <2>3, <2>4
<1> QED BY <1>3, <1>6, <1>7 DEF Gaps

LEMMA AroundLocation ==
    ASSUME NEW rs \in Seq(Regs), Gaps(rs, 0), NEW r \in Regs, r.low <= r.high,
           \A p : p \in PagesOf(r) => ~ In(rs, p), NEW k, k = InsertLocation(rs, r)
    PROVE  /\ \A i \in 1 .. k : rs[i].high < r.low
           /\ \A i \in k + 1 .. Len(rs) : r.high < rs[i].low
<1>1. PICK n \in Nat : n = Len(rs) /\ DOMAIN rs = 1 .. n
  OBVIOUS
<1>2. /\ k \in 0 .. n /\ \A i \in 1 .. k : rs[i].high < r.low
      /\ k < n => r.low <= rs[k + 1].high
  BY <1>1, LocationFacts
<1>3. r.low \in Nat /\ r.high \in Nat
  BY DEF Regs
<1>4. \A i \in 1 .. n : rs[i].low \in Nat /\ rs[i].high \in Nat /\ rs[i].low <= rs[i].high
  <2>1. \A i \in 1 .. n : rs[i] \in Regs
    BY <1>1
  <2> QED BY <1>1, <2>1 DEF Regs, Gaps
<1>5. ASSUME NEW i \in k + 1 .. n PROVE r.high < rs[i].low
  <2>1. k + 1 \in 1 .. n /\ k < n
    BY <1>1, <1>2
  <2>2. r.high < rs[k + 1].low
    <3>1. SUFFICES ASSUME rs[k + 1].low <= r.high PROVE FALSE
      BY <1>3, <1>4, <2>1
    <3>2. PICK p : p = IF r.low <= rs[k + 1].low THEN rs[k + 1].low ELSE r.low
      OBVIOUS
    <3>3. p \in PagesOf(r) /\ p \in PagesOf(rs[k + 1])
      BY <1>2, <1>3, <1>4, <2>1, <3>1, <3>2 DEF PagesOf
    <3> QED BY <1>1, <2>1, <3>3 DEF In
  <2>3. CASE i = k + 1
    BY <2>2, <2>3
  <2>4. CASE i # k + 1
    <3>1. k + 1 < i /\ i \in 1 .. n
      BY <1>1, <1>2, <2>4
    <3>2. rs[k + 1].high + 0 < rs[i].low
      BY <1>1, <2>1, <3>1 DEF Gaps
    <3> QED BY <1>3, <1>4, <2>1, <2>2, <3>1, <3>2
  <2> QED BY <2>3, <2>4
<1> QED BY <1>1, <1>2, <1>5

LEMMA JoinBelow ==
    ASSUME NEW a \in Regs, NEW b \in Regs, a.low <= a.high, b.low <= b.high, a.high < b.low
    PROVE  /\ CanJoin(a, b) <=> a.owner = b.owner /\ a.high + 1 = b.low
           /\ CanJoin(b, a) <=> a.owner = b.owner /\ a.high + 1 = b.low
           /\ concatenate(a, b).low = a.low /\ concatenate(a, b).high = b.high
           /\ concatenate(a, b).owner = a.owner
           /\ CanJoin(b, a) => concatenate(b, a).low = a.low /\ concatenate(b, a).high = b.high
<1>1. /\ a.low \in Nat /\ a.high \in Nat /\ a.high < Word
      /\ b.low \in Nat /\ b.high \in Nat /\ b.high < Word
      /\ a = [low |-> a.low, high |-> a.high, owner |-> a.owner]
      /\ b = [low |-> b.low, high |-> b.high, owner |-> b.owner] /\ Word \in Nat
  BY KickstartAssumption DEF Regs
<1>2. (a.high + 1) % Word = a.high + 1
      /\ (b.high + 1) % Word = (IF b.high + 1 = Word THEN 0 ELSE b.high + 1)
  BY <1>1
<1>3. ~ (a.low = (b.high + 1) % Word /\ a.low # 0) /\ b.low # 0
  BY <1>1, <1>2
<1>4. concatenate(a, b) = [low |-> a.low, high |-> b.high, owner |-> a.owner]
  BY <1>1, <1>3 DEF concatenate
<1>5. CanJoin(a, b) <=> a.owner = b.owner /\ a.high + 1 = b.low
  BY <1>2, <1>3 DEF CanJoin
<1>6. CanJoin(b, a) <=> a.owner = b.owner /\ a.high + 1 = b.low
  BY <1>2, <1>3 DEF CanJoin
<1>7. ASSUME CanJoin(b, a) PROVE concatenate(b, a) = [low |-> a.low, high |-> b.high, owner |-> b.owner]
  <2>1. b.low = (a.high + 1) % Word /\ b.low # 0
    BY <1>2, <1>3, <1>6, <1>7
  <2> QED BY <1>1, <2>1 DEF concatenate
<1> QED BY <1>1, <1>4, <1>5, <1>6, <1>7

LEMMA InsertGaps ==
    ASSUME NEW s, DOMAIN s = Fields, NEW pool \in PoolNames, NEW rs \in Seq(Regs), rs = s[pool],
           NEW r \in Regs, r.low <= r.high, \A p : p \in PagesOf(r) => ~ In(rs, p),
           NEW g \in 0 .. 1, Gaps(rs, g), g = 0 \/ \A i \in DOMAIN rs : rs[i].owner = r.owner,
           NEW t, t = insert(s, pool, r)
    PROVE  Gaps(t[pool], g)
<1>1. PICK u \in Seq(Regs) : u = t[pool]
  BY InsertCases
<1>2. PICK k \in 0 .. Len(rs) :
          /\ k = InsertLocation(rs, r)
          /\ JoinsBoth(rs, k, r, u) \/ JoinsLower(rs, k, r, u) \/ JoinsUpper(rs, k, r, u) \/ Alone(rs, k, r, u)
  BY <1>1, InsertCases
<1>3. PICK n \in Nat : n = Len(rs) /\ DOMAIN rs = 1 .. n /\ k \in 0 .. n
  BY <1>2
<1>4. \A i \in 1 .. n : /\ rs[i] \in Regs /\ rs[i].low \in Nat /\ rs[i].high \in Nat
                        /\ rs[i].low <= rs[i].high
  <2>1. \A i \in 1 .. n : rs[i] \in Regs
    BY <1>3
  <2> QED BY <1>3, <2>1 DEF Regs, Gaps
<1>5. r.low \in Nat /\ r.high \in Nat /\ r.owner = r.owner
  BY DEF Regs
<1>6. Gaps(rs, 0)
  <2>1. \A i, j \in 1 .. n : i < j => rs[i].high + g < rs[j].low
    BY <1>3 DEF Gaps
  <2>2. \A i, j \in 1 .. n : i < j => rs[i].high + 0 < rs[j].low
    BY <1>4, <2>1
  <2> QED BY <1>3, <1>4, <2>2 DEF Gaps
<1>7. /\ \A i \in 1 .. k : rs[i].high < r.low
      /\ \A i \in k + 1 .. n : r.high < rs[i].low
  BY <1>2, <1>3, <1>6, AroundLocation
\* the gap to the neighbours that are not joined
<1>8. ASSUME k > 0 => ~ CanJoin(rs[k], r) PROVE \A i \in 1 .. k : rs[i].high + g < r.low
  <2> TAKE i \in 1 .. k
  <2>1. i \in 1 .. n /\ k \in 1 .. n /\ rs[k].high < r.low /\ rs[i].high < r.low
    BY <1>3, <1>7
  <2>2. CASE g = 0
    BY <1>4, <1>5, <2>1, <2>2
  <2>3. CASE g # 0
    <3>1. rs[k].owner = r.owner /\ g = 1
      BY <1>3, <2>1, <2>3
    <3>2. rs[k].high + 1 < r.low
      <4>1. rs[k] \in Regs /\ rs[k].low <= rs[k].high /\ ~ CanJoin(rs[k], r) /\ rs[k].high \in Nat
        BY <1>3, <1>4, <1>8, <2>1
      <4>2. ~ (rs[k].owner = r.owner /\ rs[k].high + 1 = r.low)
        BY <2>1, <4>1, JoinBelow
      <4> QED BY <1>5, <2>1, <3>1, <4>1, <4>2
    <3>3. CASE i = k
      BY <3>1, <3>2, <3>3
    <3>4. CASE i # k
      <4>1. i < k
        BY <1>3, <3>4
      <4>2. rs[i].high + 0 < rs[k].low
        BY <1>3, <1>6, <2>1, <4>1 DEF Gaps
      <4> QED BY <1>4, <1>5, <2>1, <3>1, <3>2, <4>2
    <3> QED BY <3>3, <3>4
  <2> QED BY <2>2, <2>3
<1>9. ASSUME k < n => ~ (r.owner = rs[k + 1].owner /\ r.high + 1 = rs[k + 1].low)
      PROVE  \A i \in k + 1 .. n : r.high + g < rs[i].low
  <2> TAKE i \in k + 1 .. n
  <2>1. i \in 1 .. n /\ k + 1 \in 1 .. n /\ k + 1 \in k + 1 .. n /\ r.high < rs[k + 1].low
        /\ r.high < rs[i].low /\ k < n
    BY <1>3, <1>7
  <2>2. CASE g = 0
    BY <1>4, <1>5, <2>1, <2>2
  <2>3. CASE g # 0
    <3>1. rs[k + 1].owner = r.owner /\ g = 1
      BY <1>3, <2>1, <2>3
    <3>2. r.high + 1 < rs[k + 1].low
      BY <1>4, <1>5, <1>9, <2>1, <3>1
    <3>3. CASE i = k + 1
      BY <3>1, <3>2, <3>3
    <3>4. CASE i # k + 1
      <4>1. k + 1 < i
        BY <1>3, <2>1, <3>4
      <4>2. rs[k + 1].high + 0 < rs[i].low
        BY <1>3, <1>6, <2>1, <4>1 DEF Gaps
      <4>3. /\ rs[k + 1].low \in Nat /\ rs[k + 1].high \in Nat /\ rs[k + 1].low <= rs[k + 1].high
            /\ rs[i].low \in Nat
        BY <1>4, <2>1
      <4>4. \A a, b, c, d \in Nat : a + 1 < b /\ b <= c /\ c + 0 < d => a + 1 < d
        OBVIOUS
      <4>5. r.high + 1 < rs[i].low
        BY <1>5, <3>2, <4>2, <4>3, <4>4
      <4> QED BY <3>1, <4>5
    <3> QED BY <3>3, <3>4
  <2> QED BY <2>2, <2>3
<1>10. CASE Alone(rs, k, r, u)
  <2>1. k < n => ~ (r.owner = rs[k + 1].owner /\ r.high + 1 = rs[k + 1].low)
    <3> SUFFICES ASSUME k < n PROVE ~ (r.owner = rs[k + 1].owner /\ r.high + 1 = rs[k + 1].low)
      OBVIOUS
    <3>1. k + 1 \in 1 .. n /\ k + 1 \in k + 1 .. n /\ ~ CanJoin(rs[k + 1], r)
      BY <1>3, <1>10 DEF Alone
    <3> QED BY <1>4, <1>7, <3>1, JoinBelow
  <2>2. /\ \A i \in 1 .. k : rs[i].high + g < r.low
        /\ \A i \in k + 1 .. n : r.high + g < rs[i].low
        /\ Inserted(rs, k + 1, r, u)
    BY <1>8, <1>9, <1>10, <2>1 DEF Alone
  <2> QED BY <1>1, <1>2, <1>3, <2>2, InsertedGaps
<1>11. CASE JoinsUpper(rs, k, r, u)
  <2>1. k + 1 \in 1 .. n /\ k + 1 \in k + 1 .. n /\ CanJoin(rs[k + 1], r)
        /\ (k > 0 => ~ CanJoin(rs[k], r)) /\ Replaced(rs, k + 1, concatenate(rs[k + 1], r), u)
    BY <1>3, <1>11 DEF JoinsUpper
  <2>2. PICK x : x = concatenate(rs[k + 1], r)
    OBVIOUS
  <2>3. x \in Regs
    BY <1>4, <2>1, <2>2, JoinCovers DEF Covers
  <2>4. x.low = r.low /\ x.high = rs[k + 1].high
    BY <1>4, <1>7, <2>1, <2>2, JoinBelow
  <2>5. \A i \in 1 .. k : rs[i].high + g < r.low
    BY <1>8, <2>1
  <2>6. Around(rs, k + 1, x, g)
    <3>1. r.high < rs[k + 1].low
      BY <1>7, <2>1
    <3>2. x.low <= x.high
      BY <1>4, <1>5, <2>1, <2>4, <3>1
    <3>3. ASSUME NEW i \in 1 .. n, i < k + 1 PROVE rs[i].high + g < x.low
      <4>1. i \in 1 .. k
        BY <1>3, <3>3
      <4> QED BY <2>4, <2>5, <4>1
    <3>4. ASSUME NEW i \in 1 .. n, i > k + 1 PROVE x.high + g < rs[i].low
      <4>1. k + 1 < i
        BY <1>3, <3>4
      <4> QED BY <1>3, <2>1, <2>4, <4>1 DEF Gaps
    <3> QED BY <1>3, <3>2, <3>3, <3>4 DEF Around
  <2> QED BY <1>1, <1>3, <2>1, <2>2, <2>3, <2>6, ReplacedGaps
<1>12. ASSUME k > 0, CanJoin(rs[k], r), NEW x, x = concatenate(rs[k], r)
       PROVE  /\ k \in 1 .. n /\ x \in Regs /\ x.low = rs[k].low /\ x.high = r.high
              /\ x.owner = r.owner /\ x.low <= x.high
              /\ \A i \in 1 .. n : i < k => rs[i].high + g < x.low
  <2>1. k \in 1 .. n /\ k \in 1 .. k
    BY <1>3, <1>12
  <2>2. x \in Regs /\ x.owner = r.owner
    BY <1>4, <1>12, <2>1, JoinCovers DEF Covers
  <2>3. x.low = rs[k].low /\ x.high = r.high
    BY <1>4, <1>7, <1>12, <2>1, JoinBelow
  <2>4. x.low <= x.high
    BY <1>4, <1>5, <1>7, <2>1, <2>3
  <2>5. \A i \in 1 .. n : i < k => rs[i].high + g < x.low
    BY <1>3, <2>1, <2>3 DEF Gaps
  <2> QED BY <2>1, <2>2, <2>3, <2>4, <2>5
<1>13. CASE JoinsLower(rs, k, r, u)
  <2>1. PICK x : x = concatenate(rs[k], r)
    OBVIOUS
  <2>2. /\ k > 0 /\ CanJoin(rs[k], r) /\ Replaced(rs, k, x, u)
        /\ k < n => ~ CanJoin(x, rs[k + 1])
    BY <1>3, <1>13, <2>1 DEF JoinsLower
  <2>3. /\ k \in 1 .. n /\ x \in Regs /\ x.low = rs[k].low /\ x.high = r.high
        /\ x.owner = r.owner /\ x.low <= x.high
        /\ \A i \in 1 .. n : i < k => rs[i].high + g < x.low
    BY <1>12, <2>1, <2>2
  <2>4. k < n => ~ (r.owner = rs[k + 1].owner /\ r.high + 1 = rs[k + 1].low)
    <3> SUFFICES ASSUME k < n PROVE ~ (r.owner = rs[k + 1].owner /\ r.high + 1 = rs[k + 1].low)
      OBVIOUS
    <3>1. k + 1 \in 1 .. n /\ k + 1 \in k + 1 .. n /\ ~ CanJoin(x, rs[k + 1])
      BY <1>3, <2>2
    <3>2. x.high < rs[k + 1].low
      BY <1>7, <2>3, <3>1
    <3> QED BY <1>4, <2>3, <3>1, <3>2, JoinBelow
  <2>5. \A i \in k + 1 .. n : x.high + g < rs[i].low
    BY <1>9, <2>3, <2>4
  <2>6. Around(rs, k, x, g)
    <3>1. \A i \in 1 .. n : i > k => i \in k + 1 .. n
      BY <1>3
    <3> QED BY <1>3, <2>3, <2>5, <3>1 DEF Around
  <2> QED BY <1>1, <1>3, <2>2, <2>3, <2>6, ReplacedGaps
<1>14. CASE JoinsBoth(rs, k, r, u)
  <2>1. k > 0 /\ k < n /\ CanJoin(rs[k], r)
    BY <1>3, <1>14 DEF JoinsBoth
  <2>2. PICK grown, whole \in Seq(Regs) :
          /\ Replaced(rs, k, concatenate(rs[k], r), grown)
          /\ CanJoin(grown[k], rs[k + 1])
          /\ Replaced(grown, k, concatenate(grown[k], grown[k + 1]), whole)
          /\ Removed(whole, k + 1, u)
    BY <1>14 DEF JoinsBoth
  <2>3. PICK x : x = concatenate(rs[k], r)
    OBVIOUS
  <2>4. /\ k \in 1 .. n /\ x \in Regs /\ x.low = rs[k].low /\ x.high = r.high
        /\ x.owner = r.owner /\ x.low <= x.high
        /\ \A i \in 1 .. n : i < k => rs[i].high + g < x.low
    BY <1>12, <2>1, <2>3
  <2>5. k + 1 \in 1 .. n /\ k + 1 \in k + 1 .. n /\ k + 1 # k
    BY <1>3, <2>1
  <2>6. DOMAIN grown = 1 .. n /\ grown[k] = x /\ grown[k + 1] = rs[k + 1]
        /\ \A i \in 1 .. n : i # k => grown[i] = rs[i]
    BY <1>3, <2>2, <2>3, <2>4, <2>5 DEF Replaced
  <2>7. Gaps(grown, 0)
    <3>1. \A i \in 1 .. n : i < k => rs[i].high + 0 < x.low
      <4>1. \A i \in 1 .. n : i < k => rs[i].high + 0 < rs[k].low
        BY <1>3, <1>6, <2>4 DEF Gaps
      <4> QED BY <2>4, <4>1
    <3>2. \A i \in 1 .. n : i > k => x.high + 0 < rs[i].low
      <4>1. \A i \in 1 .. n : i > k => i \in k + 1 .. n
        BY <1>3
      <4> QED BY <1>4, <1>5, <1>7, <2>4, <4>1
    <3>3. Around(rs, k, x, 0)
      BY <1>3, <2>4, <3>1, <3>2 DEF Around
    <3>4. Replaced(rs, k, x, grown) /\ 0 \in 0 .. 1
      BY <2>2, <2>3
    <3> QED BY <1>3, <1>6, <2>2, <2>4, <3>3, <3>4, ReplacedGaps
  <2>8. PICK y : y = concatenate(x, rs[k + 1])
    OBVIOUS
  <2>9. x.high < rs[k + 1].low
    BY <1>7, <2>4, <2>5
  <2>10. y \in Regs /\ y.low = x.low /\ y.high = rs[k + 1].high
    <3>1. CanJoin(x, rs[k + 1]) /\ rs[k + 1] \in Regs /\ rs[k + 1].low <= rs[k + 1].high
      BY <1>4, <2>2, <2>5, <2>6
    <3>2. y \in Regs
      BY <2>4, <2>8, <3>1, JoinCovers DEF Covers
    <3> QED BY <2>4, <2>8, <2>9, <3>1, <3>2, JoinBelow
  <2>11. ASSUME NEW i \in 1 .. n, NEW j \in 1 .. n, i < j, i # k PROVE grown[i].high + g < grown[j].low
    <3>1. grown[i] = rs[i]
      BY <2>6, <2>11
    <3>2. CASE j = k
      BY <2>4, <2>6, <2>11, <3>1, <3>2
    <3>3. CASE j # k
      BY <1>3, <2>6, <2>11, <3>1, <3>3 DEF Gaps
    <3> QED BY <3>2, <3>3
  <2>12. Replaced(grown, k, y, whole)
    BY <2>2, <2>6, <2>8
  <2> QED BY <1>1, <2>2, <2>4, <2>5, <2>6, <2>7, <2>10, <2>11, <2>12, MergedGaps
<1> QED BY <1>2, <1>10, <1>11, <1>13, <1>14

-----------------------------------------------------------------------------
(***************************************************************************)
(* Pages leave a pool.                                                     *)
(***************************************************************************)
\* t has the pages of rs that are not in F.
Shrunk(rs, F, t) ==
    /\ t \in Seq(Regs) /\ Apart(t)
    /\ \A p : \A o : Has(t, p, o) <=> Has(rs, p, o) /\ p \notin F

LEMMA RemovedShrunk ==
    ASSUME NEW rs \in Seq(Regs), Apart(rs), NEW k \in DOMAIN rs,
           NEW t \in Seq(Regs), Removed(rs, k, t), NEW F, F = PagesOf(rs[k])
    PROVE  Shrunk(rs, F, t)
<1>1. PICK n \in Nat : n = Len(rs) /\ DOMAIN rs = 1 .. n /\ k \in 1 .. n
  OBVIOUS
<1> DEFINE Old(j) == IF j < k THEN j ELSE j + 1
<1>2. DOMAIN t = 1 .. n - 1 /\ \A j \in 1 .. n - 1 : t[j] = rs[Old(j)]
  BY <1>1 DEF Removed
<1>3. \A j \in 1 .. n - 1 : Old(j) \in 1 .. n /\ Old(j) # k
  BY <1>1
<1>4. \A i, j \in 1 .. n - 1 : Old(i) = Old(j) => i = j
  BY <1>1
<1>5. ASSUME NEW i \in 1 .. n, i # k PROVE \E j \in 1 .. n - 1 : Old(j) = i
  <2>1. CASE i < k
    <3>1. i \in 1 .. n - 1 /\ Old(i) = i
      BY <1>1, <2>1
    <3> QED BY <3>1
  <2>2. CASE ~ (i < k)
    <3>1. i - 1 \in 1 .. n - 1 /\ Old(i - 1) = i
      BY <1>1, <1>5, <2>2
    <3> QED BY <3>1
  <2> QED BY <2>1, <2>2
<1> HIDE DEF Old
<1>6. Apart(t)
  <2> SUFFICES ASSUME NEW i \in 1 .. n - 1, NEW j \in 1 .. n - 1, NEW p, p \in PagesOf(t[i]), p \in PagesOf(t[j])
               PROVE  i = j
    BY <1>2 DEF Apart
  <2>1. Old(i) = Old(j)
    BY <1>1, <1>2, <1>3 DEF Apart
  <2> QED BY <1>4, <2>1
<1>7. ASSUME NEW p, NEW o PROVE Has(t, p, o) <=> Has(rs, p, o) /\ p \notin F
  <2>1. ASSUME Has(t, p, o) PROVE Has(rs, p, o) /\ p \notin F
    <3>1. PICK j \in 1 .. n - 1 : p \in PagesOf(t[j]) /\ t[j].owner = o
      BY <1>2, <2>1 DEF Has
    <3>2. Old(j) \in 1 .. n /\ Old(j) # k /\ p \in PagesOf(rs[Old(j)]) /\ rs[Old(j)].owner = o
      BY <1>2, <1>3, <3>1
    <3> QED BY <1>1, <3>2 DEF Has, Apart
  <2>2. ASSUME Has(rs, p, o), p \notin F PROVE Has(t, p, o)
    <3>1. PICK i \in 1 .. n : p \in PagesOf(rs[i]) /\ rs[i].owner = o
      BY <1>1, <2>2 DEF Has
    <3>2. PICK j \in 1 .. n - 1 : Old(j) = i
      BY <1>5, <2>2, <3>1
    <3> QED BY <1>2, <3>1, <3>2 DEF Has
  <2> QED BY <2>1, <2>2
<1> QED BY <1>6, <1>7 DEF Shrunk

\* x is region r without the pages F.
Less(x, r, F) ==
    /\ x \in Regs /\ x.owner = r.owner
    /\ \A p : p \in PagesOf(x) <=> p \in PagesOf(r) /\ p \notin F

LEMMA ReplacedShrunk ==
    ASSUME NEW rs \in Seq(Regs), Apart(rs), NEW k \in DOMAIN rs, NEW x, NEW F,
           Less(x, rs[k], F), \A p \in F : p \in PagesOf(rs[k]),
           NEW t \in Seq(Regs), Replaced(rs, k, x, t)
    PROVE  Shrunk(rs, F, t)
<1>1. ASSUME NEW i \in DOMAIN rs, NEW p
      PROVE  p \in PagesOf(t[i]) <=> p \in PagesOf(rs[i]) /\ p \notin F
  BY <1>1 DEF Replaced, Less, Apart
<1>2. \A i \in DOMAIN rs : t[i].owner = rs[i].owner
  BY DEF Replaced, Less
<1>3. DOMAIN t = DOMAIN rs
  BY DEF Replaced
<1>4. Apart(t)
  BY <1>1, <1>3 DEF Apart
<1>5. ASSUME NEW p, NEW o PROVE Has(t, p, o) <=> Has(rs, p, o) /\ p \notin F
  BY <1>1, <1>2, <1>3 DEF Has
<1> QED BY <1>4, <1>5 DEF Shrunk

LEMMA RemovedGaps ==
    ASSUME NEW rs \in Seq(Regs), NEW g, Gaps(rs, g), NEW k \in DOMAIN rs, NEW t \in Seq(Regs), Removed(rs, k, t)
    PROVE  Gaps(t, g)
<1>1. PICK n \in Nat : n = Len(rs) /\ DOMAIN rs = 1 .. n /\ k \in 1 .. n
  OBVIOUS
<1> DEFINE Old(j) == IF j < k THEN j ELSE j + 1
<1>2. DOMAIN t = 1 .. n - 1 /\ \A j \in 1 .. n - 1 : t[j] = rs[Old(j)]
  BY <1>1 DEF Removed
<1>3. /\ \A j \in 1 .. n - 1 : Old(j) \in 1 .. n
      /\ \A i, j \in 1 .. n - 1 : i < j => Old(i) < Old(j)
  BY <1>1
<1> HIDE DEF Old
<1> QED BY <1>1, <1>2, <1>3 DEF Gaps

\* The regions of t end where those of rs end.
Tails(rs, t) ==
    \A i \in DOMAIN rs, j \in DOMAIN t : \A p :
        p \in PagesOf(rs[i]) /\ p \in PagesOf(t[j]) => t[j].high = rs[i].high

LEMMA ShrunkTails ==
    ASSUME NEW rs \in Seq(Regs), Apart(rs), NEW k \in DOMAIN rs, NEW F, NEW t, Shrunk(rs, F, t),
           \A j \in DOMAIN t : \/ \E i \in DOMAIN rs : t[j] = rs[i]
                               \/ t[j].high = rs[k].high /\ \A p : p \in PagesOf(t[j]) => p \in PagesOf(rs[k])
    PROVE  Tails(rs, t)
<1> SUFFICES ASSUME NEW h \in DOMAIN rs, NEW j \in DOMAIN t, NEW p, p \in PagesOf(rs[h]), p \in PagesOf(t[j])
             PROVE  t[j].high = rs[h].high
  BY DEF Tails
<1>1. CASE \E i \in DOMAIN rs : t[j] = rs[i]
  BY <1>1 DEF Apart
<1>2. CASE t[j].high = rs[k].high /\ \A q : q \in PagesOf(t[j]) => q \in PagesOf(rs[k])
  <2>1. h = k
    BY <1>2 DEF Apart
  <2> QED BY <1>2, <2>1
<1> QED BY <1>1, <1>2

LEMMA TakeStartFacts ==
    ASSUME NEW s, DOMAIN s = Fields, NEW pool \in PoolNames, NEW rs \in Seq(Regs), rs = s[pool], Apart(rs),
           NEW i \in DOMAIN rs, NEW size \in Nat \ {0}, rs[i].low + size <= rs[i].high + 1,
           NEW t, t = TakeStart(s, pool, i, size),
           NEW F, F = rs[i].low .. rs[i].low + size - 1
    PROVE  /\ Changed(s, pool, t) /\ Shrunk(rs, F, t[pool]) /\ Tails(rs, t[pool])
           /\ \A g \in 0 .. 1 : Gaps(rs, g) => Gaps(t[pool], g)
<1>1. /\ rs[i] \in Regs /\ rs[i].low \in Nat /\ rs[i].high \in Nat /\ rs[i].high < Word
      /\ rs[i] = [low |-> rs[i].low, high |-> rs[i].high, owner |-> rs[i].owner] /\ rs[i].owner \in Owners
  <2>1. rs[i] \in Regs
    OBVIOUS
  <2> QED BY <2>1 DEF Regs
<1>2. CASE rs[i].low + size = rs[i].high + 1
  <2>1. PICK u : u = RemoveAt(rs, i)
    OBVIOUS
  <2>2. u \in Seq(Regs) /\ Removed(rs, i, u)
    BY <2>1, RemoveElements
  <2>3. t = [s EXCEPT ![pool] = u, !.list = s.list + 1]
    BY <1>2, <2>1 DEF TakeStart, PoolNames
  <2>4. Changed(s, pool, t) /\ t[pool] = u
    BY <2>3 DEF Changed, PoolNames, Fields
  <2>5. F = PagesOf(rs[i])
    BY <1>1, <1>2 DEF PagesOf
  <2>6. Shrunk(rs, F, u)
    BY <2>2, <2>5, RemovedShrunk
  <2>7. \A j \in DOMAIN u : \E h \in DOMAIN rs : u[j] = rs[h]
    <3>1. PICK n \in Nat : n = Len(rs) /\ DOMAIN rs = 1 .. n /\ i \in 1 .. n
      OBVIOUS
    <3>2. DOMAIN u = 1 .. n - 1 /\ \A j \in 1 .. n - 1 : u[j] = rs[IF j < i THEN j ELSE j + 1]
      BY <2>2, <3>1 DEF Removed
    <3>3. \A j \in 1 .. n - 1 : (IF j < i THEN j ELSE j + 1) \in 1 .. n
      BY <3>1
    <3> QED BY <3>1, <3>2, <3>3
  <2>8. Tails(rs, u)
    BY <2>6, <2>7, ShrunkTails
  <2>9. \A g \in 0 .. 1 : Gaps(rs, g) => Gaps(u, g)
    BY <2>2, RemovedGaps
  <2> QED BY <2>4, <2>6, <2>8, <2>9
<1>3. CASE rs[i].low + size # rs[i].high + 1
  <2>1. PICK x : x = [rs[i] EXCEPT !.low = rs[i].low + size]
    OBVIOUS
  <2>2. x = [low |-> rs[i].low + size, high |-> rs[i].high, owner |-> rs[i].owner]
    BY <1>1, <2>1
  <2>3. x \in Regs /\ x.low = rs[i].low + size /\ x.high = rs[i].high /\ x.owner = rs[i].owner
    BY <1>1, <1>3, <2>2 DEF Regs
  <2>4. Less(x, rs[i], F) /\ \A p \in F : p \in PagesOf(rs[i])
    BY <1>1, <1>3, <2>3 DEF Less, PagesOf
  <2>5. PICK u : u = [rs EXCEPT ![i] = x]
    OBVIOUS
  <2>6. u \in Seq(Regs) /\ Replaced(rs, i, x, u)
    BY <2>3, <2>5 DEF Replaced
  <2>7. t = [s EXCEPT ![pool] = u]
    BY <1>3, <2>1, <2>5 DEF TakeStart, PoolNames, Fields
  <2>8. Changed(s, pool, t) /\ t[pool] = u
    BY <2>7 DEF Changed, PoolNames, Fields
  <2>9. Shrunk(rs, F, u)
    BY <2>4, <2>6, ReplacedShrunk
  <2>10. \A j \in DOMAIN u : \/ \E h \in DOMAIN rs : u[j] = rs[h]
                             \/ u[j].high = rs[i].high /\ \A p : p \in PagesOf(u[j]) => p \in PagesOf(rs[i])
    BY <2>3, <2>4, <2>6 DEF Replaced, Less
  <2>11. Tails(rs, u)
    BY <2>9, <2>10, ShrunkTails
  <2>12. ASSUME NEW g \in 0 .. 1, Gaps(rs, g) PROVE Gaps(u, g)
    <3>1. PICK n \in Nat : n = Len(rs) /\ DOMAIN rs = 1 .. n /\ i \in 1 .. n
      OBVIOUS
    <3>6. PICK lo \in Nat, hi \in Nat : lo = rs[i].low /\ hi = rs[i].high /\ lo + size <= hi + 1 /\ lo + size # hi + 1
      BY <1>1, <1>3
    <3>2. x.low <= x.high
      <4>1. lo + size <= hi
        BY <3>6
      <4> QED BY <2>3, <3>6, <4>1
    <3>3. ASSUME NEW j \in 1 .. n, j < i PROVE rs[j].high + g < x.low
      <4>1. rs[j].high + g < rs[i].low
        BY <2>12, <3>1, <3>3 DEF Gaps
      <4>2. PICK below \in Nat : below = rs[j].high
        BY <3>1 DEF Regs
      <4>3. below + g < lo
        BY <3>6, <4>1, <4>2
      <4>4. below + g < lo + size
        BY <4>3
      <4> QED BY <2>3, <3>6, <4>2, <4>4
    <3>4. ASSUME NEW j \in 1 .. n, j > i PROVE x.high + g < rs[j].low
      <4>1. i < j
        BY <3>1, <3>4
      <4> QED BY <2>3, <2>12, <3>1, <4>1 DEF Gaps
    <3>5. Around(rs, i, x, g)
      BY <3>1, <3>2, <3>3, <3>4 DEF Around
    <3> QED BY <2>3, <2>6, <2>12, <3>5, ReplacedGaps
  <2> QED BY <2>8, <2>9, <2>11, <2>12
<1> QED BY <1>2, <1>3

-----------------------------------------------------------------------------
(***************************************************************************)
(* The pools together, and memregion_list_t::alloc.                        *)
(***************************************************************************)
Good(s) ==
    /\ DOMAIN s = Fields /\ s.dead \in BOOLEAN
    /\ \A q \in PoolNames : s[q] \in Seq(Regs) /\ Apart(s[q])
    /\ \A q, h \in PoolNames : \A p : In(s[q], p) /\ In(s[h], p) => q = h
Ordered(s) == \A q \in PoolNames : Gaps(s[q], 0)

SamePools(s, t) ==
    /\ DOMAIN t = Fields /\ \A q \in PoolNames : t[q] = s[q]

\* t is s after sigma0 has taken the first pages of some regions of conventional
\* memory for its list of descriptors, or none.
Feeds(s, t) ==
    /\ Good(t) /\ t.mem = s.mem /\ (s.dead => t.dead)
    /\ \A p : \A o : Has(t.conv, p, o) => Has(s.conv, p, o)
    /\ \A p : \A o : Has(s.conv, p, o) => Has(t.conv, p, o) \/ Has(t.alloc, p, "sigma0")
    /\ \A p : \A o : Has(s.alloc, p, o) => Has(t.alloc, p, o)
    /\ \A p : \A o : Has(t.alloc, p, o) => Has(s.alloc, p, o) \/ (o = "sigma0" /\ In(s.conv, p))
    /\ Tails(s.conv, t.conv)
    /\ \A i \in DOMAIN s.conv : \A p : p \in PagesOf(s.conv[i]) /\ p # s.conv[i].low => In(t.conv, p)
    /\ Ordered(s) => Ordered(t)
    /\ Gaps(s.conv, 1) => Gaps(t.conv, 1)

LEMMA HasIn ==
    ASSUME NEW rs, NEW p
    PROVE  In(rs, p) <=> \E o : Has(rs, p, o)
BY DEF In, Has

LEMMA GoodPools ==
    ASSUME NEW s, Good(s)
    PROVE  /\ DOMAIN s = Fields /\ s.dead \in BOOLEAN
           /\ s.conv \in Seq(Regs) /\ Apart(s.conv)
           /\ s.mem \in Seq(Regs) /\ Apart(s.mem)
           /\ s.alloc \in Seq(Regs) /\ Apart(s.alloc)
           /\ \A p : ~ (In(s.conv, p) /\ In(s.mem, p))
           /\ \A p : ~ (In(s.conv, p) /\ In(s.alloc, p))
           /\ \A p : ~ (In(s.mem, p) /\ In(s.alloc, p))
BY DEF Good, PoolNames

LEMMA PoolsGood ==
    ASSUME NEW s, DOMAIN s = Fields, s.dead \in BOOLEAN,
           s.conv \in Seq(Regs), Apart(s.conv), s.mem \in Seq(Regs), Apart(s.mem),
           s.alloc \in Seq(Regs), Apart(s.alloc),
           \A p : ~ (In(s.conv, p) /\ In(s.mem, p)),
           \A p : ~ (In(s.conv, p) /\ In(s.alloc, p)),
           \A p : ~ (In(s.mem, p) /\ In(s.alloc, p))
    PROVE  Good(s)
BY DEF Good, PoolNames

LEMMA SamePoolsFeeds ==
    ASSUME NEW s, Good(s), NEW t, SamePools(s, t), t.dead \in BOOLEAN, s.dead => t.dead
    PROVE  Feeds(s, t)
<1>1. t.conv = s.conv /\ t.mem = s.mem /\ t.alloc = s.alloc /\ DOMAIN t = Fields
  BY DEF SamePools, PoolNames
<1>2. Good(t)
  BY DEF Good, SamePools
<1>3. Tails(s.conv, t.conv)
  BY <1>1, GoodPools DEF Tails, Apart
<1>4. \A i \in DOMAIN s.conv : \A p : p \in PagesOf(s.conv[i]) => In(t.conv, p)
  BY <1>1 DEF In
<1>5. Ordered(s) => Ordered(t)
  BY DEF Ordered, SamePools
<1> QED BY <1>1, <1>2, <1>3, <1>4, <1>5 DEF Feeds

LEMMA LowestFacts ==
    ASSUME NEW s, s.conv \in Seq(Regs), Lowest(s) # 0
    PROVE  Lowest(s) \in DOMAIN s.conv /\ s.conv[Lowest(s)].low <= s.conv[Lowest(s)].high
<1>1. PICK I : I = {i \in 1 .. Len(s.conv) : s.conv[i].low <= s.conv[i].high}
  OBVIOUS
<1>2. Lowest(s) = IF I # {} THEN Min(I) ELSE 0
  BY <1>1 DEF Lowest, SelectInSeq
<1>3. I \in SUBSET Nat
  BY <1>1
<1>4. Lowest(s) \in I
  BY <1>2, <1>3, LeastIsMin
<1> QED BY <1>1, <1>4

\* One page goes from conventional memory to sigma0.
LEMMA MovedFeeds ==
    ASSUME NEW s, Good(s), NEW i \in DOMAIN s.conv, NEW own \in Regs, own.low = s.conv[i].low,
           own.high = s.conv[i].low, own.owner = "sigma0", s.conv[i].low <= s.conv[i].high,
           NEW t, DOMAIN t = Fields, t.dead = s.dead, t.mem = s.mem,
           Shrunk(s.conv, {s.conv[i].low}, t.conv), Tails(s.conv, t.conv),
           \A g \in 0 .. 1 : Gaps(s.conv, g) => Gaps(t.conv, g),
           Grown(s.alloc, own, t.alloc), Gaps(s.alloc, 0) => Gaps(t.alloc, 0)
    PROVE  Feeds(s, t)
<1>1. PICK page \in Nat : page = s.conv[i].low /\ page \in PagesOf(s.conv[i])
  <2>1. s.conv[i] \in Regs
    BY GoodPools
  <2> QED BY <2>1 DEF Regs, PagesOf
<1>2. \A p : p \in PagesOf(own) <=> p = page
  BY <1>1 DEF PagesOf
<1>3. \A p : \A o : Has(t.conv, p, o) <=> Has(s.conv, p, o) /\ p # page
  BY <1>1 DEF Shrunk
<1>4. \A p : \A o : Has(t.alloc, p, o) <=> Has(s.alloc, p, o) \/ (p = page /\ o = "sigma0")
  BY <1>2 DEF Grown
<1>5. In(s.conv, page)
  BY <1>1 DEF In
<1>6. \A p : In(t.conv, p) <=> In(s.conv, p) /\ p # page
  BY <1>3, HasIn
<1>7. \A p : In(t.alloc, p) <=> In(s.alloc, p) \/ p = page
  BY <1>4, HasIn
<1>8. Good(t)
  <2>1. \A p : ~ (In(t.conv, p) /\ In(t.mem, p)) /\ ~ (In(t.conv, p) /\ In(t.alloc, p))
               /\ ~ (In(t.mem, p) /\ In(t.alloc, p))
    BY <1>5, <1>6, <1>7, GoodPools
  <2>2. t.conv \in Seq(Regs) /\ Apart(t.conv) /\ t.alloc \in Seq(Regs) /\ Apart(t.alloc)
    BY DEF Shrunk, Grown
  <2>3. t.mem \in Seq(Regs) /\ Apart(t.mem) /\ t.dead \in BOOLEAN
    BY GoodPools
  <2> QED BY <2>1, <2>2, <2>3, PoolsGood
<1>9. ASSUME NEW j \in DOMAIN s.conv, NEW p, p \in PagesOf(s.conv[j]), p # s.conv[j].low PROVE In(t.conv, p)
  <2>1. CASE p = page
    <3>1. j = i
      BY <1>1, <1>9, <2>1, GoodPools DEF Apart
    <3> QED BY <1>1, <1>9, <2>1, <3>1
  <2>2. CASE p # page
    BY <1>6, <1>9, <2>2 DEF In
  <2> QED BY <2>1, <2>2
<1>10. Ordered(s) => Ordered(t)
  BY DEF Ordered, PoolNames
<1>11. Gaps(s.conv, 1) => Gaps(t.conv, 1)
  OBVIOUS
<1> QED BY <1>3, <1>4, <1>5, <1>8, <1>9, <1>10, <1>11 DEF Feeds

LEMMA FeedListFacts ==
    ASSUME NEW s, Good(s), Lowest(s) # 0, NEW t, t = FeedList(s), NEW l, NEW w, w = [t EXCEPT !.list = l]
    PROVE  Feeds(s, w) /\ w.dead = s.dead
<1>1. PICK i \in DOMAIN s.conv : i = Lowest(s) /\ s.conv[i].low <= s.conv[i].high
  BY GoodPools, LowestFacts
<1>2. PICK page : page = s.conv[i].low
  OBVIOUS
<1>3. page \in Nat /\ page < Word /\ s.conv[i].high \in Nat /\ page <= s.conv[i].high
  <2>1. s.conv[i] \in Regs
    BY GoodPools
  <2> QED BY <1>1, <1>2, <2>1, KickstartAssumption DEF Regs
<1>4. PICK own : own = Region(page, page, "sigma0")
  OBVIOUS
<1>5. own \in Regs /\ own.low = page /\ own.high = page /\ own.owner = "sigma0"
  BY <1>3, <1>4, KickstartAssumption DEF Region, Regs, Owners
<1>6. PICK rest : rest = TakeStart(s, "conv", i, 1)
  OBVIOUS
<1>7. /\ Changed(s, "conv", rest) /\ Shrunk(s.conv, {page}, rest.conv) /\ Tails(s.conv, rest.conv)
      /\ \A g \in 0 .. 1 : Gaps(s.conv, g) => Gaps(rest.conv, g)
  <2>1. PICK F : F = s.conv[i].low .. s.conv[i].low + 1 - 1
    OBVIOUS
  <2>2. F = {page}
    BY <1>2, <1>3, <2>1
  <2>3. s.conv[i].low + 1 <= s.conv[i].high + 1
    BY <1>2, <1>3
  <2>4. DOMAIN s = Fields /\ "conv" \in PoolNames /\ s.conv \in Seq(Regs) /\ Apart(s.conv) /\ 1 \in Nat \ {0}
    BY GoodPools DEF PoolNames
  <2> QED BY <1>6, <2>1, <2>2, <2>3, <2>4, TakeStartFacts
<1>8. PICK rest0 : rest0 = [rest EXCEPT !.list = 0]
  OBVIOUS
<1>9. DOMAIN rest0 = Fields /\ rest0.conv = rest.conv /\ rest0.mem = s.mem /\ rest0.alloc = s.alloc
      /\ rest0.dead = s.dead
  BY <1>7, <1>8 DEF Changed, PoolNames, Fields
<1>10. PICK after : after = insert(rest0, "alloc", own)
  OBVIOUS
<1>11. \A p : p \in PagesOf(own) => ~ In(s.alloc, p)
  <2>1. page \in PagesOf(s.conv[i])
    BY <1>2, <1>3 DEF PagesOf
  <2>2. In(s.conv, page)
    BY <2>1 DEF In
  <2>3. \A p : p \in PagesOf(own) => p = page
    BY <1>3, <1>5 DEF PagesOf
  <2> QED BY <2>2, <2>3, GoodPools
<1>12. "alloc" \in PoolNames /\ s.alloc \in Seq(Regs) /\ s.alloc = rest0["alloc"] /\ Apart(s.alloc)
  BY <1>9, GoodPools DEF PoolNames
<1>13. Changed(rest0, "alloc", after) /\ Grown(s.alloc, own, after.alloc)
  BY <1>5, <1>9, <1>10, <1>11, <1>12, InsertPool
<1>14. Gaps(s.alloc, 0) => Gaps(after.alloc, 0)
  <2>1. own.low <= own.high /\ 0 \in 0 .. 1
    BY <1>3, <1>5
  <2> QED BY <1>5, <1>9, <1>10, <1>11, <1>12, <2>1, InsertGaps
<1>15. after.conv = rest.conv /\ after.mem = s.mem /\ after.dead = s.dead /\ DOMAIN after = Fields
  BY <1>9, <1>13 DEF Changed, PoolNames
<1>16. \E n : t = [after EXCEPT !.list = n]
  BY <1>1, <1>2, <1>4, <1>6, <1>8, <1>10 DEF FeedList
<1>17. w.conv = rest.conv /\ w.mem = s.mem /\ w.alloc = after.alloc /\ w.dead = s.dead /\ DOMAIN w = Fields
  BY <1>15, <1>16 DEF Fields, PoolNames
<1> QED BY <1>1, <1>2, <1>5, <1>7, <1>13, <1>14, <1>17, MovedFeeds

LEMMA DescriptorFacts ==
    ASSUME NEW s, Good(s), NEW t, t = WithDescriptor(s)
    PROVE  Feeds(s, t)
<1>1. DOMAIN s = Fields /\ s.dead \in BOOLEAN
  BY GoodPools
<1>2. CASE s.dead
  <2>1. t = s
    BY <1>2 DEF WithDescriptor
  <2> QED BY <1>1, <2>1, SamePoolsFeeds DEF SamePools
<1>3. CASE ~ s.dead /\ s.list > 0
  <2>1. t = [s EXCEPT !.list = s.list - 1]
    BY <1>3 DEF WithDescriptor
  <2>2. SamePools(s, t) /\ t.dead = s.dead
    BY <1>1, <2>1 DEF SamePools, Fields, PoolNames
  <2> QED BY <1>1, <2>2, SamePoolsFeeds
<1>4. CASE ~ s.dead /\ ~ (s.list > 0) /\ Lowest(s) = 0
  <2>1. t = [s EXCEPT !.dead = TRUE]
    BY <1>4 DEF WithDescriptor
  <2>2. SamePools(s, t) /\ t.dead = TRUE
    BY <1>1, <2>1 DEF SamePools, Fields, PoolNames
  <2> QED BY <1>1, <2>2, SamePoolsFeeds
<1>5. CASE ~ s.dead /\ ~ (s.list > 0) /\ Lowest(s) # 0
  <2>1. PICK fed : fed = FeedList(s)
    OBVIOUS
  <2>2. t = [fed EXCEPT !.list = fed.list - 1]
    BY <1>5, <2>1 DEF WithDescriptor
  <2> QED BY <1>5, <2>1, <2>2, FeedListFacts
<1> QED BY <1>1, <1>2, <1>3, <1>4, <1>5

\* Region r has been put into a pool, if sigma0 is not dead; it may have fed its list.
Puts(s, pool, r, t) ==
    /\ Good(t) /\ (s.dead => t.dead)
    /\ \A p : \A o : Has(t.conv, p, o) => Has(s.conv, p, o) \/ (pool = "conv" /\ p \in PagesOf(r) /\ o = r.owner)
    /\ \A p : \A o : Has(s.conv, p, o) => Has(t.conv, p, o) \/ Has(t.alloc, p, "sigma0")
    /\ \A p : \A o : Has(t.mem, p, o) => Has(s.mem, p, o) \/ (pool = "mem" /\ p \in PagesOf(r) /\ o = r.owner)
    /\ \A p : \A o : Has(s.mem, p, o) => Has(t.mem, p, o)
    /\ \A p : \A o : Has(s.alloc, p, o) => Has(t.alloc, p, o)
    /\ \A p : \A o : Has(t.alloc, p, o) => \/ Has(s.alloc, p, o) \/ (o = "sigma0" /\ In(s.conv, p))
                                           \/ pool = "alloc" /\ p \in PagesOf(r) /\ o = r.owner
    /\ ~ t.dead => \A p : p \in PagesOf(r) => Has(t[pool], p, r.owner)
    /\ pool # "conv" => Tails(s.conv, t.conv)
    /\ Ordered(s) => Ordered(t)
    /\ Gaps(s.conv, 1) /\ (pool = "conv" => \A p : \A o : Has(s.conv, p, o) => o = r.owner)
          => Gaps(t.conv, 1)

LEMMA FeedsPuts ==
    ASSUME NEW s, NEW pool \in PoolNames, NEW r, NEW t, Feeds(s, t), t.dead
    PROVE  Puts(s, pool, r, t)
BY DEF Feeds, Puts

LEMMA InsertPuts ==
    ASSUME NEW s, NEW pool \in PoolNames, NEW r \in Regs, r.low <= r.high, Good(s),
           \A q \in PoolNames : \A p : p \in PagesOf(r) => ~ In(s[q], p),
           NEW d, Feeds(s, d), NEW t, t = insert(d, pool, r)
    PROVE  Puts(s, pool, r, t) /\ t.dead = d.dead
<1>1. Good(d) /\ DOMAIN d = Fields /\ d[pool] \in Seq(Regs) /\ Apart(d[pool])
  BY DEF Feeds, Good
<1>2. ASSUME NEW q \in PoolNames, NEW p, p \in PagesOf(r) PROVE ~ In(d[q], p)
  <2>1. ~ In(s.conv, p) /\ ~ In(s.mem, p) /\ ~ In(s.alloc, p)
    BY <1>2 DEF PoolNames
  <2>2. ~ In(d.conv, p) /\ ~ In(d.mem, p) /\ ~ In(d.alloc, p)
    BY <2>1, HasIn DEF Feeds
  <2> QED BY <2>2 DEF PoolNames
<1>3. Changed(d, pool, t) /\ Grown(d[pool], r, t[pool])
  <2>1. \A p : p \in PagesOf(r) => ~ In(d[pool], p)
    BY <1>2
  <2> QED BY <1>1, <2>1, InsertPool
<1>4. ASSUME NEW g \in 0 .. 1, Gaps(d[pool], g), g = 0 \/ \A i \in DOMAIN d[pool] : d[pool][i].owner = r.owner
      PROVE  Gaps(t[pool], g)
  <2>1. \A p : p \in PagesOf(r) => ~ In(d[pool], p)
    BY <1>2
  <2> QED BY <1>1, <1>4, <2>1, InsertGaps
<1>5. \A p : \A o : Has(t[pool], p, o) <=> Has(d[pool], p, o) \/ (p \in PagesOf(r) /\ r.owner = o)
  BY <1>3 DEF Grown
<1>6. \A q \in PoolNames : q # pool => t[q] = d[q]
  BY <1>3 DEF Changed
<1>7. Good(t)
  <2>1. DOMAIN t = Fields /\ t.dead \in BOOLEAN
    BY <1>1, <1>3 DEF Changed, Good
  <2>2. \A q \in PoolNames : t[q] \in Seq(Regs) /\ Apart(t[q])
    BY <1>1, <1>3, <1>6 DEF Grown, Good
  <2>3. \A q \in PoolNames : \A p : In(t[q], p) <=> In(d[q], p) \/ (q = pool /\ p \in PagesOf(r))
    BY <1>5, <1>6, HasIn
  <2> QED BY <1>1, <1>2, <2>1, <2>2, <2>3 DEF Good
<1>8. \A p : p \in PagesOf(r) => Has(t[pool], p, r.owner)
  BY <1>5
<1>9. Ordered(s) => Ordered(t)
  <2> SUFFICES ASSUME Ordered(s), NEW q \in PoolNames PROVE Gaps(t[q], 0)
    BY DEF Ordered
  <2>1. Gaps(d[q], 0)
    BY DEF Feeds, Ordered
  <2>2. CASE q = pool
    BY <1>4, <2>1, <2>2
  <2>3. CASE q # pool
    BY <1>6, <2>1, <2>3
  <2> QED BY <2>2, <2>3
<1>10. ASSUME Gaps(s.conv, 1), pool = "conv" => \A p : \A o : Has(s.conv, p, o) => o = r.owner
       PROVE  Gaps(t.conv, 1)
  <2>1. Gaps(d.conv, 1)
    BY <1>10 DEF Feeds
  <2>2. CASE pool # "conv"
    BY <1>6, <2>1, <2>2 DEF PoolNames
  <2>3. CASE pool = "conv"
    <3>1. ASSUME NEW i \in DOMAIN d.conv PROVE d.conv[i].owner = r.owner
      <4>1. d.conv[i] \in Regs /\ d.conv[i].low <= d.conv[i].high
        BY <1>1, <2>1, <2>3 DEF Gaps
      <4>2. d.conv[i].low \in PagesOf(d.conv[i])
        BY <4>1 DEF Regs, PagesOf
      <4>3. Has(d.conv, d.conv[i].low, d.conv[i].owner)
        BY <4>2 DEF Has
      <4> QED BY <1>10, <2>3, <4>3 DEF Feeds
    <3> QED BY <1>4, <2>1, <2>3, <3>1
  <2> QED BY <2>2, <2>3
<1>11. t.dead = d.dead
  BY <1>3 DEF Changed
<1>12. /\ \A p : \A o : Has(t.conv, p, o) <=> Has(d.conv, p, o) \/ (pool = "conv" /\ p \in PagesOf(r) /\ o = r.owner)
       /\ \A p : \A o : Has(t.mem, p, o) <=> Has(d.mem, p, o) \/ (pool = "mem" /\ p \in PagesOf(r) /\ o = r.owner)
       /\ \A p : \A o : Has(t.alloc, p, o) <=> Has(d.alloc, p, o) \/ (pool = "alloc" /\ p \in PagesOf(r) /\ o = r.owner)
  BY <1>5, <1>6 DEF PoolNames
<1>13. pool # "conv" => Tails(s.conv, t.conv)
  BY <1>6 DEF Feeds, PoolNames
<1>14. s.dead => t.dead
  BY <1>11 DEF Feeds
<1>15. /\ \A p : \A o : Has(t.conv, p, o) => Has(s.conv, p, o) \/ (pool = "conv" /\ p \in PagesOf(r) /\ o = r.owner)
       /\ \A p : \A o : Has(s.conv, p, o) => Has(t.conv, p, o) \/ Has(t.alloc, p, "sigma0")
       /\ \A p : \A o : Has(t.mem, p, o) => Has(s.mem, p, o) \/ (pool = "mem" /\ p \in PagesOf(r) /\ o = r.owner)
       /\ \A p : \A o : Has(s.mem, p, o) => Has(t.mem, p, o)
       /\ \A p : \A o : Has(s.alloc, p, o) => Has(t.alloc, p, o)
       /\ \A p : \A o : Has(t.alloc, p, o) => \/ Has(s.alloc, p, o) \/ (o = "sigma0" /\ In(s.conv, p))
                                              \/ pool = "alloc" /\ p \in PagesOf(r) /\ o = r.owner
  BY <1>12 DEF Feeds
<1> QED BY <1>7, <1>8, <1>9, <1>10, <1>11, <1>13, <1>14, <1>15 DEF Puts

LEMMA InsertNewPuts ==
    ASSUME NEW s, NEW pool \in PoolNames, NEW r \in Regs, r.low <= r.high, Good(s),
           \A q \in PoolNames : \A p : p \in PagesOf(r) => ~ In(s[q], p),
           NEW t, t = InsertNew(s, pool, r)
    PROVE  Puts(s, pool, r, t)
<1>1. PICK d : d = WithDescriptor(s)
  OBVIOUS
<1>2. Feeds(s, d) /\ d.dead \in BOOLEAN
  BY <1>1, DescriptorFacts DEF Feeds, Good
<1>3. t = IF d.dead THEN d ELSE insert(d, pool, r)
  BY <1>1 DEF InsertNew
<1>4. CASE d.dead
  BY <1>2, <1>3, <1>4, FeedsPuts
<1>5. CASE ~ d.dead
  <2>1. t = insert(d, pool, r)
    BY <1>3, <1>5
  <2> QED BY <1>2, <2>1, InsertPuts
<1> QED BY <1>2, <1>4, <1>5

-----------------------------------------------------------------------------
(***************************************************************************)
(* memregion_pool_t::remove.                                               *)
(***************************************************************************)
Below(a, b, g) == \A i \in DOMAIN a, j \in DOMAIN b : a[i].high + g < b[j].low

Lengths(a, b, t, k, n) ==
    /\ DOMAIN a = 1 .. k /\ DOMAIN b = 1 .. n /\ DOMAIN t = 1 .. k + n
    /\ \A i \in 1 .. k : t[i] = a[i]
    /\ \A i \in 1 .. n : t[k + i] = b[i]
    /\ \A i \in 1 .. k + n : i \in 1 .. k \/ (i - k \in 1 .. n /\ t[i] = b[i - k])

LEMMA JoinIndices ==
    ASSUME NEW a \in Seq(Regs), NEW b \in Seq(Regs), NEW t, Joins(a, b, t)
    PROVE  /\ t \in Seq(Regs)
           /\ \E k, n \in Nat : Lengths(a, b, t, k, n)
<1>1. /\ t \in Seq(Regs) /\ Len(t) = Len(a) + Len(b)
      /\ \A i \in 1 .. Len(a) : t[i] = a[i]
      /\ \A i \in 1 .. Len(b) : t[Len(a) + i] = b[i]
  BY JoinFacts
<1>2. PICK k \in Nat : k = Len(a) /\ DOMAIN a = 1 .. k
  OBVIOUS
<1>3. PICK n \in Nat : n = Len(b) /\ DOMAIN b = 1 .. n
  OBVIOUS
<1>4. DOMAIN t = 1 .. k + n
  BY <1>1, <1>2, <1>3
<1>5. ASSUME NEW i \in 1 .. k + n, i \notin 1 .. k PROVE i - k \in 1 .. n /\ t[i] = b[i - k]
  <2>1. i - k \in 1 .. n /\ k + (i - k) = i
    BY <1>5
  <2> QED BY <1>1, <1>2, <1>3, <2>1
<1> QED BY <1>1, <1>2, <1>3, <1>4, <1>5 DEF Lengths

LEMMA JoinHas ==
    ASSUME NEW a \in Seq(Regs), NEW b \in Seq(Regs), NEW t, Joins(a, b, t), NEW p, NEW o
    PROVE  Has(t, p, o) <=> Has(a, p, o) \/ Has(b, p, o)
<1>1. PICK k, n \in Nat : Lengths(a, b, t, k, n)
  BY JoinIndices
<1>2. /\ \A i \in 1 .. k : i \in 1 .. k + n
      /\ \A i \in 1 .. n : k + i \in 1 .. k + n
  BY <1>1 DEF Lengths
<1>3. ASSUME Has(t, p, o) PROVE Has(a, p, o) \/ Has(b, p, o)
  BY <1>1, <1>3 DEF Has, Lengths
<1>4. ASSUME Has(a, p, o) PROVE Has(t, p, o)
  BY <1>1, <1>2, <1>4 DEF Has, Lengths
<1>5. ASSUME Has(b, p, o) PROVE Has(t, p, o)
  <2>1. PICK i \in 1 .. n : p \in PagesOf(b[i]) /\ b[i].owner = o
    BY <1>1, <1>5 DEF Has, Lengths
  <2>2. k + i \in DOMAIN t /\ t[k + i] = b[i]
    BY <1>1, <1>2 DEF Lengths
  <2> QED BY <2>1, <2>2 DEF Has
<1> QED BY <1>3, <1>4, <1>5

LEMMA JoinGaps ==
    ASSUME NEW a \in Seq(Regs), NEW b \in Seq(Regs), NEW t, Joins(a, b, t), NEW g,
           Gaps(a, g), Gaps(b, g), Below(a, b, g)
    PROVE  Gaps(t, g)
<1>1. PICK k, n \in Nat : Lengths(a, b, t, k, n)
  BY JoinIndices
<1>2. \A i \in 1 .. k + n : t[i].low <= t[i].high
  BY <1>1 DEF Gaps, Lengths
<1>3. ASSUME NEW i \in 1 .. k + n, NEW j \in 1 .. k + n, i < j PROVE t[i].high + g < t[j].low
  <2>1. CASE i \in 1 .. k /\ j \in 1 .. k
    BY <1>1, <1>3, <2>1 DEF Gaps, Lengths
  <2>2. CASE i \in 1 .. k /\ j \notin 1 .. k
    <3>1. j - k \in DOMAIN b /\ t[j] = b[j - k] /\ i \in DOMAIN a /\ t[i] = a[i]
      BY <1>1, <2>2 DEF Lengths
    <3> QED BY <3>1 DEF Below
  <2>3. CASE i \notin 1 .. k
    <3>1. j \notin 1 .. k
      BY <1>1, <1>3, <2>3
    <3>2. i - k < j - k
      BY <1>1, <1>3
    <3>3. j - k \in DOMAIN b /\ t[j] = b[j - k] /\ i - k \in DOMAIN b /\ t[i] = b[i - k]
      BY <1>1, <2>3, <3>1 DEF Lengths
    <3> QED BY <3>2, <3>3 DEF Gaps
  <2> QED BY <2>1, <2>2, <2>3
<1> QED BY <1>1, <1>2, <1>3 DEF Gaps, Lengths

LEMMA JoinedBelow ==
    ASSUME NEW a \in Seq(Regs), NEW b \in Seq(Regs), NEW t, Joins(a, b, t), NEW c, NEW g,
           Below(a, c, g), Below(b, c, g)
    PROVE  Below(t, c, g)
<1>1. PICK k, n \in Nat : Lengths(a, b, t, k, n)
  BY JoinIndices
<1> QED BY <1>1 DEF Below, Lengths

LEMMA GapsApart ==
    ASSUME NEW rs \in Seq(Regs), Gaps(rs, 0)
    PROVE  Apart(rs)
<1> SUFFICES ASSUME NEW i \in DOMAIN rs, NEW j \in DOMAIN rs, NEW p, p \in PagesOf(rs[i]), p \in PagesOf(rs[j]), i # j
             PROVE  FALSE
  BY DEF Apart
<1>1. rs[i] \in Regs /\ rs[j] \in Regs
  OBVIOUS
<1>2. i \in Nat /\ j \in Nat
  OBVIOUS
<1>3. i < j \/ j < i
  BY <1>2
<1>4. rs[i].high + 0 < rs[j].low \/ rs[j].high + 0 < rs[i].low
  BY <1>3 DEF Gaps
<1>5. rs[i].low \in Nat /\ rs[i].high \in Nat /\ rs[j].low \in Nat /\ rs[j].high \in Nat
  BY <1>1 DEF Regs
<1>6. p \in Nat /\ rs[i].low <= p /\ p <= rs[i].high /\ rs[j].low <= p /\ p <= rs[j].high
  BY <1>5 DEF PagesOf
<1> QED BY <1>4, <1>5, <1>6

\* A bounded set of numbers has a greatest one.
LEMMA GreatestIsMax ==
    ASSUME NEW S \in SUBSET Nat, S # {}, NEW b \in Nat, \A x \in S : x <= b
    PROVE  Max(S) \in S /\ \A y \in S : y <= Max(S)
<1>1. PICK T : T = {y \in Nat : \A x \in S : x <= y}
  OBVIOUS
<1>2. T \in SUBSET Nat /\ T # {}
  BY <1>1
<1>3. PICK c \in T : \A y \in T : c <= y
  BY <1>2, LeastNumber
<1>4. c \in S
  <2>1. SUFFICES ASSUME c \notin S PROVE FALSE
    OBVIOUS
  <2>2. \A x \in S : x < c
    <3> TAKE x \in S
    <3>1. x <= c /\ x # c /\ x \in Nat /\ c \in Nat
      BY <1>1, <1>3, <2>1
    <3> QED BY <3>1
  <2>3. c \in Nat /\ c # 0
    <3>1. PICK x \in S : x \in Nat
      OBVIOUS
    <3>2. x < c /\ c \in Nat
      BY <1>1, <2>2
    <3> QED BY <3>1, <3>2
  <2>4. c - 1 \in T
    BY <1>1, <2>2, <2>3
  <2> QED BY <1>3, <2>3, <2>4
<1>5. \A y \in S : y <= c /\ c >= y
  BY <1>1, <1>3
<1>6. \A x \in S : (\A y \in S : x >= y) => x = c
  BY <1>4, <1>5
<1> QED BY <1>4, <1>5, <1>6 DEF Max

LEMMA HitFacts ==
    ASSUME NEW rs \in Seq(Regs), Gaps(rs, 0), NEW low \in Nat, NEW high \in Nat, low <= high,
           NEW hit, hit = Hit(rs, low, high), hit # {}
    PROVE  /\ Min(hit) \in hit /\ Max(hit) \in hit /\ Min(hit) <= Max(hit)
           /\ \A i \in DOMAIN rs : i < Min(hit) => rs[i].high < low /\ i < Max(hit)
           /\ \A i \in DOMAIN rs : i > Max(hit) => high < rs[i].low /\ i > Min(hit)
<1>1. PICK n \in Nat : n = Len(rs) /\ DOMAIN rs = 1 .. n
  OBVIOUS
<1>2. hit \in SUBSET Nat /\ \A i \in hit : i \in 1 .. n /\ i <= n
  BY <1>1 DEF Hit
<1>3. PICK f : f = Min(hit)
  OBVIOUS
<1>4. PICK l : l = Max(hit)
  OBVIOUS
<1>5. f \in hit /\ \A y \in hit : f <= y
  BY <1>2, <1>3, LeastIsMin
<1>6. l \in hit /\ \A y \in hit : y <= l
  BY <1>1, <1>2, <1>4, GreatestIsMax
<1>7. f \in 1 .. n /\ l \in 1 .. n /\ f <= l
  BY <1>2, <1>5, <1>6
<1>8. \A i \in 1 .. n : rs[i].low \in Nat /\ rs[i].high \in Nat /\ rs[i].low <= rs[i].high
  <2>1. \A i \in 1 .. n : rs[i] \in Regs
    BY <1>1
  <2> QED BY <1>1, <2>1 DEF Regs, Gaps
<1>9. rs[f].low <= high /\ low <= rs[f].high /\ rs[l].low <= high /\ low <= rs[l].high
  BY <1>5, <1>6, <1>7, <1>8 DEF Hit
<1>10. ASSUME NEW i \in 1 .. n, i < f PROVE rs[i].high < low /\ i < l
  <2>1. i \notin hit
    BY <1>5, <1>7, <1>10
  <2>2. rs[i].high + 0 < rs[f].low
    BY <1>1, <1>7, <1>10 DEF Gaps
  <2>3. rs[i].low <= high
    BY <1>7, <1>8, <1>9, <2>2
  <2>4. rs[i].high < low
    BY <1>1, <1>8, <2>1, <2>3 DEF Hit
  <2> QED BY <1>7, <1>10, <2>4
<1>11. ASSUME NEW i \in 1 .. n, i > l PROVE high < rs[i].low /\ i > f
  <2>1. i \notin hit
    BY <1>6, <1>7, <1>11
  <2>2. rs[l].high + 0 < rs[i].low
    BY <1>1, <1>7, <1>11 DEF Gaps
  <2>3. rs[i].high >= low
    BY <1>7, <1>8, <1>9, <2>2
  <2>4. high < rs[i].low
    BY <1>1, <1>8, <2>1, <2>3 DEF Hit
  <2> QED BY <1>7, <1>11, <2>4
<1> QED BY <1>1, <1>3, <1>4, <1>5, <1>6, <1>7, <1>10, <1>11

Slice(rs, a, b, t) ==
    /\ \A j \in DOMAIN t : \E i \in DOMAIN rs : a <= i /\ i <= b /\ t[j] = rs[i]
    /\ \A p, o : Has(t, p, o) <=>
                 \E i \in DOMAIN rs : a <= i /\ i <= b /\ p \in PagesOf(rs[i]) /\ rs[i].owner = o

LEMMA PartGaps ==
    ASSUME NEW rs \in Seq(Regs), NEW g, Gaps(rs, g), NEW a \in Nat \ {0}, NEW b \in 0 .. Len(rs),
           NEW t, t = SubSeq(rs, a, b)
    PROVE  /\ t \in Seq(Regs) /\ Gaps(t, g)
           /\ Slice(rs, a, b, t)
<1>1. PICK n \in Nat : n = Len(rs) /\ DOMAIN rs = 1 .. n /\ b \in 0 .. n
  OBVIOUS
<1>2. t \in Seq(Regs) /\ Part(rs, a, b, t)
  BY SubSeqFacts
<1>3. PICK k \in Nat : k = Len(t) /\ DOMAIN t = 1 .. k
  <2>1. ASSUME NEW u \in Seq(Regs) PROVE Len(u) \in Nat /\ DOMAIN u = 1 .. Len(u)
    OBVIOUS
  <2> QED BY <1>2, <2>1
<1>4. k = (IF a <= b THEN b - a + 1 ELSE 0) /\ \A j \in 1 .. k : t[j] = rs[a + j - 1]
  BY <1>2, <1>3 DEF Part
<1>5. \A j \in 1 .. k : a + j - 1 \in 1 .. n /\ a <= a + j - 1 /\ a + j - 1 <= b
  BY <1>1, <1>4
<1>6. \A i, j \in 1 .. k : i < j => a + i - 1 < a + j - 1
  OBVIOUS
<1>7. Gaps(t, g)
  <2>1. \A j \in 1 .. k : t[j].low <= t[j].high
    BY <1>1, <1>4, <1>5 DEF Gaps
  <2>2. ASSUME NEW i \in 1 .. k, NEW j \in 1 .. k, i < j PROVE t[i].high + g < t[j].low
    <3>1. PICK x \in 1 .. n, y \in 1 .. n : x = a + i - 1 /\ y = a + j - 1 /\ x < y
      BY <1>5, <1>6, <2>2
    <3>2. t[i] = rs[x] /\ t[j] = rs[y]
      BY <1>4, <3>1
    <3> QED BY <1>1, <3>1, <3>2 DEF Gaps
  <2> QED BY <1>3, <2>1, <2>2 DEF Gaps
<1>8. \A j \in DOMAIN t : \E i \in DOMAIN rs : a <= i /\ i <= b /\ t[j] = rs[i]
  BY <1>1, <1>3, <1>4, <1>5
<1>9. ASSUME NEW p, NEW o, NEW i \in DOMAIN rs, a <= i, i <= b, p \in PagesOf(rs[i]), rs[i].owner = o
      PROVE  Has(t, p, o)
  <2>1. i - a + 1 \in 1 .. k /\ a + (i - a + 1) - 1 = i
    BY <1>1, <1>4, <1>9
  <2>2. t[i - a + 1] = rs[i]
    BY <1>4, <2>1
  <2> QED BY <1>3, <1>9, <2>1, <2>2 DEF Has
<1>10. ASSUME NEW p, NEW o, Has(t, p, o)
       PROVE  \E i \in DOMAIN rs : a <= i /\ i <= b /\ p \in PagesOf(rs[i]) /\ rs[i].owner = o
  BY <1>8, <1>10 DEF Has
<1> QED BY <1>2, <1>7, <1>8, <1>9, <1>10 DEF Slice

LEMMA OptionFacts ==
    ASSUME NEW C \in BOOLEAN, NEW x, C => x \in Regs /\ x.low <= x.high, NEW t, t = IF C THEN <<x>> ELSE <<>>
    PROVE  /\ t \in Seq(Regs) /\ \A g : Gaps(t, g)
           /\ \A j \in DOMAIN t : C /\ t[j] = x
           /\ \A p, o : Has(t, p, o) <=> C /\ p \in PagesOf(x) /\ x.owner = o
<1>1. CASE C
  <2>1. t \in Seq(Regs) /\ DOMAIN t = {1} /\ t[1] = x
    BY <1>1
  <2>2. \A g : Gaps(t, g)
    BY <1>1, <2>1 DEF Gaps
  <2> QED BY <1>1, <2>1, <2>2 DEF Has
<1>2. CASE ~ C
  <2>1. t \in Seq(Regs) /\ DOMAIN t = {}
    BY <1>2
  <2> QED BY <1>2, <2>1 DEF Has, Gaps
<1> QED BY <1>1, <1>2

Hits(rs, low, high, f, l) ==
    /\ f \in DOMAIN rs /\ l \in DOMAIN rs /\ f <= l
    /\ rs[f].low <= high /\ low <= rs[f].high /\ rs[l].low <= high /\ low <= rs[l].high
    /\ \A i \in DOMAIN rs : i < f => rs[i].high < low
    /\ \A i \in DOMAIN rs : i > l => high < rs[i].low
CutOf(rs, low, high, f, l, u) == u = Cut(rs, low, high, f, l)
CutEnd(rs, low, high, f) == IF rs[f].low < low /\ rs[f].high > high THEN rs[f].high ELSE high

\* The pool without the regions f .. l, but with what is left of these below low
\* and above high.
LEMMA CutFacts ==
    ASSUME NEW rs \in Seq(Regs), Gaps(rs, 0), NEW low \in Nat, NEW high \in Nat, low <= high,
           NEW f, NEW l, Hits(rs, low, high, f, l), NEW u, CutOf(rs, low, high, f, l, u)
    PROVE  Shrunk(rs, low .. CutEnd(rs, low, high, f), u) /\ \A g \in 0 .. 1 : Gaps(rs, g) => Gaps(u, g)
<1>1. PICK n \in Nat : /\ n = Len(rs) /\ DOMAIN rs = 1 .. n /\ f \in 1 .. n /\ l \in 1 .. n /\ f <= l
                       /\ rs[f].low <= high /\ low <= rs[f].high /\ rs[l].low <= high /\ low <= rs[l].high
                       /\ \A i \in 1 .. n : i < f => rs[i].high < low
                       /\ \A i \in 1 .. n : i > l => high < rs[i].low
  BY DEF Hits
<1>h. PICK h : h = CutEnd(rs, low, high, f)
  OBVIOUS
<1>l. PICK left : left = LeftOf(rs, low, f)
  OBVIOUS
<1>r. PICK right : right = RightOf(rs, low, high, l)
  OBVIOUS
<1>2. \A i \in 1 .. n : /\ rs[i] \in Regs /\ rs[i].low \in Nat /\ rs[i].high \in Nat
                        /\ rs[i].low <= rs[i].high /\ rs[i].high < Word /\ rs[i].owner \in Owners
  <2>1. \A i \in 1 .. n : rs[i] \in Regs
    BY <1>1
  <2> QED BY <1>1, <2>1 DEF Regs, Gaps
<1>3. PICK x : x = [rs[f] EXCEPT !.high = low - 1]
  OBVIOUS
<1>4. PICK y : y = [rs[l] EXCEPT !.low = high + 1]
  OBVIOUS
<1>5. x = [low |-> rs[f].low, high |-> low - 1, owner |-> rs[f].owner]
      /\ y = [low |-> high + 1, high |-> rs[l].high, owner |-> rs[l].owner]
  <2>1. ASSUME NEW r \in Regs PROVE r = [low |-> r.low, high |-> r.high, owner |-> r.owner]
    BY DEF Regs
  <2>2. rs[f] \in Regs /\ rs[l] \in Regs
    BY <1>1, <1>2
  <2> QED BY <1>3, <1>4, <2>1, <2>2
<1>6. rs[f].low < low => x \in Regs /\ x.low <= x.high
  <2>1. SUFFICES ASSUME rs[f].low < low PROVE x \in Regs /\ x.low <= x.high
    OBVIOUS
  <2>2. PICK c \in Nat, d \in Nat : c = rs[f].low /\ d = rs[f].high /\ c < low /\ low <= d /\ d < Word
    BY <1>1, <1>2, <2>1
  <2>3. low - 1 \in Nat /\ c <= low - 1 /\ low - 1 < Word
    BY <2>2, KickstartAssumption
  <2> QED BY <1>1, <1>2, <1>5, <2>2, <2>3 DEF Regs
<1>7. rs[l].high > high => y \in Regs /\ y.low <= y.high
  <2>1. SUFFICES ASSUME rs[l].high > high PROVE y \in Regs /\ y.low <= y.high
    OBVIOUS
  <2>2. high + 1 \in Nat /\ high + 1 <= rs[l].high /\ rs[l].high \in Nat /\ rs[l].high < Word
    BY <1>1, <1>2, <2>1
  <2> QED BY <1>1, <1>2, <1>5, <2>2 DEF Regs
<1>8. PICK C \in BOOLEAN : C <=> rs[f].low < low
  OBVIOUS
<1>9. PICK D \in BOOLEAN : D <=> rs[l].low >= low /\ rs[l].high > high
  OBVIOUS
<1>10. /\ left \in Seq(Regs) /\ \A g : Gaps(left, g)
       /\ \A j \in DOMAIN left : C /\ left[j] = x
       /\ \A p, o : Has(left, p, o) <=> C /\ p \in PagesOf(x) /\ x.owner = o
  <2>1. left = IF C THEN <<x>> ELSE <<>>
    BY <1>3, <1>8, <1>l DEF LeftOf
  <2>2. C => x \in Regs /\ x.low <= x.high
    BY <1>6, <1>8
  <2> QED BY <2>1, <2>2, OptionFacts
<1>11. /\ right \in Seq(Regs) /\ \A g : Gaps(right, g)
       /\ \A j \in DOMAIN right : D /\ right[j] = y
       /\ \A p, o : Has(right, p, o) <=> D /\ p \in PagesOf(y) /\ y.owner = o
  <2>1. right = IF D THEN <<y>> ELSE <<>>
    BY <1>4, <1>9, <1>r DEF RightOf
  <2>2. D => y \in Regs /\ y.low <= y.high
    BY <1>7, <1>9
  <2> QED BY <2>1, <2>2, OptionFacts
<1>12. PICK a : a = SubSeq(rs, 1, f - 1)
  OBVIOUS
<1>13. PICK b : b = SubSeq(rs, l + 1, n)
  OBVIOUS
<1>14. PICK v : Joins(a, left, v)
  BY DEF Joins
<1>15. PICK w : Joins(v, right, w)
  BY DEF Joins
<1>16. Joins(w, b, u)
  BY <1>1, <1>12, <1>13, <1>14, <1>15, <1>l, <1>r DEF Joins, CutOf, Cut
<1>17. ASSUME NEW g, Gaps(rs, g)
       PROVE  /\ a \in Seq(Regs) /\ Gaps(a, g)
              /\ \A j \in DOMAIN a : \E i \in 1 .. n : i < f /\ a[j] = rs[i]
              /\ \A p, o : Has(a, p, o) <=> \E i \in 1 .. n : i < f /\ p \in PagesOf(rs[i]) /\ rs[i].owner = o
  <2>1. 1 \in Nat \ {0} /\ f - 1 \in 0 .. Len(rs)
    BY <1>1
  <2>2. a \in Seq(Regs) /\ Gaps(a, g) /\ Slice(rs, 1, f - 1, a)
    BY <1>12, <1>17, <2>1, PartGaps
  <2>3. \A i \in 1 .. n : 1 <= i /\ i <= f - 1 <=> i < f
    BY <1>1
  <2> QED BY <1>1, <2>2, <2>3 DEF Slice
<1>18. ASSUME NEW g, Gaps(rs, g)
       PROVE  /\ b \in Seq(Regs) /\ Gaps(b, g)
              /\ \A j \in DOMAIN b : \E i \in 1 .. n : i > l /\ b[j] = rs[i]
              /\ \A p, o : Has(b, p, o) <=> \E i \in 1 .. n : i > l /\ p \in PagesOf(rs[i]) /\ rs[i].owner = o
  <2>1. l + 1 \in Nat \ {0} /\ n \in 0 .. Len(rs)
    BY <1>1
  <2>2. b \in Seq(Regs) /\ Gaps(b, g) /\ Slice(rs, l + 1, n, b)
    BY <1>13, <1>18, <2>1, PartGaps
  <2>3. \A i \in 1 .. n : l + 1 <= i /\ i <= n <=> i > l
    BY <1>1
  <2> QED BY <1>1, <2>2, <2>3 DEF Slice
<1>19. v \in Seq(Regs) /\ w \in Seq(Regs) /\ u \in Seq(Regs) /\ a \in Seq(Regs) /\ b \in Seq(Regs)
  BY <1>10, <1>11, <1>14, <1>15, <1>16, <1>17, <1>18, JoinIndices
<1>20. ASSUME NEW g \in 0 .. 1, Gaps(rs, g) PROVE Gaps(u, g)
  <2>1. \A i, j \in 1 .. n : i < j => rs[i].high + g < rs[j].low
    BY <1>1, <1>20 DEF Gaps
  <2>2. Below(a, left, g)
    <3>1. \A i \in 1 .. n : i < f => rs[i].high + g < x.low
      BY <1>1, <1>5, <2>1
    <3> QED BY <1>10, <1>17, <1>20, <3>1 DEF Below
  <2>3. Below(a, right, g)
    <3>1. ASSUME NEW i \in 1 .. n, i < f PROVE rs[i].high + g < y.low
      <4>1. rs[i].high + g < rs[l].low
        BY <1>1, <2>1, <3>1
      <4>2. rs[i].high \in Nat /\ rs[l].low \in Nat /\ rs[l].low <= high /\ y.low = high + 1
        BY <1>1, <1>2, <1>5
      <4> QED BY <4>1, <4>2
    <3> QED BY <1>11, <1>17, <1>20, <3>1 DEF Below
  <2>4. Below(a, b, g)
    <3>1. ASSUME NEW i \in 1 .. n, NEW j \in 1 .. n, i < f, j > l PROVE rs[i].high + g < rs[j].low
      <4>1. i < j
        BY <1>1, <3>1
      <4> QED BY <2>1, <4>1
    <3> QED BY <1>17, <1>18, <1>20, <3>1 DEF Below
  <2>5. Below(left, right, g)
    <3>1. x.high + g < y.low
      BY <1>5
    <3> QED BY <1>10, <1>11, <3>1 DEF Below
  <2>6. Below(left, b, g)
    <3>1. ASSUME NEW i \in 1 .. n, i > l PROVE x.high + g < rs[i].low
      <4>1. f < i
        BY <1>1, <3>1
      <4>2. rs[f].high + g < rs[i].low /\ rs[f].high \in Nat /\ rs[i].low \in Nat /\ low <= rs[f].high
        BY <1>1, <1>2, <2>1, <4>1
      <4>3. x.high = low - 1
        BY <1>5
      <4> QED BY <4>2, <4>3
    <3> QED BY <1>10, <1>18, <1>20, <3>1 DEF Below
  <2>7. Below(right, b, g)
    <3>1. ASSUME NEW i \in 1 .. n, i > l PROVE y.high + g < rs[i].low
      BY <1>1, <1>5, <2>1, <3>1
    <3> QED BY <1>11, <1>18, <1>20, <3>1 DEF Below
  <2>8. Gaps(v, g)
    BY <1>10, <1>14, <1>17, <1>19, <1>20, <2>2, JoinGaps
  <2>9. Below(v, right, g) /\ Below(v, b, g)
    BY <1>10, <1>14, <1>19, <2>3, <2>4, <2>5, <2>6, JoinedBelow
  <2>10. Gaps(w, g)
    BY <1>11, <1>15, <1>19, <2>8, <2>9, JoinGaps
  <2>11. Below(w, b, g)
    BY <1>11, <1>15, <1>19, <2>7, <2>9, JoinedBelow
  <2> QED BY <1>16, <1>18, <1>19, <1>20, <2>10, <2>11, JoinGaps
<1>21. Apart(u)
  BY <1>19, <1>20, GapsApart
<1>22. ASSUME NEW p, NEW o PROVE Has(u, p, o) <=> Has(rs, p, o) /\ p \notin low .. h
  <2>1. Has(u, p, o) <=> Has(a, p, o) \/ Has(left, p, o) \/ Has(right, p, o) \/ Has(b, p, o)
    <3>1. Has(v, p, o) <=> Has(a, p, o) \/ Has(left, p, o)
      BY <1>10, <1>14, <1>19, JoinHas
    <3>2. Has(w, p, o) <=> Has(v, p, o) \/ Has(right, p, o)
      BY <1>11, <1>15, <1>19, JoinHas
    <3>3. Has(u, p, o) <=> Has(w, p, o) \/ Has(b, p, o)
      BY <1>16, <1>19, JoinHas
    <3> QED BY <3>1, <3>2, <3>3
  <2> DEFINE At(i) == p \in PagesOf(rs[i]) /\ rs[i].owner = o
  <2>2. Has(a, p, o) <=> \E i \in 1 .. n : i < f /\ At(i)
    BY <1>17
  <2>3. Has(b, p, o) <=> \E i \in 1 .. n : i > l /\ At(i)
    BY <1>18
  <2>4. Has(rs, p, o) <=> \E i \in 1 .. n : At(i)
    BY <1>1 DEF Has
  <2>5. Has(left, p, o) <=> At(f) /\ p < low
    <3>1. /\ rs[f].low \in Nat /\ rs[f].high \in Nat /\ low <= rs[f].high
      BY <1>1, <1>2
    <3>2. p \in PagesOf(x) <=> p \in PagesOf(rs[f]) /\ p < low
      BY <1>5, <3>1 DEF PagesOf
    <3>3. p \in PagesOf(rs[f]) /\ p < low => rs[f].low < low
      BY <3>1 DEF PagesOf
    <3>4. Has(left, p, o) <=> C /\ p \in PagesOf(x) /\ x.owner = o
      BY <1>10
    <3> QED BY <1>5, <1>8, <3>2, <3>3, <3>4
  <2>6. Has(right, p, o) <=> rs[l].low >= low /\ At(l) /\ p > high
    <3>1. /\ rs[l].low \in Nat /\ rs[l].high \in Nat /\ rs[l].low <= high
      BY <1>1, <1>2
    <3>2. p \in PagesOf(y) <=> p \in PagesOf(rs[l]) /\ p > high
      BY <1>5, <3>1 DEF PagesOf
    <3>3. p \in PagesOf(rs[l]) /\ p > high => rs[l].high > high
      BY <3>1 DEF PagesOf
    <3>4. Has(right, p, o) <=> D /\ p \in PagesOf(y) /\ y.owner = o
      BY <1>11
    <3> QED BY <1>5, <1>9, <3>2, <3>3, <3>4
  <2>7. \A i \in 1 .. n : At(i) => p \in Nat /\ rs[i].low <= p /\ p <= rs[i].high
    BY <1>2 DEF PagesOf
  <2>8. ASSUME NEW i \in 1 .. n, NEW j \in 1 .. n, i < j PROVE rs[i].high < rs[j].low
    <3>1. rs[i].high + 0 < rs[j].low
      BY <1>1, <2>8 DEF Gaps
    <3>2. rs[i].high \in Nat
      BY <1>2
    <3> QED BY <3>1, <3>2
  <2>9. h \in Nat /\ high <= h /\ (h # high => h = rs[f].high /\ rs[f].low < low /\ rs[f].high > high)
    BY <1>1, <1>2, <1>h DEF CutEnd
  <2> HIDE DEF At
  <2>10. ASSUME rs[f].low < low, rs[f].high > high PROVE f = l
    <3>1. SUFFICES ASSUME f < l PROVE FALSE
      BY <1>1
    <3>2. rs[f].high < rs[l].low
      BY <1>1, <2>8, <3>1
    <3> QED BY <1>1, <1>2, <2>10, <3>2
  <2>11. ASSUME rs[l].low < low PROVE f = l
    <3>1. SUFFICES ASSUME f < l PROVE FALSE
      BY <1>1
    <3>2. rs[f].high < rs[l].low
      BY <1>1, <2>8, <3>1
    <3> QED BY <1>1, <1>2, <2>11, <3>2
  <2>12. ASSUME NEW i \in 1 .. n, At(i), i < f PROVE p < low
    BY <1>1, <1>2, <2>7, <2>12
  <2>13. ASSUME NEW i \in 1 .. n, At(i), i > l PROVE p > h
    <3>1. high < rs[i].low /\ rs[i].low <= p /\ p \in Nat /\ rs[i].low \in Nat
      BY <1>1, <1>2, <2>7, <2>13
    <3>2. f < i
      BY <1>1, <2>13
    <3>3. rs[f].high < rs[i].low /\ rs[f].high \in Nat
      BY <1>1, <1>2, <2>8, <3>2
    <3> QED BY <2>9, <3>1, <3>3
  <2>14. ASSUME At(l), rs[l].low >= low, p > high PROVE p > h
    <3>1. SUFFICES ASSUME h # high PROVE FALSE
      BY <2>14
    <3>2. f = l
      BY <2>9, <2>10, <3>1
    <3> QED BY <1>1, <1>2, <2>9, <2>14, <3>1, <3>2
  <2>15. ASSUME NEW i \in 1 .. n, At(i), p < low PROVE i < f \/ i = f
    <3>1. SUFFICES ASSUME f < i PROVE FALSE
      BY <1>1
    <3>2. rs[f].high < rs[i].low
      BY <1>1, <2>8, <3>1
    <3> QED BY <1>1, <1>2, <2>7, <2>15, <3>2
  <2>16. ASSUME NEW i \in 1 .. n, At(i), p > h PROVE i > l \/ (i = l /\ rs[l].low >= low /\ p > high)
    <3>1. p > high /\ p \in Nat /\ rs[i].low <= p /\ p <= rs[i].high
      BY <2>7, <2>9, <2>16
    <3>2. ~ (i < l)
      <4>1. SUFFICES ASSUME i < l PROVE FALSE
        OBVIOUS
      <4>2. rs[i].high < rs[l].low
        BY <1>1, <2>8, <4>1
      <4> QED BY <1>1, <1>2, <3>1, <4>2
    <3>3. ASSUME i = l PROVE rs[l].low >= low
      <4>1. SUFFICES ASSUME rs[l].low < low PROVE FALSE
        BY <1>1, <1>2
      <4>2. f = l
        BY <2>11, <4>1
      <4>3. rs[f].high > high
        BY <1>1, <1>2, <3>1, <3>3, <4>2
      <4>4. h = rs[f].high
        BY <1>h, <4>1, <4>2, <4>3 DEF CutEnd
      <4> QED BY <1>1, <1>2, <2>16, <3>1, <3>3, <4>2, <4>4
    <3> QED BY <1>1, <3>1, <3>2, <3>3
  <2>17. ASSUME NEW i \in 1 .. n, At(i) PROVE p \notin low .. h <=> p < low \/ p > h
    BY <2>7, <2>9, <2>17
  <2>18. ASSUME Has(u, p, o) PROVE Has(rs, p, o) /\ p \notin low .. h
    <3>1. PICK i \in 1 .. n : At(i) /\ (p < low \/ p > h)
      BY <1>1, <2>1, <2>2, <2>3, <2>5, <2>6, <2>12, <2>13, <2>14, <2>18
    <3> QED BY <2>4, <2>17, <3>1
  <2>19. ASSUME Has(rs, p, o), p \notin low .. h PROVE Has(u, p, o)
    <3>1. PICK i \in 1 .. n : At(i) /\ (p < low \/ p > h)
      BY <2>4, <2>17, <2>19
    <3>2. CASE p < low
      BY <2>1, <2>2, <2>5, <2>15, <3>1, <3>2
    <3>3. CASE p > h
      BY <2>1, <2>3, <2>6, <2>16, <3>1, <3>3
    <3> QED BY <3>1, <3>2, <3>3
  <2> QED BY <2>18, <2>19
<1> QED BY <1>h, <1>19, <1>20, <1>21, <1>22 DEF Shrunk

\* The pages low .. high are gone from a pool; sigma0 may have fed its list.
Clears(s, pool, low, high, t) ==
    /\ Good(t) /\ Ordered(t) /\ (s.dead => t.dead)
    /\ \A p : \A o : Has(t.conv, p, o) => Has(s.conv, p, o) /\ ~ (pool = "conv" /\ p \in low .. high)
    /\ \A p : \A o : Has(t.mem, p, o) => Has(s.mem, p, o) /\ ~ (pool = "mem" /\ p \in low .. high)
    /\ \A p : \A o : Has(t.alloc, p, o) =>
          \/ Has(s.alloc, p, o) /\ ~ (pool = "alloc" /\ p \in low .. high)
          \/ o = "sigma0" /\ In(s.conv, p) /\ ~ (pool = "conv" /\ p \in low .. high)
    /\ ~ t.dead => \A p : \A o :
          /\ Has(s.conv, p, o) => \/ Has(t.conv, p, o) \/ Has(t.alloc, p, "sigma0")
                                  \/ pool = "conv" /\ p \in low .. high
          /\ Has(s.mem, p, o) => Has(t.mem, p, o) \/ (pool = "mem" /\ p \in low .. high)
          /\ Has(s.alloc, p, o) => Has(t.alloc, p, o) \/ (pool = "alloc" /\ p \in low .. high)
    /\ Gaps(s.conv, 1) /\ (\A p : \A o : Has(s.conv, p, o) => o = "any") => Gaps(t.conv, 1)

\* Pages leave a pool; the others stay as they are.
Drops(s, pool, F, c) ==
    /\ Changed(s, pool, c) /\ Shrunk(s[pool], F, c[pool])
    /\ \A g \in 0 .. 1 : Gaps(s[pool], g) => Gaps(c[pool], g)

LEMMA DropFacts ==
    ASSUME NEW s, Good(s), NEW pool \in PoolNames, NEW F, NEW c, Drops(s, pool, F, c)
    PROVE  /\ Good(c) /\ c.dead = s.dead /\ (Ordered(s) => Ordered(c)) /\ (Gaps(s.conv, 1) => Gaps(c.conv, 1))
           /\ \A q \in PoolNames : \A p : \A o : Has(c[q], p, o) <=> Has(s[q], p, o) /\ ~ (q = pool /\ p \in F)
<1>1. \A q \in PoolNames : q # pool => c[q] = s[q]
  BY DEF Drops, Changed
<1>2. \A q \in PoolNames : \A p : \A o : Has(c[q], p, o) <=> Has(s[q], p, o) /\ ~ (q = pool /\ p \in F)
  BY <1>1 DEF Drops, Shrunk
<1>3. \A q \in PoolNames : \A p : In(c[q], p) => In(s[q], p)
  BY <1>2, HasIn
<1>4. DOMAIN c = Fields /\ c.dead = s.dead
  BY DEF Drops, Changed
<1>5. \A q \in PoolNames : c[q] \in Seq(Regs) /\ Apart(c[q])
  BY <1>1 DEF Drops, Shrunk, Good
<1>6. Good(c)
  BY <1>3, <1>4, <1>5 DEF Good
<1>7. Ordered(s) => Ordered(c)
  BY <1>1 DEF Ordered, Drops
<1>8. Gaps(s.conv, 1) => Gaps(c.conv, 1)
  BY <1>1 DEF Drops, PoolNames
<1> QED BY <1>2, <1>4, <1>6, <1>7, <1>8

LEMMA RemoveCases ==
    ASSUME NEW s, Good(s), Ordered(s), NEW pool \in PoolNames, NEW low \in Nat, NEW high \in Nat, low <= high,
           NEW t, t = remove(s, pool, low, high)
    PROVE  \/ t = s /\ \A p : p \in low .. high => ~ In(s[pool], p)
           \/ Drops(s, pool, low .. high, t)
           \/ \E c : \E i \in DOMAIN s[pool] :
                 /\ s[pool][i].low < low /\ high < s[pool][i].high
                 /\ Drops(s, pool, low .. s[pool][i].high, c)
                 /\ t = InsertNew(c, pool, Region(high + 1, s[pool][i].high, s[pool][i].owner))
<1>1. PICK rs \in Seq(Regs) : rs = s[pool] /\ Gaps(rs, 0)
  BY DEF Good, Ordered
<1>2. PICK hit : hit = Hit(rs, low, high)
  OBVIOUS
<1>3. PICK f : f = Min(hit)
  OBVIOUS
<1>4. PICK l : l = Max(hit)
  OBVIOUS
<1>5. PICK u : CutOf(rs, low, high, f, l, u)
  BY DEF CutOf
<1>6. PICK n : n = s.list + (l - f + 1) - Len(LeftOf(rs, low, f)) - Len(RightOf(rs, low, high, l))
  OBVIOUS
<1>9. PICK c : c = [s EXCEPT ![pool] = u, !.list = n]
  OBVIOUS
<1>10. t = IF hit = {} THEN s
           ELSE IF rs[f].low < low /\ rs[f].high > high
           THEN InsertNew(c, pool, Region(high + 1, rs[f].high, rs[f].owner))
           ELSE c
  BY <1>1, <1>2, <1>3, <1>4, <1>5, <1>6, <1>9 DEF remove, CutOf
<1>7. CASE hit = {}
  <2>1. t = s
    BY <1>7, <1>10
  <2>2. ASSUME NEW p, p \in low .. high, In(rs, p) PROVE FALSE
    <3>1. PICK i \in DOMAIN rs : p \in PagesOf(rs[i])
      BY <2>2 DEF In
    <3>2. rs[i].low \in Nat /\ rs[i].high \in Nat
      BY DEF Regs
    <3>3. i \in hit
      BY <1>2, <2>2, <3>1, <3>2 DEF Hit, PagesOf
    <3> QED BY <1>7, <3>3
  <2> QED BY <1>1, <2>1, <2>2
<1>8. CASE hit # {}
  <2>3. Changed(s, pool, c) /\ c[pool] = u
    BY <1>9 DEF Changed, PoolNames, Fields, Good
  <2>4. Hits(rs, low, high, f, l)
    <3>1. /\ f \in hit /\ l \in hit /\ f <= l
          /\ \A i \in DOMAIN rs : i < f => rs[i].high < low
          /\ \A i \in DOMAIN rs : i > l => high < rs[i].low
      BY <1>1, <1>2, <1>3, <1>4, <1>8, HitFacts
    <3>2. /\ f \in DOMAIN rs /\ l \in DOMAIN rs /\ rs[f].high >= low /\ rs[l].high >= low
          /\ rs[f].low <= high /\ rs[l].low <= high
      BY <1>2, <3>1 DEF Hit
    <3>3. rs[f].high \in Nat /\ rs[l].high \in Nat
      BY <3>2 DEF Regs
    <3> QED BY <3>1, <3>2, <3>3 DEF Hits
  <2>5. Shrunk(rs, low .. CutEnd(rs, low, high, f), u) /\ \A g \in 0 .. 1 : Gaps(rs, g) => Gaps(u, g)
    BY <1>1, <1>5, <2>4, CutFacts
  <2>6. Drops(s, pool, low .. CutEnd(rs, low, high, f), c)
    BY <1>1, <2>3, <2>5 DEF Drops
  <2>7. CASE rs[f].low < low /\ rs[f].high > high
    <3>1. t = InsertNew(c, pool, Region(high + 1, rs[f].high, rs[f].owner))
      BY <1>8, <1>10, <2>7
    <3>2. f \in DOMAIN rs /\ CutEnd(rs, low, high, f) = rs[f].high
      BY <2>4, <2>7 DEF Hits, CutEnd
    <3>3. high < rs[f].high
      <4>1. rs[f].high \in Nat
        BY <3>2 DEF Regs
      <4> QED BY <2>7, <4>1
    <3> QED BY <1>1, <2>6, <2>7, <3>1, <3>2, <3>3
  <2>8. CASE ~ (rs[f].low < low /\ rs[f].high > high)
    <3>1. t = c
      BY <1>8, <1>10, <2>8
    <3>2. CutEnd(rs, low, high, f) = high
      BY <2>8 DEF CutEnd
    <3> QED BY <2>6, <3>1, <3>2
  <2> QED BY <2>7, <2>8
<1> QED BY <1>7, <1>8

LEMMA RemoveFacts ==
    ASSUME NEW s, Good(s), Ordered(s), NEW pool \in PoolNames, NEW low \in Nat, NEW high \in Nat, low <= high,
           NEW t, t = remove(s, pool, low, high)
    PROVE  Clears(s, pool, low, high, t)
<1>1. CASE t = s /\ \A p : p \in low .. high => ~ In(s[pool], p)
  <2>1. \A p : \A o : Has(s[pool], p, o) => p \notin low .. high
    BY <1>1, HasIn
  <2>2. \A p : \A o : /\ Has(s.conv, p, o) => ~ (pool = "conv" /\ p \in low .. high)
                      /\ Has(s.mem, p, o) => ~ (pool = "mem" /\ p \in low .. high)
                      /\ Has(s.alloc, p, o) => ~ (pool = "alloc" /\ p \in low .. high)
    BY <2>1
  <2> QED BY <1>1, <2>2 DEF Clears
<1>2. CASE Drops(s, pool, low .. high, t)
  <2>1. /\ Good(t) /\ t.dead = s.dead /\ (Ordered(s) => Ordered(t)) /\ (Gaps(s.conv, 1) => Gaps(t.conv, 1))
        /\ \A q \in PoolNames : \A p : \A o : Has(t[q], p, o) <=> Has(s[q], p, o) /\ ~ (q = pool /\ p \in low .. high)
    BY <1>2, DropFacts
  <2>2. /\ \A p : \A o : Has(t.conv, p, o) <=> Has(s.conv, p, o) /\ ~ ("conv" = pool /\ p \in low .. high)
        /\ \A p : \A o : Has(t.mem, p, o) <=> Has(s.mem, p, o) /\ ~ ("mem" = pool /\ p \in low .. high)
        /\ \A p : \A o : Has(t.alloc, p, o) <=> Has(s.alloc, p, o) /\ ~ ("alloc" = pool /\ p \in low .. high)
    BY <2>1 DEF PoolNames
  <2> QED BY <2>1, <2>2 DEF Clears
<1>3. ASSUME NEW c, NEW i \in DOMAIN s[pool], s[pool][i].low < low, high < s[pool][i].high,
             Drops(s, pool, low .. s[pool][i].high, c),
             t = InsertNew(c, pool, Region(high + 1, s[pool][i].high, s[pool][i].owner))
      PROVE  Clears(s, pool, low, high, t)
  <2>1. PICK r : r = Region(high + 1, s[pool][i].high, s[pool][i].owner)
    OBVIOUS
  <2>2. PICK end : end = s[pool][i].high
    OBVIOUS
  <2>3. /\ s[pool] \in Seq(Regs) /\ s[pool][i] \in Regs /\ s[pool][i].low \in Nat /\ end \in Nat /\ end < Word
        /\ s[pool][i].owner \in Owners
    <3>1. s[pool] \in Seq(Regs)
      BY DEF Good
    <3>2. s[pool][i] \in Regs
      BY <3>1
    <3> QED BY <2>2, <3>1, <3>2 DEF Regs
  <2>4. /\ r \in Regs /\ r.low = high + 1 /\ r.high = end /\ r.owner = s[pool][i].owner /\ r.low <= r.high
    BY <1>3, <2>1, <2>2, <2>3 DEF Region, Regs
  <2>5. /\ Good(c) /\ c.dead = s.dead /\ Ordered(c) /\ (Gaps(s.conv, 1) => Gaps(c.conv, 1))
        /\ \A q \in PoolNames : \A p : \A o : Has(c[q], p, o) <=> Has(s[q], p, o) /\ ~ (q = pool /\ p \in low .. end)
    <3>1. PICK F : F = low .. end
      OBVIOUS
    <3>2. Drops(s, pool, F, c)
      BY <1>3, <2>2, <3>1
    <3>3. /\ Good(c) /\ c.dead = s.dead /\ (Ordered(s) => Ordered(c)) /\ (Gaps(s.conv, 1) => Gaps(c.conv, 1))
          /\ \A q \in PoolNames : \A p : \A o : Has(c[q], p, o) <=> Has(s[q], p, o) /\ ~ (q = pool /\ p \in F)
      BY <3>2, DropFacts
    <3> QED BY <3>1, <3>3
  <2>6. \A p : p \in PagesOf(r) => p \in PagesOf(s[pool][i]) /\ p \in low .. end
    BY <1>3, <2>2, <2>3, <2>4 DEF PagesOf
  <2>7. \A p : p \in PagesOf(r) => Has(s[pool], p, r.owner)
    BY <2>4, <2>6 DEF Has
  <2>8. \A q \in PoolNames : \A p : p \in PagesOf(r) => ~ In(c[q], p)
    <3> SUFFICES ASSUME NEW q \in PoolNames, NEW p, p \in PagesOf(r), In(c[q], p) PROVE FALSE
      OBVIOUS
    <3>1. In(s[q], p) /\ ~ (q = pool /\ p \in low .. end)
      BY <2>5, HasIn
    <3>2. In(s[pool], p)
      BY <2>7, HasIn
    <3>3. q = pool
      BY <3>1, <3>2 DEF Good
    <3> QED BY <2>6, <3>1, <3>3
  <2>9. Puts(c, pool, r, t)
    BY <1>3, <2>1, <2>4, <2>5, <2>8, InsertNewPuts
  <2>10. \A p : \A o : Has(s[pool], p, o) /\ p \in low .. end => p \in low .. high \/ (p \in PagesOf(r) /\ o = r.owner)
    <3> TAKE p
    <3> TAKE o
    <3> HAVE Has(s[pool], p, o) /\ p \in low .. end
    <3>1. SUFFICES ASSUME p \notin low .. high PROVE p \in PagesOf(r) /\ o = r.owner
      OBVIOUS
    <3>2. p \in PagesOf(r)
      BY <2>3, <2>4, <3>1 DEF PagesOf
    <3>3. p \in PagesOf(s[pool][i])
      BY <2>6, <3>2
    <3>4. PICK j \in DOMAIN s[pool] : p \in PagesOf(s[pool][j]) /\ s[pool][j].owner = o
      BY DEF Has
    <3>5. j = i
      BY <3>3, <3>4 DEF Good, Apart
    <3> QED BY <2>4, <3>2, <3>4, <3>5
  <2>11. \A p : p \in PagesOf(r) => p \notin low .. high
    BY <2>3, <2>4 DEF PagesOf
  <2>12. \A p : p \in low .. high => p \in low .. end
    BY <1>3, <2>2, <2>3
  <2>13. /\ \A p : \A o : Has(c.conv, p, o) <=> Has(s.conv, p, o) /\ ~ ("conv" = pool /\ p \in low .. end)
         /\ \A p : \A o : Has(c.mem, p, o) <=> Has(s.mem, p, o) /\ ~ ("mem" = pool /\ p \in low .. end)
         /\ \A p : \A o : Has(c.alloc, p, o) <=> Has(s.alloc, p, o) /\ ~ ("alloc" = pool /\ p \in low .. end)
    BY <2>5 DEF PoolNames
  <2>14. /\ \A p : \A o : Has(t.conv, p, o) => Has(c.conv, p, o) \/ (pool = "conv" /\ p \in PagesOf(r) /\ o = r.owner)
         /\ \A p : \A o : Has(c.conv, p, o) => Has(t.conv, p, o) \/ Has(t.alloc, p, "sigma0")
         /\ \A p : \A o : Has(t.mem, p, o) => Has(c.mem, p, o) \/ (pool = "mem" /\ p \in PagesOf(r) /\ o = r.owner)
         /\ \A p : \A o : Has(c.mem, p, o) => Has(t.mem, p, o)
         /\ \A p : \A o : Has(c.alloc, p, o) => Has(t.alloc, p, o)
         /\ \A p : \A o : Has(t.alloc, p, o) => \/ Has(c.alloc, p, o) \/ (o = "sigma0" /\ In(c.conv, p))
                                                \/ pool = "alloc" /\ p \in PagesOf(r) /\ o = r.owner
         /\ Good(t) /\ Ordered(t) /\ (s.dead => t.dead)
         /\ ~ t.dead => \A p : p \in PagesOf(r) => Has(t[pool], p, r.owner)
    BY <2>5, <2>9 DEF Puts
  <2>15. \A p : In(c.conv, p) => In(s.conv, p) /\ ~ (pool = "conv" /\ p \in low .. high)
    BY <2>12, <2>13, HasIn
  <2>16. \A p : \A o : Has(t.conv, p, o) => Has(s.conv, p, o) /\ ~ (pool = "conv" /\ p \in low .. high)
    BY <2>7, <2>11, <2>12, <2>13, <2>14
  <2>17. \A p : \A o : Has(t.mem, p, o) => Has(s.mem, p, o) /\ ~ (pool = "mem" /\ p \in low .. high)
    BY <2>7, <2>11, <2>12, <2>13, <2>14
  <2>18. \A p : \A o : Has(t.alloc, p, o) =>
          \/ Has(s.alloc, p, o) /\ ~ (pool = "alloc" /\ p \in low .. high)
          \/ o = "sigma0" /\ In(s.conv, p) /\ ~ (pool = "conv" /\ p \in low .. high)
    BY <2>7, <2>11, <2>12, <2>13, <2>14, <2>15
  <2>19. ASSUME ~ t.dead, NEW p, NEW o
         PROVE  /\ Has(s.conv, p, o) => \/ Has(t.conv, p, o) \/ Has(t.alloc, p, "sigma0")
                                        \/ pool = "conv" /\ p \in low .. high
                /\ Has(s.mem, p, o) => Has(t.mem, p, o) \/ (pool = "mem" /\ p \in low .. high)
                /\ Has(s.alloc, p, o) => Has(t.alloc, p, o) \/ (pool = "alloc" /\ p \in low .. high)
    <3>1. CASE p \in PagesOf(r)
      <4>1. Has(t[pool], p, r.owner)
        BY <2>14, <2>19, <3>1
      <4>2. ASSUME NEW q \in PoolNames, Has(s[q], p, o) PROVE q = pool /\ o = r.owner
        <5>1. q = pool
          BY <2>7, <3>1, <4>2, HasIn DEF Good
        <5> QED BY <2>6, <2>10, <2>11, <3>1, <4>2, <5>1
      <4> QED BY <4>1, <4>2 DEF PoolNames
    <3>2. CASE p \notin PagesOf(r)
      <4>1. ASSUME NEW q \in PoolNames, Has(s[q], p, o), ~ (q = pool /\ p \in low .. high)
            PROVE  Has(c[q], p, o)
        BY <2>5, <2>10, <3>2, <4>1
      <4> QED BY <2>14, <4>1 DEF PoolNames
    <3> QED BY <3>1, <3>2
  <2>20. ASSUME Gaps(s.conv, 1), \A p : \A o : Has(s.conv, p, o) => o = "any" PROVE Gaps(t.conv, 1)
    <3>1. Gaps(c.conv, 1)
      BY <2>5, <2>20
    <3>2. pool = "conv" => \A p : \A o : Has(c.conv, p, o) => o = r.owner
      <4>1. r.low \in PagesOf(r)
        BY <2>3, <2>4 DEF PagesOf
      <4>2. pool = "conv" => r.owner = "any"
        BY <2>7, <2>20, <4>1
      <4> QED BY <2>13, <2>20, <4>2
    <3> QED BY <2>9, <3>1, <3>2 DEF Puts
  <2> QED BY <2>14, <2>16, <2>17, <2>18, <2>19, <2>20 DEF Clears
<1> QED BY <1>1, <1>2, <1>3, RemoveCases

-----------------------------------------------------------------------------
(***************************************************************************)
(* A memory descriptor.                                                    *)
(***************************************************************************)
Covered(s, p) == In(s.conv, p) \/ In(s.mem, p) \/ In(s.alloc, p)
AllFree(s) == \A p : \A o : Has(s.conv, p, o) \/ Has(s.mem, p, o) => o = "any"

\* The state of the pools while descriptors are read.
Sorted(s) == Good(s) /\ Ordered(s) /\ Gaps(s.conv, 1) /\ AllFree(s)

LEMMA ClearsSorted ==
    ASSUME NEW s, Sorted(s), NEW pool \in PoolNames, NEW low \in Nat, NEW high \in Nat, low <= high,
           NEW t, t = remove(s, pool, low, high)
    PROVE  Clears(s, pool, low, high, t) /\ Sorted(t)
<1>1. Clears(s, pool, low, high, t)
  BY RemoveFacts DEF Sorted
<1>2. AllFree(t)
  BY <1>1 DEF Clears, Sorted, AllFree
<1>3. Good(t) /\ Ordered(t)
  BY <1>1 DEF Clears
<1>4. Gaps(t.conv, 1)
  BY <1>1 DEF Clears, Sorted, AllFree
<1> QED BY <1>1, <1>2, <1>3, <1>4 DEF Sorted

LEMMA ClearsIn ==
    ASSUME NEW s, NEW pool, NEW low, NEW high, NEW t, Clears(s, pool, low, high, t)
    PROVE  /\ \A p : In(t.conv, p) => In(s.conv, p) /\ ~ (pool = "conv" /\ p \in low .. high)
           /\ \A p : In(t.mem, p) => In(s.mem, p) /\ ~ (pool = "mem" /\ p \in low .. high)
           /\ \A p : In(t.alloc, p) => \/ In(s.alloc, p) /\ ~ (pool = "alloc" /\ p \in low .. high)
                                       \/ In(s.conv, p) /\ ~ (pool = "conv" /\ p \in low .. high)
           /\ ~ t.dead => ~ s.dead /\ \A p : Covered(s, p) => Covered(t, p) \/ p \in low .. high
<1>1. \A p : In(t.conv, p) => In(s.conv, p) /\ ~ (pool = "conv" /\ p \in low .. high)
  BY HasIn DEF Clears
<1>2. \A p : In(t.mem, p) => In(s.mem, p) /\ ~ (pool = "mem" /\ p \in low .. high)
  BY HasIn DEF Clears
<1>3. \A p : In(t.alloc, p) => \/ In(s.alloc, p) /\ ~ (pool = "alloc" /\ p \in low .. high)
                               \/ In(s.conv, p) /\ ~ (pool = "conv" /\ p \in low .. high)
  BY HasIn DEF Clears
<1>4. ASSUME ~ t.dead, NEW p, Covered(s, p) PROVE Covered(t, p) \/ p \in low .. high
  BY <1>4, HasIn DEF Clears, Covered
<1>5. ~ t.dead => ~ s.dead
  BY DEF Clears
<1> QED BY <1>1, <1>2, <1>3, <1>4, <1>5

LEMMA DescribeFacts ==
    ASSUME NEW s, Sorted(s), NEW low \in Nat, NEW high \in Nat, low <= high, high < Word,
           NEW pool \in PoolNames, NEW owner \in Owners, pool # "alloc" => owner = "any",
           NEW s1, s1 = remove(s, "conv", low, high), NEW s2, s2 = remove(s1, "mem", low, high),
           NEW s3, s3 = remove(s2, "alloc", low, high),
           NEW t, t = InsertNew(s3, pool, Region(low, high, owner))
    PROVE  /\ Sorted(t)
           /\ ~ t.dead => \A p : Covered(s, p) => Covered(t, p)
           /\ \A p : In(t.conv, p) => \/ In(s.conv, p) /\ p \notin low .. high
                                      \/ pool = "conv" /\ p \in low .. high
<1>1. Clears(s, "conv", low, high, s1) /\ Sorted(s1)
  BY ClearsSorted DEF PoolNames
<1>2. Clears(s1, "mem", low, high, s2) /\ Sorted(s2)
  BY <1>1, ClearsSorted DEF PoolNames
<1>3. Clears(s2, "alloc", low, high, s3) /\ Sorted(s3)
  BY <1>2, ClearsSorted DEF PoolNames
<1>4. /\ \A p : In(s1.conv, p) => In(s.conv, p) /\ p \notin low .. high
      /\ ~ s1.dead => \A p : Covered(s, p) => Covered(s1, p) \/ p \in low .. high
  BY <1>1, ClearsIn
<1>5. /\ \A p : In(s2.conv, p) => In(s1.conv, p)
      /\ \A p : In(s2.mem, p) => p \notin low .. high
      /\ ~ s2.dead => ~ s1.dead /\ \A p : Covered(s1, p) => Covered(s2, p) \/ p \in low .. high
  BY <1>2, ClearsIn
<1>6. /\ \A p : In(s3.conv, p) => In(s2.conv, p)
      /\ \A p : In(s3.mem, p) => In(s2.mem, p)
      /\ \A p : In(s3.alloc, p) => p \notin low .. high \/ In(s2.conv, p)
      /\ ~ s3.dead => ~ s2.dead /\ \A p : Covered(s2, p) => Covered(s3, p) \/ p \in low .. high
  BY <1>3, ClearsIn
<1>7. PICK r : r = Region(low, high, owner)
  OBVIOUS
<1>8. r \in Regs /\ r.low = low /\ r.high = high /\ r.owner = owner
  BY <1>7 DEF Region, Regs
<1>9. \A p : p \in PagesOf(r) <=> p \in low .. high
  BY <1>8 DEF PagesOf
<1>10. \A q \in PoolNames : \A p : p \in PagesOf(r) => ~ In(s3[q], p)
  BY <1>4, <1>5, <1>6, <1>9 DEF PoolNames
<1>11. Puts(s3, pool, r, t)
  BY <1>3, <1>7, <1>8, <1>10, InsertNewPuts DEF Sorted
<1>12. AllFree(t)
  <2>1. /\ \A p : \A o : Has(t.conv, p, o) => Has(s3.conv, p, o) \/ (pool = "conv" /\ o = r.owner)
        /\ \A p : \A o : Has(t.mem, p, o) => Has(s3.mem, p, o) \/ (pool = "mem" /\ o = r.owner)
    BY <1>11 DEF Puts
  <2> QED BY <1>3, <1>8, <2>1 DEF Sorted, AllFree
<1>13. Gaps(t.conv, 1)
  <2>1. pool = "conv" => \A p : \A o : Has(s3.conv, p, o) => o = r.owner
    BY <1>3, <1>8 DEF Sorted, AllFree
  <2> QED BY <1>3, <1>11, <2>1 DEF Sorted, Puts
<1>14. Sorted(t)
  BY <1>3, <1>11, <1>12, <1>13 DEF Sorted, Puts
<1>15. ASSUME ~ t.dead, NEW p, Covered(s, p) PROVE Covered(t, p)
  <2>1. ~ s3.dead /\ ~ s2.dead /\ ~ s1.dead
    BY <1>5, <1>6, <1>11, <1>15 DEF Puts
  <2>2. CASE p \in low .. high
    <3>1. Has(t[pool], p, r.owner)
      BY <1>9, <1>11, <1>15, <2>2 DEF Puts
    <3>2. In(t[pool], p)
      BY <3>1, HasIn
    <3> QED BY <3>2 DEF Covered, PoolNames
  <2>3. CASE p \notin low .. high
    <3>1. Covered(s3, p)
      BY <1>4, <1>5, <1>6, <1>15, <2>1, <2>3
    <3>2. /\ \A o : Has(s3.conv, p, o) => Has(t.conv, p, o) \/ Has(t.alloc, p, "sigma0")
          /\ \A o : Has(s3.mem, p, o) => Has(t.mem, p, o)
          /\ \A o : Has(s3.alloc, p, o) => Has(t.alloc, p, o)
      BY <1>11 DEF Puts
    <3> QED BY <3>1, <3>2, HasIn DEF Covered
  <2> QED BY <2>2, <2>3
<1>16. ASSUME NEW p, In(t.conv, p) PROVE (In(s.conv, p) /\ p \notin low .. high) \/ (pool = "conv" /\ p \in low .. high)
  <2>1. PICK o : Has(t.conv, p, o)
    BY <1>16, HasIn
  <2>2. Has(s3.conv, p, o) \/ (pool = "conv" /\ p \in PagesOf(r))
    BY <1>11, <2>1 DEF Puts
  <2>3. Has(s3.conv, p, o) => In(s3.conv, p)
    BY HasIn
  <2> QED BY <1>4, <1>5, <1>6, <1>9, <2>2, <2>3
<1> QED BY <1>14, <1>15, <1>16

-----------------------------------------------------------------------------
(***************************************************************************)
(* Aligned pages of a region.                                              *)
(***************************************************************************)
LEMMA DivFacts ==
    ASSUME NEW x \in Nat, NEW size \in Nat \ {0}
    PROVE  /\ x \div size \in Nat /\ (x \div size) * size \in Nat
           /\ (x \div size) * size <= x /\ x < (x \div size) * size + size
<1>1. x \div size \in Nat /\ x % size \in Nat /\ x % size < size /\ x = size * (x \div size) + (x % size)
  OBVIOUS
<1> QED BY <1>1

LEMMA WrapFacts ==
    ASSUME NEW x \in Int
    PROVE  /\ x % Word \in Nat /\ x % Word < Word
           /\ 0 <= x /\ x < Word => x % Word = x
           /\ x = Word => x % Word = 0
           /\ x = -1 => x % Word = Word - 1
BY KickstartAssumption

LEMMA HighFacts ==
    ASSUME NEW r \in Regs, NEW size \in Nat \ {0}
    PROVE  /\ HighA(r, size) \in Nat /\ HighA(r, size) < Word
           /\ r.high >= size - 1 => HighA(r, size) <= r.high
           /\ r.high >= size - 1 => HighA(r, size) + size > r.high
           /\ r.high + 1 = Word => HighA(r, size) = r.high
           /\ r.high >= size - 1 /\ r.high + 1 # Word =>
                 HighA(r, size) = ((r.high + 1) \div size) * size - 1
<1>1. r.high \in Nat /\ r.high < Word /\ Word \in Nat
  BY KickstartAssumption DEF Regs
<1>2. PICK x \in Nat : x = (r.high + 1) % Word /\ (r.high + 1 = Word => x = 0) /\ (r.high + 1 # Word => x = r.high + 1)
  BY <1>1, WrapFacts
<1>3. PICK y \in Nat : y = (x \div size) * size /\ y <= x /\ x < y + size
  BY DivFacts
<1>4. HighA(r, size) = (y - 1) % Word
  BY <1>2, <1>3 DEF HighA
<1>5. HighA(r, size) \in Nat /\ HighA(r, size) < Word
  BY <1>4, WrapFacts
<1>6. CASE r.high + 1 = Word
  <2>1. y = 0
    BY <1>2, <1>3, <1>6
  <2>2. (y - 1) % Word = Word - 1
    BY <2>1, WrapFacts
  <2> QED BY <1>1, <1>4, <1>5, <1>6, <2>2
<1>7. CASE r.high + 1 # Word
  <2>1. SUFFICES ASSUME r.high >= size - 1
                 PROVE  HighA(r, size) <= r.high /\ HighA(r, size) + size > r.high
                        /\ HighA(r, size) = ((r.high + 1) \div size) * size - 1
    BY <1>5, <1>7
  <2>2. x = r.high + 1 /\ x >= size
    BY <1>1, <1>2, <1>7, <2>1
  <2>3. x \div size >= 1
    BY <2>2
  <2>4. y >= 1
    BY <1>3, <2>3
  <2>5. (y - 1) % Word = y - 1
    BY <1>1, <1>3, <2>2, <2>4, WrapFacts
  <2> QED BY <1>1, <1>3, <1>4, <2>2, <2>5
<1> QED BY <1>6, <1>7

LEMMA LowFacts ==
    ASSUME NEW r \in Regs, NEW size \in Nat \ {0}
    PROVE  /\ LowA(r, size) \in Nat /\ LowA(r, size) < Word
           /\ r.low + size - 1 < Word => LowA(r, size) = ((r.low + size - 1) \div size) * size
<1>1. r.low \in Nat /\ Word \in Nat
  BY KickstartAssumption DEF Regs
<1>2. PICK x \in Nat : x = (r.low + size - 1) % Word /\ x < Word /\ (r.low + size - 1 < Word => x = r.low + size - 1)
  <2>1. r.low + size - 1 \in Int /\ 0 <= r.low + size - 1
    BY <1>1
  <2> QED BY <2>1, WrapFacts
<1>3. PICK y \in Nat : y = (x \div size) * size /\ y <= x
  BY DivFacts
<1>4. LowA(r, size) = y
  BY <1>2, <1>3 DEF LowA
<1> QED BY <1>1, <1>2, <1>3, <1>4

LEMMA AllocateWithin ==
    ASSUME NEW r \in Regs, NEW size \in Nat \ {0}, NEW addr \in Nat, NEW tid, can_allocate(r, addr, size, tid)
    PROVE  r.low <= addr /\ addr + size - 1 <= r.high /\ r.owner \in {tid, "any"}
<1>1. r.low \in Nat /\ r.high \in Nat
  BY DEF Regs
<1>2. /\ addr >= LowA(r, size) /\ addr + size - 1 <= HighA(r, size) /\ r.owner \in {tid, "any"}
      /\ r.low <= LowA(r, size) /\ r.high >= size - 1
  BY DEF can_allocate, Sound
<1>3. LowA(r, size) \in Nat
  BY LowFacts
<1>4. HighA(r, size) \in Nat /\ HighA(r, size) <= r.high
  BY <1>2, HighFacts
<1> QED BY <1>1, <1>2, <1>3, <1>4

LEMMA AllocatePage ==
    ASSUME NEW r \in Regs, NEW page \in Nat, NEW tid
    PROVE  can_allocate(r, page, 1, tid) <=> page \in PagesOf(r) /\ r.owner \in {tid, "any"}
<1>1. r.low \in Nat /\ r.high \in Nat /\ r.high < Word /\ Word \in Nat /\ 1 \in Nat \ {0}
  BY KickstartAssumption DEF Regs
<1>2. ASSUME can_allocate(r, page, 1, tid) PROVE page \in PagesOf(r) /\ r.owner \in {tid, "any"}
  <2>1. r.low <= page /\ page + 1 - 1 <= r.high /\ r.owner \in {tid, "any"}
    BY <1>1, <1>2, AllocateWithin
  <2> QED BY <1>1, <2>1 DEF PagesOf
<1>3. ASSUME page \in PagesOf(r), r.owner \in {tid, "any"} PROVE can_allocate(r, page, 1, tid)
  <2>1. r.low <= page /\ page <= r.high
    BY <1>1, <1>3 DEF PagesOf
  <2>2. PICK a \in Nat : a = LowA(r, 1)
    BY <1>1, LowFacts
  <2>3. a = r.low
    <3>1. a = ((r.low + 1 - 1) \div 1) * 1
      BY <1>1, <2>1, <2>2, LowFacts
    <3> QED BY <1>1, <3>1
  <2>4. PICK b \in Nat : b = HighA(r, 1) /\ b <= r.high /\ b + 1 > r.high
    BY <1>1, HighFacts
  <2>5. b = r.high
    BY <1>1, <2>4
  <2>6. (b - a) % Word >= 0
    <3>1. b - a \in Int
      OBVIOUS
    <3>2. (b - a) % Word \in Nat
      BY <3>1, WrapFacts
    <3> QED BY <3>2
  <2>7. Sound(r, 1)
    BY <1>1, <2>2, <2>3, <2>4, <2>5, <2>6 DEF Sound
  <2> QED BY <1>1, <1>3, <2>1, <2>2, <2>3, <2>4, <2>5, <2>7 DEF can_allocate
<1> QED BY <1>2, <1>3

LEMMA ChosenWithin ==
    ASSUME NEW r \in Regs, NEW size \in Nat \ {0}, Sound(r, size), LowA(r, size) <= HighA(r, size)
    PROVE  Chosen(r, size) \in Nat /\ r.low <= Chosen(r, size) /\ Chosen(r, size) + size - 1 <= r.high
<1>1. r.low \in Nat /\ r.high \in Nat /\ Word \in Nat
  BY KickstartAssumption DEF Regs
<1>2. PICK a \in Nat : a = LowA(r, size)
  BY LowFacts
<1>3. PICK b \in Nat : b = HighA(r, size) /\ b < Word /\ b <= r.high
  BY HighFacts DEF Sound
<1>4. r.low <= a /\ a <= b /\ (b - a) % Word >= size - 1
  BY <1>2, <1>3 DEF Sound
<1>5. (b - a) % Word = b - a
  <2>1. b - a \in Int /\ 0 <= b - a /\ b - a < Word
    BY <1>1, <1>3, <1>4
  <2> QED BY <2>1, WrapFacts
<1>6. Chosen(r, size) = a \/ Chosen(r, size) = b - size + 1
  BY <1>2, <1>3 DEF Chosen
<1> QED BY <1>1, <1>3, <1>4, <1>5, <1>6

LEMMA RoomForAligned ==
    ASSUME NEW r \in Regs, NEW size \in Nat \ {0}, NEW a \in Nat, a % size = 0, r.low <= a, a + size - 1 <= r.high
    PROVE  Sound(r, size) /\ LowA(r, size) <= HighA(r, size)
<1>1. r.low \in Nat /\ r.high \in Nat /\ Word \in Nat /\ r.high < Word
  BY KickstartAssumption DEF Regs
<1>2. PICK k \in Nat : a = k * size
  <2>1. a = size * (a \div size) + (a % size) /\ a \div size \in Nat
    OBVIOUS
  <2> QED BY <2>1
<1>3. PICK x \in Nat : x = r.low + size - 1
  BY <1>1
<1>4. PICK lo \in Nat : lo = LowA(r, size) /\ lo = (x \div size) * size
  BY <1>1, <1>3, LowFacts
<1>5. lo <= x /\ x < lo + size
  BY <1>4, DivFacts
<1>6. r.low <= lo
  BY <1>1, <1>3, <1>5
<1>7. lo <= a
  <2>1. PICK q \in Nat : q = x \div size
    BY DivFacts
  <2>2. q * size <= x /\ x < k * size + size
    BY <1>1, <1>2, <1>3, <1>4, <1>5, <2>1
  <2>3. q <= k
    <3>1. SUFFICES ASSUME q >= k + 1 PROVE FALSE
      OBVIOUS
    <3>2. q * size >= (k + 1) * size
      BY <3>1
    <3>3. (k + 1) * size = k * size + size
      OBVIOUS
    <3> QED BY <2>2, <3>2, <3>3
  <2>4. q * size <= k * size
    BY <2>3
  <2> QED BY <1>2, <1>4, <2>1, <2>4
<1>8. r.high >= size - 1
  BY <1>1
<1>9. PICK hi \in Nat : hi = HighA(r, size) /\ hi < Word
  BY HighFacts
<1>10. a + size - 1 <= hi
  <2>1. CASE r.high + 1 = Word
    BY <1>1, <1>9, <2>1, HighFacts
  <2>2. CASE r.high + 1 # Word
    <3>1. PICK q \in Nat : q = (r.high + 1) \div size /\ q * size <= r.high + 1 /\ r.high + 1 < q * size + size
      BY <1>1, DivFacts
    <3>2. hi = q * size - 1
      BY <1>8, <1>9, <2>2, <3>1, HighFacts
    <3>3. k * size + size < q * size + size + 1
      BY <1>1, <1>2, <3>1
    <3>4. k + 1 <= q
      <4>1. SUFFICES ASSUME q <= k PROVE FALSE
        OBVIOUS
      <4>2. q * size <= k * size
        BY <4>1
      <4>3. k * size \in Nat /\ q * size \in Nat
        OBVIOUS
      <4> QED BY <1>1, <1>2, <3>1, <4>2, <4>3
    <3>5. (k + 1) * size <= q * size /\ (k + 1) * size = k * size + size
      BY <3>4
    <3>6. k * size \in Nat /\ q * size \in Nat
      OBVIOUS
    <3> QED BY <1>2, <3>2, <3>5, <3>6
  <2> QED BY <2>1, <2>2
<1>11. hi - lo >= size - 1 /\ lo <= hi
  BY <1>7, <1>10
<1>12. (hi - lo) % Word = hi - lo
  <2>1. hi - lo \in Int /\ 0 <= hi - lo /\ hi - lo < Word
    BY <1>1, <1>9, <1>11
  <2> QED BY <2>1, WrapFacts
<1> QED BY <1>4, <1>6, <1>8, <1>9, <1>11, <1>12 DEF Sound

-----------------------------------------------------------------------------
(***************************************************************************)
(* memregion_t::allocate.                                                  *)
(***************************************************************************)
\* No region goes on in another one.
Maximal(rs) == \A i \in DOMAIN rs : \A p : p \in PagesOf(rs[i]) => ~ In(rs, rs[i].high + 1)

LEMMA MaximalFrom ==
    ASSUME NEW rs, Maximal(rs), NEW t, \A p : In(t, p) => In(rs, p),
           \A j \in DOMAIN t : \A p : p \in PagesOf(t[j]) =>
               \/ ~ In(t, t[j].high + 1)
               \/ \E i \in DOMAIN rs : p \in PagesOf(rs[i]) /\ rs[i].high = t[j].high
    PROVE  Maximal(t)
BY DEF Maximal

LEMMA TailsMaximal ==
    ASSUME NEW rs, Maximal(rs), NEW t, Tails(rs, t), \A p : In(t, p) => In(rs, p)
    PROVE  Maximal(t)
<1>1. ASSUME NEW j \in DOMAIN t, NEW p, p \in PagesOf(t[j])
      PROVE  \E i \in DOMAIN rs : p \in PagesOf(rs[i]) /\ rs[i].high = t[j].high
  <2>1. In(rs, p)
    BY <1>1 DEF In
  <2>2. PICK i \in DOMAIN rs : p \in PagesOf(rs[i])
    BY <2>1 DEF In
  <2> QED BY <1>1, <2>2 DEF Tails
<1> QED BY <1>1, MaximalFrom

LEMMA GapsMaximal ==
    ASSUME NEW rs \in Seq(Regs), Gaps(rs, 1)
    PROVE  Maximal(rs)
<1> SUFFICES ASSUME NEW i \in DOMAIN rs, In(rs, rs[i].high + 1) PROVE FALSE
  BY DEF Maximal
<1>1. PICK j \in DOMAIN rs : rs[i].high + 1 \in PagesOf(rs[j])
  BY DEF In
<1>2. PICK a, b, c, d \in Nat : a = rs[i].low /\ b = rs[i].high /\ c = rs[j].low /\ d = rs[j].high
  <2>1. rs[i] \in Regs /\ rs[j] \in Regs
    OBVIOUS
  <2> QED BY <2>1 DEF Regs
<1>3. a <= b /\ c <= b + 1 /\ b + 1 <= d /\ c <= d
  BY <1>1, <1>2 DEF Gaps, PagesOf
<1>4. i \in Nat /\ j \in Nat
  OBVIOUS
<1>5. CASE i = j
  BY <1>2, <1>3, <1>5
<1>6. CASE i < j
  <2>1. b + 1 < c
    BY <1>2, <1>6 DEF Gaps
  <2> QED BY <1>3, <2>1
<1>7. CASE j < i
  <2>1. d + 1 < a
    BY <1>2, <1>7 DEF Gaps
  <2> QED BY <1>2, <1>3, <2>1
<1> QED BY <1>4, <1>5, <1>6, <1>7

\* Pages leave a sequence of regions.
Freed(rs, F, t) == Shrunk(rs, F, t) /\ (Maximal(rs) => Maximal(t))

LEMMA TailsFreed ==
    ASSUME NEW rs, NEW F, NEW t, Shrunk(rs, F, t), Tails(rs, t)
    PROVE  Freed(rs, F, t)
<1>1. \A p : In(t, p) => In(rs, p)
  BY HasIn DEF Shrunk
<1> QED BY <1>1, TailsMaximal DEF Freed

\* x is region r up to addr, and y is what follows the size pages at addr.
Lower(r, addr, x) == x = [r EXCEPT !.high = addr - 1]
Upper(r, addr, size, y) == y = [r EXCEPT !.low = addr + size]

LEMMA LowerFacts ==
    ASSUME NEW r \in Regs, NEW addr \in Nat \ {0}, r.low <= addr, addr <= r.high, NEW x, Lower(r, addr, x)
    PROVE  /\ x \in Regs /\ x.owner = r.owner /\ x.low = r.low /\ x.high = addr - 1
           /\ Less(x, r, addr .. r.high)
<1>1. /\ r.low \in Nat /\ r.high \in Nat /\ r.high < Word /\ r.owner \in Owners /\ Word \in Nat
      /\ r = [low |-> r.low, high |-> r.high, owner |-> r.owner]
  BY KickstartAssumption DEF Regs
<1>2. x = [low |-> r.low, high |-> addr - 1, owner |-> r.owner]
  BY <1>1 DEF Lower
<1>3. x.low = r.low /\ x.high = addr - 1 /\ x.owner = r.owner
  BY <1>2
<1>4. x \in Regs
  BY <1>1, <1>2 DEF Regs
<1>5. \A p : p \in PagesOf(x) <=> p \in PagesOf(r) /\ p \notin addr .. r.high
  BY <1>1, <1>3 DEF PagesOf
<1> QED BY <1>3, <1>4, <1>5 DEF Less

LEMMA UpperFacts ==
    ASSUME NEW r \in Regs, NEW addr \in Nat, NEW size \in Nat, addr + size <= r.high, NEW y, Upper(r, addr, size, y)
    PROVE  y \in Regs /\ y.owner = r.owner /\ y.low = addr + size /\ y.high = r.high
<1>1. /\ r.low \in Nat /\ r.high \in Nat /\ r.high < Word /\ r.owner \in Owners
      /\ r = [low |-> r.low, high |-> r.high, owner |-> r.owner]
  BY DEF Regs
<1>2. y = [low |-> addr + size, high |-> r.high, owner |-> r.owner]
  BY <1>1 DEF Upper
<1> QED BY <1>1, <1>2 DEF Regs

LEMMA EndFreed ==
    ASSUME NEW rs \in Seq(Regs), Apart(rs), NEW i \in DOMAIN rs, NEW addr \in Nat \ {0}, NEW size \in Nat \ {0},
           rs[i].low <= addr, addr + size - 1 = rs[i].high, NEW x, Lower(rs[i], addr, x),
           NEW t \in Seq(Regs), Replaced(rs, i, x, t)
    PROVE  Freed(rs, addr .. addr + size - 1, t)
<1>1. PICK r \in Regs : r = rs[i] /\ r.low \in Nat /\ r.high \in Nat
  <2>1. rs[i] \in Regs
    OBVIOUS
  <2> QED BY <2>1 DEF Regs
<1>2. PICK F : F = addr .. r.high
  OBVIOUS
<1>3. x.high = addr - 1 /\ Less(x, r, F)
  <2>1. r.low <= addr /\ addr <= r.high
    BY <1>1
  <2> QED BY <1>1, <1>2, <2>1, LowerFacts
<1>4. Shrunk(rs, F, t)
  <2>1. \A p \in F : p \in PagesOf(r)
    BY <1>1, <1>2 DEF PagesOf
  <2> QED BY <1>1, <1>3, <2>1, ReplacedShrunk
<1>5. Maximal(rs) => Maximal(t)
  <2>1. \A p : In(t, p) => In(rs, p) /\ p \notin F
    BY <1>4, HasIn DEF Shrunk
  <2>2. ASSUME NEW j \in DOMAIN t, NEW p, p \in PagesOf(t[j])
        PROVE  \/ ~ In(t, t[j].high + 1)
               \/ \E h \in DOMAIN rs : p \in PagesOf(rs[h]) /\ rs[h].high = t[j].high
    <3>1. CASE j = i
      <4>1. t[j].high + 1 = addr
        BY <1>3, <3>1 DEF Replaced
      <4>2. addr \in F
        BY <1>1, <1>2
      <4> QED BY <2>1, <4>1, <4>2
    <3>2. CASE j # i
      BY <2>2, <3>2 DEF Replaced
    <3> QED BY <3>1, <3>2
  <2> QED BY <2>1, <2>2, MaximalFrom
<1> QED BY <1>1, <1>2, <1>4, <1>5 DEF Freed

LEMMA MiddleFreed ==
    ASSUME NEW rs \in Seq(Regs), Apart(rs), NEW i \in DOMAIN rs, NEW addr \in Nat \ {0}, NEW size \in Nat \ {0},
           rs[i].low <= addr, addr + size <= rs[i].high, NEW x, Lower(rs[i], addr, x),
           NEW y, Upper(rs[i], addr, size, y),
           NEW u \in Seq(Regs), Replaced(rs, i, x, u), NEW t \in Seq(Regs), Inserted(u, i + 1, y, t)
    PROVE  Freed(rs, addr .. addr + size - 1, t)
<1>1. PICK r \in Regs : r = rs[i] /\ r.low \in Nat /\ r.high \in Nat
  <2>1. rs[i] \in Regs
    OBVIOUS
  <2> QED BY <2>1 DEF Regs
<1>2. PICK F : F = addr .. r.high
  OBVIOUS
<1>3. x.high = addr - 1 /\ Less(x, r, F)
  <2>1. r.low <= addr /\ addr <= r.high
    BY <1>1
  <2> QED BY <1>1, <1>2, <2>1, LowerFacts
<1>4. y \in Regs /\ y.owner = r.owner /\ y.low = addr + size /\ y.high = r.high
  BY <1>1, UpperFacts
<1>5. Shrunk(rs, F, u)
  <2>1. \A p \in F : p \in PagesOf(r)
    BY <1>1, <1>2 DEF PagesOf
  <2> QED BY <1>1, <1>3, <2>1, ReplacedShrunk
<1>6. \A p : p \in PagesOf(y) => p \in F /\ p \in PagesOf(r) /\ p \notin addr .. addr + size - 1
  BY <1>1, <1>2, <1>4 DEF PagesOf
<1>7. PICK n \in Nat : n = Len(rs) /\ DOMAIN rs = 1 .. n /\ i \in 1 .. n /\ Len(u) = n /\ DOMAIN u = 1 .. n
  BY DEF Replaced
<1>8. Grown(u, y, t)
  <2>1. \A p : p \in PagesOf(y) => ~ In(u, p)
    BY <1>5, <1>6, HasIn DEF Shrunk
  <2>2. i + 1 \in 1 .. Len(u) + 1 /\ Apart(u)
    BY <1>5, <1>7 DEF Shrunk
  <2> QED BY <1>4, <2>1, <2>2, InsertGrown
<1>9. ASSUME NEW p, NEW o PROVE Has(t, p, o) <=> Has(rs, p, o) /\ p \notin addr .. addr + size - 1
  <2>1. Has(t, p, o) <=> (Has(rs, p, o) /\ p \notin F) \/ (p \in PagesOf(y) /\ y.owner = o)
    BY <1>5, <1>8 DEF Shrunk, Grown
  <2>2. p \notin F => p \notin addr .. addr + size - 1
    BY <1>1, <1>2
  <2>3. p \in PagesOf(y) => Has(rs, p, y.owner)
    BY <1>1, <1>4, <1>6 DEF Has
  <2>4. ASSUME Has(rs, p, o), p \in F, p \notin addr .. addr + size - 1 PROVE p \in PagesOf(y) /\ y.owner = o
    <3>1. p \in PagesOf(y) /\ p \in PagesOf(r)
      BY <1>1, <1>2, <1>4, <2>4 DEF PagesOf
    <3>2. PICK j \in DOMAIN rs : p \in PagesOf(rs[j]) /\ rs[j].owner = o
      BY <2>4 DEF Has
    <3>3. j = i
      BY <1>1, <3>1, <3>2 DEF Apart
    <3> QED BY <1>1, <1>4, <3>1, <3>2, <3>3
  <2> QED BY <1>6, <2>1, <2>2, <2>3, <2>4
<1>10. Shrunk(rs, addr .. addr + size - 1, t)
  BY <1>8, <1>9 DEF Shrunk, Grown
<1>11. Maximal(rs) => Maximal(t)
  <2>1. \A p : In(t, p) => In(rs, p) /\ p \notin addr .. addr + size - 1
    BY <1>9, HasIn
  <2>2. ASSUME NEW j \in DOMAIN t, NEW p, p \in PagesOf(t[j])
        PROVE  \/ ~ In(t, t[j].high + 1)
               \/ \E h \in DOMAIN rs : p \in PagesOf(rs[h]) /\ rs[h].high = t[j].high
    <3>1. PICK k \in 1 .. n + 1 : k = j /\ DOMAIN t = 1 .. n + 1
      BY <1>7 DEF Inserted
    <3>2. CASE k = i + 1
      <4>1. t[j] = y
        BY <3>1, <3>2 DEF Inserted
      <4> QED BY <1>1, <1>4, <1>6, <2>2, <4>1
    <3>3. CASE k # i + 1
      <4>1. PICK h \in 1 .. n : t[j] = u[h]
        <5>1. CASE k < i + 1
          <6>1. k \in 1 .. n /\ t[IF k < i + 1 THEN k ELSE k + 1] = u[k]
            BY <1>7, <5>1 DEF Inserted
          <6> QED BY <3>1, <5>1, <6>1
        <5>2. CASE ~ (k < i + 1)
          <6>1. PICK g \in 1 .. n : g = k - 1 /\ ~ (g < i + 1) /\ g + 1 = k
            BY <1>7, <3>3, <5>2
          <6>2. t[IF g < i + 1 THEN g ELSE g + 1] = u[g]
            BY <1>7 DEF Inserted
          <6> QED BY <3>1, <6>1, <6>2
        <5> QED BY <5>1, <5>2
      <4>2. CASE h = i
        <5>1. t[j].high + 1 = addr
          BY <1>3, <4>1, <4>2 DEF Replaced
        <5>2. addr \in addr .. addr + size - 1
          OBVIOUS
        <5> QED BY <2>1, <5>1, <5>2
      <4>3. CASE h # i
        BY <1>7, <2>2, <4>1, <4>3 DEF Replaced
      <4> QED BY <4>2, <4>3
    <3> QED BY <3>2, <3>3
  <2> QED BY <2>1, <2>2, MaximalFrom
<1> QED BY <1>10, <1>11 DEF Freed

\* The pages F have been taken from a pool, unless sigma0 is dead.
Takes(s, pool, F, t) ==
    /\ Good(t) /\ (s.dead => t.dead)
    /\ \A p : \A o : Has(t.conv, p, o) => Has(s.conv, p, o)
    /\ \A p : \A o : Has(t.mem, p, o) => Has(s.mem, p, o)
    /\ ~ t.dead => \A p : p \in F => ~ In(t[pool], p)
    /\ \A p : \A o : Has(s.conv, p, o) => \/ Has(t.conv, p, o) \/ Has(t.alloc, p, "sigma0")
                                          \/ pool = "conv" /\ p \in F
    /\ \A p : \A o : Has(s.mem, p, o) => Has(t.mem, p, o) \/ (pool = "mem" /\ p \in F)
    /\ \A p : \A o : Has(s.alloc, p, o) => Has(t.alloc, p, o)
    /\ \A p : \A o : Has(t.alloc, p, o) => Has(s.alloc, p, o) \/ (o = "sigma0" /\ In(s.conv, p))
    /\ \A p : p \in F => ~ In(t.alloc, p)
    /\ Maximal(s.conv) => Maximal(t.conv)

LEMMA FeedsTakes ==
    ASSUME NEW s, Good(s), NEW pool \in {"conv", "mem"}, NEW F, NEW t, Feeds(s, t), t.dead,
           \A p \in F : In(t[pool], p)
    PROVE  Takes(s, pool, F, t)
<1>1. \A p : In(t.conv, p) => In(s.conv, p)
  BY HasIn DEF Feeds
<1>2. Maximal(s.conv) => Maximal(t.conv)
  BY <1>1, TailsMaximal DEF Feeds
<1>3. \A p : p \in F => ~ In(t.alloc, p)
  BY GoodPools DEF Feeds
<1> QED BY <1>2, <1>3 DEF Feeds, Takes

LEMMA FreedTakes ==
    ASSUME NEW s, Good(s), NEW pool \in {"conv", "mem"}, NEW F, NEW d, Feeds(s, d), \A p \in F : In(d[pool], p),
           NEW t, Changed(d, pool, t), Freed(d[pool], F, t[pool])
    PROVE  Takes(s, pool, F, t)
<1>1. Good(d) /\ pool \in PoolNames
  BY DEF Feeds, PoolNames
<1>2. \A q \in PoolNames : q # pool => t[q] = d[q]
  BY DEF Changed
<1>3. \A p : \A o : Has(t[pool], p, o) <=> Has(d[pool], p, o) /\ p \notin F
  BY DEF Freed, Shrunk
<1>4. DOMAIN t = Fields /\ t.dead = d.dead
  BY DEF Changed
<1>5. \A q \in PoolNames : t[q] \in Seq(Regs) /\ Apart(t[q])
  BY <1>1, <1>2 DEF Freed, Shrunk, Good
<1>6. \A q \in PoolNames : \A p : In(t[q], p) => In(d[q], p)
  BY <1>2, <1>3, HasIn
<1>7. Good(t)
  BY <1>1, <1>4, <1>5, <1>6 DEF Good
<1>8. t.alloc = d.alloc
  BY <1>2 DEF PoolNames
<1>9. /\ \A p : \A o : Has(t.conv, p, o) <=> Has(d.conv, p, o) /\ ~ (pool = "conv" /\ p \in F)
      /\ \A p : \A o : Has(t.mem, p, o) <=> Has(d.mem, p, o) /\ ~ (pool = "mem" /\ p \in F)
  BY <1>2, <1>3 DEF PoolNames
<1>10. Maximal(s.conv) => Maximal(t.conv)
  <2>1. \A p : In(d.conv, p) => In(s.conv, p)
    BY HasIn DEF Feeds
  <2>2. Maximal(s.conv) => Maximal(d.conv)
    BY <2>1, TailsMaximal DEF Feeds
  <2>3. Maximal(d.conv) => Maximal(t.conv)
    BY <1>2 DEF Freed, PoolNames
  <2> QED BY <2>2, <2>3
<1>11. \A p : p \in F => ~ In(t[pool], p)
  BY <1>3, HasIn
<1>12. \A p : p \in F => ~ In(t.alloc, p)
  BY <1>1, <1>8, GoodPools
<1>13. /\ d.mem = s.mem /\ (s.dead => d.dead)
       /\ \A p : \A o : Has(d.conv, p, o) => Has(s.conv, p, o)
       /\ \A p : \A o : Has(s.conv, p, o) => Has(d.conv, p, o) \/ Has(d.alloc, p, "sigma0")
       /\ \A p : \A o : Has(s.alloc, p, o) => Has(d.alloc, p, o)
       /\ \A p : \A o : Has(d.alloc, p, o) => Has(s.alloc, p, o) \/ (o = "sigma0" /\ In(s.conv, p))
  BY DEF Feeds
<1> QED BY <1>4, <1>7, <1>8, <1>9, <1>10, <1>11, <1>12, <1>13 DEF Takes

LEMMA FeedsItself ==
    ASSUME NEW s, Good(s)
    PROVE  Feeds(s, s)
BY SamePoolsFeeds DEF SamePools, Good

\* size pages at addr lie in the i-th region of a pool.
Inside(s, pool, i, addr, size) ==
    /\ i \in DOMAIN s[pool] /\ addr \in Nat /\ size \in Nat \ {0}
    /\ s[pool][i].low <= addr /\ addr + size - 1 <= s[pool][i].high

LEMMA TakeMiddleFacts ==
    ASSUME NEW s, Good(s), NEW pool \in {"conv", "mem"}, NEW i, NEW addr, NEW size, Inside(s, pool, i, addr, size),
           addr # s[pool][i].low, addr + size - 1 # s[pool][i].high,
           NEW t, t = TakeMiddle(s, pool, i, addr, size)
    PROVE  Takes(s, pool, addr .. addr + size - 1, t)
<1>1. PICK d : d = WithDescriptor(s)
  OBVIOUS
<1>2. Feeds(s, d) /\ Good(d) /\ d.dead \in BOOLEAN /\ DOMAIN d = Fields
  BY <1>1, DescriptorFacts, GoodPools DEF Feeds
<1>3. PICK rs \in Seq(Regs) : rs = s[pool] /\ Apart(rs) /\ i \in DOMAIN rs
  BY DEF Good, Inside, PoolNames
<1>4. PICK ds \in Seq(Regs) : ds = d[pool] /\ Apart(ds)
  BY <1>2 DEF Good, PoolNames
<1>5. PICK lo \in Nat, hi \in Nat : lo = rs[i].low /\ hi = rs[i].high
  BY <1>3 DEF Regs
<1>6. addr \in Nat \ {0} /\ size \in Nat \ {0} /\ lo < addr /\ addr + size <= hi
  BY <1>3, <1>5 DEF Inside
<1>7. Tails(rs, ds) /\ \A p : p \in PagesOf(rs[i]) /\ p # rs[i].low => In(ds, p)
  <2>1. CASE pool = "conv"
    BY <1>2, <1>3, <1>4, <2>1 DEF Feeds
  <2>2. CASE pool = "mem"
    <3>1. ds = rs
      BY <1>2, <1>3, <1>4, <2>2 DEF Feeds
    <3> QED BY <1>3, <3>1 DEF Tails, Apart, In
  <2> QED BY <2>1, <2>2
<1>8. \A p \in addr .. addr + size - 1 : p \in PagesOf(rs[i]) /\ p # rs[i].low
  BY <1>5, <1>6 DEF PagesOf
<1>9. \A p \in addr .. addr + size - 1 : In(d[pool], p)
  BY <1>4, <1>7, <1>8
<1>10. CASE d.dead
  <2>1. t = d
    BY <1>1, <1>10 DEF TakeMiddle
  <2> QED BY <1>2, <1>9, <1>10, <2>1, FeedsTakes
<1>11. CASE ~ d.dead
  <2>1. PICK I : I = {j \in 1 .. Len(ds) : addr \in ds[j].low .. ds[j].high}
    OBVIOUS
  <2>2. PICK j : j = SelectInSeq(ds, LAMBDA x : addr \in x.low .. x.high)
    OBVIOUS
  <2>3. j = IF I # {} THEN Min(I) ELSE 0
    BY <2>1, <2>2 DEF SelectInSeq
  <2>4. addr \in addr .. addr + size - 1
    BY <1>6
  <2>5. I # {}
    <3>1. PICK k \in DOMAIN ds : addr \in PagesOf(ds[k])
      BY <1>7, <1>8, <2>4 DEF In
    <3> QED BY <2>1, <3>1 DEF PagesOf
  <2>6. j \in I
    <3>1. I \in SUBSET Nat
      BY <2>1
    <3> QED BY <2>3, <2>5, <3>1, LeastIsMin
  <2>7. j \in DOMAIN ds /\ addr \in PagesOf(ds[j])
    BY <2>1, <2>6 DEF PagesOf
  <2>8. PICK r \in Regs : r = ds[j]
    BY <2>7
  <2>9. r.high = hi
    BY <1>3, <1>5, <1>7, <1>8, <2>4, <2>7, <2>8 DEF Tails
  <2>10. r.low \in Nat /\ r.low <= addr /\ addr + size <= r.high /\ addr <= r.high
    BY <1>6, <2>7, <2>8, <2>9 DEF Regs, PagesOf
  <2>11. PICK x : Lower(r, addr, x)
    BY DEF Lower
  <2>12. PICK y : Upper(r, addr, size, y)
    BY DEF Upper
  <2>13. x \in Regs
    BY <1>6, <2>10, <2>11, LowerFacts
  <2>14. y \in Regs
    BY <1>6, <2>10, <2>12, UpperFacts
  <2>15. PICK u : u = ReplaceAt(ds, j, x)
    OBVIOUS
  <2>16. u \in Seq(Regs) /\ Replaced(ds, j, x, u)
    BY <2>7, <2>13, <2>15, ReplaceElements
  <2>17. PICK v : v = InsertAt(u, j + 1, y)
    OBVIOUS
  <2>18. v \in Seq(Regs) /\ Inserted(u, j + 1, y, v)
    <3>1. PICK n \in Nat : n = Len(ds) /\ DOMAIN ds = 1 .. n
      OBVIOUS
    <3>2. Len(u) = n
      BY <2>16, <3>1 DEF Replaced
    <3>3. j + 1 \in 1 .. Len(u) + 1
      BY <2>7, <3>1, <3>2
    <3> QED BY <2>14, <2>16, <2>17, <3>3, InsertElements
  <2>19. t = [d EXCEPT ![pool] = v]
    BY <1>1, <1>4, <1>11, <2>2, <2>8, <2>11, <2>12, <2>15, <2>17 DEF TakeMiddle, Lower, Upper
  <2>20. Changed(d, pool, t) /\ t[pool] = v
    BY <1>2, <2>19 DEF Changed, PoolNames, Fields
  <2>21. Freed(ds, addr .. addr + size - 1, v)
    <3>1. ds[j].low <= addr /\ addr + size <= ds[j].high /\ Lower(ds[j], addr, x) /\ Upper(ds[j], addr, size, y)
      BY <2>8, <2>10, <2>11, <2>12
    <3> QED BY <1>4, <1>6, <2>7, <2>16, <2>18, <3>1, MiddleFreed
  <2> QED BY <1>2, <1>4, <1>9, <2>20, <2>21, FreedTakes
<1> QED BY <1>2, <1>10, <1>11

LEMMA TakeFacts ==
    ASSUME NEW s, Good(s), NEW pool \in {"conv", "mem"}, NEW i, NEW addr, NEW size, Inside(s, pool, i, addr, size),
           NEW t, t = Take(s, pool, i, addr, size)
    PROVE  Takes(s, pool, addr .. addr + size - 1, t)
<1>1. PICK rs \in Seq(Regs) : rs = s[pool] /\ Apart(rs) /\ i \in DOMAIN rs /\ DOMAIN s = Fields /\ pool \in PoolNames
  BY DEF Good, Inside, PoolNames
<1>2. PICK r \in Regs : r = rs[i] /\ r.low \in Nat /\ r.high \in Nat
  <2>1. rs[i] \in Regs
    BY <1>1
  <2> QED BY <2>1 DEF Regs
<1>3. addr \in Nat /\ size \in Nat \ {0} /\ r.low <= addr /\ addr + size - 1 <= r.high
  BY <1>1, <1>2 DEF Inside
<1>4. \A p \in addr .. addr + size - 1 : In(s[pool], p)
  <2>1. \A p \in addr .. addr + size - 1 : p \in PagesOf(rs[i])
    BY <1>2, <1>3 DEF PagesOf
  <2> QED BY <1>1, <2>1 DEF In
<1>5. CASE addr = r.low
  <2>1. t = TakeStart(s, pool, i, size)
    BY <1>1, <1>2, <1>5 DEF Take
  <2>2. PICK F : F = r.low .. r.low + size - 1
    OBVIOUS
  <2>3. r.low + size <= r.high + 1
    BY <1>2, <1>3, <1>5
  <2>4. Changed(s, pool, t) /\ Shrunk(rs, F, t[pool]) /\ Tails(rs, t[pool])
    BY <1>1, <1>2, <1>3, <2>1, <2>2, <2>3, TakeStartFacts
  <2>5. Freed(rs, F, t[pool])
    BY <2>4, TailsFreed
  <2> QED BY <1>1, <1>4, <1>5, <2>2, <2>4, <2>5, FeedsItself, FreedTakes
<1>6. CASE addr # r.low /\ addr + size - 1 = r.high
  <2>1. PICK x : Lower(r, addr, x)
    BY DEF Lower
  <2>2. addr \in Nat \ {0} /\ addr <= r.high /\ r.high - size = addr - 1
    BY <1>2, <1>3, <1>6
  <2>3. x \in Regs
    BY <1>3, <2>1, <2>2, LowerFacts
  <2>4. PICK u : u = [rs EXCEPT ![i] = x]
    OBVIOUS
  <2>5. u \in Seq(Regs) /\ Replaced(rs, i, x, u)
    BY <1>1, <2>3, <2>4 DEF Replaced
  <2>6. t = [s EXCEPT ![pool][i].high = s[pool][i].high - size]
    BY <1>1, <1>2, <1>6 DEF Take
  <2>7. t = [s EXCEPT ![pool] = u]
    BY <1>1, <1>2, <2>1, <2>2, <2>4, <2>6 DEF Lower
  <2>8. Changed(s, pool, t) /\ t[pool] = u
    BY <1>1, <2>7 DEF Changed, PoolNames, Fields
  <2>9. Freed(rs, addr .. addr + size - 1, u)
    BY <1>1, <1>2, <1>3, <1>6, <2>1, <2>2, <2>5, EndFreed
  <2> QED BY <1>1, <1>4, <2>8, <2>9, FeedsItself, FreedTakes
<1>7. CASE addr # r.low /\ addr + size - 1 # r.high
  <2>1. t = TakeMiddle(s, pool, i, addr, size)
    BY <1>1, <1>2, <1>7 DEF Take
  <2> QED BY <1>1, <1>2, <1>7, <2>1, TakeMiddleFacts
<1> QED BY <1>5, <1>6, <1>7

\* The pages F of a pool have become tid's, unless sigma0 is dead.
Gives(s, pool, F, tid, t) ==
    /\ Good(t) /\ (s.dead => t.dead)
    /\ \A p : \A o : Has(t.conv, p, o) => Has(s.conv, p, o)
    /\ \A p : \A o : Has(t.mem, p, o) => Has(s.mem, p, o)
    /\ \A p : \A o : Has(s.alloc, p, o) => Has(t.alloc, p, o)
    /\ \A p : \A o : Has(t.alloc, p, o) => \/ Has(s.alloc, p, o) \/ (p \in F /\ o = tid)
                                           \/ o = "sigma0" /\ In(s.conv, p)
    /\ \A p : \A o : Has(s.conv, p, o) => \/ Has(t.conv, p, o) \/ Has(t.alloc, p, "sigma0")
                                          \/ pool = "conv" /\ p \in F
    /\ \A p : \A o : Has(s.mem, p, o) => Has(t.mem, p, o) \/ (pool = "mem" /\ p \in F)
    /\ ~ t.dead => \A p : p \in F => Has(t.alloc, p, tid)
    /\ Maximal(s.conv) => Maximal(t.conv)

LEMMA AllocateFacts ==
    ASSUME NEW s, Good(s), NEW place, NEW size, NEW tid \in Owners, place.pool \in {"conv", "mem"},
           Inside(s, place.pool, place.i, place.addr, size),
           NEW t, t = Allocate(s, place, size, tid)
    PROVE  Gives(s, place.pool, place.addr .. place.addr + size - 1, tid, t)
<1>1. PICK pool \in {"conv", "mem"} : pool = place.pool
  OBVIOUS
<1>2. PICK addr : addr = place.addr
  OBVIOUS
<1>3. PICK F : F = addr .. addr + size - 1
  OBVIOUS
<1>4. PICK u : u = Take(s, pool, place.i, addr, size)
  OBVIOUS
<1>5. Takes(s, pool, F, u)
  BY <1>1, <1>2, <1>3, <1>4, TakeFacts
<1>6. PICK r : r = Region(addr, addr + size - 1, tid)
  OBVIOUS
<1>7. t = IF u.dead THEN u ELSE InsertNew(u, "alloc", r)
  BY <1>1, <1>2, <1>4, <1>6 DEF Allocate
<1>8. u.dead \in BOOLEAN /\ Good(u)
  BY <1>5 DEF Takes, Good
<1>9. CASE u.dead
  <2>1. t = u
    BY <1>7, <1>9
  <2>2. Gives(s, pool, F, tid, t)
    BY <1>5, <1>9, <2>1 DEF Takes, Gives
  <2> QED BY <1>1, <1>2, <1>3, <2>2
<1>10. CASE ~ u.dead
  <2>1. t = InsertNew(u, "alloc", r)
    BY <1>7, <1>10
  <2>2. PICK rs \in Seq(Regs) : rs = s[pool] /\ place.i \in DOMAIN rs
    BY <1>1 DEF Good, Inside, PoolNames
  <2>3. PICK x \in Regs : x = rs[place.i] /\ x.low \in Nat /\ x.high \in Nat /\ x.high < Word
    <3>1. rs[place.i] \in Regs
      BY <2>2
    <3> QED BY <3>1 DEF Regs
  <2>4. addr \in Nat /\ size \in Nat \ {0} /\ x.low <= addr /\ addr + size - 1 <= x.high
    BY <1>1, <1>2, <2>2, <2>3 DEF Inside
  <2>5. addr + size - 1 \in Nat /\ addr + size - 1 < Word /\ addr <= addr + size - 1
    BY <2>3, <2>4, KickstartAssumption
  <2>6. r \in Regs /\ r.low = addr /\ r.high = addr + size - 1 /\ r.owner = tid
    BY <1>6, <2>4, <2>5, KickstartAssumption DEF Region, Regs
  <2>7. \A p : p \in PagesOf(r) <=> p \in F
    BY <1>3, <2>6 DEF PagesOf
  <2>8. \A p \in F : In(s[pool], p)
    <3>1. \A p \in F : p \in PagesOf(x)
      BY <1>3, <2>3, <2>4 DEF PagesOf
    <3> QED BY <2>2, <2>3, <3>1 DEF In
  <2>9. \A q \in PoolNames : \A p : p \in PagesOf(r) => ~ In(u[q], p)
    <3> SUFFICES ASSUME NEW q \in PoolNames, NEW p, p \in F PROVE ~ In(u[q], p)
      BY <2>7
    <3>1. ~ In(u[pool], p) /\ ~ In(u.alloc, p)
      BY <1>5, <1>10 DEF Takes
    <3>2. In(u.conv, p) => In(s.conv, p)
      BY <1>5, HasIn DEF Takes
    <3>3. In(u.mem, p) => In(s.mem, p)
      BY <1>5, HasIn DEF Takes
    <3>4. ~ (In(s.conv, p) /\ In(s.mem, p))
      BY GoodPools
    <3> QED BY <2>8, <3>1, <3>2, <3>3, <3>4 DEF PoolNames
  <2>10. Puts(u, "alloc", r, t)
    <3>1. r.low <= r.high /\ "alloc" \in PoolNames
      BY <2>5, <2>6 DEF PoolNames
    <3> QED BY <1>8, <2>1, <2>6, <2>9, <3>1, InsertNewPuts
  <2>11. /\ Good(t)
         /\ \A p : \A o : Has(t.conv, p, o) => Has(u.conv, p, o)
         /\ \A p : \A o : Has(u.conv, p, o) => Has(t.conv, p, o) \/ Has(t.alloc, p, "sigma0")
         /\ \A p : \A o : Has(t.mem, p, o) => Has(u.mem, p, o)
         /\ \A p : \A o : Has(u.mem, p, o) => Has(t.mem, p, o)
         /\ \A p : \A o : Has(u.alloc, p, o) => Has(t.alloc, p, o)
         /\ \A p : \A o : Has(t.alloc, p, o) => \/ Has(u.alloc, p, o) \/ (o = "sigma0" /\ In(u.conv, p))
                                                \/ p \in F /\ o = tid
         /\ ~ t.dead => \A p : p \in F => Has(t.alloc, p, tid)
         /\ Tails(u.conv, t.conv) /\ (u.dead => t.dead)
    BY <2>6, <2>7, <2>10 DEF Puts
  <2>12. /\ (s.dead => u.dead)
         /\ \A p : \A o : Has(u.conv, p, o) => Has(s.conv, p, o)
         /\ \A p : \A o : Has(u.mem, p, o) => Has(s.mem, p, o)
         /\ \A p : \A o : Has(s.conv, p, o) => \/ Has(u.conv, p, o) \/ Has(u.alloc, p, "sigma0")
                                               \/ pool = "conv" /\ p \in F
         /\ \A p : \A o : Has(s.mem, p, o) => Has(u.mem, p, o) \/ (pool = "mem" /\ p \in F)
         /\ \A p : \A o : Has(s.alloc, p, o) => Has(u.alloc, p, o)
         /\ \A p : \A o : Has(u.alloc, p, o) => Has(s.alloc, p, o) \/ (o = "sigma0" /\ In(s.conv, p))
         /\ Maximal(s.conv) => Maximal(u.conv)
    BY <1>5 DEF Takes
  <2>13. \A p : In(u.conv, p) => In(s.conv, p)
    BY <2>12, HasIn
  <2>14. Maximal(u.conv) => Maximal(t.conv)
    <3>1. \A p : In(t.conv, p) => In(u.conv, p)
      BY <2>11, HasIn
    <3> QED BY <2>11, <3>1, TailsMaximal
  <2>15. Gives(s, pool, F, tid, t)
    BY <2>11, <2>12, <2>13, <2>14 DEF Gives
  <2> QED BY <1>1, <1>2, <1>3, <2>15
<1> QED BY <1>8, <1>9, <1>10

-----------------------------------------------------------------------------
(***************************************************************************)
(* Where allocate_page finds pages.                                        *)
(***************************************************************************)
LEMMA HoldingFacts ==
    ASSUME NEW s, Good(s), NEW pool \in PoolNames, NEW addr \in Nat, NEW size \in Nat \ {0}, NEW tid,
           NEW i \in Holding(s, pool, addr, size, tid)
    PROVE  Inside(s, pool, i, addr, size) /\ s[pool][i].owner \in {tid, "any"}
<1>1. i \in DOMAIN s[pool] /\ can_allocate(s[pool][i], addr, size, tid)
  BY DEF Holding
<1>2. s[pool][i] \in Regs
  BY <1>1 DEF Good
<1>3. PICK r \in Regs : r = s[pool][i]
  BY <1>2
<1>4. r.low <= addr /\ addr + size - 1 <= r.high /\ r.owner \in {tid, "any"}
  BY <1>1, <1>3, AllocateWithin
<1> QED BY <1>1, <1>3, <1>4 DEF Inside

LEMMA HoldingPage ==
    ASSUME NEW s, Good(s), NEW pool \in PoolNames, NEW page \in Nat, NEW tid
    PROVE  Holding(s, pool, page, 1, tid) # {} <=> Has(s[pool], page, tid) \/ Has(s[pool], page, "any")
<1>1. PICK rs \in Seq(Regs) : rs = s[pool]
  BY DEF Good
<1>2. ASSUME NEW i \in DOMAIN rs
      PROVE  i \in Holding(s, pool, page, 1, tid) <=> page \in PagesOf(rs[i]) /\ rs[i].owner \in {tid, "any"}
  <2>1. PICK r \in Regs : r = rs[i]
    OBVIOUS
  <2>2. can_allocate(r, page, 1, tid) <=> page \in PagesOf(r) /\ r.owner \in {tid, "any"}
    BY AllocatePage
  <2>3. page \in PagesOf(r) => r.low <= page + 1 - 1 /\ r.high >= page
    BY DEF PagesOf, Regs
  <2>4. i \in Holding(s, pool, page, 1, tid)
            <=> r.low <= page + 1 - 1 /\ r.high >= page /\ can_allocate(r, page, 1, tid)
    BY <1>1, <2>1 DEF Holding
  <2> QED BY <2>1, <2>2, <2>3, <2>4
<1>3. \A i \in Holding(s, pool, page, 1, tid) : i \in DOMAIN rs
  BY <1>1 DEF Holding
<1> QED BY <1>1, <1>2, <1>3 DEF Has

LEMMA PlaceFacts ==
    ASSUME NEW s, Good(s), NEW pools \in Seq(PoolNames), NEW addr \in Nat, NEW size \in Nat \ {0}, NEW tid,
           NEW place, place = PlaceIn(s, pools, addr, size, tid)
    PROVE  \/ /\ place = NoPlace
              /\ \A k \in DOMAIN pools : Holding(s, pools[k], addr, size, tid) = {}
           \/ /\ place # NoPlace
              /\ \E k \in DOMAIN pools : place.pool = pools[k]
              /\ place.addr = addr
              /\ Inside(s, place.pool, place.i, addr, size)
              /\ s[place.pool][place.i].owner \in {tid, "any"}
              /\ place.i \in Holding(s, place.pool, addr, size, tid)
<1>1. PICK K : K = {k \in 1 .. Len(pools) : Holding(s, pools[k], addr, size, tid) # {}}
  OBVIOUS
<1>2. PICK k : k = IF K # {} THEN Min(K) ELSE 0
  OBVIOUS
<1>3. SelectInSeq(pools, LAMBDA pool : Holding(s, pool, addr, size, tid) # {}) = k
  BY <1>1, <1>2 DEF SelectInSeq
<1>4. place = IF k = 0 THEN NoPlace
              ELSE [pool |-> pools[k], i |-> Min(Holding(s, pools[k], addr, size, tid)), addr |-> addr]
  BY <1>3 DEF PlaceIn
<1>5. K \in SUBSET Nat /\ DOMAIN pools = 1 .. Len(pools)
  BY <1>1
<1>6. CASE K = {}
  <2>1. place = NoPlace
    BY <1>2, <1>4, <1>6
  <2>2. \A j \in DOMAIN pools : Holding(s, pools[j], addr, size, tid) = {}
    BY <1>1, <1>5, <1>6
  <2> QED BY <2>1, <2>2
<1>7. CASE K # {}
  <2>1. k \in K
    BY <1>2, <1>5, <1>7, LeastIsMin
  <2>2. k \in DOMAIN pools /\ k # 0 /\ pools[k] \in PoolNames
    BY <1>1, <1>5, <2>1
  <2>3. PICK pool \in PoolNames : pool = pools[k]
    BY <2>2
  <2>4. PICK H : H = Holding(s, pool, addr, size, tid) /\ H # {}
    BY <1>1, <2>1, <2>3
  <2>5. H \in SUBSET Nat
    BY <2>4 DEF Holding, Good
  <2>6. PICK i : i = Min(H) /\ i \in H
    BY <2>4, <2>5, LeastIsMin
  <2>7. Inside(s, pool, i, addr, size) /\ s[pool][i].owner \in {tid, "any"}
    BY <2>4, <2>6, HoldingFacts
  <2>8. place = [pool |-> pool, i |-> i, addr |-> addr]
    BY <1>4, <2>2, <2>3, <2>4, <2>6
  <2>9. i # 0
    BY <2>7 DEF Inside, Good
  <2>10. place # NoPlace
    BY <2>8, <2>9 DEF NoPlace
  <2>11. place.pool = pool /\ place.i = i /\ place.addr = addr
    BY <2>8
  <2> QED BY <2>2, <2>3, <2>4, <2>6, <2>7, <2>10, <2>11
<1> QED BY <1>6, <1>7

LEMMA FastFacts ==
    ASSUME NEW s, Good(s), NEW r, r.addr \in Nat, r.size \in Nat \ {0},
           NEW place, place = Fast(s, r), place # NoPlace
    PROVE  /\ place.pool \in {"conv", "mem"} /\ place.addr = r.addr
           /\ Inside(s, place.pool, place.i, place.addr, r.size)
<1>1. PICK pools \in Seq({"conv", "mem"}) : pools = IF r.conv THEN <<"conv">> ELSE <<"conv", "mem">>
  <2>1. <<"conv">> \in Seq({"conv", "mem"}) /\ <<"conv", "mem">> \in Seq({"conv", "mem"})
    OBVIOUS
  <2>2. CASE r.conv
    BY <2>1, <2>2
  <2>3. CASE ~ r.conv
    BY <2>1, <2>3
  <2> QED BY <2>2, <2>3
<1>2. pools \in Seq(PoolNames)
  BY DEF PoolNames
<1>3. place = PlaceIn(s, pools, r.addr, r.size, "any")
  BY <1>1 DEF Fast
<1>4. /\ \E k \in DOMAIN pools : place.pool = pools[k]
      /\ place.addr = r.addr
      /\ Inside(s, place.pool, place.i, r.addr, r.size)
  BY <1>2, <1>3, PlaceFacts
<1> QED BY <1>4

\* A thread can have a page.
CanHave(s, page, r) ==
    \/ Has(s.conv, page, r.tid) \/ Has(s.conv, page, "any")
    \/ Has(s.alloc, page, r.tid) \/ Has(s.alloc, page, "any")
    \/ ~ r.conv /\ (Has(s.mem, page, r.tid) \/ Has(s.mem, page, "any"))

LEMMA PlaceOfFacts ==
    ASSUME NEW s, Good(s), NEW page \in Nat, NEW r, r.conv \in BOOLEAN, NEW place, place = PlaceOf(s, page, r)
    PROVE  /\ place # NoPlace <=> CanHave(s, page, r)
           /\ place # NoPlace =>
                 /\ place.pool \in PoolNames /\ place.addr = page
                 /\ Inside(s, place.pool, place.i, page, 1)
                 /\ place.pool = "alloc" => Has(s.alloc, page, r.tid) \/ Has(s.alloc, page, "any")
<1>1. PICK pools : pools = IF r.conv THEN <<"conv", "alloc">> ELSE <<"conv", "alloc", "mem">>
  OBVIOUS
<1>2. pools \in Seq(PoolNames)
  <2>1. <<"conv", "alloc">> \in Seq(PoolNames) /\ <<"conv", "alloc", "mem">> \in Seq(PoolNames)
    BY DEF PoolNames
  <2>2. CASE r.conv
    BY <1>1, <2>1, <2>2
  <2>3. CASE ~ r.conv
    BY <1>1, <2>1, <2>3
  <2> QED BY <2>2, <2>3
<1>3. place = PlaceIn(s, pools, page, 1, r.tid)
  BY <1>1 DEF PlaceOf
<1>4. 1 \in Nat \ {0}
  OBVIOUS
<1>5. \/ /\ place = NoPlace
         /\ \A k \in DOMAIN pools : Holding(s, pools[k], page, 1, r.tid) = {}
      \/ /\ place # NoPlace
         /\ \E k \in DOMAIN pools : place.pool = pools[k]
         /\ place.addr = page
         /\ Inside(s, place.pool, place.i, page, 1)
         /\ place.i \in Holding(s, place.pool, page, 1, r.tid)
  BY <1>2, <1>3, <1>4, PlaceFacts
<1>6. "conv" \in PoolNames /\ "mem" \in PoolNames /\ "alloc" \in PoolNames
  BY DEF PoolNames
<1>7. /\ Holding(s, "conv", page, 1, r.tid) # {} <=> Has(s.conv, page, r.tid) \/ Has(s.conv, page, "any")
      /\ Holding(s, "mem", page, 1, r.tid) # {} <=> Has(s.mem, page, r.tid) \/ Has(s.mem, page, "any")
      /\ Holding(s, "alloc", page, 1, r.tid) # {} <=> Has(s.alloc, page, r.tid) \/ Has(s.alloc, page, "any")
  BY <1>6, HoldingPage
<1>8. CanHave(s, page, r) <=> \/ Holding(s, "conv", page, 1, r.tid) # {}
                              \/ Holding(s, "alloc", page, 1, r.tid) # {}
                              \/ ~ r.conv /\ Holding(s, "mem", page, 1, r.tid) # {}
  BY <1>7 DEF CanHave
<1>9. \A q : (\E k \in DOMAIN pools : q = pools[k]) <=> q \in {"conv", "alloc"} \/ (~ r.conv /\ q = "mem")
  <2>1. CASE r.conv
    BY <1>1, <2>1
  <2>2. CASE ~ r.conv
    <3>1. pools = <<"conv", "alloc", "mem">>
      BY <1>1, <2>2
    <3>2. DOMAIN pools = 1 .. 3 /\ pools[1] = "conv" /\ pools[2] = "alloc" /\ pools[3] = "mem"
      BY <3>1
    <3> QED BY <2>2, <3>2
  <2> QED BY <2>1, <2>2
<1>10. CASE place = NoPlace
  <2>1. \A q : (\E k \in DOMAIN pools : q = pools[k]) => Holding(s, q, page, 1, r.tid) = {}
    BY <1>5, <1>10
  <2>2. ~ CanHave(s, page, r)
    BY <1>8, <1>9, <2>1
  <2> QED BY <1>10, <2>2
<1>11. CASE place # NoPlace
  <2>1. PICK q : q = place.pool
    OBVIOUS
  <2>2. q \in {"conv", "alloc"} \/ (~ r.conv /\ q = "mem")
    BY <1>5, <1>9, <1>11, <2>1
  <2>3. Holding(s, q, page, 1, r.tid) # {}
    BY <1>5, <1>11, <2>1
  <2>4. CanHave(s, page, r)
    BY <1>8, <2>2, <2>3
  <2>5. q = "alloc" => Has(s.alloc, page, r.tid) \/ Has(s.alloc, page, "any")
    BY <1>7, <2>3
  <2> QED BY <1>5, <1>6, <1>11, <2>1, <2>2, <2>4, <2>5
<1> QED BY <1>10, <1>11

LEMMA AlreadyFacts ==
    ASSUME NEW s, Good(s), NEW r, r.addr \in Nat, r.size \in Nat \ {0}, Already(s, r),
           NEW p \in r.addr .. r.addr + r.size - 1
    PROVE  Has(s.alloc, p, r.tid) \/ Has(s.alloc, p, "any")
<1>1. "alloc" \in PoolNames
  BY DEF PoolNames
<1>2. PICK i \in Holding(s, "alloc", r.addr, r.size, r.tid) : TRUE
  BY DEF Already
<1>3. Inside(s, "alloc", i, r.addr, r.size) /\ s.alloc[i].owner \in {r.tid, "any"}
  BY <1>1, <1>2, HoldingFacts
<1>4. i \in DOMAIN s.alloc /\ s.alloc[i].low <= r.addr /\ r.addr + r.size - 1 <= s.alloc[i].high
  BY <1>3 DEF Inside
<1>5. s.alloc[i].low \in Nat /\ s.alloc[i].high \in Nat
  <2>1. s.alloc[i] \in Regs
    BY <1>4, GoodPools
  <2> QED BY <2>1 DEF Regs
<1>6. p \in PagesOf(s.alloc[i])
  BY <1>4, <1>5 DEF PagesOf
<1> QED BY <1>3, <1>4, <1>6 DEF Has

LEMMA AnywhereFacts ==
    ASSUME NEW s, Good(s), NEW size \in Nat \ {0}, NEW place, place = Anywhere(s, size)
    PROVE  /\ place # NoPlace =>
                 /\ place.pool = "conv" /\ Inside(s, "conv", place.i, place.addr, size)
           /\ place = NoPlace =>
                 \A i \in DOMAIN s.conv : ~ (Sound(s.conv[i], size) /\ LowA(s.conv[i], size) <= HighA(s.conv[i], size))
<1>1. PICK rs \in Seq(Regs) : rs = s.conv
  BY GoodPools
<1>2. PICK I : I = {i \in 1 .. Len(rs) : Sound(rs[i], size) /\ LowA(rs[i], size) <= HighA(rs[i], size)}
  OBVIOUS
<1>3. Roomy(s, size) = IF I # {} THEN Min(I) ELSE 0
  BY <1>1, <1>2 DEF Roomy, SelectInSeq
<1>4. I \in SUBSET Nat /\ DOMAIN rs = 1 .. Len(rs)
  BY <1>2
<1>5. CASE I = {}
  <2>1. place = NoPlace
    BY <1>3, <1>5 DEF Anywhere
  <2> QED BY <1>1, <1>2, <1>4, <1>5, <2>1
<1>6. CASE I # {}
  <2>1. PICK i \in I : i = Roomy(s, size)
    BY <1>3, <1>4, <1>6, LeastIsMin
  <2>2. i \in DOMAIN rs /\ i # 0
    BY <1>2, <1>4
  <2>3. PICK r \in Regs : r = rs[i]
    BY <2>2
  <2>4. Sound(r, size) /\ LowA(r, size) <= HighA(r, size)
    BY <1>2, <2>3
  <2>5. Chosen(r, size) \in Nat /\ r.low <= Chosen(r, size) /\ Chosen(r, size) + size - 1 <= r.high
    BY <2>4, ChosenWithin
  <2>6. place = [pool |-> "conv", i |-> i, addr |-> Chosen(r, size)]
    BY <1>1, <2>1, <2>2, <2>3 DEF Anywhere
  <2>7. place.pool = "conv" /\ place.i = i /\ place.addr = Chosen(r, size) /\ place # NoPlace
    BY <2>6 DEF NoPlace
  <2>8. Inside(s, "conv", i, Chosen(r, size), size)
    BY <1>1, <2>2, <2>3, <2>5 DEF Inside
  <2> QED BY <2>7, <2>8
<1> QED BY <1>5, <1>6

\* No aligned pages are left when allocate_page finds none anywhere.
LEMMA NowhereFacts ==
    ASSUME NEW s, Good(s), Maximal(s.conv), NEW size \in Nat \ {0}, Anywhere(s, size) = NoPlace,
           NEW a \in Nat, a % size = 0
    PROVE  \E p \in a .. a + size - 1 : ~ In(s.conv, p)
<1>1. SUFFICES ASSUME \A p \in a .. a + size - 1 : In(s.conv, p) PROVE FALSE
  OBVIOUS
<1>2. PICK rs \in Seq(Regs) : rs = s.conv /\ Maximal(rs)
  BY GoodPools
<1>3. PICK i \in DOMAIN rs : a \in PagesOf(rs[i])
  <2>1. a \in a .. a + size - 1
    OBVIOUS
  <2> QED BY <1>1, <1>2, <2>1 DEF In
<1>4. PICK r \in Regs : r = rs[i] /\ r.low \in Nat /\ r.high \in Nat
  <2>1. rs[i] \in Regs
    OBVIOUS
  <2> QED BY <2>1 DEF Regs
<1>5. r.low <= a /\ a <= r.high
  BY <1>3, <1>4 DEF PagesOf
<1>6. ~ In(rs, r.high + 1)
  BY <1>2, <1>3, <1>4 DEF Maximal
<1>7. ~ (r.high + 1 \in a .. a + size - 1)
  BY <1>1, <1>2, <1>6
<1>8. a + size - 1 <= r.high
  BY <1>4, <1>5, <1>7
<1>9. Sound(r, size) /\ LowA(r, size) <= HighA(r, size)
  BY <1>4, <1>5, <1>8, RoomForAligned
<1> QED BY <1>2, <1>4, <1>9, AnywhereFacts

-----------------------------------------------------------------------------
(***************************************************************************)
(* The memory descriptors of a machine.                                    *)
(***************************************************************************)
Types == {"conventional", "bootloader", "architecture", "reserved", "shared"}
Descs == {d \in [low : Nat, high : Nat, type : Types] : d.low <= d.high /\ d.high <= LastPart}
Others == {d \in Descs : d.type # "conventional"}

LEMMA LastPartFacts ==
    LastPart \in Nat /\ LastPart + 1 = Word * Parts /\ Parts \in Nat \ {0} /\ Word \in Nat \ {0}
<1>1. Parts \in Nat \ {0} /\ Word \in Nat \ {0}
  BY KickstartAssumption
<1>2. Word * Parts \in Nat /\ Word * Parts > 0
  BY <1>1
<1> QED BY <1>1, <1>2 DEF LastPart

LEMMA DescFacts ==
    ASSUME NEW low \in Nat, NEW high \in Nat, low <= high, high <= LastPart, NEW type \in Types
    PROVE  /\ Desc(low, high, type) \in Descs
           /\ type # "conventional" => Desc(low, high, type) \in Others
BY DEF Desc, Descs, Others

LEMMA OthersDescs ==
    ASSUME NEW s \in Seq(Others)
    PROVE  s \in Seq(Descs)
BY DEF Others

LEMMA JoinedSeq ==
    ASSUME NEW S, NEW a \in Seq(S), NEW b \in Seq(S)
    PROVE  a \o b \in Seq(S)
OBVIOUS

BiosDesc(e) == Desc(e.base, e.base + e.size - 1, IF e.usable THEN "conventional" ELSE "architecture")
BiosDescs(mc) == [i \in DOMAIN mc.bios |-> BiosDesc(mc.bios[i])]
EntryOK(e) == e \in [base : Nat, size : Nat \ {0}, usable : BOOLEAN] /\ e.base + e.size - 1 <= LastPart

LEMMA BiosFacts ==
    ASSUME NEW mc, WellFormed(mc)
    PROVE  /\ mc.bios \in Seq([base : Nat, size : Nat \ {0}, usable : BOOLEAN])
           /\ \A i \in DOMAIN mc.bios : EntryOK(mc.bios[i])
           /\ BiosDescs(mc) \in Seq(Descs)
<1>1. PICK n \in Nat : n = Len(mc.bios) /\ DOMAIN mc.bios = 1 .. n
  BY DEF WellFormed
<1>2. \A i \in DOMAIN mc.bios : EntryOK(mc.bios[i])
  <2>1. /\ mc.bios \in Seq([base : Nat, size : Nat \ {0}, usable : BOOLEAN])
        /\ \A i \in DOMAIN mc.bios : mc.bios[i].base + mc.bios[i].size - 1 <= LastPart
    BY DEF WellFormed
  <2>2. \A i \in DOMAIN mc.bios : mc.bios[i] \in [base : Nat, size : Nat \ {0}, usable : BOOLEAN]
    <3>1. PICK E : E = [base : Nat, size : Nat \ {0}, usable : BOOLEAN]
      OBVIOUS
    <3>2. PICK bios \in Seq(E) : bios = mc.bios
      BY <2>1, <3>1
    <3>3. \A i \in DOMAIN bios : bios[i] \in E
      OBVIOUS
    <3> QED BY <3>1, <3>2, <3>3
  <2> QED BY <2>1, <2>2 DEF EntryOK
<1>3. ASSUME NEW e, EntryOK(e) PROVE BiosDesc(e) \in Descs
  <2>1. /\ e.base \in Nat /\ e.base + e.size - 1 \in Nat /\ e.base <= e.base + e.size - 1
        /\ e.base + e.size - 1 <= LastPart
    BY <1>3 DEF EntryOK
  <2>2. PICK type \in Types : type = IF e.usable THEN "conventional" ELSE "architecture"
    BY DEF Types
  <2> QED BY <2>1, <2>2, DescFacts DEF BiosDesc
<1>4. \A i \in 1 .. n : BiosDesc(mc.bios[i]) \in Descs
  BY <1>1, <1>2, <1>3
<1>5. BiosDescs(mc) \in Seq(Descs)
  BY <1>1, <1>4 DEF BiosDescs
<1> QED BY <1>2, <1>5 DEF WellFormed

LEMMA SmallSeq ==
    ASSUME NEW S, NEW T \in SUBSET S, \A x, y \in T : x = y
    PROVE  SetToSeq(T) \in Seq(S)
<1>1. CASE T = {}
  <2>1. Cardinality(T) = 0
    BY <1>1, FS_EmptySet
  <2>2. PICK f : f = [i \in 1 .. 0 |-> i]
    OBVIOUS
  <2>3. f \in [1 .. Cardinality(T) -> T] /\ IsInjective(f)
    BY <2>1, <2>2 DEF IsInjective
  <2>4. SetToSeq(T) \in [1 .. Cardinality(T) -> T]
    BY <2>3 DEF SetToSeq
  <2> QED BY <1>1, <2>1, <2>4
<1>2. CASE T # {}
  <2>1. PICK x \in S : T = {x}
    BY <1>2
  <2>2. Cardinality(T) = 1
    BY <2>1, FS_Singleton
  <2>3. PICK f : f = [i \in 1 .. 1 |-> x]
    OBVIOUS
  <2>4. f \in [1 .. Cardinality(T) -> T] /\ IsInjective(f)
    BY <2>1, <2>2, <2>3 DEF IsInjective
  <2>5. SetToSeq(T) \in [1 .. Cardinality(T) -> T]
    BY <2>4 DEF SetToSeq
  <2>6. PICK g : g = SetToSeq(T) /\ g \in [1 .. 1 -> S]
    BY <2>2, <2>5
  <2>7. g = <<g[1]>> /\ g[1] \in S
    BY <2>6
  <2>8. \A y \in S : <<y>> \in Seq(S)
    OBVIOUS
  <2>9. g \in Seq(S)
    BY <2>7, <2>8
  <2> QED BY <2>6, <2>9
<1> QED BY <1>1, <1>2

LEMMA KmemFacts ==
    ASSUME NEW mc, WellFormed(mc)
    PROVE  Kmem(mc) \in Seq(Others)
<1>1. PICK kmem \in Nat : kmem = mc.kmem
  BY DEF WellFormed
<1>2. MAX_KMEM_END \in Nat /\ Parts \in Nat /\ KmemLimit \in Nat
  BY KickstartAssumption DEF KmemLimit
<1>3. \A i \in DOMAIN mc.bios : EntryOK(mc.bios[i])
  BY BiosFacts
<1>4. \A x, y \in KmemEnds(mc) : x = y
  <2>1. KmemEntries(mc) \in SUBSET Nat
    <3>1. DOMAIN mc.bios \in SUBSET Nat
      BY BiosFacts
    <3> QED BY <3>1 DEF KmemEntries
  <2>2. \A i, j \in {h \in KmemEntries(mc) : \A k \in KmemEntries(mc) : h <= k} : i = j
    BY <2>1
  <2> QED BY <2>2 DEF KmemEnds
<1>5. ASSUME NEW end \in KmemEnds(mc)
      PROVE  end \in Nat /\ kmem # 0 /\ kmem <= end /\ end <= LastPart + 1
  <2>1. kmem # 0
    BY <1>1, <1>5 DEF KmemEnds
  <2>2. CASE ~ mc.mmap
    <3>1. end = mc.bios[2].base + mc.bios[2].size /\ 2 \in DOMAIN mc.bios /\ kmem <= end
      BY <1>1, <1>5, <2>1, <2>2 DEF KmemEnds, WellFormed
    <3>2. EntryOK(mc.bios[2])
      BY <1>3, <3>1
    <3> QED BY <2>1, <3>1, <3>2, LastPartFacts DEF EntryOK
  <2>3. CASE mc.mmap
    <3>1. PICK i \in KmemEntries(mc) : end = KmemEnd(mc.bios[i])
      BY <1>1, <1>5, <2>1, <2>3 DEF KmemEnds
    <3>2. i \in DOMAIN mc.bios /\ mc.bios[i].size >= kmem /\ mc.bios[i].base <= KmemLimit - kmem
      BY <1>1 DEF KmemEntries
    <3>3. PICK e : e = mc.bios[i] /\ EntryOK(e)
      BY <1>3, <3>2
    <3>4. e.base \in Nat /\ e.size \in Nat /\ e.base + e.size <= LastPart + 1
      BY <3>3, LastPartFacts DEF EntryOK
    <3>5. end = e.base + e.size \/ (end = KmemLimit /\ KmemLimit <= e.base + e.size)
      BY <1>2, <3>1, <3>3, <3>4 DEF KmemEnd
    <3> QED BY <1>2, <2>1, <3>2, <3>3, <3>4, <3>5, LastPartFacts
  <2> QED BY <2>2, <2>3 DEF WellFormed
<1>6. PICK T : T = {Desc(end - mc.kmem, end - 1, "reserved") : end \in KmemEnds(mc)}
  OBVIOUS
<1>7. T \in SUBSET Others
  <2> SUFFICES ASSUME NEW end \in KmemEnds(mc) PROVE Desc(end - kmem, end - 1, "reserved") \in Others
    BY <1>1, <1>6
  <2>1. end \in Nat /\ kmem # 0 /\ kmem <= end /\ end <= LastPart + 1
    BY <1>5
  <2>2. /\ end - kmem \in Nat /\ end - 1 \in Nat /\ end - kmem <= end - 1 /\ end - 1 <= LastPart
    BY <2>1, LastPartFacts
  <2>3. "reserved" \in Types /\ "reserved" # "conventional"
    BY DEF Types
  <2> QED BY <2>2, <2>3, DescFacts
<1>8. \A x, y \in T : x = y
  BY <1>4, <1>6
<1>9. SetToSeq(T) \in Seq(Others)
  BY <1>7, <1>8, SmallSeq
<1> QED BY <1>6, <1>9 DEF Kmem

Shared == Desc(0, LastPart, "shared")
Holes == <<Desc(VgaStart * Parts, RomStart * Parts - 1, "shared"),
           Desc(RomStart * Parts, RomEnd * Parts - 1, "shared")>>

LEMMA FixedFacts ==
    <<Shared>> \in Seq(Others) /\ Holes \in Seq(Others)
<1>1. "shared" \in Types /\ "shared" # "conventional"
  BY DEF Types
<1>2. Shared \in Others
  BY <1>1, DescFacts, LastPartFacts DEF Shared
<1>3. PICK v, r, e \in Nat : v = VgaStart /\ r = RomStart /\ e = RomEnd /\ v < r /\ r < e /\ e < Word
  BY KickstartAssumption
<1>4. ASSUME NEW a \in Nat, NEW b \in Nat, a < b, b <= Word
      PROVE  a * Parts \in Nat /\ b * Parts - 1 \in Nat /\ a * Parts <= b * Parts - 1 /\ b * Parts - 1 <= LastPart
  <2>1. a * Parts \in Nat /\ b * Parts \in Nat /\ Word * Parts \in Nat
    BY LastPartFacts
  <2>2. (a + 1) * Parts <= b * Parts /\ b * Parts <= Word * Parts
    BY <1>4, LastPartFacts
  <2>3. (a + 1) * Parts = a * Parts + Parts /\ Parts >= 1
    BY LastPartFacts
  <2> QED BY <2>1, <2>2, <2>3, LastPartFacts
<1>5. Desc(v * Parts, r * Parts - 1, "shared") \in Others
  <2>1. v * Parts \in Nat /\ r * Parts - 1 \in Nat /\ v * Parts <= r * Parts - 1 /\ r * Parts - 1 <= LastPart
    BY <1>3, <1>4, LastPartFacts
  <2> QED BY <1>1, <2>1, DescFacts
<1>6. Desc(r * Parts, e * Parts - 1, "shared") \in Others
  <2>1. r * Parts \in Nat /\ e * Parts - 1 \in Nat /\ r * Parts <= e * Parts - 1 /\ e * Parts - 1 <= LastPart
    BY <1>3, <1>4, LastPartFacts
  <2> QED BY <1>1, <2>1, DescFacts
<1>7. \A x, y \in Others : <<x>> \in Seq(Others) /\ <<x, y>> \in Seq(Others)
  OBVIOUS
<1> QED BY <1>2, <1>3, <1>5, <1>6, <1>7 DEF Holes

ModuleOK(mod) == mod.start \in Nat /\ mod.end \in Nat /\ mod.start < mod.end /\ mod.end <= LastPart

LEMMA ModuleFacts ==
    ASSUME NEW mc, WellFormed(mc)
    PROVE  /\ \E n \in Nat : n = Len(mc.mods) /\ n >= 3 /\ DOMAIN mc.mods = 1 .. n
           /\ \A i \in DOMAIN mc.mods : ModuleOK(mc.mods[i])
<1>1. PICK M : M = [start : Nat, end : Nat]
  OBVIOUS
<1>2. PICK mods \in Seq(M) : mods = mc.mods /\ Len(mods) >= 3
  BY <1>1 DEF WellFormed
<1>3. \A i \in DOMAIN mods : mods[i].start < mods[i].end /\ mods[i].end <= LastPart
  BY <1>2 DEF WellFormed
<1>4. \A i \in DOMAIN mods : mods[i] \in M
  OBVIOUS
<1>5. \A i \in DOMAIN mods : ModuleOK(mods[i])
  BY <1>1, <1>3, <1>4 DEF ModuleOK
<1> QED BY <1>2, <1>5

LEMMA ServerDescs ==
    ASSUME NEW mc, WellFormed(mc)
    PROVE  /\ install_servers(mc) \in Seq(Others)
           /\ protect_modules(mc) \in Seq(Others)
           /\ KernelImage(mc) \in Others
<1>1. PICK n \in Nat : n = Len(mc.mods) /\ n >= 3 /\ DOMAIN mc.mods = 1 .. n
  BY ModuleFacts
<1>2. "bootloader" \in Types /\ "bootloader" # "conventional" /\ "reserved" \in Types /\ "reserved" # "conventional"
  BY DEF Types
<1>3. ASSUME NEW i \in 1 .. n
      PROVE  /\ Desc(mc.mods[i].start, mc.mods[i].end, "bootloader") \in Others
             /\ Desc(mc.mods[i].start, mc.mods[i].end - 1, "bootloader") \in Others
             /\ Desc(mc.mods[i].start, mc.mods[i].end - 1, "reserved") \in Others
  <2>1. PICK a, b \in Nat : a = mc.mods[i].start /\ b = mc.mods[i].end /\ a < b /\ b <= LastPart
    BY <1>1, ModuleFacts DEF ModuleOK
  <2>2. b - 1 \in Nat /\ a <= b - 1 /\ b - 1 <= LastPart /\ a <= b
    BY <2>1, LastPartFacts
  <2>3. Desc(a, b, "bootloader") \in Others
    BY <1>2, <2>1, <2>2, DescFacts
  <2>4. Desc(a, b - 1, "bootloader") \in Others /\ Desc(a, b - 1, "reserved") \in Others
    BY <1>2, <2>2, DescFacts
  <2> QED BY <2>1, <2>3, <2>4
<1>4. install_servers(mc) \in Seq(Others)
  <2>1. \A i \in 1 .. 2 : i + 1 \in 1 .. n
    BY <1>1
  <2>2. \A i \in 1 .. 2 : Desc(mc.mods[i + 1].start, mc.mods[i + 1].end, "bootloader") \in Others
    BY <1>3, <2>1
  <2> QED BY <2>2 DEF install_servers
<1>5. protect_modules(mc) \in Seq(Others)
  <2>1. PICK k \in Nat : k = n - 3
    <3>1. \A j \in Nat : j >= 3 => j - 3 \in Nat
      OBVIOUS
    <3> QED BY <1>1, <3>1
  <2>2. \A i \in 1 .. k : i + 3 \in 1 .. n
    BY <1>1, <2>1
  <2>3. \A i \in 1 .. k : Desc(mc.mods[i + 3].start, mc.mods[i + 3].end - 1, "bootloader") \in Others
    BY <1>3, <2>2
  <2>4. protect_modules(mc) = [i \in 1 .. k |-> Desc(mc.mods[i + 3].start, mc.mods[i + 3].end - 1, "bootloader")]
    BY <1>1, <2>1 DEF protect_modules
  <2> QED BY <2>3, <2>4
<1>6. KernelImage(mc) \in Others
  <2>1. 1 \in 1 .. n
    BY <1>1
  <2> QED BY <1>3, <2>1 DEF KernelImage
<1> QED BY <1>4, <1>5, <1>6

LEMMA PlacedFacts ==
    ASSUME NEW mc, NEW descs \in Seq(Descs), NEW size \in Nat \ {0}
    PROVE  Placed(mc, descs, size) \in Seq(Others)
<1>1. PICK highs : highs = {0} \cup {descs[i].high : i \in {j \in DOMAIN descs : descs[j].type = "conventional"}}
  OBVIOUS
<1>2. \A i \in DOMAIN descs : descs[i].high \in Nat /\ descs[i].high <= LastPart
  <2>1. \A i \in DOMAIN descs : descs[i] \in Descs
    OBVIOUS
  <2> QED BY <2>1 DEF Descs
<1>3. highs \in SUBSET Nat /\ \A x \in highs : x <= LastPart
  BY <1>1, <1>2, LastPartFacts
<1>4. PhysMax(descs) \in highs
  <2>1. highs # {}
    BY <1>1
  <2>2. PhysMax(descs) = Max(highs)
    BY <1>1 DEF PhysMax
  <2> QED BY <1>3, <2>1, <2>2, GreatestIsMax, LastPartFacts
<1>5. PICK max \in Nat : max = PhysMax(descs) /\ max <= LastPart
  BY <1>3, <1>4
<1>6. PICK start : start = find_free_mem_region(mc, descs, size)
  OBVIOUS
<1>7. CASE start = 0
  BY <1>6, <1>7 DEF Placed
<1>8. CASE start # 0
  <2>1. PICK free : free = {s \in {k * size : k \in 0 .. LastPart} :
                              /\ s + size <= PhysMax(descs)
                              /\ FreeOfModules(mc, s, s + size - 1)
                              /\ FreeOfServers(mc, s, s + size - 1)
                              /\ FreeOfDescriptors(descs, s, s + size - 1)}
    OBVIOUS
  <2>2. start = IF free = {} THEN 0 ELSE Min(free)
    BY <1>6, <2>1 DEF find_free_mem_region
  <2>3. \A s \in free : s \in Nat /\ s + size <= max
    <3>1. \A k \in 0 .. LastPart : k * size \in Nat
      BY LastPartFacts
    <3> QED BY <1>5, <2>1, <3>1
  <2>4. start \in free
    BY <1>8, <2>2, <2>3, LeastIsMin
  <2>5. start \in Nat /\ start + size <= max
    BY <2>3, <2>4
  <2>6. start + size - 1 \in Nat /\ start <= start + size - 1 /\ start + size - 1 <= LastPart
    BY <1>5, <2>5, LastPartFacts
  <2>7. Desc(start, start + size - 1, "bootloader") \in Others
    <3>1. "bootloader" \in Types /\ "bootloader" # "conventional"
      BY DEF Types
    <3> QED BY <2>5, <2>6, <3>1, DescFacts
  <2>8. Placed(mc, descs, size) = <<Desc(start, start + size - 1, "bootloader")>>
    BY <1>6, <1>8 DEF Placed
  <2>9. \A x \in Others : <<x>> \in Seq(Others)
    OBVIOUS
  <2> QED BY <2>7, <2>8, <2>9
<1> QED BY <1>7, <1>8

\* What the descriptors of a machine are, in their order.
LEMMA TablesFacts ==
    ASSUME NEW mc, WellFormed(mc)
    PROVE  /\ <<Shared>> \o BiosDescs(mc) \in Seq(Descs)
           /\ install_memory(mc) = <<Shared>> \o BiosDescs(mc) \o Kmem(mc) \o Holes
           /\ install_memory(mc) \in Seq(Descs)
           /\ WithoutTables(mc) \in Seq(Descs)
           /\ Bootinfo(mc) \in Seq(Others) /\ Mbi(mc) \in Seq(Others)
           /\ Descriptors(mc) \in Seq(Descs)
           /\ MemoryDescs(mc) = Descriptors(mc) \o <<KernelImage(mc)>>
           /\ MemoryDescs(mc) \in Seq(Descs) /\ MemoryDescs(mc) # <<>>
<1>1. install_memory(mc) = <<Shared>> \o BiosDescs(mc) \o Kmem(mc) \o Holes
  BY DEF install_memory, Shared, BiosDescs, BiosDesc, Holes
<1>2. /\ <<Shared>> \in Seq(Descs) /\ BiosDescs(mc) \in Seq(Descs) /\ Kmem(mc) \in Seq(Descs) /\ Holes \in Seq(Descs)
      /\ install_servers(mc) \in Seq(Descs) /\ protect_modules(mc) \in Seq(Descs)
  BY FixedFacts, BiosFacts, KmemFacts, ServerDescs, OthersDescs
<1>3. <<Shared>> \o BiosDescs(mc) \in Seq(Descs)
  BY <1>2, JoinedSeq
<1>4. <<Shared>> \o BiosDescs(mc) \o Kmem(mc) \in Seq(Descs)
  BY <1>2, <1>3, JoinedSeq
<1>5. install_memory(mc) \in Seq(Descs)
  BY <1>1, <1>2, <1>4, JoinedSeq
<1>6. install_memory(mc) \o install_servers(mc) \in Seq(Descs)
  BY <1>2, <1>5, JoinedSeq
<1>7. WithoutTables(mc) \in Seq(Descs)
  BY <1>2, <1>6, JoinedSeq DEF WithoutTables
<1>8. Bootinfo(mc) \in Seq(Others) /\ Bootinfo(mc) \in Seq(Descs)
  BY <1>7, LastPartFacts, PlacedFacts, OthersDescs DEF Bootinfo
<1>9. WithoutTables(mc) \o Bootinfo(mc) \in Seq(Descs)
  BY <1>7, <1>8, JoinedSeq
<1>10. Mbi(mc) \in Seq(Others) /\ Mbi(mc) \in Seq(Descs)
  <2>1. mc.mbiSize * Parts \in Nat \ {0}
    <3>1. \A x, y \in Nat \ {0} : x * y \in Nat \ {0}
      OBVIOUS
    <3>2. mc.mbiSize \in Nat \ {0}
      BY DEF WellFormed
    <3> QED BY <3>1, <3>2, LastPartFacts
  <2> QED BY <1>9, <2>1, PlacedFacts, OthersDescs DEF Mbi
<1>11. Descriptors(mc) \in Seq(Descs)
  BY <1>9, <1>10, JoinedSeq DEF Descriptors
<1>12. KernelImage(mc) \in Descs
  BY ServerDescs DEF Others
<1>13. ASSUME NEW s \in Seq(Descs), NEW x \in Descs
       PROVE  Append(s, x) = s \o <<x>> /\ Append(s, x) \in Seq(Descs) /\ Append(s, x) # <<>>
  OBVIOUS
<1>14. MemoryDescs(mc) = Descriptors(mc) \o <<KernelImage(mc)>> /\ MemoryDescs(mc) \in Seq(Descs) /\ MemoryDescs(mc) # <<>>
  BY <1>11, <1>12, <1>13 DEF MemoryDescs
<1> QED BY <1>1, <1>3, <1>5, <1>7, <1>8, <1>10, <1>11, <1>14

\* The pages of a descriptor.
DescPages(d) == (d.low \div Parts) .. (d.high \div Parts)

LEMMA DescPagesFacts ==
    ASSUME NEW d \in Descs
    PROVE  /\ d.low \div Parts \in Nat /\ d.high \div Parts \in Nat
           /\ d.low \div Parts <= d.high \div Parts /\ d.high \div Parts < Word
           /\ PoolFor(d.type) \in PoolNames /\ OwnerFor(d.type) \in Owners
           /\ PoolFor(d.type) # "alloc" => OwnerFor(d.type) = "any"
           /\ PoolFor(d.type) = "conv" <=> d.type = "conventional"
<1>1. PICK low, high \in Nat : low = d.low /\ high = d.high /\ low <= high /\ high <= LastPart
  BY DEF Descs
<1>2. PICK P \in Nat \ {0} : P = Parts
  BY LastPartFacts
<1>3. PICK a \in Nat : a = low \div P /\ a * P <= low /\ low < a * P + P
  BY DivFacts
<1>4. PICK b \in Nat : b = high \div P /\ b * P <= high /\ high < b * P + P
  BY DivFacts
<1>5. a <= b
  <2>1. SUFFICES ASSUME b + 1 <= a PROVE FALSE
    OBVIOUS
  <2>2. (b + 1) * P <= a * P
    BY <2>1
  <2>3. (b + 1) * P = b * P + P /\ b * P \in Nat /\ a * P \in Nat
    OBVIOUS
  <2> QED BY <1>1, <1>3, <1>4, <2>2, <2>3
<1>6. b < Word
  <2>1. SUFFICES ASSUME Word <= b PROVE FALSE
    BY LastPartFacts
  <2>2. PICK W \in Nat : W = Word /\ W <= b
    BY <2>1, LastPartFacts
  <2>3. W * P <= b * P /\ W * P \in Nat /\ b * P \in Nat
    BY <2>2
  <2>4. high < W * P
    <3>1. LastPart \in Nat /\ LastPart + 1 = W * P
      BY <1>2, <2>2, LastPartFacts
    <3> QED BY <1>1, <2>3, <3>1
  <2> QED BY <1>4, <2>3, <2>4
<1>7. d.type \in Types
  BY DEF Descs
<1>8. /\ PoolFor(d.type) \in PoolNames /\ OwnerFor(d.type) \in Owners
      /\ PoolFor(d.type) # "alloc" => OwnerFor(d.type) = "any"
      /\ PoolFor(d.type) = "conv" <=> d.type = "conventional"
  BY <1>7 DEF Types, PoolFor, OwnerFor, PoolNames, Owners
<1> QED BY <1>1, <1>2, <1>3, <1>4, <1>5, <1>6, <1>8

Reqs == [tid : Owners, addr : Nat, size : Nat, conv : BOOLEAN, at : Nat, took : SUBSET Nat, fed : BOOLEAN]
OnePage == {r \in Reqs : r.size = 1}

LEMMA NoReqFacts ==
    NoReq \in Reqs
BY DEF NoReq, Reqs, Owners

LEMMA RegisteredFacts ==
    ASSUME NEW mc, WellFormed(mc)
    PROVE  Registered(mc) # <<>> /\ Registered(mc) \in Seq(OnePage)
<1> DEFINE pagesOf(i, tid) == [k \in 1 .. Cardinality(ServerPages(mc, i)) |->
                                  [NoReq EXCEPT !.addr = mc.mods[i].start \div Parts + k - 1, !.size = 1, !.tid = tid]]
<1>1. ASSUME NEW i \in 2 .. 3, NEW tid \in Owners
      PROVE  pagesOf(i, tid) \in Seq(OnePage) /\ Len(pagesOf(i, tid)) # 0
  <2>1. ModuleOK(mc.mods[i])
    <3>1. i \in DOMAIN mc.mods
      BY ModuleFacts
    <3> QED BY <3>1, ModuleFacts
  <2>2. PICK a, b \in Nat : a = mc.mods[i].start /\ b = mc.mods[i].end /\ a < b /\ b <= LastPart
    BY <2>1 DEF ModuleOK
  <2>3. PICK d : d = Desc(a, b - 1, "reserved") /\ d \in Descs
    <3>1. b - 1 \in Nat /\ a <= b - 1 /\ b - 1 <= LastPart /\ "reserved" \in Types
      BY <2>2, LastPartFacts DEF Types
    <3> QED BY <3>1, DescFacts
  <2>4. d.low = a /\ d.high = b - 1
    BY <2>3 DEF Desc
  <2>5. PICK low, high \in Nat : low = a \div Parts /\ high = (b - 1) \div Parts /\ low <= high
    BY <2>3, <2>4, DescPagesFacts
  <2>6. PICK n \in Nat : n = Cardinality(ServerPages(mc, i)) /\ n # 0
    <3>1. ServerPages(mc, i) = low .. high
      BY <2>2, <2>5 DEF ServerPages
    <3>2. Cardinality(low .. high) = high - low + 1
      BY <2>5, FS_Interval
    <3>3. high - low + 1 \in Nat /\ high - low + 1 # 0
      BY <2>5
    <3> QED BY <3>1, <3>2, <3>3
  <2>7. pagesOf(i, tid) = [k \in 1 .. n |-> [NoReq EXCEPT !.addr = low + k - 1, !.size = 1, !.tid = tid]]
    BY <2>2, <2>5, <2>6
  <2>8. ASSUME NEW k \in 1 .. n PROVE [NoReq EXCEPT !.addr = low + k - 1, !.size = 1, !.tid = tid] \in OnePage
    <3>1. PICK x \in Nat : x = low + k - 1
      OBVIOUS
    <3>2. [NoReq EXCEPT !.addr = x, !.size = 1, !.tid = tid] \in OnePage
      BY NoReqFacts DEF Reqs, OnePage
    <3> QED BY <3>1, <3>2
  <2>9. PICK f : f = [k \in 1 .. n |-> [NoReq EXCEPT !.addr = low + k - 1, !.size = 1, !.tid = tid]]
    OBVIOUS
  <2>10. f \in [1 .. n -> OnePage]
    BY <2>8, <2>9
  <2>11. f \in Seq(OnePage) /\ Len(f) = n
    BY <2>10
  <2> QED BY <2>6, <2>7, <2>9, <2>11
<1>2. PICK s : s = pagesOf(2, "sigma0")
  OBVIOUS
<1>3. PICK t : t = pagesOf(3, "root")
  OBVIOUS
<1>4. Registered(mc) = s \o t
  BY <1>2, <1>3 DEF Registered
<1>5. "sigma0" \in Owners /\ "root" \in Owners
  BY DEF Owners
<1> HIDE DEF pagesOf
<1>6. s \in Seq(OnePage) /\ Len(s) # 0 /\ t \in Seq(OnePage)
  BY <1>1, <1>2, <1>3, <1>5
<1>7. s \o t \in Seq(OnePage) /\ Len(s \o t) # 0
  BY <1>6
<1>8. s \o t # <<>>
  BY <1>7
<1> QED BY <1>4, <1>7, <1>8

-----------------------------------------------------------------------------
(***************************************************************************)
(* The invariant.                                                          *)
(***************************************************************************)
\* Every page is in a region, all regions are apart, and what is free is anybody's.
PoolsOK ==
    /\ Good(m) /\ AllFree(m) /\ Maximal(m.conv)
    /\ ~ m.dead => \A p \in Pages : Covered(m, p)

\* While sigma0 starts, nobody has got anything.
Starting ==
    /\ pc \in {"init", "register"} => req = NoReq
    /\ pc = "init" => /\ Sorted(m) /\ next \in DOMAIN MemoryDescs(machine)
                      /\ \A p \in Pages : granted[p] = {}
    /\ pc = "register" => next \in DOMAIN Registered(machine)

\* A free page is free because of the last descriptor that mentions it.
Open(descs, n, p) ==
    \E k \in 1 .. n : /\ descs[k].type = "conventional" /\ p \in DescPages(descs[k])
                      /\ \A j \in k + 1 .. n : p \notin DescPages(descs[j])
Read == IF pc = "init" THEN next - 1 ELSE Len(MemoryDescs(machine))
Described == \A p : In(m.conv, p) => Open(MemoryDescs(machine), Read, p)

Owned(s, p, tid) == Has(s.alloc, p, tid) \/ Has(s.alloc, p, "any")
Recorded ==
    /\ granted \in [Pages -> SUBSET Users]
    /\ \A p \in Pages : \A tid \in granted[p] : Owned(m, p, tid)

\* What the slow way has got so far, and that the rest is still to be had unless
\* sigma0 has fed its list.
Slowly ==
    pc = "slow" =>
        /\ req.tid \in Users /\ req.size # 0 /\ req.addr # AnyAddress
        /\ req.at \in req.addr .. req.addr + req.size - 1
        /\ \A p \in req.addr .. req.at - 1 : Owned(m, p, req.tid)
        /\ req.fed \/ \A p \in req.at .. req.addr + req.size - 1 : CanHave(m, p, req)

Refused ==
    pc = "serve" /\ req # NoReq /\ req.size # 0 =>
        IF req.addr = AnyAddress
        THEN \A a \in Pages : a % req.size = 0 => \E p \in a .. a + req.size - 1 : ~ In(m.conv, p)
        ELSE \/ req.addr + req.size = Word
             \/ \E p \in req.addr .. req.addr + req.size - 1 : ~ CanHave(m, p, req)

Inv ==
    /\ machine \in Machines /\ pc \in {"init", "register", "serve", "slow", "hung"} /\ req \in Reqs
    /\ PoolsOK /\ Starting /\ Described /\ Recorded /\ Slowly /\ Refused /\ RefusedTakesNothing

LEMMA InitInv ==
    ASSUME Init
    PROVE  Inv
<1>1. Word \in Nat \ {0}
  BY LastPartFacts
<1>2. PICK r : r = Region(0, Word - 1, "any")
  OBVIOUS
<1>3. r \in Regs /\ r.low = 0 /\ r.high = Word - 1 /\ r.owner = "any"
  BY <1>1, <1>2 DEF Region, Regs, Owners
<1>4. m = [conv |-> <<>>, mem |-> <<r>>, alloc |-> <<>>, list |-> NumInitial - 1, dead |-> FALSE]
  BY <1>2 DEF Init
<1>5. m.conv = <<>> /\ m.mem = <<r>> /\ m.alloc = <<>> /\ m.dead = FALSE /\ DOMAIN m = Fields
  BY <1>4 DEF Fields, PoolNames
<1>6. /\ <<>> \in Seq(Regs) /\ DOMAIN <<>> = {}
      /\ <<r>> \in Seq(Regs) /\ DOMAIN <<r>> = {1} /\ <<r>>[1] = r
  BY <1>3
<1>7. /\ \A p : ~ In(m.conv, p) /\ ~ In(m.alloc, p)
      /\ \A p : \A o : ~ Has(m.conv, p, o) /\ ~ Has(m.alloc, p, o) /\ (Has(m.mem, p, o) => o = "any")
  BY <1>3, <1>5, <1>6 DEF In, Has
<1>8. Good(m)
  <2>1. Apart(m.conv) /\ Apart(m.mem) /\ Apart(m.alloc)
    BY <1>5, <1>6 DEF Apart
  <2>2. m.conv \in Seq(Regs) /\ m.mem \in Seq(Regs) /\ m.alloc \in Seq(Regs)
    BY <1>5, <1>6
  <2> QED BY <1>5, <1>7, <2>1, <2>2, PoolsGood
<1>9. AllFree(m)
  BY <1>7 DEF AllFree
<1>10. Maximal(m.conv)
  BY <1>5, <1>6 DEF Maximal
<1>11. \A p \in Pages : Covered(m, p)
  <2>1. \A p \in Pages : p \in PagesOf(r)
    BY <1>3 DEF Pages, PagesOf
  <2>2. \A p \in Pages : In(m.mem, p)
    BY <1>5, <1>6, <2>1 DEF In
  <2> QED BY <2>2 DEF Covered
<1>12. Sorted(m)
  <2>1. \A g : Gaps(m.conv, g) /\ Gaps(m.alloc, g)
    BY <1>5, <1>6 DEF Gaps
  <2>2. Gaps(m.mem, 0)
    BY <1>1, <1>3, <1>5, <1>6 DEF Gaps
  <2>3. Ordered(m)
    BY <2>1, <2>2 DEF Ordered, PoolNames
  <2> QED BY <1>8, <1>9, <2>1, <2>3 DEF Sorted
<1>13. machine \in Machines /\ pc = "init" /\ next = 1 /\ req = NoReq /\ granted = [p \in Pages |-> {}]
  BY DEF Init
<1>14. 1 \in DOMAIN MemoryDescs(machine)
  <2>1. MemoryDescs(machine) \in Seq(Descs) /\ MemoryDescs(machine) # <<>>
    BY <1>13, TablesFacts, Sigma0Assumption
  <2> QED BY <2>1
<1>15. Starting
  BY <1>12, <1>13, <1>14 DEF Starting
<1>16. Recorded
  BY <1>13 DEF Recorded
<1>17. PoolsOK
  BY <1>8, <1>9, <1>10, <1>11 DEF PoolsOK
<1>18. Described
  BY <1>7 DEF Described
<1>19. Slowly /\ Refused /\ RefusedTakesNothing
  BY <1>13 DEF Slowly, Refused, RefusedTakesNothing
<1> QED BY <1>13, <1>15, <1>16, <1>17, <1>18, <1>19, NoReqFacts DEF Inv

LEMMA DescribeInv ==
    ASSUME Inv, Describe
    PROVE  Inv'
<1>1. pc = "init" /\ ~ m.dead /\ UNCHANGED <<machine, req, granted, served>>
  BY DEF Describe
<1>2. PICK descs \in Seq(Descs) : descs = MemoryDescs(machine)
  BY TablesFacts, Sigma0Assumption DEF Inv
<1>3. next \in DOMAIN descs /\ next \in Nat /\ DOMAIN descs = 1 .. Len(descs) /\ Len(descs) \in Nat /\ Sorted(m)
  <2>1. next \in DOMAIN descs /\ Sorted(m)
    BY <1>1, <1>2 DEF Inv, Starting
  <2> QED BY <2>1
<1>4. PICK d \in Descs : d = descs[next]
  BY <1>3
<1>5. PICK low, high \in Nat : low = d.low \div Parts /\ high = d.high \div Parts /\ low <= high /\ high < Word
  BY DescPagesFacts
<1>6. PICK pool \in PoolNames : pool = PoolFor(d.type)
  BY DescPagesFacts
<1>7. PICK owner \in Owners : owner = OwnerFor(d.type)
  BY DescPagesFacts
<1>8. (pool # "alloc" => owner = "any") /\ (pool = "conv" <=> d.type = "conventional")
  BY <1>6, <1>7, DescPagesFacts
<1>9. PICK s1 : s1 = remove(m, "conv", low, high)
  OBVIOUS
<1>10. PICK s2 : s2 = remove(s1, "mem", low, high)
  OBVIOUS
<1>11. PICK s3 : s3 = remove(s2, "alloc", low, high)
  OBVIOUS
<1>12. PICK t : t = InsertNew(s3, pool, Region(low, high, owner))
  OBVIOUS
<1>13. /\ m' = t
       /\ IF next < Len(descs) THEN pc' = pc /\ next' = next + 1 ELSE pc' = "register" /\ next' = 1
  BY <1>2, <1>4, <1>5, <1>6, <1>7, <1>9, <1>10, <1>11, <1>12 DEF Describe
<1>14. /\ Sorted(t)
       /\ ~ t.dead => \A p : Covered(m, p) => Covered(t, p)
       /\ \A p : In(t.conv, p) => \/ In(m.conv, p) /\ p \notin low .. high
                                  \/ pool = "conv" /\ p \in low .. high
  <2> HIDE DEF Sorted
  <2> QED BY <1>3, <1>5, <1>8, <1>9, <1>10, <1>11, <1>12, DescribeFacts
<1>15. Good(t) /\ AllFree(t) /\ Gaps(t.conv, 1)
  BY <1>14 DEF Sorted
<1>16. Maximal(t.conv)
  BY <1>15, GapsMaximal, GoodPools
<1>17. ~ t.dead => \A p \in Pages : Covered(t, p)
  BY <1>1, <1>14 DEF Inv, PoolsOK
<1>18. PoolsOK'
  BY <1>13, <1>15, <1>16, <1>17 DEF PoolsOK
<1>19. ASSUME NEW p, In(t.conv, p) PROVE Open(descs, next, p)
  <2>1. DescPages(d) = low .. high
    BY <1>5 DEF DescPages
  <2>2. CASE In(m.conv, p) /\ p \notin low .. high
    <3>1. Open(descs, next - 1, p)
      BY <1>1, <1>2, <2>2 DEF Inv, Described, Read
    <3>2. PICK k \in 1 .. next - 1 : /\ descs[k].type = "conventional" /\ p \in DescPages(descs[k])
                                     /\ \A j \in k + 1 .. next - 1 : p \notin DescPages(descs[j])
      BY <3>1 DEF Open
    <3>3. k \in 1 .. next /\ \A j \in k + 1 .. next : j \in k + 1 .. next - 1 \/ j = next
      BY <1>3
    <3> QED BY <1>4, <2>1, <2>2, <3>2, <3>3 DEF Open
  <2>3. CASE pool = "conv" /\ p \in low .. high
    <3>1. next \in 1 .. next /\ \A j \in next + 1 .. next : FALSE
      BY <1>3
    <3> QED BY <1>4, <1>8, <2>1, <2>3, <3>1 DEF Open
  <2> QED BY <1>14, <1>19, <2>2, <2>3
<1>20. Described'
  <2>1. Read' = next
    <3>1. CASE next < Len(descs)
      <4>1. pc' = "init" /\ next' = next + 1
        BY <1>1, <1>13, <3>1
      <4> QED BY <1>3, <4>1 DEF Read
    <3>2. CASE ~ (next < Len(descs))
      <4>1. pc' = "register" /\ next = Len(descs)
        BY <1>3, <1>13, <3>2
      <4> QED BY <1>1, <1>2, <4>1 DEF Read
    <3> QED BY <3>1, <3>2
  <2>2. MemoryDescs(machine)' = descs
    BY <1>1, <1>2
  <2> QED BY <1>13, <1>19, <2>1, <2>2 DEF Described
<1>21. /\ machine' = machine /\ req' = NoReq /\ granted' = granted /\ \A p \in Pages : granted[p] = {}
       /\ granted \in [Pages -> SUBSET Users] /\ pc' \in {"init", "register"} /\ machine \in Machines
  BY <1>1, <1>13 DEF Inv, Starting, Recorded
<1>22. Starting'
  <2>1. pc' = "init" => next' \in DOMAIN descs
    BY <1>1, <1>3, <1>13
  <2>2. pc' = "register" => next' \in DOMAIN Registered(machine)
    <3>1. Registered(machine) \in Seq(OnePage) /\ Registered(machine) # <<>>
      BY <1>21, RegisteredFacts, Sigma0Assumption
    <3>2. 1 \in DOMAIN Registered(machine)
      BY <3>1
    <3> QED BY <1>1, <1>13, <3>2
  <2> QED BY <1>2, <1>13, <1>14, <1>21, <2>1, <2>2 DEF Starting
<1>23. Recorded'
  BY <1>21 DEF Recorded
<1>24. Slowly' /\ Refused' /\ RefusedTakesNothing'
  BY <1>21 DEF Slowly, Refused, RefusedTakesNothing
<1> QED BY <1>18, <1>20, <1>21, <1>22, <1>23, <1>24, NoReqFacts DEF Inv

\* Allocation keeps the pools in order, and what anybody has.
LEMMA GivesPools ==
    ASSUME PoolsOK, NEW pool, NEW F, NEW tid, NEW t, Gives(m, pool, F, tid, t)
    PROVE  /\ Good(t) /\ AllFree(t) /\ Maximal(t.conv)
           /\ ~ t.dead => \A p \in Pages : Covered(t, p)
           /\ \A p : In(t.conv, p) => In(m.conv, p)
           /\ \A p : \A o : Owned(m, p, o) => Owned(t, p, o)
           /\ ~ t.dead => \A p : p \in F => Owned(t, p, tid)
<1>1. Good(t)
  BY DEF Gives
<1>2. AllFree(t)
  BY DEF PoolsOK, AllFree, Gives
<1>3. Maximal(t.conv)
  BY DEF PoolsOK, Gives
<1>4. \A p : In(t.conv, p) => In(m.conv, p)
  BY HasIn DEF Gives
<1>5. \A p : \A o : Owned(m, p, o) => Owned(t, p, o)
  BY DEF Owned, Gives
<1>6. ~ t.dead => \A p : p \in F => Owned(t, p, tid)
  BY DEF Owned, Gives
<1>7. ASSUME ~ t.dead, NEW p \in Pages PROVE Covered(t, p)
  <2>1. ~ m.dead
    BY <1>7 DEF PoolsOK, Good, Gives
  <2>2. Covered(m, p)
    BY <2>1 DEF PoolsOK
  <2>3. CASE In(m.conv, p)
    <3>1. PICK o : Has(m.conv, p, o)
      BY <2>3, HasIn
    <3>2. Has(t.conv, p, o) \/ Has(t.alloc, p, "sigma0") \/ p \in F
      BY <3>1 DEF Gives
    <3>3. Has(t.conv, p, o) \/ Has(t.alloc, p, "sigma0") \/ Has(t.alloc, p, tid)
      BY <1>7, <3>2 DEF Gives
    <3> QED BY <3>3, HasIn DEF Covered
  <2>4. CASE In(m.mem, p)
    <3>1. PICK o : Has(m.mem, p, o)
      BY <2>4, HasIn
    <3>2. Has(t.mem, p, o) \/ p \in F
      BY <3>1 DEF Gives
    <3>3. Has(t.mem, p, o) \/ Has(t.alloc, p, tid)
      BY <1>7, <3>2 DEF Gives
    <3> QED BY <3>3, HasIn DEF Covered
  <2>5. CASE In(m.alloc, p)
    <3>1. PICK o : Has(m.alloc, p, o)
      BY <2>5, HasIn
    <3>2. Has(t.alloc, p, o)
      BY <3>1 DEF Gives
    <3> QED BY <3>2, HasIn DEF Covered
  <2> QED BY <2>2, <2>3, <2>4, <2>5 DEF Covered
<1> QED BY <1>1, <1>2, <1>3, <1>4, <1>5, <1>6, <1>7


LEMMA RegisterInv ==
    ASSUME Inv, Register
    PROVE  Inv'
<1>1. /\ pc = "register" /\ UNCHANGED <<machine, req, granted, served>>
      /\ machine \in Machines /\ PoolsOK /\ Described /\ Recorded /\ req = NoReq
  BY DEF Register, Inv, Starting
<1>2. PICK regs \in Seq(OnePage) : regs = Registered(machine)
  BY <1>1, RegisteredFacts, Sigma0Assumption
<1>3. next \in DOMAIN regs
  BY <1>1, <1>2 DEF Inv, Starting
<1>4. next \in Nat /\ DOMAIN regs = 1 .. Len(regs) /\ Len(regs) \in Nat
  BY <1>3
<1>5. PICK r \in OnePage : r = regs[next]
  BY <1>3
<1>6. r.addr \in Nat /\ r.size = 1 /\ r.size \in Nat \ {0} /\ r.tid \in Owners
  BY DEF OnePage, Reqs
<1>7. PICK place : place = Fast(m, r)
  OBVIOUS
<1>8. /\ m' = IF place = NoPlace THEN m ELSE Allocate(m, place, 1, r.tid)
      /\ IF next < Len(regs) THEN pc' = pc /\ next' = next + 1 ELSE pc' = "serve" /\ next' = 0
  BY <1>2, <1>5, <1>7 DEF Register
<1>9. /\ Good(m') /\ AllFree(m') /\ Maximal(m'.conv)
      /\ ~ m'.dead => \A p \in Pages : Covered(m', p)
      /\ \A p : In(m'.conv, p) => In(m.conv, p)
      /\ \A p : \A o : Owned(m, p, o) => Owned(m', p, o)
  <2>1. CASE place = NoPlace
    <3>1. m' = m
      BY <1>8, <2>1
    <3> QED BY <1>1, <3>1 DEF PoolsOK
  <2>2. CASE place # NoPlace
    <3>1. PICK t : t = Allocate(m, place, 1, r.tid)
      OBVIOUS
    <3>2. Good(m)
      BY <1>1 DEF PoolsOK
    <3>3. place.pool \in {"conv", "mem"} /\ Inside(m, place.pool, place.i, place.addr, 1)
      BY <1>6, <1>7, <2>2, <3>2, FastFacts
    <3>4. PICK F : Gives(m, place.pool, F, r.tid, t)
      BY <1>6, <3>1, <3>2, <3>3, AllocateFacts
    <3>5. m' = t
      BY <1>8, <2>2, <3>1
    <3>6. /\ Good(t) /\ AllFree(t) /\ Maximal(t.conv)
          /\ ~ t.dead => \A p \in Pages : Covered(t, p)
          /\ \A p : In(t.conv, p) => In(m.conv, p)
          /\ \A p : \A o : Owned(m, p, o) => Owned(t, p, o)
      BY <1>1, <3>4, GivesPools
    <3> QED BY <3>5, <3>6
  <2> QED BY <2>1, <2>2
<1>10. PoolsOK'
  BY <1>9 DEF PoolsOK
<1>11. pc' \in {"register", "serve"} /\ (pc' = "register" => next' \in DOMAIN regs)
  BY <1>1, <1>4, <1>8
<1>12. Described'
  BY <1>1, <1>9, <1>11 DEF Described, Read
<1>13. Starting'
  BY <1>1, <1>2, <1>11 DEF Starting
<1>14. Recorded'
  BY <1>1, <1>9 DEF Recorded
<1>15. Slowly' /\ Refused' /\ RefusedTakesNothing'
  <2>1. req' = NoReq /\ pc' # "slow" /\ NoReq.took = {}
    BY <1>1, <1>11 DEF NoReq
  <2> QED BY <2>1 DEF Slowly, Refused, RefusedTakesNothing
<1> QED BY <1>1, <1>10, <1>11, <1>12, <1>13, <1>14, <1>15, NoReqFacts DEF Inv

LEMMA RequestFacts ==
    ASSUME NEW r \in Requests
    PROVE  r \in Reqs /\ r.tid \in Users /\ r.at = r.addr /\ r.took = {} /\ r.fed = FALSE
<1>1. ASSUME NEW tid \in Users, NEW addr \in Nat, NEW size \in Nat, NEW conv \in BOOLEAN,
             r = Request(tid, addr, size, conv)
      PROVE  r \in Reqs /\ r.tid \in Users /\ r.at = r.addr /\ r.took = {} /\ r.fed = FALSE
  <2>1. r = [tid |-> tid, addr |-> addr, size |-> size, conv |-> conv, at |-> addr, took |-> {}, fed |-> FALSE]
    BY <1>1 DEF Request, NoReq
  <2>2. tid \in Owners
    BY DEF Owners
  <2> QED BY <2>1, <2>2 DEF Reqs
<1>2. \A p \in Pages : p \in Nat
  BY DEF Pages
<1>3. CASE r \in PageFaults
  <2>1. PICK x \in Users \X Pages : r = Request(x[1], x[2], 1, TRUE)
    BY <1>3 DEF PageFaults
  <2>2. x[1] \in Users /\ x[2] \in Nat
    BY <1>2
  <2> QED BY <1>1, <2>1, <2>2
<1>4. CASE r \in Rpcs
  <2>1. PICK x \in Users \X (Pages \cup {AnyAddress}) \X Sizes : r = Request(x[1], x[2], x[3], FALSE)
    BY <1>4 DEF Rpcs
  <2>2. x[1] \in Users /\ x[2] \in Nat /\ x[3] \in Nat
    BY <1>2, LastPartFacts, Sigma0Assumption DEF AnyAddress
  <2> QED BY <1>1, <2>1, <2>2
<1> QED BY <1>3, <1>4 DEF Requests

\* A reply with pages that are recorded.
LEMMA GrantInv ==
    ASSUME Inv, pc \in {"serve", "slow"}, UNCHANGED <<machine, next>>, PoolsOK',
           \A p : In(m'.conv, p) => In(m.conv, p), \A p : \A o : Owned(m, p, o) => Owned(m', p, o),
           NEW tid \in Users, NEW addr, NEW size, Grant(tid, addr, size),
           ~ m'.dead => \A p : p \in addr .. addr + size - 1 => Owned(m', p, tid)
    PROVE  Inv'
<1>1. PICK F : F = addr .. addr + size - 1
  OBVIOUS
<1>2. /\ granted' = IF m'.dead THEN granted
                    ELSE [p \in Pages |-> IF p \in F THEN granted[p] \cup {tid} ELSE granted[p]]
      /\ pc' = IF m'.dead THEN "hung" ELSE "serve"
      /\ req' = NoReq
  BY <1>1 DEF Grant
<1>3. machine \in Machines /\ machine' = machine /\ Described /\ Recorded /\ pc' \in {"hung", "serve"}
  BY <1>2 DEF Inv
<1>4. Described'
  BY <1>3 DEF Described, Read
<1>5. Recorded'
  <2>1. granted \in [Pages -> SUBSET Users] /\ \A p \in Pages : \A u \in granted[p] : Owned(m', p, u)
    BY <1>3 DEF Recorded
  <2>2. CASE m'.dead
    BY <1>2, <2>1, <2>2 DEF Recorded
  <2>3. CASE ~ m'.dead
    <3>1. granted' = [p \in Pages |-> IF p \in F THEN granted[p] \cup {tid} ELSE granted[p]]
      BY <1>2, <2>3
    <3>2. granted' \in [Pages -> SUBSET Users]
      BY <2>1, <3>1
    <3>3. ASSUME NEW p \in Pages, NEW u \in granted'[p] PROVE Owned(m', p, u)
      <4>1. u \in granted[p] \/ (p \in F /\ u = tid)
        BY <3>1, <3>3
      <4> QED BY <1>1, <2>1, <2>3, <4>1
    <3> QED BY <3>2, <3>3 DEF Recorded
  <2> QED BY <2>2, <2>3
<1>6. Starting'
  BY <1>2, <1>3 DEF Starting
<1>7. Slowly' /\ Refused' /\ RefusedTakesNothing'
  <2>1. NoReq.took = {}
    BY DEF NoReq
  <2> QED BY <1>2, <1>3, <2>1 DEF Slowly, Refused, RefusedTakesNothing
<1> QED BY <1>2, <1>3, <1>4, <1>5, <1>6, <1>7, NoReqFacts DEF Inv

LEMMA RefuseInv ==
    ASSUME Inv, pc \in {"serve", "slow"}, UNCHANGED <<machine, next>>, m' = m, NEW r \in Reqs, Refuse(r),
           r.took = {} \/ r.fed,
           r.size # 0 =>
             IF r.addr = AnyAddress
             THEN \A a \in Pages : a % r.size = 0 => \E p \in a .. a + r.size - 1 : ~ In(m.conv, p)
             ELSE \/ r.addr + r.size = Word
                  \/ \E p \in r.addr .. r.addr + r.size - 1 : ~ CanHave(m, p, r)
    PROVE  Inv'
<1>1. req' = r /\ pc' = "serve" /\ granted' = granted /\ machine' = machine /\ m' = m
  BY DEF Refuse
<1>2. machine \in Machines /\ PoolsOK /\ Described /\ Recorded
  BY DEF Inv
<1>3. PoolsOK'
  BY <1>1, <1>2 DEF PoolsOK
<1>4. Described'
  BY <1>1, <1>2 DEF Described, Read
<1>5. Recorded'
  BY <1>1, <1>2 DEF Recorded
<1>6. Starting' /\ Slowly' /\ RefusedTakesNothing'
  BY <1>1 DEF Starting, Slowly, RefusedTakesNothing
<1>7. Refused'
  BY <1>1 DEF Refused
<1> QED BY <1>1, <1>2, <1>3, <1>4, <1>5, <1>6, <1>7 DEF Inv

LEMMA AllocateInv ==
    ASSUME PoolsOK, NEW place, NEW size, NEW tid \in Users, place.pool \in {"conv", "mem"},
           Inside(m, place.pool, place.i, place.addr, size), m' = Allocate(m, place, size, tid)
    PROVE  /\ PoolsOK'
           /\ \A p : In(m'.conv, p) => In(m.conv, p)
           /\ \A p : \A o : Owned(m, p, o) => Owned(m', p, o)
           /\ ~ m'.dead => \A p : p \in place.addr .. place.addr + size - 1 => Owned(m', p, tid)
           /\ Gives(m, place.pool, place.addr .. place.addr + size - 1, tid, m')
<1>1. PICK F : F = place.addr .. place.addr + size - 1
  OBVIOUS
<1>2. PICK t : t = Allocate(m, place, size, tid)
  OBVIOUS
<1>3. Good(m) /\ tid \in Owners
  BY DEF PoolsOK, Owners
<1>4. Gives(m, place.pool, F, tid, t)
  BY <1>1, <1>2, <1>3, AllocateFacts
<1>5. /\ Good(t) /\ AllFree(t) /\ Maximal(t.conv)
      /\ ~ t.dead => \A p \in Pages : Covered(t, p)
      /\ \A p : In(t.conv, p) => In(m.conv, p)
      /\ \A p : \A o : Owned(m, p, o) => Owned(t, p, o)
      /\ ~ t.dead => \A p : p \in F => Owned(t, p, tid)
  BY <1>4, GivesPools
<1>6. m' = t
  BY <1>2
<1>7. PoolsOK'
  BY <1>5, <1>6 DEF PoolsOK
<1> QED BY <1>1, <1>4, <1>5, <1>6, <1>7

LEMMA ServeInv ==
    ASSUME Inv, pc = "serve", UNCHANGED <<machine, next>>, NEW r \in Requests, Serve(r)
    PROVE  Inv'
<1>1. r \in Reqs /\ r.tid \in Users /\ r.at = r.addr /\ r.took = {} /\ r.fed = FALSE
  BY RequestFacts
<1>2. r.addr \in Nat /\ r.size \in Nat /\ r.conv \in BOOLEAN
  BY <1>1 DEF Reqs
<1>3. PoolsOK /\ Good(m) /\ Maximal(m.conv)
  BY DEF Inv, PoolsOK
<1>4. PICK place : place = IF r.size = 0 THEN NoPlace
                           ELSE IF r.addr = AnyAddress THEN Anywhere(m, r.size) ELSE Fast(m, r)
  OBVIOUS
<1>5. \/ /\ place # NoPlace
         /\ m' = Allocate(m, place, r.size, r.tid) /\ Grant(r.tid, place.addr, r.size)
      \/ /\ place = NoPlace /\ m' = m
         /\ \/ (r.size = 0 \/ r.addr = AnyAddress) /\ Refuse(r)
            \/ r.size # 0 /\ r.addr # AnyAddress /\ Already(m, r) /\ Grant(r.tid, r.addr, r.size)
            \/ /\ r.size # 0 /\ r.addr # AnyAddress /\ Slow(m, r)
               /\ pc' = "slow" /\ req' = r /\ UNCHANGED <<granted, served>>
            \/ r.size # 0 /\ r.addr # AnyAddress /\ ~ Slow(m, r) /\ Refuse(r)
  BY <1>4 DEF Serve
<1>6. CASE place # NoPlace
  <2>1. r.size \in Nat \ {0}
    BY <1>2, <1>4, <1>6
  <2>2. place.pool \in {"conv", "mem"} /\ Inside(m, place.pool, place.i, place.addr, r.size)
    <3>1. CASE r.addr = AnyAddress
      <4>1. place = Anywhere(m, r.size)
        BY <1>4, <2>1, <3>1
      <4> QED BY <1>3, <1>6, <2>1, <4>1, AnywhereFacts
    <3>2. CASE r.addr # AnyAddress
      <4>1. place = Fast(m, r)
        BY <1>4, <2>1, <3>2
      <4> QED BY <1>2, <1>3, <1>6, <2>1, <4>1, FastFacts
    <3> QED BY <3>1, <3>2
  <2>3. m' = Allocate(m, place, r.size, r.tid) /\ Grant(r.tid, place.addr, r.size)
    BY <1>5, <1>6
  <2>4. /\ PoolsOK'
        /\ \A p : In(m'.conv, p) => In(m.conv, p)
        /\ \A p : \A o : Owned(m, p, o) => Owned(m', p, o)
        /\ ~ m'.dead => \A p : p \in place.addr .. place.addr + r.size - 1 => Owned(m', p, r.tid)
    BY <1>1, <1>3, <2>2, <2>3, AllocateInv
  <2> QED BY <1>1, <2>3, <2>4, GrantInv
<1>7. CASE place = NoPlace
  <2>1. m' = m
    BY <1>5, <1>7
  <2>2. PoolsOK'
    BY <1>3, <2>1 DEF PoolsOK
  <2>3. CASE (r.size = 0 \/ r.addr = AnyAddress) /\ Refuse(r)
    <3>1. ASSUME r.size # 0
          PROVE  \A a \in Pages : a % r.size = 0 => \E p \in a .. a + r.size - 1 : ~ In(m.conv, p)
      <4>1. Anywhere(m, r.size) = NoPlace /\ r.size \in Nat \ {0}
        BY <1>2, <1>4, <1>7, <2>3, <3>1
      <4>2. \A a \in Pages : a \in Nat
        BY DEF Pages
      <4> QED BY <1>3, <4>1, <4>2, NowhereFacts
    <3>2. r.size # 0 => r.addr = AnyAddress
      BY <2>3
    <3>3. r.size # 0 =>
             IF r.addr = AnyAddress
             THEN \A a \in Pages : a % r.size = 0 => \E p \in a .. a + r.size - 1 : ~ In(m.conv, p)
             ELSE \/ r.addr + r.size = Word
                  \/ \E p \in r.addr .. r.addr + r.size - 1 : ~ CanHave(m, p, r)
      BY <3>1, <3>2
    <3> QED BY <1>1, <2>1, <2>3, <3>3, RefuseInv
  <2>4. CASE r.size # 0 /\ r.addr # AnyAddress /\ Already(m, r) /\ Grant(r.tid, r.addr, r.size)
    <3>1. \A p : p \in r.addr .. r.addr + r.size - 1 => Owned(m', p, r.tid)
      <4>1. r.size \in Nat \ {0}
        BY <1>2, <2>4
      <4>2. \A p \in r.addr .. r.addr + r.size - 1 : Has(m.alloc, p, r.tid) \/ Has(m.alloc, p, "any")
        BY <1>2, <1>3, <2>4, <4>1, AlreadyFacts
      <4> QED BY <2>1, <4>2 DEF Owned
    <3>2. (\A p : In(m'.conv, p) => In(m.conv, p)) /\ \A p : \A o : Owned(m, p, o) => Owned(m', p, o)
      BY <2>1
    <3> QED BY <1>1, <2>2, <2>4, <3>1, <3>2, GrantInv
  <2>5. CASE /\ r.size # 0 /\ r.addr # AnyAddress /\ Slow(m, r)
             /\ pc' = "slow" /\ req' = r /\ UNCHANGED <<granted, served>>
    <3>1. machine \in Machines /\ Described /\ Recorded
      BY DEF Inv
    <3>2. Described'
      BY <2>1, <2>5, <3>1 DEF Described, Read
    <3>3. Recorded'
      BY <2>1, <2>5, <3>1 DEF Recorded
    <3>4. Starting' /\ Refused' /\ RefusedTakesNothing'
      BY <2>5 DEF Starting, Refused, RefusedTakesNothing
    <3>5. ASSUME NEW p \in r.addr .. r.addr + r.size - 1 PROVE CanHave(m, p, r)
      <4>1. p \in Checked(r) /\ p \in Nat
        <5>1. p \in Nat /\ r.addr <= p /\ p <= r.addr + r.size - 1 /\ Word \in Nat
          BY <1>2, LastPartFacts
        <5>2. r.addr + r.size = Word => p \in Pages
          BY <1>2, <5>1 DEF Pages
        <5> QED BY <3>5, <5>1, <5>2 DEF Checked
      <4>2. PlaceOf(m, p, r) # NoPlace
        BY <2>5, <4>1 DEF Slow
      <4> QED BY <1>2, <1>3, <4>1, <4>2, PlaceOfFacts
    <3>6. Slowly'
      <4>1. r.at \in r.addr .. r.addr + r.size - 1 /\ r.addr .. r.at - 1 = {}
        BY <1>1, <1>2, <2>5
      <4>2. \A p \in r.at .. r.addr + r.size - 1 : CanHave(m, p, r)
        BY <1>1, <3>5
      <4> QED BY <1>1, <2>1, <2>5, <4>1, <4>2 DEF Slowly
    <3> QED BY <1>1, <2>2, <2>5, <3>1, <3>2, <3>3, <3>4, <3>6 DEF Inv
  <2>6. CASE r.size # 0 /\ r.addr # AnyAddress /\ ~ Slow(m, r) /\ Refuse(r)
    <3>1. PICK p \in Checked(r) : PlaceOf(m, p, r) = NoPlace
      BY <2>6 DEF Slow
    <3>2. ASSUME r.addr + r.size # Word PROVE \E q \in r.addr .. r.addr + r.size - 1 : ~ CanHave(m, q, r)
      <4>1. p \in r.addr .. r.addr + r.size - 1
        BY <3>1, <3>2 DEF Checked
      <4>2. p \in Nat
        BY <1>2, <4>1
      <4>3. ~ CanHave(m, p, r)
        BY <1>2, <1>3, <3>1, <4>2, PlaceOfFacts
      <4> QED BY <4>1, <4>3
    <3>3. r.size # 0 =>
             IF r.addr = AnyAddress
             THEN \A a \in Pages : a % r.size = 0 => \E q \in a .. a + r.size - 1 : ~ In(m.conv, q)
             ELSE \/ r.addr + r.size = Word
                  \/ \E q \in r.addr .. r.addr + r.size - 1 : ~ CanHave(m, q, r)
      BY <2>6, <3>2
    <3> QED BY <1>1, <2>1, <2>6, <3>3, RefuseInv
  <2> QED BY <1>5, <1>7, <2>3, <2>4, <2>5, <2>6
<1> QED BY <1>6, <1>7

LEMMA SigmaPagesFacts ==
    ASSUME NEW s, NEW p
    PROVE  p \in SigmaPages(s) <=> Has(s.alloc, p, "sigma0")
BY DEF SigmaPages, Has, PagesOf

\* A page that can be had, still can be had after an allocation elsewhere, unless
\* it has gone into sigma0's list.
LEMMA GivesOthers ==
    ASSUME NEW s, Good(s), NEW pool, NEW F, NEW tid, NEW t, Gives(s, pool, F, tid, t), NEW r, r.conv \in BOOLEAN,
           NEW p, p \notin F, CanHave(s, p, r), SigmaPages(t) = SigmaPages(s)
    PROVE  CanHave(t, p, r)
<1>1. \A o : Has(s.mem, p, o) => Has(t.mem, p, o)
  BY DEF Gives
<1>2. \A o : Has(s.alloc, p, o) => Has(t.alloc, p, o)
  BY DEF Gives
<1>3. ASSUME NEW o, Has(s.conv, p, o) PROVE Has(t.conv, p, o)
  <2>1. Has(t.conv, p, o) \/ Has(t.alloc, p, "sigma0")
    BY <1>3 DEF Gives
  <2>2. ~ In(s.alloc, p)
    BY <1>3, HasIn, GoodPools
  <2>3. ~ Has(s.alloc, p, "sigma0")
    BY <2>2, HasIn
  <2>4. ~ Has(t.alloc, p, "sigma0")
    BY <2>3, SigmaPagesFacts
  <2> QED BY <2>1, <2>4
<1> QED BY <1>1, <1>2, <1>3 DEF CanHave

LEMMA SlowInv ==
    ASSUME Inv, SlowStep
    PROVE  Inv'
<1>1. pc = "slow" /\ UNCHANGED <<machine, next>>
  BY DEF SlowStep
<1>2. /\ machine \in Machines /\ req \in Reqs /\ PoolsOK /\ Good(m) /\ Described /\ Recorded
      /\ req.tid \in Users /\ req.size # 0 /\ req.addr # AnyAddress
      /\ req.at \in req.addr .. req.addr + req.size - 1
      /\ \A p \in req.addr .. req.at - 1 : Owned(m, p, req.tid)
      /\ req.fed \/ \A p \in req.at .. req.addr + req.size - 1 : CanHave(m, p, req)
  BY <1>1 DEF Inv, PoolsOK, Slowly
<1>3. PICK addr, size, at \in Nat : addr = req.addr /\ size = req.size /\ at = req.at
  BY <1>2 DEF Reqs
<1>4. size # 0 /\ addr <= at /\ at <= addr + size - 1 /\ req.conv \in BOOLEAN /\ req.fed \in BOOLEAN
  BY <1>2, <1>3 DEF Reqs
<1>5. PICK place : place = PlaceOf(m, at, req)
  OBVIOUS
<1>6. \/ place = NoPlace /\ Refuse(req) /\ m' = m
      \/ /\ place # NoPlace
         /\ m' = IF place.pool = "alloc" THEN m ELSE Allocate(m, place, 1, req.tid)
         /\ IF m'.dead \/ at = addr + size - 1
            THEN Grant(req.tid, addr, size)
            ELSE /\ req' = [req EXCEPT !.at = @ + 1,
                                       !.took = IF place.pool = "alloc" THEN @ ELSE @ \cup {at},
                                       !.fed = @ \/ SigmaPages(m') # SigmaPages(m)]
                 /\ UNCHANGED <<pc, granted, served>>
  BY <1>3, <1>5 DEF SlowStep
<1>7. CASE place = NoPlace
  <2>1. Refuse(req) /\ m' = m
    BY <1>6, <1>7
  <2>2. ~ CanHave(m, at, req)
    <3>1. Good(m) /\ req.conv \in BOOLEAN
      BY <1>2, <1>4
    <3>2. place # NoPlace <=> CanHave(m, at, req)
      BY <1>5, <3>1, PlaceOfFacts
    <3> QED BY <1>7, <3>2
  <2>3. at \in req.at .. req.addr + req.size - 1 /\ at \in req.addr .. req.addr + req.size - 1
    BY <1>3, <1>4
  <2>4. req.fed
    BY <1>2, <2>2, <2>3
  <2>5. req.size # 0 =>
             IF req.addr = AnyAddress
             THEN \A a \in Pages : a % req.size = 0 => \E p \in a .. a + req.size - 1 : ~ In(m.conv, p)
             ELSE \/ req.addr + req.size = Word
                  \/ \E p \in req.addr .. req.addr + req.size - 1 : ~ CanHave(m, p, req)
    BY <1>2, <2>2, <2>3
  <2> QED BY <1>1, <1>2, <2>1, <2>4, <2>5, RefuseInv
<1>8. CASE place # NoPlace
  <2>1. /\ place.pool \in PoolNames /\ place.addr = at
        /\ Inside(m, place.pool, place.i, at, 1)
        /\ place.pool = "alloc" => Owned(m, at, req.tid)
    BY <1>2, <1>4, <1>5, <1>8, PlaceOfFacts DEF Owned
  <2>2. /\ PoolsOK'
        /\ \A p : In(m'.conv, p) => In(m.conv, p)
        /\ \A p : \A o : Owned(m, p, o) => Owned(m', p, o)
        /\ ~ m'.dead => Owned(m', at, req.tid)
        /\ m' = m \/ \E pool : Gives(m, pool, at .. at, req.tid, m')
    <3>1. CASE place.pool = "alloc"
      <4>1. m' = m
        BY <1>6, <1>8, <3>1
      <4>2. PoolsOK'
        BY <1>2, <4>1 DEF PoolsOK
      <4> QED BY <2>1, <3>1, <4>1, <4>2
    <3>2. CASE place.pool # "alloc"
      <4>1. place.pool \in {"conv", "mem"}
        BY <2>1, <3>2 DEF PoolNames
      <4>2. m' = Allocate(m, place, 1, req.tid)
        BY <1>6, <1>8, <3>2
      <4>3. /\ PoolsOK'
            /\ \A p : In(m'.conv, p) => In(m.conv, p)
            /\ \A p : \A o : Owned(m, p, o) => Owned(m', p, o)
            /\ ~ m'.dead => \A p : p \in place.addr .. place.addr + 1 - 1 => Owned(m', p, req.tid)
            /\ Gives(m, place.pool, place.addr .. place.addr + 1 - 1, req.tid, m')
        BY <1>2, <2>1, <4>1, <4>2, AllocateInv
      <4>4. place.addr + 1 - 1 = at /\ at \in at .. at
        BY <2>1
      <4> QED BY <2>1, <4>3, <4>4
    <3> QED BY <3>1, <3>2
  <2>3. ~ m'.dead => \A p \in addr .. at : Owned(m', p, req.tid)
    <3>1. \A p \in addr .. at : p \in addr .. at - 1 \/ p = at
      OBVIOUS
    <3> QED BY <1>2, <1>3, <2>2, <3>1
  <2>4. CASE m'.dead \/ at = addr + size - 1
    <3>1. Grant(req.tid, addr, size)
      BY <1>6, <1>8, <2>4
    <3>2. ~ m'.dead => \A p : p \in addr .. addr + size - 1 => Owned(m', p, req.tid)
      BY <2>3, <2>4
    <3> QED BY <1>1, <1>2, <2>2, <3>1, <3>2, GrantInv
  <2>5. CASE ~ m'.dead /\ at # addr + size - 1
    <3>1. /\ req' = [req EXCEPT !.at = @ + 1,
                                !.took = IF place.pool = "alloc" THEN @ ELSE @ \cup {at},
                                !.fed = @ \/ SigmaPages(m') # SigmaPages(m)]
          /\ pc' = pc /\ granted' = granted
      BY <1>6, <1>8, <2>5
    <3>2. /\ req' \in Reqs
          /\ req'.tid = req.tid /\ req'.addr = addr /\ req'.size = size /\ req'.conv = req.conv /\ req'.at = at + 1
          /\ req'.fed = (req.fed \/ SigmaPages(m') # SigmaPages(m))
      <4>1. PICK T \in SUBSET Nat : T = IF place.pool = "alloc" THEN req.took ELSE req.took \cup {at}
        BY <1>2 DEF Reqs
      <4>2. PICK f \in BOOLEAN : f = (req.fed \/ SigmaPages(m') # SigmaPages(m))
        OBVIOUS
      <4>3. req' = [req EXCEPT !.at = at + 1, !.took = T, !.fed = f]
        BY <1>2, <1>3, <3>1, <4>1, <4>2 DEF Reqs
      <4>4. req \in Reqs /\ at + 1 \in Nat
        BY <1>2
      <4>5. /\ req' \in Reqs
            /\ req'.tid = req.tid /\ req'.addr = req.addr /\ req'.size = req.size /\ req'.conv = req.conv
            /\ req'.at = at + 1 /\ req'.fed = f
        BY <4>3, <4>4 DEF Reqs
      <4> QED BY <1>3, <4>2, <4>5
    <3>3. ASSUME ~ req'.fed, NEW p \in at + 1 .. addr + size - 1 PROVE CanHave(m', p, req)
      <4>1. ~ req.fed /\ SigmaPages(m') = SigmaPages(m)
        BY <1>4, <3>2, <3>3
      <4>2. CanHave(m, p, req)
        <5>1. p \in at .. addr + size - 1
          OBVIOUS
        <5> QED BY <1>2, <1>3, <4>1, <5>1
      <4>3. p \notin at .. at
        OBVIOUS
      <4>4. CASE m' = m
        BY <4>2, <4>4
      <4>5. CASE \E pool : Gives(m, pool, at .. at, req.tid, m')
        BY <1>2, <1>4, <4>1, <4>2, <4>3, <4>5, GivesOthers
      <4> QED BY <2>2, <4>4, <4>5
    <3>4. \A p : CanHave(m', p, req) => CanHave(m', p, req')
      BY <3>2 DEF CanHave
    <3>5. Slowly'
      <4>1. at + 1 \in addr .. addr + size - 1 /\ at + 1 - 1 = at
        BY <1>4, <2>5
      <4>2. \A p \in addr .. at + 1 - 1 : Owned(m', p, req.tid)
        BY <2>3, <2>5, <4>1
      <4>3. req'.fed \/ \A p \in at + 1 .. addr + size - 1 : CanHave(m', p, req')
        BY <3>3, <3>4
      <4>4. /\ req'.tid \in Users /\ req'.size # 0 /\ req'.addr # AnyAddress
            /\ req'.at \in req'.addr .. req'.addr + req'.size - 1
        BY <1>2, <1>3, <3>2, <4>1
      <4>5. \A p \in req'.addr .. req'.at - 1 : Owned(m', p, req'.tid)
        BY <3>2, <4>2
      <4>6. req'.fed \/ \A p \in req'.at .. req'.addr + req'.size - 1 : CanHave(m', p, req')
        BY <3>2, <4>3
      <4>7. AnyAddress' = AnyAddress
        BY DEF AnyAddress
      <4> QED BY <4>4, <4>5, <4>6, <4>7 DEF Slowly
    <3>6. Described'
      BY <1>1, <1>2, <2>2, <3>1 DEF Described, Read
    <3>7. Recorded'
      BY <1>2, <2>2, <3>1 DEF Recorded
    <3>8. Starting' /\ Refused' /\ RefusedTakesNothing'
      BY <1>1, <3>1 DEF Starting, Refused, RefusedTakesNothing
    <3> QED BY <1>1, <1>2, <2>2, <3>1, <3>2, <3>5, <3>6, <3>7, <3>8 DEF Inv
  <2> QED BY <2>4, <2>5
<1> QED BY <1>7, <1>8

LEMMA NextInv ==
    ASSUME Inv, [Next]_vars
    PROVE  Inv'
<1>1. CASE ServeMessage
  <2>1. pc = "serve" /\ UNCHANGED <<machine, next>> /\ \E r \in Requests : Serve(r)
    BY <1>1 DEF ServeMessage
  <2> QED BY <2>1, ServeInv
<1>2. CASE UNCHANGED vars
  <2>1. /\ machine' = machine /\ pc' = pc /\ next' = next /\ m' = m /\ req' = req /\ granted' = granted
        /\ served' = served
    BY <1>2 DEF vars
  <2>2. PoolsOK' /\ Starting' /\ Recorded'
    BY <2>1 DEF Inv, PoolsOK, Starting, Recorded
  <2>3. Described'
    BY <2>1 DEF Inv, Described, Read
  <2>4. Slowly' /\ Refused' /\ RefusedTakesNothing'
    BY <2>1 DEF Inv, Slowly, Refused, RefusedTakesNothing
  <2> QED BY <2>1, <2>2, <2>3, <2>4 DEF Inv
<1> QED BY <1>1, <1>2, DescribeInv, RegisterInv, SlowInv DEF Next

\* Whatever the machine and the requests are, every descriptor read, server
\* registered and request served keeps regions apart and joined, records what was
\* sent as its receiver's, and leaves free what the last descriptor says is free;
\* a request that takes the slow way has what it has passed.
THEOREM Invariant == Spec => []Inv
BY InitInv, NextInv, PTL DEF Spec

LEMMA JoinApart ==
    ASSUME NEW a \in Seq(Regs), NEW b \in Seq(Regs), NEW t, Joins(a, b, t),
           Apart(a), Apart(b), \A p : ~ (In(a, p) /\ In(b, p))
    PROVE  /\ t \in Seq(Regs) /\ Apart(t)
           /\ \A p : In(t, p) <=> In(a, p) \/ In(b, p)
<1>1. t \in Seq(Regs)
  BY JoinIndices
<1>2. \A p : In(t, p) <=> In(a, p) \/ In(b, p)
  BY JoinHas, HasIn
<1>3. PICK k, n \in Nat : Lengths(a, b, t, k, n)
  BY JoinIndices
<1>4. ASSUME NEW i \in DOMAIN t, NEW j \in DOMAIN t, NEW p, p \in PagesOf(t[i]), p \in PagesOf(t[j]) PROVE i = j
  <2>1. i \in 1 .. k + n /\ j \in 1 .. k + n
    BY <1>3 DEF Lengths
  <2>2. ASSUME NEW h \in 1 .. k, p \in PagesOf(t[h]) PROVE h \in DOMAIN a /\ p \in PagesOf(a[h]) /\ In(a, p)
    BY <1>3, <2>2 DEF Lengths, In
  <2>3. ASSUME NEW h \in 1 .. k + n, h \notin 1 .. k, p \in PagesOf(t[h])
        PROVE  h - k \in DOMAIN b /\ p \in PagesOf(b[h - k]) /\ In(b, p)
    BY <1>3, <2>3 DEF Lengths, In
  <2>4. CASE i \in 1 .. k
    <3>1. j \in 1 .. k
      BY <1>4, <2>1, <2>2, <2>3, <2>4
    <3> QED BY <1>4, <2>2, <2>4, <3>1 DEF Apart
  <2>5. CASE i \notin 1 .. k
    <3>1. j \notin 1 .. k
      BY <1>4, <2>1, <2>2, <2>3, <2>5
    <3>2. i - k = j - k
      BY <1>4, <2>1, <2>3, <2>5, <3>1 DEF Apart
    <3> QED BY <2>1, <3>2
  <2> QED BY <2>4, <2>5
<1> QED BY <1>1, <1>2, <1>4 DEF Apart

\* While descriptors are read, servers are registered and pages are handed out,
\* every page is in exactly one region of one pool, until sigma0 has no memory
\* left for a descriptor: no interleaving of remove, insert and allocate with the
\* feeding of the list loses a page or leaves it in two regions.
THEOREM EveryPageOnceAlways == Spec => []EveryPageOnce
<1>1. ASSUME Inv PROVE EveryPageOnce
  <2>1. Good(m) /\ (~ m.dead => \A p \in Pages : Covered(m, p))
    BY <1>1 DEF Inv, PoolsOK
  <2>2. PICK t : Joins(m.conv, m.mem, t)
    BY DEF Joins
  <2>3. t \in Seq(Regs) /\ Apart(t) /\ \A p : In(t, p) <=> In(m.conv, p) \/ In(m.mem, p)
    BY <2>1, <2>2, GoodPools, JoinApart
  <2>4. PICK all : Joins(t, m.alloc, all)
    BY DEF Joins
  <2>5. \A p : ~ (In(t, p) /\ In(m.alloc, p))
    BY <2>1, <2>3, GoodPools
  <2>6. all \in Seq(Regs) /\ Apart(all) /\ \A p : In(all, p) <=> In(t, p) \/ In(m.alloc, p)
    BY <2>1, <2>3, <2>4, <2>5, GoodPools, JoinApart
  <2>7. ASSUME ~ m.dead, NEW p \in Pages PROVE Cardinality({i \in DOMAIN all : p \in PagesOf(all[i])}) = 1
    <3>1. In(all, p)
      BY <2>1, <2>3, <2>6, <2>7 DEF Covered
    <3>2. PICK x \in DOMAIN all : p \in PagesOf(all[x])
      BY <3>1 DEF In
    <3>3. {i \in DOMAIN all : p \in PagesOf(all[i])} = {x}
      BY <2>6, <3>2 DEF Apart
    <3> QED BY <3>3, FS_Singleton
  <2>8. all = m.conv \o m.mem \o m.alloc
    BY <2>2, <2>4 DEF Joins
  <2> QED BY <2>7, <2>8 DEF EveryPageOnce
<1> QED BY <1>1, Invariant, PTL

LEMMA OwnerFacts ==
    ASSUME Good(m), NEW p
    PROVE  /\ \A o : o \in OwnerOf(p) <=> Has(m.alloc, p, o)
           /\ \A o : Has(m.alloc, p, o) => OwnerOf(p) = {o}
<1>1. \A o : o \in OwnerOf(p) <=> Has(m.alloc, p, o)
  BY DEF OwnerOf, Has
<1>2. Apart(m.alloc)
  BY GoodPools
<1>3. \A o, u : Has(m.alloc, p, o) /\ Has(m.alloc, p, u) => o = u
  BY <1>2 DEF Has, Apart
<1> QED BY <1>1, <1>3

\* A page that was sent to a thread is recorded as that thread's and has been sent
\* to nobody else, or is shared, whatever requests came in between.
THEOREM GrantsExclusiveAlways == Spec => []GrantsExclusive
<1>1. ASSUME Inv PROVE GrantsExclusive
  <2> SUFFICES ASSUME NEW p \in Pages, NEW tid \in granted[p], OwnerOf(p) # {"any"}
               PROVE  OwnerOf(p) = {tid} /\ granted[p] = {tid}
    BY DEF GrantsExclusive
  <2>1. Good(m) /\ Recorded
    BY <1>1 DEF Inv, PoolsOK
  <2>2. ASSUME NEW u \in granted[p] PROVE OwnerOf(p) = {u}
    <3>1. Has(m.alloc, p, u) \/ Has(m.alloc, p, "any")
      BY <2>1 DEF Recorded, Owned
    <3> QED BY <2>1, <3>1, OwnerFacts
  <2> QED BY <2>2
<1> QED BY <1>1, Invariant, PTL

\* A request at an address is refused only if a page of it is not to be had or the
\* range ends at the end of the address space, one for any pages only if no
\* aligned ones are left: the fast way, the allocated pages and the slow way of
\* allocate_page together miss nothing.
THEOREM RefusedOnlyWithoutPagesAlways == Spec => []RefusedOnlyWithoutPages
<1>1. ASSUME Inv PROVE RefusedOnlyWithoutPages
  <2>1. Good(m) /\ AllFree(m) /\ Refused /\ req \in Reqs
    BY <1>1 DEF Inv, PoolsOK
  <2>2. \A p : InPool("conv", p) <=> In(m.conv, p)
    BY DEF InPool, In
  <2>3. \A p : InPool("mem", p) <=> In(m.mem, p)
    BY DEF InPool, In
  <2>4. ASSUME NEW p, Obtainable(p) PROVE CanHave(m, p, req)
    <3>1. CASE In(m.conv, p)
      <4>1. Has(m.conv, p, "any")
        BY <2>1, <3>1, HasIn DEF AllFree
      <4> QED BY <4>1 DEF CanHave
    <3>2. CASE In(m.mem, p) /\ ~ req.conv
      <4>1. Has(m.mem, p, "any")
        BY <2>1, <3>2, HasIn DEF AllFree
      <4> QED BY <3>2, <4>1 DEF CanHave
    <3>3. CASE OwnerOf(p) \cap {req.tid, "any"} # {}
      <4>1. PICK o \in {req.tid, "any"} : o \in OwnerOf(p)
        BY <3>3
      <4>2. Has(m.alloc, p, o)
        BY <2>1, <4>1, OwnerFacts
      <4> QED BY <4>1, <4>2 DEF CanHave
    <3> QED BY <2>2, <2>3, <2>4, <3>1, <3>2, <3>3 DEF Obtainable
  <2> QED BY <2>1, <2>2, <2>4 DEF Refused, RefusedOnlyWithoutPages
<1> QED BY <1>1, Invariant, PTL

\* A refused request leaves the requester with pages it does not know of only if
\* sigma0 has fed its list of descriptors in between.
THEOREM RefusedTakesNothingAlways == Spec => []RefusedTakesNothing
<1>1. Inv => RefusedTakesNothing
  BY DEF Inv
<1> QED BY <1>1, Invariant, PTL

-----------------------------------------------------------------------------
(***************************************************************************)
(* What free memory is: the last descriptor that mentions a free page is   *)
(* an entry of the BIOS map, and those of the modules and tables come      *)
(* after the map.                                                          *)
(***************************************************************************)
LEMMA OpenJoin ==
    ASSUME NEW a \in Seq(Descs), NEW b \in Seq(Others), NEW t, Joins(a, b, t), NEW p, Open(t, Len(t), p)
    PROVE  Open(a, Len(a), p) /\ \A i \in DOMAIN b : p \notin DescPages(b[i])
<1>1. PICK k \in Nat : k = Len(a)
  OBVIOUS
<1>2. PICK n \in Nat : n = Len(b) /\ DOMAIN b = 1 .. n
  OBVIOUS
<1>3. /\ Len(t) = k + n
      /\ \A i \in 1 .. k : t[i] = a[i]
      /\ \A i \in 1 .. n : t[k + i] = b[i]
  BY <1>1, <1>2, JoinFacts, OthersDescs
<1>4. PICK h \in 1 .. k + n : /\ t[h].type = "conventional" /\ p \in DescPages(t[h])
                              /\ \A j \in h + 1 .. k + n : p \notin DescPages(t[j])
  BY <1>3 DEF Open
<1>5. h \in 1 .. k
  <2>1. SUFFICES ASSUME h \notin 1 .. k PROVE FALSE
    OBVIOUS
  <2>2. h - k \in 1 .. n /\ k + (h - k) = h
    BY <2>1
  <2>3. t[h] = b[h - k]
    BY <1>3, <2>2
  <2>4. b[h - k] \in Others
    BY <1>2, <2>2
  <2> QED BY <1>4, <2>3, <2>4 DEF Others
<1>6. ASSUME NEW j \in h + 1 .. k PROVE p \notin DescPages(a[j])
  <2>1. j \in 1 .. k /\ j \in h + 1 .. k + n
    BY <1>5
  <2> QED BY <1>3, <1>4, <2>1
<1>7. Open(a, k, p)
  BY <1>3, <1>4, <1>5, <1>6 DEF Open
<1>8. ASSUME NEW i \in 1 .. n PROVE p \notin DescPages(b[i])
  <2>1. k + i \in h + 1 .. k + n
    BY <1>5
  <2> QED BY <1>3, <1>4, <2>1
<1> QED BY <1>1, <1>2, <1>7, <1>8

Unmentioned(descs, p) == \A i \in DOMAIN descs : p \notin DescPages(descs[i])

LEMMA UnmentionedJoin ==
    ASSUME NEW a \in Seq(Others), NEW b \in Seq(Others), NEW t, Joins(a, b, t), NEW p,
           Unmentioned(a, p), Unmentioned(b, p)
    PROVE  t \in Seq(Others) /\ Unmentioned(t, p)
<1>1. PICK k \in Nat : k = Len(a) /\ DOMAIN a = 1 .. k
  OBVIOUS
<1>2. PICK n \in Nat : n = Len(b) /\ DOMAIN b = 1 .. n
  OBVIOUS
<1>3. /\ t \in Seq(Others) /\ Len(t) = k + n
      /\ \A i \in 1 .. k : t[i] = a[i]
      /\ \A i \in 1 .. n : t[k + i] = b[i]
  BY <1>1, <1>2, JoinFacts
<1>4. DOMAIN t = 1 .. k + n
  BY <1>3
<1>5. ASSUME NEW i \in 1 .. k + n PROVE p \notin DescPages(t[i])
  <2>1. CASE i \in 1 .. k
    BY <1>1, <1>3, <2>1 DEF Unmentioned
  <2>2. CASE i \notin 1 .. k
    <3>1. i - k \in 1 .. n /\ k + (i - k) = i
      BY <2>2
    <3> QED BY <1>2, <1>3, <3>1 DEF Unmentioned
  <2> QED BY <2>1, <2>2
<1> QED BY <1>3, <1>4, <1>5 DEF Unmentioned

LEMMA OpenMachine ==
    ASSUME NEW mc, WellFormed(mc), NEW p, Open(MemoryDescs(mc), Len(MemoryDescs(mc)), p)
    PROVE  /\ p \notin DescPages(KernelImage(mc))
           /\ Unmentioned(Mbi(mc), p) /\ Unmentioned(Bootinfo(mc), p) /\ Unmentioned(Kmem(mc), p)
           /\ Unmentioned(protect_modules(mc), p) /\ Unmentioned(install_servers(mc), p)
           /\ Open(<<Shared>> \o BiosDescs(mc), Len(<<Shared>> \o BiosDescs(mc)), p)
<1> DEFINE Opens(s) == Open(s, Len(s), p)
<1>1. ASSUME NEW a \in Seq(Descs), NEW b \in Seq(Others), Opens(a \o b) PROVE Opens(a) /\ Unmentioned(b, p)
  <2>1. PICK t : Joins(a, b, t) /\ t = a \o b
    BY DEF Joins
  <2>2. Open(t, Len(t), p)
    BY <1>1, <2>1
  <2> QED BY <2>1, <2>2, OpenJoin DEF Unmentioned
<1>2. /\ KernelImage(mc) \in Others /\ install_servers(mc) \in Seq(Others) /\ protect_modules(mc) \in Seq(Others)
      /\ Kmem(mc) \in Seq(Others) /\ Holes \in Seq(Others)
      /\ Bootinfo(mc) \in Seq(Others) /\ Mbi(mc) \in Seq(Others)
  BY ServerDescs, KmemFacts, FixedFacts, TablesFacts
<1>3. /\ <<Shared>> \o BiosDescs(mc) \in Seq(Descs) /\ install_memory(mc) \in Seq(Descs)
      /\ WithoutTables(mc) \in Seq(Descs) /\ Descriptors(mc) \in Seq(Descs)
      /\ install_memory(mc) = <<Shared>> \o BiosDescs(mc) \o Kmem(mc) \o Holes
      /\ MemoryDescs(mc) = Descriptors(mc) \o <<KernelImage(mc)>>
  BY TablesFacts
<1>4. /\ \A a, b : a \in Seq(Descs) /\ b \in Seq(Others) => a \o b \in Seq(Descs)
      /\ \A x \in Others : <<x>> \in Seq(Others)
  BY OthersDescs, JoinedSeq
<1>5. Opens(MemoryDescs(mc))
  OBVIOUS
<1> HIDE DEF Opens
<1>6. Opens(Descriptors(mc)) /\ Unmentioned(<<KernelImage(mc)>>, p)
  BY <1>1, <1>2, <1>3, <1>4, <1>5
<1>7. p \notin DescPages(KernelImage(mc))
  <2>1. 1 \in DOMAIN <<KernelImage(mc)>> /\ <<KernelImage(mc)>>[1] = KernelImage(mc)
    OBVIOUS
  <2> QED BY <1>6, <2>1 DEF Unmentioned
<1>8. WithoutTables(mc) \o Bootinfo(mc) \in Seq(Descs) /\ Descriptors(mc) = WithoutTables(mc) \o Bootinfo(mc) \o Mbi(mc)
  BY <1>2, <1>3, <1>4 DEF Descriptors
<1>9. Opens(WithoutTables(mc) \o Bootinfo(mc)) /\ Unmentioned(Mbi(mc), p)
  BY <1>1, <1>2, <1>6, <1>8
<1>10. Opens(WithoutTables(mc)) /\ Unmentioned(Bootinfo(mc), p)
  BY <1>1, <1>2, <1>3, <1>9
<1>11. /\ install_memory(mc) \o install_servers(mc) \in Seq(Descs)
       /\ WithoutTables(mc) = install_memory(mc) \o install_servers(mc) \o protect_modules(mc)
  BY <1>2, <1>3, <1>4 DEF WithoutTables
<1>12. Opens(install_memory(mc) \o install_servers(mc)) /\ Unmentioned(protect_modules(mc), p)
  BY <1>1, <1>2, <1>10, <1>11
<1>13. Opens(install_memory(mc)) /\ Unmentioned(install_servers(mc), p)
  BY <1>1, <1>2, <1>3, <1>12
<1>14. <<Shared>> \o BiosDescs(mc) \o Kmem(mc) \in Seq(Descs)
  BY <1>2, <1>3, <1>4
<1>15. Opens(<<Shared>> \o BiosDescs(mc) \o Kmem(mc))
  BY <1>1, <1>2, <1>3, <1>13, <1>14
<1>16. Opens(<<Shared>> \o BiosDescs(mc)) /\ Unmentioned(Kmem(mc), p)
  BY <1>1, <1>2, <1>3, <1>15
<1> QED BY <1>7, <1>9, <1>10, <1>12, <1>13, <1>16 DEF Opens

LEMMA OpenBios ==
    ASSUME NEW mc, WellFormed(mc), NEW p, Open(<<Shared>> \o BiosDescs(mc), Len(<<Shared>> \o BiosDescs(mc)), p)
    PROVE  \E i \in DOMAIN mc.bios : /\ mc.bios[i].usable /\ p \in DescPages(BiosDesc(mc.bios[i]))
                                     /\ \A j \in i + 1 .. Len(mc.bios) : p \notin DescPages(BiosDesc(mc.bios[j]))
<1>1. PICK one : one = <<Shared>>
  OBVIOUS
<1>2. one \in Seq(Descs) /\ Len(one) = 1 /\ one[1] = Shared
  BY <1>1, FixedFacts, OthersDescs
<1>3. PICK bs \in Seq(Descs) : bs = BiosDescs(mc)
  BY BiosFacts
<1>4. PICK n \in Nat : n = Len(mc.bios) /\ DOMAIN mc.bios = 1 .. n
  BY BiosFacts
<1>5. Len(bs) = n /\ \A i \in 1 .. n : bs[i] = BiosDesc(mc.bios[i])
  BY <1>3, <1>4 DEF BiosDescs
<1>6. PICK t : Joins(one, bs, t) /\ t = <<Shared>> \o BiosDescs(mc)
  BY <1>1, <1>3 DEF Joins
<1>7. Len(t) = 1 + n /\ t[1] = Shared /\ \A i \in 1 .. n : t[1 + i] = bs[i]
  <2>1. /\ Len(t) = Len(one) + Len(bs)
        /\ \A i \in 1 .. Len(one) : t[i] = one[i]
        /\ \A i \in 1 .. Len(bs) : t[Len(one) + i] = bs[i]
    <3>1. one \in Seq(Descs) /\ Joins(one, bs, t)
      BY <1>2, <1>6
    <3> QED BY <3>1, JoinFacts
  <2>2. Len(one) = 1 /\ one[1] = Shared /\ Len(bs) = n /\ 1 \in 1 .. 1
    BY <1>2, <1>5
  <2> QED BY <2>1, <2>2
<1>8. PICK h \in 1 .. 1 + n : /\ t[h].type = "conventional" /\ p \in DescPages(t[h])
                              /\ \A j \in h + 1 .. 1 + n : p \notin DescPages(t[j])
  BY <1>6, <1>7 DEF Open
<1>9. h # 1
  BY <1>7, <1>8 DEF Shared, Desc
<1>10. PICK i \in 1 .. n : h = 1 + i
  <2>1. h - 1 \in 1 .. n /\ h = 1 + (h - 1)
    BY <1>9
  <2> QED BY <2>1
<1>11. t[h] = BiosDesc(mc.bios[i])
  BY <1>5, <1>7, <1>10
<1>12. mc.bios[i].usable
  <2>1. BiosDesc(mc.bios[i]).type = IF mc.bios[i].usable THEN "conventional" ELSE "architecture"
    BY DEF BiosDesc, Desc
  <2> QED BY <1>8, <1>11, <2>1
<1>13. ASSUME NEW j \in i + 1 .. n PROVE p \notin DescPages(BiosDesc(mc.bios[j]))
  <2>1. j \in 1 .. n /\ 1 + j \in h + 1 .. 1 + n
    BY <1>10
  <2>2. t[1 + j] = BiosDesc(mc.bios[j])
    BY <1>5, <1>7, <2>1
  <2> QED BY <1>8, <2>1, <2>2
<1> QED BY <1>4, <1>8, <1>11, <1>12, <1>13

LEMMA PageOrder ==
    ASSUME NEW x \in Nat, NEW y \in Nat, NEW P \in Nat \ {0}
    PROVE  /\ x * P \in Nat /\ y * P \in Nat
           /\ x * P < y * P + P => x <= y
           /\ x <= y => x * P <= y * P
           /\ x < y => x * P + P <= y * P
<1>1. x * P \in Nat /\ y * P \in Nat
  OBVIOUS
<1>2. x <= y => x * P <= y * P
  OBVIOUS
<1>3. ASSUME NEW a \in Nat, NEW b \in Nat, a < b PROVE a * P + P <= b * P
  <2>1. (a + 1) * P <= b * P
    BY <1>3
  <2>2. (a + 1) * P = a * P + P
    OBVIOUS
  <2> QED BY <2>1, <2>2
<1>4. ASSUME x * P < y * P + P PROVE x <= y
  <2>1. SUFFICES ASSUME y < x PROVE FALSE
    OBVIOUS
  <2>2. y * P + P <= x * P
    BY <1>3, <2>1
  <2> QED BY <1>1, <1>4, <2>2
<1> QED BY <1>1, <1>2, <1>3, <1>4

\* A part of a page that a descriptor mentions, makes it mention the page.
LEMMA PartMentioned ==
    ASSUME NEW d \in Descs, NEW p \in Nat, NEW part \in Parted(p), part \in d.low .. d.high
    PROVE  p \in DescPages(d)
<1>1. PICK P \in Nat \ {0} : P = Parts
  BY LastPartFacts
<1>2. PICK low, high \in Nat : low = d.low /\ high = d.high
  BY DEF Descs
<1>3. PICK a \in Nat : a = low \div P /\ a * P <= low
  BY DivFacts
<1>4. PICK b \in Nat : b = high \div P /\ high < b * P + P
  BY DivFacts
<1>5. a * P \in Nat /\ b * P \in Nat /\ p * P \in Nat
  OBVIOUS
<1>6. part \in Nat /\ p * P <= part /\ part <= p * P + P - 1 /\ low <= part /\ part <= high
  BY <1>1, <1>2, <1>5 DEF Parted
<1>7. a * P < p * P + P /\ p * P < b * P + P
  BY <1>3, <1>4, <1>5, <1>6
<1>8. a <= p /\ p <= b
  BY <1>7, PageOrder
<1> QED BY <1>1, <1>2, <1>3, <1>4, <1>8 DEF DescPages

LEMMA OpenUnused ==
    ASSUME machine \in Machines, NEW p \in Pages, Open(MemoryDescs(machine), Len(MemoryDescs(machine)), p)
    PROVE  Parted(p) \cap UsedParts = {}
<1>1. PICK mc : mc = machine /\ WellFormed(mc)
  BY Sigma0Assumption
<1>2. /\ p \notin DescPages(KernelImage(mc))
      /\ Unmentioned(Mbi(mc), p) /\ Unmentioned(Bootinfo(mc), p) /\ Unmentioned(Kmem(mc), p)
      /\ Unmentioned(protect_modules(mc), p) /\ Unmentioned(install_servers(mc), p)
  BY <1>1, OpenMachine
<1>3. p \in Nat
  BY DEF Pages
<1>4. ASSUME NEW s \in Seq(Others), Unmentioned(s, p), NEW i \in DOMAIN s, NEW part \in Parted(p)
      PROVE  part \notin s[i].low .. s[i].high
  <2>1. s[i] \in Descs
    BY <1>4 DEF Others
  <2> QED BY <1>3, <1>4, <2>1, PartMentioned DEF Unmentioned
<1>5. PICK n \in Nat : n = Len(mc.mods) /\ n >= 3 /\ DOMAIN mc.mods = 1 .. n
  BY <1>1, ModuleFacts
<1>6. ASSUME NEW i \in DOMAIN mc.mods, NEW part \in Parted(p) PROVE part \notin mc.mods[i].start .. mc.mods[i].end - 1
  <2>1. PICK a, b \in Nat : a = mc.mods[i].start /\ b = mc.mods[i].end
    BY <1>1, ModuleFacts DEF ModuleOK
  <2>2. CASE i = 1
    <3>1. KernelImage(mc) \in Descs
      BY <1>1, ServerDescs DEF Others
    <3>2. part \notin KernelImage(mc).low .. KernelImage(mc).high
      BY <1>2, <1>3, <3>1, PartMentioned
    <3> QED BY <2>2, <3>2 DEF KernelImage, Desc
  <2>3. CASE i \in 2 .. 3
    <3>1. PICK s \in Seq(Others) : s = install_servers(mc)
      BY <1>1, ServerDescs
    <3>2. i - 1 \in 1 .. 2 /\ i - 1 + 1 = i
      BY <2>3
    <3>3. i - 1 \in DOMAIN s /\ s[i - 1] = Desc(a, b, "bootloader")
      BY <2>1, <3>1, <3>2 DEF install_servers
    <3>4. part \notin a .. b
      BY <1>2, <1>4, <3>1, <3>3 DEF Desc
    <3> QED BY <2>1, <3>4
  <2>4. CASE i \notin 1 .. 3
    <3>1. PICK s \in Seq(Others) : s = protect_modules(mc)
      BY <1>1, ServerDescs
    <3>2. i - 3 \in 1 .. n - 3 /\ i - 3 + 3 = i
      BY <1>5, <2>4
    <3>3. i - 3 \in DOMAIN s /\ s[i - 3] = Desc(a, b - 1, "bootloader")
      BY <1>5, <2>1, <3>1, <3>2 DEF protect_modules
    <3>4. part \notin a .. b - 1
      BY <1>2, <1>4, <3>1, <3>3 DEF Desc
    <3> QED BY <2>1, <3>4
  <2> QED BY <1>5, <2>2, <2>3, <2>4
<1>7. PICK t : Joins(Bootinfo(mc), Mbi(mc), t)
  BY DEF Joins
<1>8. Bootinfo(mc) \in Seq(Others) /\ Mbi(mc) \in Seq(Others) /\ Kmem(mc) \in Seq(Others)
  BY <1>1, TablesFacts, KmemFacts
<1>9. t \in Seq(Others) /\ Unmentioned(t, p)
  BY <1>2, <1>7, <1>8, UnmentionedJoin
<1>10. PICK tables : Joins(t, Kmem(mc), tables)
  BY DEF Joins
<1>11. tables \in Seq(Others) /\ Unmentioned(tables, p)
  BY <1>2, <1>8, <1>9, <1>10, UnmentionedJoin
<1>12. tables = Bootinfo(mc) \o Mbi(mc) \o Kmem(mc)
  BY <1>7, <1>10 DEF Joins
<1>13. UsedParts = (UNION {mc.mods[i].start .. mc.mods[i].end - 1 : i \in DOMAIN mc.mods})
                   \cup (UNION {tables[i].low .. tables[i].high : i \in DOMAIN tables})
  BY <1>1, <1>12 DEF UsedParts
<1>14. \A i \in DOMAIN tables : \A part \in Parted(p) : part \notin tables[i].low .. tables[i].high
  BY <1>4, <1>11
<1> QED BY <1>6, <1>13, <1>14

LEMMA OpenUsable ==
    ASSUME NEW mc, WellFormed(mc), EndsMentioned(mc), NEW p \in Pages,
           Open(MemoryDescs(mc), Len(MemoryDescs(mc)), p), ~ StartsInside(mc, p), NEW part \in Parted(p)
    PROVE  BiosUsable(mc, part)
<1>1. Open(<<Shared>> \o BiosDescs(mc), Len(<<Shared>> \o BiosDescs(mc)), p)
  BY OpenMachine
<1>2. PICK i \in DOMAIN mc.bios : /\ mc.bios[i].usable /\ p \in DescPages(BiosDesc(mc.bios[i]))
                                  /\ \A j \in i + 1 .. Len(mc.bios) : p \notin DescPages(BiosDesc(mc.bios[j]))
  BY <1>1, OpenBios
<1>3. EntryOK(mc.bios[i])
  BY BiosFacts
<1>4. PICK base, size \in Nat : base = mc.bios[i].base /\ size = mc.bios[i].size /\ size # 0
  BY <1>3 DEF EntryOK
<1>5. PICK P \in Nat \ {0} : P = Parts
  BY LastPartFacts
<1>6. p \in Nat /\ p * P \in Nat
  BY DEF Pages
<1>7. PICK last \in Nat : last = base + size - 1
  BY <1>4
<1>8. base \div P <= p /\ p <= last \div P
  <2>1. BiosDesc(mc.bios[i]).low = base /\ BiosDesc(mc.bios[i]).high = last
    BY <1>4, <1>7 DEF BiosDesc, Desc
  <2>2. p \in base \div P .. last \div P
    BY <1>2, <1>5, <2>1 DEF DescPages
  <2> QED BY <2>2
<1>9. PICK a \in Nat : a = base \div P /\ base < a * P + P /\ a * P \in Nat
  BY DivFacts
<1>10. PICK b \in Nat : b = last \div P /\ b * P <= last /\ b * P \in Nat
  BY DivFacts
<1>11. base < p * P + P /\ p * P <= last
  <2>1. a * P <= p * P /\ p * P <= b * P
    BY <1>6, <1>8, <1>9, <1>10, PageOrder
  <2> QED BY <1>6, <1>9, <1>10, <2>1
<1>12. base <= p * P
  <2>1. SUFFICES ASSUME p * P < base PROVE FALSE
    BY <1>6
  <2>2. base \in Parted(p) \ {p * Parts}
    BY <1>5, <1>6, <1>11, <2>1 DEF Parted
  <2> QED BY <1>2, <1>4, <2>2 DEF StartsInside
<1>13. PICK end \in Nat : end = base + size /\ end = last + 1
  BY <1>4, <1>7
<1>14. PICK q \in Nat : q = end \div P /\ q * P <= end /\ end < q * P + P /\ q * P \in Nat
  BY DivFacts
<1>15. p < q
  <2>1. end % P = 0 \/ \E j \in i + 1 .. Len(mc.bios) : q \in DescPages(BiosDesc(mc.bios[j]))
    BY <1>2, <1>4, <1>5, <1>13, <1>14 DEF EndsMentioned, DescPages, BiosDesc, Desc
  <2>2. CASE end % P = 0
    <3>1. end = P * (end \div P) + (end % P)
      OBVIOUS
    <3>2. end = q * P
      BY <1>14, <2>2, <3>1
    <3>3. SUFFICES ASSUME q <= p PROVE FALSE
      BY <1>6
    <3>4. q * P <= p * P
      BY <1>6, <3>3, PageOrder
    <3> QED BY <1>6, <1>11, <1>13, <1>14, <3>2, <3>4
  <2>3. CASE \E j \in i + 1 .. Len(mc.bios) : q \in DescPages(BiosDesc(mc.bios[j]))
    <3>1. p # q
      BY <1>2, <2>3
    <3>2. p * P < q * P + P
      BY <1>6, <1>11, <1>13, <1>14
    <3>3. p <= q
      BY <1>6, <3>2, PageOrder
    <3> QED BY <1>6, <3>1, <3>3
  <2> QED BY <2>1, <2>2, <2>3
<1>16. p * P + P <= q * P
  BY <1>6, <1>15, PageOrder
<1>17. part \in Nat /\ p * P <= part /\ part <= p * P + P - 1
  BY <1>5, <1>6 DEF Parted
<1>18. part \in base .. base + size - 1
  BY <1>6, <1>12, <1>13, <1>14, <1>16, <1>17
<1> QED BY <1>2, <1>4, <1>18 DEF BiosUsable

\* When sigma0 starts to serve, no free page holds a part of a module, of the first
\* servers, of the boot information or of what the kernel has reserved; all of it
\* is what the BIOS calls usable, but for a page in the middle of which a usable
\* entry starts.
THEOREM FreeMemoryUnusedAlways ==
    ASSUME \A mc \in Machines : EndsMentioned(mc)
    PROVE  Spec => []FreeMemoryUnused
<1>1. ASSUME Inv PROVE FreeMemoryUnused
  <2> SUFFICES ASSUME pc = "serve", NEW p \in Pages, InPool("conv", p)
               PROVE  /\ Parted(p) \cap UsedParts = {}
                      /\ (\A part \in Parted(p) : BiosUsable(machine, part)) \/ StartsInside(machine, p)
    BY DEF FreeMemoryUnused
  <2>1. machine \in Machines /\ Described
    BY <1>1 DEF Inv
  <2>2. In(m.conv, p)
    BY DEF InPool, In
  <2>3. Open(MemoryDescs(machine), Len(MemoryDescs(machine)), p)
    BY <2>1, <2>2 DEF Described, Read
  <2>4. Parted(p) \cap UsedParts = {}
    BY <2>1, <2>3, OpenUnused
  <2>5. ASSUME ~ StartsInside(machine, p), NEW part \in Parted(p) PROVE BiosUsable(machine, part)
    <3>1. WellFormed(machine) /\ EndsMentioned(machine)
      BY <2>1, Sigma0Assumption
    <3> QED BY <2>3, <2>5, <3>1, OpenUsable
  <2> QED BY <2>4, <2>5
<1> QED BY <1>1, Invariant, PTL
=============================================================================
