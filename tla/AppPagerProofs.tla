--------------------------- MODULE AppPagerProofs ---------------------------
(***************************************************************************)
(* Theorems about the application pager, for any number of threads, files  *)
(* and pages.                                                              *)
(***************************************************************************)
EXTENDS AppPager, SequenceTheorems, NaturalsInduction, WellFoundedInduction, TLAPS

(***************************************************************************)
(* The lists: what the operations on them do to the set of their elements, *)
(* and that no element is listed twice.                                    *)
(***************************************************************************)

LEMMA EmptyList == ToSet(<<>>) = {} /\ IsInjective(<<>>)
BY DEF ToSet, IsInjective

LEMMA ListElements ==
    ASSUME NEW S, NEW s \in Seq(S)
    PROVE  ToSet(s) \in SUBSET S /\ (ToSet(s) = {} <=> s = <<>>)
<1>1. DOMAIN s = 1 .. Len(s) /\ Len(s) \in Nat /\ \A i \in 1 .. Len(s) : s[i] \in S
  BY LenProperties, ElementOfSeq
<1>2. ToSet(s) \in SUBSET S
  BY <1>1 DEF ToSet
<1>3. s # <<>> => 1 \in DOMAIN s
  BY <1>1, EmptySeq
<1> QED BY <1>2, <1>3, EmptyList DEF ToSet

\* An element put in front of a list.
LEMMA ListPrepend ==
    ASSUME NEW S, NEW s \in Seq(S), NEW x \in S
    PROVE  /\ <<x>> \o s \in Seq(S)
           /\ ToSet(<<x>> \o s) = {x} \cup ToSet(s)
           /\ IsInjective(s) /\ x \notin ToSet(s) => IsInjective(<<x>> \o s)
<1>1. <<x>> \in Seq(S) /\ Len(<<x>>) = 1 /\ <<x>>[1] = x
  OBVIOUS
<1>2. /\ <<x>> \o s \in Seq(S) /\ Len(<<x>> \o s) = 1 + Len(s)
      /\ \A i \in 1 .. 1 + Len(s) : (<<x>> \o s)[i] = IF i <= 1 THEN <<x>>[i] ELSE s[i - 1]
  BY <1>1, ConcatProperties
<1>3. /\ Len(s) \in Nat /\ DOMAIN s = 1 .. Len(s)
      /\ DOMAIN (<<x>> \o s) = 1 .. 1 + Len(s)
  BY <1>2, LenProperties
<1> DEFINE l == <<x>> \o s
<1>4. l[1] = x /\ \A i \in 1 .. Len(s) : l[i + 1] = s[i]
  BY <1>1, <1>2, <1>3
<1>5. /\ DOMAIN l = 1 .. 1 + Len(s)
      /\ \A i \in DOMAIN l : i = 1 \/ (i - 1 \in DOMAIN s /\ l[i] = s[i - 1])
  BY <1>2, <1>3
<1> HIDE DEF l
<1>6. ToSet(l) = {x} \cup ToSet(s)
  <2>1. ToSet(l) \subseteq {x} \cup ToSet(s)
    BY <1>4, <1>5 DEF ToSet
  <2>2. {x} \cup ToSet(s) \subseteq ToSet(l)
    <3>1. 1 \in DOMAIN l /\ \A i \in DOMAIN s : i + 1 \in DOMAIN l
      BY <1>3, <1>5
    <3> QED BY <1>3, <1>4, <3>1 DEF ToSet
  <2> QED BY <2>1, <2>2
<1>7. ASSUME IsInjective(s), x \notin ToSet(s)
      PROVE  IsInjective(l)
  <2> SUFFICES ASSUME NEW a \in DOMAIN l, NEW b \in DOMAIN l, l[a] = l[b]
               PROVE  a = b
    BY DEF IsInjective
  <2>1. \A i \in DOMAIN s : s[i] # x
    BY <1>7 DEF ToSet
  <2>2. CASE a = 1 \/ b = 1
    BY <2>1, <2>2, <1>4, <1>5
  <2>3. CASE a # 1 /\ b # 1
    <3>1. a - 1 \in DOMAIN s /\ b - 1 \in DOMAIN s /\ s[a - 1] = s[b - 1]
      BY <2>3, <1>5
    <3>2. a - 1 = b - 1
      BY <1>7, <3>1 DEF IsInjective
    <3> QED BY <3>2, <1>3, <1>5
  <2> QED BY <2>2, <2>3
<1> QED BY <1>2, <1>6, <1>7 DEF l

\* The rest of a list behind its head.
LEMMA ListTail ==
    ASSUME NEW S, NEW s \in Seq(S), s # <<>>
    PROVE  /\ Head(s) \in S /\ Tail(s) \in Seq(S)
           /\ ToSet(s) = {Head(s)} \cup ToSet(Tail(s))
           /\ IsInjective(s) => IsInjective(Tail(s)) /\ Head(s) \notin ToSet(Tail(s))
<1>1. /\ Head(s) \in S /\ Tail(s) \in Seq(S) /\ Len(Tail(s)) = Len(s) - 1
      /\ \A i \in 1 .. Len(Tail(s)) : Tail(s)[i] = s[i + 1]
  BY HeadTailProperties
<1>2. Len(s) \in Nat \ {0} /\ DOMAIN s = 1 .. Len(s)
  BY EmptySeq, LenProperties
<1>3. DOMAIN Tail(s) = 1 .. Len(s) - 1
  BY <1>1, LenProperties
<1>4. Head(s) = s[1]
  OBVIOUS
<1> DEFINE l == Tail(s)
<1>5. \A i \in DOMAIN l : i + 1 \in DOMAIN s /\ i + 1 # 1 /\ l[i] = s[i + 1]
  BY <1>1, <1>2, <1>3
<1>6. \A i \in DOMAIN s : i # 1 => i - 1 \in DOMAIN l /\ s[i] = l[i - 1]
  BY <1>1, <1>2, <1>3
<1>7. 1 \in DOMAIN s
  BY <1>2
<1> HIDE DEF l
<1>8. ToSet(s) = {s[1]} \cup ToSet(l)
  BY <1>5, <1>6, <1>7 DEF ToSet
<1>9. ASSUME IsInjective(s)
      PROVE  IsInjective(l) /\ s[1] \notin ToSet(l)
  <2>1. s[1] \notin ToSet(l)
    BY <1>5, <1>7, <1>9 DEF ToSet, IsInjective
  <2>2. ASSUME NEW a \in DOMAIN l, NEW b \in DOMAIN l, l[a] = l[b]
        PROVE  a = b
    <3>1. a + 1 = b + 1
      BY <1>5, <1>9, <2>2 DEF IsInjective
    <3> QED BY <3>1, <1>3 DEF l
  <2> QED BY <2>1, <2>2 DEF IsInjective
<1> QED BY <1>1, <1>4, <1>8, <1>9 DEF l

\* A list in front of another one.
LEMMA ListConcat ==
    ASSUME NEW S, NEW s \in Seq(S), NEW t \in Seq(S)
    PROVE  /\ s \o t \in Seq(S)
           /\ ToSet(s \o t) = ToSet(s) \cup ToSet(t)
           /\ (IsInjective(s) /\ IsInjective(t) /\ ToSet(s) \cap ToSet(t) = {})
                 => IsInjective(s \o t)
<1> DEFINE l == s \o t
<1>1. /\ l \in Seq(S) /\ Len(l) = Len(s) + Len(t)
      /\ \A i \in 1 .. Len(s) + Len(t) : l[i] = IF i <= Len(s) THEN s[i] ELSE t[i - Len(s)]
  BY ConcatProperties
<1>2. /\ Len(s) \in Nat /\ DOMAIN s = 1 .. Len(s)
      /\ Len(t) \in Nat /\ DOMAIN t = 1 .. Len(t)
  BY LenProperties
<1>3. DOMAIN l = 1 .. Len(s) + Len(t)
  BY <1>1, LenProperties
<1>4. /\ \A i \in DOMAIN s : i \in DOMAIN l /\ l[i] = s[i]
      /\ \A i \in DOMAIN t : i + Len(s) \in DOMAIN l /\ l[i + Len(s)] = t[i]
  BY <1>1, <1>2, <1>3
<1>5. \A i \in DOMAIN l : \/ i \in DOMAIN s
                          \/ i \notin DOMAIN s /\ i - Len(s) \in DOMAIN t /\ l[i] = t[i - Len(s)]
  BY <1>1, <1>2, <1>3
<1> HIDE DEF l
<1>6. ToSet(l) = ToSet(s) \cup ToSet(t)
  BY <1>4, <1>5 DEF ToSet
<1>7. ASSUME IsInjective(s), IsInjective(t), ToSet(s) \cap ToSet(t) = {},
             NEW a \in DOMAIN l, NEW b \in DOMAIN l, l[a] = l[b]
      PROVE  a = b
  <2>1. \A i \in DOMAIN s, j \in DOMAIN t : s[i] # t[j]
    BY <1>7 DEF ToSet
  <2>2. CASE a \in DOMAIN s /\ b \in DOMAIN s
    BY <1>4, <1>7, <2>2 DEF IsInjective
  <2>3. CASE a \notin DOMAIN s /\ b \notin DOMAIN s
    <3>1. a - Len(s) = b - Len(s)
      BY <1>5, <1>7, <2>3 DEF IsInjective
    <3> QED BY <1>2, <1>3, <3>1
  <2>4. CASE (a \in DOMAIN s) # (b \in DOMAIN s)
    BY <1>4, <1>5, <1>7, <2>1, <2>4
  <2> QED BY <2>2, <2>3, <2>4
<1> QED BY <1>1, <1>6, <1>7 DEF IsInjective, l

\* The order of the natural numbers is well-founded, and a set of numbers has
\* a least one.
LEMMA LeastNumber ==
    ASSUME NEW S \in SUBSET Nat, S # {}
    PROVE  \E x \in S : \A y \in S : x <= y
<1> DEFINE R == {x \in Nat \X Nat : x[1] < x[2]}
<1>1. IsWellFoundedOn(R, Nat)
  BY NatLessThanWellFounded DEF OpToRel
<1>2. PICK x \in S : \A y \in S : ~ (<<y, x>> \in R)
  <2> HIDE DEF R
  <2> QED BY <1>1, WFMin
<1>3. \A y \in S : x <= y
  <2> TAKE y \in S
  <2>1. <<y, x>> \in Nat \X Nat /\ ~ (<<y, x>>[1] < <<y, x>>[2])
    BY <1>2
  <2> QED BY <2>1
<1> QED BY <1>3

\* Unlinking an element of a list that lists nothing twice.
LEMMA ListWithout ==
    ASSUME NEW S, NEW s \in Seq(S), NEW x, IsInjective(s)
    PROVE  /\ Without(s, x) \in Seq(S)
           /\ ToSet(Without(s, x)) = ToSet(s) \ {x}
           /\ IsInjective(Without(s, x))
<1>1. DOMAIN s = 1 .. Len(s) /\ Len(s) \in Nat
  BY LenProperties
<1>2. CASE x \notin ToSet(s)
  <2>1. ~ \E i \in 1 .. Len(s) : s[i] = x
    BY <1>1, <1>2 DEF ToSet
  <2>2. Without(s, x) = s
    BY <2>1 DEF Without, RemoveFirst
  <2> QED BY <1>2, <2>2
<1>3. CASE x \in ToSet(s)
  <2> DEFINE I == {i \in 1 .. Len(s) : s[i] = x}
             n == Min(I)
             front == SubSeq(s, 1, n - 1)
             back == SubSeq(s, n + 1, Len(s))
  <2>1. I # {}
    BY <1>1, <1>3 DEF ToSet
  <2>2. n \in I
    <3>1. I \in SUBSET Nat
      BY <1>1
    <3> HIDE DEF I
    <3> QED BY <2>1, <3>1, LeastNumber DEF Min
  <2>3. Without(s, x) = front \o back
    <3>1. \E i \in 1 .. Len(s) : s[i] = x
      BY <2>1
    <3> QED BY <2>1, <3>1 DEF Without, RemoveFirst, RemoveAt, SelectInSeq
  <2>4. n \in 1 .. Len(s) /\ s[n] = x
    BY <2>2
  <2> HIDE DEF n
  <2>5. \A i \in 1 .. Len(s) : s[i] \in S /\ (s[i] = x => i = n)
    BY <1>1, <2>4, ElementOfSeq DEF IsInjective
  <2>6. /\ front \in Seq(S) /\ Len(front) = n - 1
        /\ \A i \in 1 .. n - 1 : front[i] = s[i]
    <3>1. 1 \in Int /\ n - 1 \in Int /\ \A i \in 1 .. n - 1 : s[i] \in S
      BY <1>1, <2>4, <2>5
    <3>2. /\ front \in Seq(S) /\ Len(front) = IF 1 <= n - 1 THEN n - 1 - 1 + 1 ELSE 0
          /\ \A i \in 1 .. n - 1 - 1 + 1 : front[i] = s[1 + i - 1]
      BY <3>1, SubSeqProperties
    <3> HIDE DEF front
    <3> QED BY <1>1, <2>4, <3>2
  <2>7. /\ back \in Seq(S) /\ Len(back) = Len(s) - n
        /\ \A i \in 1 .. Len(s) - n : back[i] = s[i + n]
    <3>1. n + 1 \in Int /\ Len(s) \in Int /\ \A i \in n + 1 .. Len(s) : s[i] \in S
      BY <1>1, <2>4, <2>5
    <3>2. /\ back \in Seq(S)
          /\ Len(back) = IF n + 1 <= Len(s) THEN Len(s) - (n + 1) + 1 ELSE 0
          /\ \A i \in 1 .. Len(s) - (n + 1) + 1 : back[i] = s[n + 1 + i - 1]
      BY <3>1, SubSeqProperties
    <3> HIDE DEF back
    <3>3. Len(s) - (n + 1) + 1 = Len(s) - n /\ (~ (n + 1 <= Len(s)) => Len(s) - n = 0)
      <4>1. \A k \in Nat : \A i \in 1 .. k :
                k - (i + 1) + 1 = k - i /\ (~ (i + 1 <= k) => k - i = 0)
        OBVIOUS
      <4> QED BY <1>1, <2>4, <4>1
    <3>4. ASSUME NEW i \in 1 .. Len(s) - n
          PROVE  back[i] = s[i + n]
      <4>1. n + 1 + i - 1 = i + n
        BY <1>1, <2>4
      <4> QED BY <3>2, <3>3, <4>1
    <3>5. Len(back) = Len(s) - n
      BY <3>2, <3>3
    <3> QED BY <3>2, <3>4, <3>5
  <2> HIDE DEF front, back
  <2>8. DOMAIN front = 1 .. n - 1 /\ DOMAIN back = 1 .. Len(s) - n
    BY <2>6, <2>7, LenProperties
  <2>9. \A i \in DOMAIN s : i = n \/ i \in DOMAIN front \/ (i - n \in DOMAIN back /\ i = (i - n) + n)
    BY <1>1, <2>4, <2>8
  <2>10. /\ \A i \in DOMAIN front : i \in DOMAIN s /\ i # n /\ front[i] = s[i]
         /\ \A i \in DOMAIN back : i + n \in DOMAIN s /\ i + n # n /\ back[i] = s[i + n]
    BY <1>1, <2>4, <2>6, <2>7, <2>8
  <2>11. ToSet(front) \cup ToSet(back) = ToSet(s) \ {x}
    <3>1. ToSet(front) \cup ToSet(back) \subseteq ToSet(s) \ {x}
      BY <1>1, <2>5, <2>10 DEF ToSet
    <3>2. ASSUME NEW y \in ToSet(s), y # x
          PROVE  y \in ToSet(front) \cup ToSet(back)
      <4>1. PICK i \in DOMAIN s : s[i] = y
        BY DEF ToSet
      <4>2. i \in DOMAIN front \/ (i - n \in DOMAIN back /\ back[i - n] = s[i])
        BY <2>4, <2>9, <2>10, <3>2, <4>1
      <4> QED BY <2>10, <4>1, <4>2 DEF ToSet
    <3> QED BY <3>1, <3>2
  <2>12. IsInjective(front)
    BY <2>10 DEF IsInjective
  <2>13. IsInjective(back)
    <3> SUFFICES ASSUME NEW a \in DOMAIN back, NEW b \in DOMAIN back, back[a] = back[b]
                 PROVE  a = b
      BY DEF IsInjective
    <3>1. a + n = b + n
      BY <2>10 DEF IsInjective
    <3> QED BY <1>1, <2>4, <2>8, <3>1
  <2>14. ToSet(front) \cap ToSet(back) = {}
    <3>1. ASSUME NEW a \in DOMAIN front, NEW b \in DOMAIN back
          PROVE  front[a] # back[b]
      <4>1. a # b + n
        BY <1>1, <2>4, <2>8
      <4> QED BY <2>10, <4>1 DEF IsInjective
    <3> QED BY <3>1 DEF ToSet
  <2> QED BY <2>3, <2>6, <2>7, <2>11, <2>12, <2>13, <2>14, ListConcat
<1> QED BY <1>2, <1>3

-----------------------------------------------------------------------------
Objects == [firstThread : Seq(Threads), firstPage : Seq(Pages), fileSlot : Slots]

\* A record of which one field is changed.
LEMMA ChangeThreads ==
    ASSUME NEW o \in Objects, NEW l \in Seq(Threads)
    PROVE  [o EXCEPT !.firstThread = l]
             = [firstThread |-> l, firstPage |-> o.firstPage, fileSlot |-> o.fileSlot]
BY DEF Objects

LEMMA ChangePages ==
    ASSUME NEW o \in Objects, NEW l \in Seq(Pages)
    PROVE  [o EXCEPT !.firstPage = l]
             = [firstThread |-> o.firstThread, firstPage |-> l, fileSlot |-> o.fileSlot]
BY DEF Objects

LEMMA ObjectParts ==
    ASSUME NEW o \in Objects
    PROVE  /\ o.firstThread \in Seq(Threads) /\ o.firstPage \in Seq(Pages)
           /\ o.fileSlot = nextAllocableFileSlot
BY DEF Objects, Slots

LEMMA MakeObject ==
    ASSUME NEW l \in Seq(Threads), NEW p \in Seq(Pages)
    PROVE  [firstThread |-> l, firstPage |-> p, fileSlot |-> nextAllocableFileSlot] \in Objects
BY DEF Objects, Slots

\* One Space object is changed.
LEMMA ChangeSpace ==
    ASSUME TypeOK, NEW s \in SpaceSlots, NEW o \in Objects, spaces' = [spaces EXCEPT ![s] = o]
    PROVE  /\ spaces' \in Seq(Objects) /\ SpaceSlots' = SpaceSlots
           /\ spaces'[s] = o
           /\ \A r \in SpaceSlots \ {s} : spaces'[r] = spaces[r]
<1>1. spaces \in Seq(Objects)
  BY DEF TypeOK, Objects
<1>2. s \in 1 .. Len(spaces)
  BY DEF SpaceSlots
<1> QED BY <1>1, <1>2, ExceptSeq DEF SpaceSlots

\* The threads of a space, as the list of all threads has them.
Own(s) == {t \in Threads : Known(t) /\ space[t] = s}

\* No space lists a thread twice, and find returns only threads that were
\* started and have a space.
ListedOnce   == \A s \in SpaceSlots : IsInjective(spaces[s].firstThread)
KnownStarted == \A t \in Threads : Known(t) => space[t] \in SpaceSlots /\ file[t] # None

\* The inductive invariant of the lists of threads and spaces.
ListInv == TypeOK /\ ThreadListsAgree /\ ListedOnce /\ KnownStarted

\* A known thread has a space in use.
LEMMA KnownUses ==
    ASSUME ListInv, NEW t \in Threads, Known(t)
    PROVE  /\ space[t] \in SpaceSlots /\ Used(space[t]) /\ t \in Own(space[t])
           /\ spaces[space[t]] \in Objects
<1>1. space[t] \in SpaceSlots /\ t \in Own(space[t])
  BY DEF ListInv, KnownStarted, Own
<1>2. spaces[space[t]] \in Objects
  BY <1>1, ElementOfSeq DEF ListInv, TypeOK, SpaceSlots, Objects
<1> QED BY <1>1, <1>2 DEF ListInv, ThreadListsAgree, Own

LEMMA ListInvInit == Init => ListInv
<1> SUFFICES ASSUME Init
             PROVE  ListInv
  OBVIOUS
<1>1. SpaceSlots = {} /\ Len(spaces) = 0
  BY EmptySeq DEF Init, SpaceSlots
<1>2. ToSet(threads) = {} /\ IsInjective(threads) /\ IsInjective(freeSpaces)
  BY EmptyList DEF Init
<1>3. TypeOK
  <2>1. \A S : <<>> \in Seq(S)
    BY EmptySeq
  <2>2. 0 \in 0 .. MaxPages
    BY AppPagerAssumption
  <2>3. threads = <<>> /\ spaces = <<>> /\ freeSpaces = <<>> /\ freePages = <<>> /\ lostPages = <<>>
    BY DEF Init
  <2>4. /\ space \in [Threads -> {NoSpace} \cup SpaceSlots]
        /\ slots \in [Slots -> Files \cup {Zeroed}]
        /\ filledFrom \in [Pages -> Files \cup {Zeroed}]
        /\ file \in [Threads -> Files \cup {None}]
    BY DEF Init
  <2>5. status \in {"up", "Out Of Memory"} /\ ran \subseteq Threads /\ newest \in Threads \cup {None}
        /\ numPages \in 0 .. MaxPages
    BY <2>2 DEF Init
  <2>6. /\ threads \in Seq(Threads)
        /\ spaces \in Seq([firstThread : Seq(Threads), firstPage : Seq(Pages), fileSlot : Slots])
        /\ freeSpaces \in Seq(SpaceSlots)
        /\ freePages \in Seq(Pages)
        /\ lostPages \in Seq(Pages)
    BY <2>1, <2>3
  <2> QED BY <2>4, <2>5, <2>6 DEF TypeOK
<1> QED BY <1>1, <1>2, <1>3 DEF ListInv, ThreadListsAgree, ListedOnce, KnownStarted, Known

\* What a started program changes: a Space object that was free or did not
\* exist gets its first thread and no page.
LEMMA AllocFacts ==
    ASSUME ListInv, NEW t \in Threads, Space_alloc(t)
    PROVE  \E s \in Nat \ {0} :
               /\ s \notin SpaceSlots \/ ~ Used(s)
               /\ SpaceSlots' = SpaceSlots \cup {s}
               /\ spaces' \in Seq(Objects)
               /\ spaces'[s] = [firstThread |-> <<t>>, firstPage |-> <<>>, fileSlot |-> nextAllocableFileSlot]
               /\ \A r \in SpaceSlots \ {s} : spaces'[r] = spaces[r] /\ (Used(r)' <=> Used(r))
               /\ Used(s)'
               /\ space' = [space EXCEPT ![t] = s]
               /\ freeSpaces' \in Seq(SpaceSlots') /\ IsInjective(freeSpaces')
<1> DEFINE new == [firstThread |-> <<t>>, firstPage |-> <<>>, fileSlot |-> nextAllocableFileSlot]
<1>1. new \in Objects
  BY EmptySeq DEF Objects, Slots
<1>2. spaces \in Seq(Objects) /\ freeSpaces \in Seq(SpaceSlots) /\ IsInjective(freeSpaces) /\ Len(spaces) \in Nat
  BY LenProperties DEF ListInv, TypeOK, ThreadListsAgree, Objects
<1>3. CASE freeSpaces = <<>>
  <2> DEFINE s == Len(spaces) + 1
  <2>1. /\ spaces' = Append(spaces, new) /\ space' = [space EXCEPT ![t] = s]
        /\ freeSpaces' = freeSpaces
    BY <1>3 DEF Space_alloc
  <2> HIDE DEF new
  <2>2. /\ spaces' \in Seq(Objects) /\ Len(spaces') = s /\ spaces'[s] = new
        /\ \A r \in 1 .. Len(spaces) : spaces'[r] = spaces[r]
    BY <1>1, <1>2, <2>1, AppendProperties
  <2>3. SpaceSlots' = SpaceSlots \cup {s} /\ s \notin SpaceSlots
    BY <1>2, <2>2 DEF SpaceSlots
  <2>4. \A r : Used(r) /\ Used(r)'
    BY <1>3, <2>1, EmptyList DEF Used
  <2>5. freeSpaces' \in Seq(SpaceSlots') /\ IsInjective(freeSpaces')
    BY <1>3, <2>1, EmptySeq, EmptyList
  <2>6. s \in Nat \ {0}
    BY <1>2
  <2>7. \A r \in SpaceSlots : spaces'[r] = spaces[r]
    BY <2>2 DEF SpaceSlots
  <2> HIDE DEF s
  <2> QED BY <2>1, <2>2, <2>3, <2>4, <2>5, <2>6, <2>7 DEF new
<1>4. CASE freeSpaces # <<>>
  <2>1. PICK s \in SpaceSlots :
          /\ s = Head(freeSpaces) /\ Tail(freeSpaces) \in Seq(SpaceSlots)
          /\ ToSet(freeSpaces) = {s} \cup ToSet(Tail(freeSpaces))
          /\ IsInjective(Tail(freeSpaces)) /\ s \notin ToSet(Tail(freeSpaces))
    BY <1>2, <1>4, ListTail
  <2>2. /\ spaces' = [spaces EXCEPT ![s].firstThread = <<t>>, ![s].firstPage = <<>>]
        /\ space' = [space EXCEPT ![t] = s] /\ freeSpaces' = Tail(freeSpaces)
    BY <1>4, <2>1 DEF Space_alloc
  <2>3. spaces[s] \in Objects /\ DOMAIN spaces = SpaceSlots
    BY <1>2, <2>1, ElementOfSeq, LenProperties DEF SpaceSlots
  <2> DEFINE mid == [spaces EXCEPT ![s].firstThread = <<t>>]
  <2>4. mid[s] = [spaces[s] EXCEPT !.firstThread = <<t>>] /\ DOMAIN mid = SpaceSlots
    BY <2>3
  <2>5. /\ [spaces[s] EXCEPT !.firstThread = <<t>>] \in Objects
        /\ [[spaces[s] EXCEPT !.firstThread = <<t>>] EXCEPT !.firstPage = <<>>] = new
    <3>1. <<t>> \in Seq(Threads) /\ <<>> \in Seq(Pages)
      BY EmptySeq
    <3> DEFINE o == [spaces[s] EXCEPT !.firstThread = <<t>>]
    <3>2. o = [firstThread |-> <<t>>, firstPage |-> spaces[s].firstPage, fileSlot |-> nextAllocableFileSlot]
      BY <2>3, <3>1, ChangeThreads, ObjectParts
    <3>3. o \in Objects
      BY <2>3, <3>1, <3>2, ObjectParts, MakeObject
    <3>4. o.firstThread = <<t>> /\ o.fileSlot = nextAllocableFileSlot
      BY <3>2
    <3> HIDE DEF o
    <3>5. [o EXCEPT !.firstPage = <<>>]
            = [firstThread |-> o.firstThread, firstPage |-> <<>>, fileSlot |-> o.fileSlot]
      BY <3>1, <3>3, ChangePages
    <3> QED BY <3>3, <3>4, <3>5 DEF o
  <2>6. spaces' = [spaces EXCEPT ![s] = new]
    <3>1. spaces' = [mid EXCEPT ![s] = [mid[s] EXCEPT !.firstPage = <<>>]]
      BY <2>2, <2>4
    <3>2. [mid[s] EXCEPT !.firstPage = <<>>] = new
      BY <2>4, <2>5
    <3> HIDE DEF new
    <3> QED BY <2>3, <3>1, <3>2
  <2> HIDE DEF new
  <2>7. /\ spaces' \in Seq(Objects) /\ SpaceSlots' = SpaceSlots /\ spaces'[s] = new
        /\ \A r \in SpaceSlots \ {s} : spaces'[r] = spaces[r]
    BY <1>1, <2>6, ChangeSpace DEF ListInv
  <2>8. Used(s)' /\ ~ Used(s) /\ \A r \in SpaceSlots \ {s} : Used(r)' <=> Used(r)
    BY <2>1, <2>2 DEF Used
  <2>9. s \in Nat \ {0}
    BY <1>2 DEF SpaceSlots
  <2>10. SpaceSlots' = SpaceSlots \cup {s}
    BY <2>7
  <2>11. freeSpaces' \in Seq(SpaceSlots') /\ IsInjective(freeSpaces')
    BY <2>1, <2>2, <2>7
  <2> WITNESS s \in Nat \ {0}
  <2> QED BY <2>2, <2>7, <2>8, <2>10, <2>11 DEF new
<1> QED BY <1>3, <1>4

-----------------------------------------------------------------------------
\* Space object s gets the lists l and q; the other ones stay as they are.
Changes(s, l, q) ==
    /\ spaces' \in Seq(Objects) /\ SpaceSlots' = SpaceSlots
    /\ spaces'[s].firstThread = l /\ spaces'[s].firstPage = q
    /\ \A r \in SpaceSlots \ {s} : spaces'[r] = spaces[r]

LEMMA ThreadsChanged ==
    ASSUME TypeOK, NEW s \in SpaceSlots, NEW l \in Seq(Threads),
           spaces' = [spaces EXCEPT ![s].firstThread = l]
    PROVE  Changes(s, l, spaces[s].firstPage)
<1> DEFINE o == [firstThread |-> l, firstPage |-> spaces[s].firstPage, fileSlot |-> spaces[s].fileSlot]
<1>1. spaces[s] \in Objects
  BY ElementOfSeq DEF TypeOK, SpaceSlots, Objects
<1>2. [spaces[s] EXCEPT !.firstThread = l] = o
  BY <1>1, ChangeThreads
<1>3. o \in Objects
  BY <1>1, ObjectParts, MakeObject
<1>4. spaces' = [spaces EXCEPT ![s] = o]
  BY <1>2
<1>5. o.firstThread = l /\ o.firstPage = spaces[s].firstPage
  OBVIOUS
<1> HIDE DEF o
<1> QED BY <1>3, <1>4, <1>5, ChangeSpace DEF Changes

LEMMA PagesChanged ==
    ASSUME TypeOK, NEW s \in SpaceSlots, NEW q \in Seq(Pages),
           spaces' = [spaces EXCEPT ![s].firstPage = q]
    PROVE  Changes(s, spaces[s].firstThread, q)
<1> DEFINE o == [firstThread |-> spaces[s].firstThread, firstPage |-> q, fileSlot |-> spaces[s].fileSlot]
<1>1. spaces[s] \in Objects
  BY ElementOfSeq DEF TypeOK, SpaceSlots, Objects
<1>2. [spaces[s] EXCEPT !.firstPage = q] = o
  BY <1>1, ChangePages
<1>3. o \in Objects
  BY <1>1, ObjectParts, MakeObject
<1>4. spaces' = [spaces EXCEPT ![s] = o]
  BY <1>2
<1>5. o.firstThread = spaces[s].firstThread /\ o.firstPage = q
  OBVIOUS
<1> HIDE DEF o
<1> QED BY <1>3, <1>4, <1>5, ChangeSpace DEF Changes

\* What one more thread of a space changes.
LEMMA CopyFacts ==
    ASSUME ListInv, NEW from \in Threads, NEW to \in Threads, copyAssociation(from, to)
    PROVE  /\ space[from] \in SpaceSlots /\ Used(space[from])
           /\ ~ Known(to)
           /\ Changes(space[from], <<to>> \o spaces[space[from]].firstThread,
                      spaces[space[from]].firstPage)
<1>1. /\ space[from] \in SpaceSlots /\ Used(space[from])
      /\ spaces[space[from]] \in Objects
  BY KnownUses DEF copyAssociation
<1>2. ~ Known(to)
  BY DEF copyAssociation, Fresh, ListInv, KnownStarted
<1>3. <<to>> \o spaces[space[from]].firstThread \in Seq(Threads)
  BY <1>1, ObjectParts, ListPrepend
<1>4. spaces' = [spaces EXCEPT ![space[from]].firstThread = <<to>> \o spaces[space[from]].firstThread]
  BY DEF copyAssociation
<1>5. TypeOK
  BY DEF ListInv
<1> QED BY <1>1, <1>2, <1>3, <1>4, <1>5, ThreadsChanged

\* What a fault that is answered changes.
LEMMA FaultFacts ==
    ASSUME ListInv, NEW t \in Threads, pagefault(t), status' = "up"
    PROVE  \E p \in Pages :
               /\ space[t] \in SpaceSlots /\ Used(space[t])
               /\ Changes(space[t], spaces[space[t]].firstThread,
                          <<p>> \o spaces[space[t]].firstPage)
               /\ filledFrom' = [filledFrom EXCEPT ![p] = slots[nextAllocableFileSlot]]
               /\ \/ /\ freePages # <<>> /\ p = Head(freePages)
                     /\ freePages' = Tail(freePages) /\ numPages' = numPages
                  \/ /\ freePages = <<>> /\ p = numPages + 1 /\ numPages < MaxPages
                     /\ freePages' = freePages /\ numPages' = numPages + 1
               /\ ran' = ran \cup {t}
               /\ UNCHANGED <<threads, space, freeSpaces, lostPages, slots, file, newest>>
<1>1. /\ space[t] \in SpaceSlots /\ Used(space[t])
      /\ spaces[space[t]] \in Objects
  BY KnownUses DEF pagefault
<1>2. PICK p \in Page_alloc :
            /\ spaces' = [spaces EXCEPT ![space[t]].firstPage = <<p>> \o spaces[space[t]].firstPage]
            /\ filledFrom' = [filledFrom EXCEPT ![p] = slots[spaces[space[t]].fileSlot]]
            /\ IF freePages # <<>>
               THEN freePages' = Tail(freePages) /\ UNCHANGED numPages
               ELSE numPages' = numPages + 1 /\ UNCHANGED freePages
            /\ ran' = ran \cup {t}
            /\ UNCHANGED <<threads, space, freeSpaces, lostPages, slots, file, newest>>
  BY DEF pagefault
<1>3. \/ freePages # <<>> /\ p = Head(freePages)
      \/ freePages = <<>> /\ p = numPages + 1 /\ numPages < MaxPages
  BY DEF Page_alloc
<1>4. freePages \in Seq(Pages) /\ numPages \in Nat /\ MaxPages \in Nat
  <2>1. freePages \in Seq(Pages) /\ numPages \in 0 .. MaxPages
    BY DEF ListInv, TypeOK
  <2> QED BY <2>1, AppPagerAssumption
<1>5. p \in Pages
  <2>1. CASE freePages # <<>> /\ p = Head(freePages)
    BY <1>4, <2>1, ListTail
  <2>2. CASE p = numPages + 1 /\ numPages < MaxPages
    BY <1>4, <2>2 DEF Pages
  <2> QED BY <1>3, <2>1, <2>2
<1>6. <<p>> \o spaces[space[t]].firstPage \in Seq(Pages)
  BY <1>1, <1>5, ObjectParts, ListPrepend
<1>7. Changes(space[t], spaces[space[t]].firstThread, <<p>> \o spaces[space[t]].firstPage)
  BY <1>1, <1>2, <1>6, PagesChanged DEF ListInv
<1>8. spaces[space[t]].fileSlot = nextAllocableFileSlot
  BY <1>1, ObjectParts
<1> WITNESS p \in Pages
<1> QED BY <1>1, <1>2, <1>3, <1>7, <1>8

\* What the end of a thread changes.
LEMMA DeleteFacts ==
    ASSUME ListInv, NEW t \in Threads, deleteAssociation(t)
    PROVE  /\ space[t] \in SpaceSlots /\ Used(space[t]) /\ t \in Own(space[t])
           /\ ToSet(threads') = ToSet(threads) \ {t}
           /\ IsInjective(threads') /\ threads' \in Seq(Threads)
           /\ Changes(space[t], Without(spaces[space[t]].firstThread, t),
                      spaces[space[t]].firstPage)
           /\ ToSet(Without(spaces[space[t]].firstThread, t)) = Own(space[t]) \ {t}
           /\ IsInjective(Without(spaces[space[t]].firstThread, t))
           /\ LastOf(t) <=> Own(space[t]) \ {t} = {}
<1>1. /\ space[t] \in SpaceSlots /\ Used(space[t]) /\ t \in Own(space[t])
      /\ spaces[space[t]] \in Objects
  BY KnownUses DEF deleteAssociation
<1>2. threads \in Seq(Threads) /\ IsInjective(threads) /\ TypeOK
  BY DEF ListInv, TypeOK, ThreadListsAgree
<1>3. threads' = Without(threads, t)
  BY DEF deleteAssociation
<1> DEFINE old == spaces[space[t]].firstThread
           new == Without(old, t)
<1>4. old \in Seq(Threads) /\ IsInjective(old)
  BY <1>1, ObjectParts DEF ListInv, ListedOnce
<1>5. ToSet(old) = Own(space[t])
  BY <1>1 DEF ListInv, ThreadListsAgree, Own
<1>6. new \in Seq(Threads) /\ ToSet(new) = Own(space[t]) \ {t} /\ IsInjective(new)
  <2> HIDE DEF old
  <2> QED BY <1>4, <1>5, ListWithout
<1>7. spaces' = [spaces EXCEPT ![space[t]].firstThread = new]
  BY DEF deleteAssociation
<1>8. LastOf(t) <=> new = <<>>
  BY DEF LastOf
<1> HIDE DEF new
<1>9. Changes(space[t], new, spaces[space[t]].firstPage)
  BY <1>1, <1>2, <1>6, <1>7, ThreadsChanged
<1>10. LastOf(t) <=> Own(space[t]) \ {t} = {}
  BY <1>6, <1>8, ListElements
<1>11. /\ ToSet(threads') = ToSet(threads) \ {t}
       /\ IsInjective(threads') /\ threads' \in Seq(Threads)
  BY <1>2, <1>3, ListWithout
<1> QED BY <1>1, <1>6, <1>9, <1>10, <1>11 DEF new

-----------------------------------------------------------------------------
LEMMA AssociateKeepsLists ==
    ASSUME ListInv, NEW t \in Threads, NEW f \in Files, associateImage(t, f)
    PROVE  ListInv'
<1>1. ~ Known(t)
  BY DEF associateImage, Fresh, ListInv, KnownStarted
<1>2. PICK s \in Nat \ {0} :
               /\ s \notin SpaceSlots \/ ~ Used(s)
               /\ SpaceSlots' = SpaceSlots \cup {s}
               /\ spaces' \in Seq(Objects)
               /\ spaces'[s] = [firstThread |-> <<t>>, firstPage |-> <<>>, fileSlot |-> nextAllocableFileSlot]
               /\ \A r \in SpaceSlots \ {s} : spaces'[r] = spaces[r] /\ (Used(r)' <=> Used(r))
               /\ Used(s)'
               /\ space' = [space EXCEPT ![t] = s]
               /\ freeSpaces' \in Seq(SpaceSlots') /\ IsInjective(freeSpaces')
  BY AllocFacts DEF associateImage
<1>3. /\ threads' = <<t>> \o threads /\ file' = [file EXCEPT ![t] = f] /\ newest' = t
      /\ mapFile(nextAllocableFileSlot, f)
      /\ UNCHANGED <<freePages, lostPages, numPages, filledFrom, status, ran>>
  <2>1. space'[t] = s
    BY <1>2 DEF ListInv, TypeOK
  <2>2. spaces'[space'[t]].fileSlot = nextAllocableFileSlot
    BY <1>2, <2>1
  <2> QED BY <2>2 DEF associateImage
<1>4. /\ threads' \in Seq(Threads) /\ IsInjective(threads')
      /\ ToSet(threads') = {t} \cup ToSet(threads)
  <2>1. threads \in Seq(Threads) /\ IsInjective(threads) /\ t \notin ToSet(threads)
    BY <1>1 DEF ListInv, TypeOK, ThreadListsAgree, Known
  <2> QED BY <1>3, <2>1, ListPrepend
<1>5. space'[t] = s /\ \A u \in Threads \ {t} : space'[u] = space[u]
  BY <1>2 DEF ListInv, TypeOK
<1>6. \A u \in Threads : Known(u)' <=> u = t \/ Known(u)
  BY <1>4 DEF Known
<1>7. TypeOK'
  <2>1. slots' \in [Slots -> Files \cup {Zeroed}]
    BY <1>3 DEF mapFile, ListInv, TypeOK
  <2>2. file' \in [Threads -> Files \cup {None}]
    BY <1>3 DEF ListInv, TypeOK
  <2>3. space' \in [Threads -> {NoSpace} \cup SpaceSlots']
    BY <1>2 DEF ListInv, TypeOK
  <2> QED BY <1>2, <1>3, <1>4, <2>1, <2>2, <2>3 DEF ListInv, TypeOK, Objects
<1>8. \A r \in SpaceSlots \ {s} : Own(r)' = Own(r)
  BY <1>1, <1>5, <1>6 DEF Own
<1>9. Own(s)' = {t}
  <2>1. \A u \in Threads : Known(u) => space[u] # s
    BY <1>2, KnownUses
  <2> QED BY <1>5, <1>6, <2>1 DEF Own
<1>10. ThreadListsAgree'
  <2>1. \A r \in SpaceSlots \ {s} : ToSet(spaces'[r].firstThread) = Own(r)' /\ (Used(r)' <=> Own(r)' # {})
    BY <1>2, <1>8 DEF ListInv, ThreadListsAgree, Own
  <2>2. ToSet(spaces'[s].firstThread) = Own(s)'
    <3>1. ToSet(<<t>>) = {t}
      BY DEF ToSet
    <3> QED BY <1>2, <1>9, <3>1
  <2>3. \A r \in SpaceSlots' : ToSet(spaces'[r].firstThread) = Own(r)' /\ (Used(r)' <=> Own(r)' # {})
    BY <1>2, <1>9, <2>1, <2>2
  <2> QED BY <1>2, <1>4, <2>3 DEF ThreadListsAgree, Own
<1>11. ListedOnce'
  <2>1. IsInjective(<<t>>)
    BY DEF IsInjective
  <2> QED BY <1>2, <2>1 DEF ListInv, ListedOnce
<1>12. KnownStarted'
  <2>1. f # None
    BY AppPagerAssumption
  <2> QED BY <1>2, <1>3, <1>5, <1>6, <2>1 DEF ListInv, KnownStarted, TypeOK
<1> QED BY <1>7, <1>10, <1>11, <1>12 DEF ListInv

LEMMA CopyKeepsLists ==
    ASSUME ListInv, NEW from \in Threads, NEW to \in Threads, copyAssociation(from, to)
    PROVE  ListInv'
<1>1. PICK s \in SpaceSlots :
        /\ s = space[from] /\ Used(s) /\ ~ Known(to)
        /\ Changes(s, <<to>> \o spaces[s].firstThread, spaces[s].firstPage)
  BY CopyFacts
<1>2. /\ threads' = <<to>> \o threads /\ space' = [space EXCEPT ![to] = s]
      /\ file' = [file EXCEPT ![to] = file[from]] /\ ran' = ran \cup {to}
      /\ Known(from)
      /\ UNCHANGED <<freeSpaces, memory, status, newest>>
  BY <1>1 DEF copyAssociation
<1>3. /\ threads' \in Seq(Threads) /\ IsInjective(threads')
      /\ ToSet(threads') = {to} \cup ToSet(threads)
  <2>1. threads \in Seq(Threads) /\ IsInjective(threads) /\ to \notin ToSet(threads)
    BY <1>1 DEF ListInv, TypeOK, ThreadListsAgree, Known
  <2> QED BY <1>2, <2>1, ListPrepend
<1>4. space'[to] = s /\ \A u \in Threads \ {to} : space'[u] = space[u]
  BY <1>2 DEF ListInv, TypeOK
<1>5. \A u \in Threads : Known(u)' <=> u = to \/ Known(u)
  BY <1>3 DEF Known
<1>6. TypeOK'
  <2>1. file' \in [Threads -> Files \cup {None}]
    BY <1>2 DEF ListInv, TypeOK
  <2>2. space' \in [Threads -> {NoSpace} \cup SpaceSlots']
    BY <1>1, <1>2 DEF ListInv, TypeOK, Changes
  <2>3. spaces' \in Seq(Objects) /\ freeSpaces' \in Seq(SpaceSlots')
    BY <1>1, <1>2 DEF ListInv, TypeOK, Changes
  <2> QED BY <1>2, <1>3, <2>1, <2>2, <2>3 DEF ListInv, TypeOK, Objects, memory
<1>7. \A r : Used(r)' <=> Used(r)
  BY <1>2 DEF Used
<1>8. \A r \in SpaceSlots \ {s} : Own(r)' = Own(r)
  BY <1>1, <1>4, <1>5 DEF Own
<1>9. Own(s)' = Own(s) \cup {to} /\ to \notin Own(s)
  BY <1>1, <1>4, <1>5 DEF Own
<1>10. spaces[s] \in Objects /\ ToSet(spaces[s].firstThread) = Own(s) /\ IsInjective(spaces[s].firstThread)
  BY <1>1, ElementOfSeq DEF ListInv, TypeOK, SpaceSlots, Objects, ThreadListsAgree, Own, ListedOnce
<1>11. /\ ToSet(<<to>> \o spaces[s].firstThread) = Own(s)'
       /\ IsInjective(<<to>> \o spaces[s].firstThread)
  BY <1>9, <1>10, ObjectParts, ListPrepend
<1>12. ThreadListsAgree'
  <2>1. \A r \in SpaceSlots \ {s} : ToSet(spaces'[r].firstThread) = Own(r)' /\ (Used(r)' <=> Own(r)' # {})
    BY <1>1, <1>7, <1>8 DEF ListInv, ThreadListsAgree, Own, Changes
  <2>2. ToSet(spaces'[s].firstThread) = Own(s)' /\ Used(s)' /\ Own(s)' # {}
    BY <1>1, <1>7, <1>9, <1>11 DEF Changes
  <2>3. \A r \in SpaceSlots' : ToSet(spaces'[r].firstThread) = Own(r)' /\ (Used(r)' <=> Own(r)' # {})
    BY <1>1, <2>1, <2>2 DEF Changes
  <2>4. IsInjective(freeSpaces')
    BY <1>2 DEF ListInv, ThreadListsAgree
  <2> QED BY <1>3, <2>3, <2>4 DEF ThreadListsAgree, Own
<1>13. ListedOnce'
  BY <1>1, <1>11 DEF ListInv, ListedOnce, Changes
<1>14. KnownStarted'
  BY <1>1, <1>2, <1>4, <1>5 DEF ListInv, KnownStarted, TypeOK, Changes
<1> QED BY <1>6, <1>12, <1>13, <1>14 DEF ListInv

LEMMA FaultKeepsLists ==
    ASSUME ListInv, NEW t \in Threads, pagefault(t)
    PROVE  ListInv'
<1>1. CASE status' # "up"
  <2>1. UNCHANGED <<threads, space, spaces, freeSpaces, freePages, lostPages, numPages, slots,
                    filledFrom, file, ran, newest>> /\ status' = "Out Of Memory"
    BY <1>1 DEF pagefault, lists, memory
  <2> QED BY <2>1 DEF ListInv, TypeOK, ThreadListsAgree, ListedOnce, KnownStarted, SpaceSlots, Used, Known
<1>2. CASE status' = "up"
  <2>1. PICK s \in SpaceSlots, p \in Pages :
               /\ s = space[t] /\ Used(s)
               /\ Changes(s, spaces[s].firstThread, <<p>> \o spaces[s].firstPage)
               /\ filledFrom' = [filledFrom EXCEPT ![p] = slots[nextAllocableFileSlot]]
               /\ \/ /\ freePages # <<>> /\ p = Head(freePages)
                     /\ freePages' = Tail(freePages) /\ numPages' = numPages
                  \/ /\ freePages = <<>> /\ p = numPages + 1 /\ numPages < MaxPages
                     /\ freePages' = freePages /\ numPages' = numPages + 1
               /\ ran' = ran \cup {t}
               /\ UNCHANGED <<threads, space, freeSpaces, lostPages, slots, file, newest>>
    BY <1>2, FaultFacts
  <2>2. freePages' \in Seq(Pages)
    <3>1. freePages \in Seq(Pages)
      BY DEF ListInv, TypeOK
    <3>2. freePages # <<>> => Tail(freePages) \in Seq(Pages)
      BY <3>1, ListTail
    <3> QED BY <2>1, <3>1, <3>2
  <2>3. numPages' \in 0 .. MaxPages
    <3>1. numPages \in 0 .. MaxPages /\ MaxPages \in Nat
      BY AppPagerAssumption DEF ListInv, TypeOK
    <3>2. numPages' = numPages \/ (numPages' = numPages + 1 /\ numPages < MaxPages)
      BY <2>1
    <3> QED BY <3>1, <3>2
  <2>4. filledFrom' \in [Pages -> Files \cup {Zeroed}]
    <3>1. slots[nextAllocableFileSlot] \in Files \cup {Zeroed}
      BY DEF ListInv, TypeOK, Slots
    <3> QED BY <2>1, <3>1 DEF ListInv, TypeOK
  <2>5. TypeOK'
    BY <1>2, <2>1, <2>2, <2>3, <2>4 DEF ListInv, TypeOK, Changes, Objects
  <2>6. \A r \in SpaceSlots : spaces'[r].firstThread = spaces[r].firstThread
    BY <2>1 DEF Changes
  <2> QED BY <2>1, <2>5, <2>6 DEF ListInv, ThreadListsAgree, ListedOnce, KnownStarted, Changes, Used, Known
<1> QED BY <1>1, <1>2

LEMMA DeleteKeepsLists ==
    ASSUME ListInv, NEW t \in Threads, deleteAssociation(t)
    PROVE  ListInv'
<1>1. PICK s \in SpaceSlots :
           /\ s = space[t] /\ Used(s) /\ t \in Own(s)
           /\ ToSet(threads') = ToSet(threads) \ {t}
           /\ IsInjective(threads') /\ threads' \in Seq(Threads)
           /\ Changes(s, Without(spaces[s].firstThread, t), spaces[s].firstPage)
           /\ ToSet(Without(spaces[s].firstThread, t)) = Own(s) \ {t}
           /\ IsInjective(Without(spaces[s].firstThread, t))
           /\ LastOf(t) <=> Own(s) \ {t} = {}
  BY DeleteFacts
<1>2. /\ UNCHANGED <<space, numPages, slots, filledFrom, status, file, ran, newest>>
      /\ IF LastOf(t)
         THEN Page_free(spaces[s].firstPage) /\ freeSpaces' = <<s>> \o freeSpaces
         ELSE UNCHANGED <<freePages, lostPages, freeSpaces>>
  BY <1>1 DEF deleteAssociation
<1> HIDE DEF LastOf
<1>3. \A u \in Threads : Known(u)' <=> u # t /\ Known(u)
  BY <1>1 DEF Known
<1>4. freeSpaces \in Seq(SpaceSlots) /\ IsInjective(freeSpaces) /\ s \notin ToSet(freeSpaces)
  BY <1>1 DEF ListInv, TypeOK, ThreadListsAgree, Used
<1>5. /\ freeSpaces' \in Seq(SpaceSlots) /\ IsInjective(freeSpaces')
      /\ ToSet(freeSpaces') = ToSet(freeSpaces) \cup (IF LastOf(t) THEN {s} ELSE {})
  <2>1. CASE LastOf(t)
    <3>1. freeSpaces' = <<s>> \o freeSpaces
      BY <1>2, <2>1
    <3>2. /\ <<s>> \o freeSpaces \in Seq(SpaceSlots) /\ IsInjective(<<s>> \o freeSpaces)
          /\ ToSet(<<s>> \o freeSpaces) = {s} \cup ToSet(freeSpaces)
      BY <1>4, ListPrepend
    <3> QED BY <2>1, <3>1, <3>2
  <2>2. CASE ~ LastOf(t)
    BY <1>2, <1>4, <2>2
  <2> QED BY <2>1, <2>2
<1>6. \A r \in SpaceSlots \ {s} : Own(r)' = Own(r) /\ (Used(r)' <=> Used(r))
  BY <1>1, <1>2, <1>3, <1>5 DEF Own, Used
<1>7. Own(s)' = Own(s) \ {t} /\ (Used(s)' <=> ~ LastOf(t))
  BY <1>2, <1>3, <1>4, <1>5 DEF Own, Used
<1>8. freePages' \in Seq(Pages) /\ lostPages' \in Seq(Pages)
  <2>1. freePages \in Seq(Pages) /\ lostPages \in Seq(Pages) /\ spaces[s].firstPage \in Seq(Pages)
    <3>1. spaces[s] \in Objects
      BY <1>1, KnownUses DEF deleteAssociation
    <3>2. spaces[s].firstPage \in Seq(Pages)
      BY <3>1, ObjectParts
    <3> QED BY <3>2 DEF ListInv, TypeOK
  <2>2. lostPages \o freePages \in Seq(Pages) /\ spaces[s].firstPage \o freePages \in Seq(Pages)
    BY <2>1, ConcatProperties
  <2> QED BY <1>2, <2>1, <2>2, EmptySeq DEF Page_free
<1>9. TypeOK'
  BY <1>1, <1>2, <1>5, <1>8 DEF ListInv, TypeOK, Changes, Objects
<1>10. ThreadListsAgree'
  <2>1. \A r \in SpaceSlots \ {s} : ToSet(spaces'[r].firstThread) = Own(r)' /\ (Used(r)' <=> Own(r)' # {})
    BY <1>1, <1>6 DEF ListInv, ThreadListsAgree, Own, Changes
  <2>2. ToSet(spaces'[s].firstThread) = Own(s)' /\ (Used(s)' <=> Own(s)' # {})
    BY <1>1, <1>7 DEF Changes
  <2>3. \A r \in SpaceSlots' : ToSet(spaces'[r].firstThread) = Own(r)' /\ (Used(r)' <=> Own(r)' # {})
    BY <1>1, <2>1, <2>2 DEF Changes
  <2> QED BY <1>1, <1>5, <2>3 DEF ThreadListsAgree, Own
<1>11. ListedOnce'
  BY <1>1 DEF ListInv, ListedOnce, Changes
<1>12. KnownStarted'
  BY <1>1, <1>2, <1>3 DEF ListInv, KnownStarted, Changes
<1> QED BY <1>9, <1>10, <1>11, <1>12 DEF ListInv

LEMMA ListInvStep == ListInv /\ [Next]_vars => ListInv'
<1>1. ASSUME ListInv, UNCHANGED vars
      PROVE  ListInv'
  BY <1>1 DEF vars, lists, memory, ListInv, TypeOK, ThreadListsAgree, ListedOnce, KnownStarted,
              SpaceSlots, Used, Known
<1> QED BY <1>1, AssociateKeepsLists, CopyKeepsLists, FaultKeepsLists, DeleteKeepsLists DEF Next

LEMMA ListsAlways == Spec => []ListInv
BY ListInvInit, ListInvStep, PTL DEF Spec

\* util.cc:68, ~Thread and Space::free: a space is in use exactly as long as it
\* has threads, its list and the list of all threads agree, and none is listed
\* twice, for any number of threads that start, copy and end in any order.
THEOREM ThreadListsAlwaysAgree == Spec => []ThreadListsAgree
<1>1. ListInv => ThreadListsAgree
  BY DEF ListInv
<1> QED BY <1>1, ListsAlways, PTL

-----------------------------------------------------------------------------
Owned(s) == ToSet(spaces[s].firstPage)

\* The two invariants of the pages, element by element.
NotShared ==
    /\ IsInjective(freePages)
    /\ \A s \in SpaceSlots : Used(s) =>
         /\ IsInjective(spaces[s].firstPage)
         /\ \A p \in Owned(s) : p \notin ToSet(freePages) /\ p \in 1 .. numPages
         /\ \A r \in SpaceSlots : Used(r) /\ r # s => \A p \in Owned(s) : p \notin Owned(r)
Conserved ==
    \A p : p \in 1 .. numPages <=> \/ p \in ToSet(freePages)
                                   \/ p \in ToSet(lostPages)
                                   \/ \E s \in SpaceSlots : Used(s) /\ p \in Owned(s)

LEMMA PagesElementwise ==
    /\ PagesNotShared <=> NotShared
    /\ PagesConserved <=> Conserved
    /\ PagesNotShared' <=> NotShared'
    /\ PagesConserved' <=> Conserved'
<1>1. PagesNotShared <=> NotShared
  BY DEF PagesNotShared, NotShared, Owned
<1>2. PagesNotShared' <=> NotShared'
  BY DEF PagesNotShared, NotShared, Owned
<1>3. PagesConserved <=> Conserved
  BY DEF PagesConserved, Conserved, Owned
<1>4. PagesConserved' <=> Conserved'
  BY DEF PagesConserved, Conserved, Owned
<1> QED BY <1>1, <1>2, <1>3, <1>4

LEMMA PagesInit == Init => NotShared /\ Conserved
<1> SUFFICES ASSUME Init
             PROVE  NotShared /\ Conserved
  OBVIOUS
<1>1. SpaceSlots = {} /\ 1 .. numPages = {}
  BY EmptySeq DEF Init, SpaceSlots
<1>2. ToSet(freePages) = {} /\ ToSet(lostPages) = {} /\ IsInjective(freePages)
  BY EmptyList DEF Init
<1> QED BY <1>1, <1>2 DEF NotShared, Conserved

LEMMA AssociateKeepsPages ==
    ASSUME ListInv, NotShared, Conserved, NEW t \in Threads, NEW f \in Files, associateImage(t, f)
    PROVE  NotShared' /\ Conserved'
<1>1. PICK s \in Nat \ {0} :
               /\ s \notin SpaceSlots \/ ~ Used(s)
               /\ SpaceSlots' = SpaceSlots \cup {s}
               /\ spaces'[s] = [firstThread |-> <<t>>, firstPage |-> <<>>, fileSlot |-> nextAllocableFileSlot]
               /\ \A r \in SpaceSlots \ {s} : spaces'[r] = spaces[r] /\ (Used(r)' <=> Used(r))
               /\ Used(s)'
  BY AllocFacts DEF associateImage
<1>2. UNCHANGED <<freePages, lostPages, numPages>>
  BY DEF associateImage
<1>3. Owned(s)' = {} /\ IsInjective(spaces'[s].firstPage)
  BY <1>1, EmptyList DEF Owned
<1>4. \A r \in SpaceSlots \ {s} : Owned(r)' = Owned(r) /\ (Used(r)' <=> Used(r))
  BY <1>1 DEF Owned
<1>5. NotShared'
  BY <1>1, <1>2, <1>3, <1>4 DEF NotShared
<1>6. \A p : (\E r \in SpaceSlots' : Used(r)' /\ p \in Owned(r)')
               <=> (\E r \in SpaceSlots : Used(r) /\ p \in Owned(r))
  BY <1>1, <1>3, <1>4
<1>7. Conserved'
  BY <1>2, <1>6 DEF Conserved
<1> QED BY <1>5, <1>7

LEMMA CopyKeepsPages ==
    ASSUME ListInv, NotShared, Conserved, NEW from \in Threads, NEW to \in Threads,
           copyAssociation(from, to)
    PROVE  NotShared' /\ Conserved'
<1>1. UNCHANGED <<freePages, lostPages, numPages, freeSpaces>>
  BY DEF copyAssociation, memory
<1>2. SpaceSlots' = SpaceSlots /\ \A r \in SpaceSlots : spaces'[r].firstPage = spaces[r].firstPage
  BY CopyFacts DEF Changes
<1>3. \A r : Used(r)' <=> Used(r)
  BY <1>1 DEF Used
<1>4. \A r \in SpaceSlots : Owned(r)' = Owned(r)
  BY <1>2 DEF Owned
<1> QED BY <1>1, <1>2, <1>3, <1>4 DEF NotShared, Conserved

LEMMA FaultKeepsPages ==
    ASSUME ListInv, NotShared, Conserved, NEW t \in Threads, pagefault(t)
    PROVE  NotShared' /\ Conserved'
<1>1. CASE status' # "up"
  <2>1. UNCHANGED <<spaces, freeSpaces, freePages, lostPages, numPages>>
    BY <1>1 DEF pagefault, lists, memory
  <2> QED BY <2>1 DEF NotShared, Conserved, Owned, SpaceSlots, Used
<1>2. CASE status' = "up"
  <2>1. PICK s \in SpaceSlots, p \in Pages :
               /\ s = space[t] /\ Used(s)
               /\ Changes(s, spaces[s].firstThread, <<p>> \o spaces[s].firstPage)
               /\ \/ /\ freePages # <<>> /\ p = Head(freePages)
                     /\ freePages' = Tail(freePages) /\ numPages' = numPages
                  \/ /\ freePages = <<>> /\ p = numPages + 1 /\ numPages < MaxPages
                     /\ freePages' = freePages /\ numPages' = numPages + 1
               /\ UNCHANGED <<freeSpaces, lostPages>>
    BY <1>2, FaultFacts
  <2>2. freePages \in Seq(Pages) /\ numPages \in Nat
    <3>1. freePages \in Seq(Pages) /\ numPages \in 0 .. MaxPages
      BY DEF ListInv, TypeOK
    <3> QED BY <3>1, AppPagerAssumption
  <2>3. /\ p \notin ToSet(freePages') /\ IsInjective(freePages')
        /\ \A x : x \in ToSet(freePages) => x \in ToSet(freePages') \/ x = p
        /\ \A x : x \in ToSet(freePages') => x \in ToSet(freePages)
        /\ \A x : x \in 1 .. numPages' <=> x \in 1 .. numPages \/ x = p
        /\ p \in ToSet(freePages) \/ p \notin 1 .. numPages
    <3>1. CASE freePages # <<>> /\ p = Head(freePages) /\ freePages' = Tail(freePages) /\ numPages' = numPages
      <4>1. /\ ToSet(freePages) = {p} \cup ToSet(Tail(freePages))
            /\ IsInjective(Tail(freePages)) /\ p \notin ToSet(Tail(freePages))
        BY <2>2, <3>1, ListTail DEF NotShared
      <4>2. p \in 1 .. numPages
        BY <4>1 DEF Conserved
      <4> QED BY <3>1, <4>1, <4>2
    <3>2. CASE freePages = <<>> /\ p = numPages + 1 /\ freePages' = freePages /\ numPages' = numPages + 1
      <4>1. ToSet(freePages) = {}
        BY <3>2, EmptyList
      <4>2. p \notin 1 .. numPages /\ \A x : x \in 1 .. numPages + 1 <=> x \in 1 .. numPages \/ x = p
        BY <2>2, <3>2
      <4> QED BY <3>2, <4>1, <4>2 DEF NotShared
    <3> QED BY <2>1, <3>1, <3>2
  <2>4. \A r \in SpaceSlots : Used(r) => p \notin Owned(r)
    BY <2>3 DEF NotShared
  <2>5. spaces[s].firstPage \in Seq(Pages) /\ IsInjective(spaces[s].firstPage) /\ p \notin ToSet(spaces[s].firstPage)
    <3>1. spaces[s] \in Objects
      BY ElementOfSeq DEF ListInv, TypeOK, SpaceSlots, Objects
    <3> QED BY <2>1, <2>4, <3>1, ObjectParts DEF NotShared, Owned
  <2>6. Owned(s)' = {p} \cup Owned(s) /\ IsInjective(spaces'[s].firstPage)
    <3>1. /\ ToSet(<<p>> \o spaces[s].firstPage) = {p} \cup ToSet(spaces[s].firstPage)
          /\ IsInjective(<<p>> \o spaces[s].firstPage)
      BY <2>5, ListPrepend
    <3>2. spaces'[s].firstPage = <<p>> \o spaces[s].firstPage
      BY <2>1 DEF Changes
    <3> QED BY <3>1, <3>2 DEF Owned
  <2>7. /\ SpaceSlots' = SpaceSlots
        /\ \A r \in SpaceSlots \ {s} : spaces'[r] = spaces[r] /\ Owned(r)' = Owned(r)
    BY <2>1 DEF Changes, Owned
  <2>8. \A r : Used(r)' <=> Used(r)
    BY <2>1 DEF Used
  <2>9. NotShared'
    <3> SUFFICES ASSUME NEW r \in SpaceSlots, Used(r)
                 PROVE  /\ IsInjective(spaces'[r].firstPage)
                        /\ \A x \in Owned(r)' : x \notin ToSet(freePages') /\ x \in 1 .. numPages'
                        /\ \A q \in SpaceSlots : Used(q) /\ q # r => \A x \in Owned(r)' : x \notin Owned(q)'
      BY <2>3, <2>7, <2>8 DEF NotShared
    <3>1. \A x \in Owned(r)' : x \in Owned(r) \/ (r = s /\ x = p)
      BY <2>6, <2>7
    <3>2. IsInjective(spaces'[r].firstPage)
      BY <2>6, <2>7 DEF NotShared
    <3>3. \A x \in Owned(r)' : x \notin ToSet(freePages') /\ x \in 1 .. numPages'
      BY <2>3, <3>1 DEF NotShared
    <3>4. ASSUME NEW q \in SpaceSlots, Used(q), q # r, NEW x \in Owned(r)'
          PROVE  x \notin Owned(q)'
      BY <2>1, <2>4, <2>6, <2>7, <3>1, <3>4 DEF NotShared
    <3> QED BY <3>2, <3>3, <3>4
  <2>10. \A x : (\E r \in SpaceSlots' : Used(r)' /\ x \in Owned(r)')
                  <=> x = p \/ (\E r \in SpaceSlots : Used(r) /\ x \in Owned(r))
    BY <2>1, <2>6, <2>7, <2>8
  <2>11. Conserved'
    BY <2>1, <2>3, <2>10 DEF Conserved
  <2> QED BY <2>9, <2>11
<1> QED BY <1>1, <1>2

LEMMA DeleteKeepsPages ==
    ASSUME ListInv, NotShared, Conserved, NEW t \in Threads, deleteAssociation(t)
    PROVE  NotShared' /\ Conserved'
<1>1. PICK s \in SpaceSlots :
           /\ s = space[t] /\ Used(s)
           /\ Changes(s, Without(spaces[s].firstThread, t), spaces[s].firstPage)
  BY DeleteFacts
<1>2. /\ UNCHANGED numPages
      /\ IF LastOf(t)
         THEN Page_free(spaces[s].firstPage) /\ freeSpaces' = <<s>> \o freeSpaces
         ELSE UNCHANGED <<freePages, lostPages, freeSpaces>>
  BY <1>1 DEF deleteAssociation
<1> HIDE DEF LastOf
<1>3. SpaceSlots' = SpaceSlots /\ \A r \in SpaceSlots : spaces'[r].firstPage = spaces[r].firstPage
  BY <1>1 DEF Changes
<1>4. \A r \in SpaceSlots : Owned(r)' = Owned(r)
  BY <1>3 DEF Owned
<1>5. CASE ~ LastOf(t)
  <2>1. UNCHANGED <<freePages, lostPages, numPages>> /\ \A r : Used(r)' <=> Used(r)
    BY <1>2, <1>5 DEF Used
  <2> QED BY <1>3, <1>4, <2>1 DEF NotShared, Conserved
<1>6. CASE LastOf(t)
  <2>1. Page_free(spaces[s].firstPage) /\ freeSpaces' = <<s>> \o freeSpaces
    BY <1>2, <1>6
  <2>2. \A r \in SpaceSlots : Used(r)' <=> Used(r) /\ r # s
    <3>1. freeSpaces \in Seq(SpaceSlots)
      BY DEF ListInv, TypeOK
    <3>2. ToSet(<<s>> \o freeSpaces) = {s} \cup ToSet(freeSpaces)
      BY <3>1, ListPrepend
    <3> QED BY <2>1, <3>2 DEF Used
  <2>3. freePages \in Seq(Pages) /\ lostPages \in Seq(Pages) /\ spaces[s].firstPage \in Seq(Pages)
    <3>1. spaces[s] \in Objects
      BY ElementOfSeq DEF ListInv, TypeOK, SpaceSlots, Objects
    <3> QED BY <3>1, ObjectParts DEF ListInv, TypeOK
  <2>4. CASE spaces[s].firstPage = <<>>
    <3>1. lostPages' = lostPages \o freePages /\ freePages' = <<>>
      BY <2>1, <2>4 DEF Page_free
    <3>2. /\ ToSet(lostPages') = ToSet(lostPages) \cup ToSet(freePages)
          /\ ToSet(freePages') = {} /\ IsInjective(freePages')
      BY <2>3, <3>1, ListConcat, EmptyList
    <3>3. Owned(s) = {}
      BY <2>4, EmptyList DEF Owned
    <3>4. NotShared'
      BY <1>2, <1>3, <1>4, <2>2, <3>2 DEF NotShared
    <3>5. \A x : (\E r \in SpaceSlots' : Used(r)' /\ x \in Owned(r)')
                   <=> (\E r \in SpaceSlots : Used(r) /\ x \in Owned(r))
      BY <1>3, <1>4, <2>2, <3>3
    <3>6. Conserved'
      BY <1>2, <3>2, <3>5 DEF Conserved
    <3> QED BY <3>4, <3>6
  <2>5. CASE spaces[s].firstPage # <<>>
    <3>1. freePages' = spaces[s].firstPage \o freePages /\ lostPages' = lostPages
      BY <2>1, <2>5 DEF Page_free
    <3>2. /\ ToSet(freePages') = Owned(s) \cup ToSet(freePages)
          /\ IsInjective(freePages')
      <4>1. /\ IsInjective(spaces[s].firstPage) /\ IsInjective(freePages)
            /\ ToSet(spaces[s].firstPage) \cap ToSet(freePages) = {}
        BY <1>1 DEF NotShared, Owned
      <4>2. /\ ToSet(spaces[s].firstPage \o freePages) = ToSet(spaces[s].firstPage) \cup ToSet(freePages)
            /\ IsInjective(spaces[s].firstPage \o freePages)
        BY <2>3, <4>1, ListConcat
      <4> QED BY <3>1, <4>2 DEF Owned
    <3>3. NotShared'
      BY <1>1, <1>2, <1>3, <1>4, <2>2, <3>2 DEF NotShared
    <3>4. \A x : (\E r \in SpaceSlots : Used(r) /\ x \in Owned(r))
                   <=> x \in Owned(s) \/ (\E r \in SpaceSlots' : Used(r)' /\ x \in Owned(r)')
      BY <1>1, <1>3, <1>4, <2>2
    <3>5. Conserved'
      BY <1>2, <3>1, <3>2, <3>4 DEF Conserved
    <3> QED BY <3>3, <3>5
  <2> QED BY <2>4, <2>5
<1> QED BY <1>5, <1>6

LEMMA PagesStep == ListInv /\ NotShared /\ Conserved /\ [Next]_vars => NotShared' /\ Conserved'
<1>1. ASSUME NotShared, Conserved, UNCHANGED vars
      PROVE  NotShared' /\ Conserved'
  BY <1>1 DEF vars, lists, memory, NotShared, Conserved, SpaceSlots, Used, Owned
<1> QED BY <1>1, AssociateKeepsPages, CopyKeepsPages, FaultKeepsPages, DeleteKeepsPages DEF Next

LEMMA PagesAlways == Spec => [](ListInv /\ NotShared /\ Conserved)
BY PagesInit, PagesStep, ListInvInit, ListInvStep, PTL DEF Spec

\* util.cc, Page::alloc and Page::free: a page is in one address space or on the
\* free list, never in two places, for any number of programs and pages.
THEOREM PagesNeverShared == Spec => []PagesNotShared
<1>1. NotShared => PagesNotShared
  BY PagesElementwise
<1> QED BY <1>1, PagesAlways, PTL

\* util.cc, Page::free: each page that was ever made is in a space in use, on the
\* free list, or on the list at address 0.
THEOREM PagesAlwaysConserved == Spec => []PagesConserved
<1>1. Conserved => PagesConserved
  BY PagesElementwise
<1> QED BY <1>1, PagesAlways, PTL

-----------------------------------------------------------------------------
\* A thread that has run was started, and its space has a page as long as it is
\* known: only the first fault makes a space that others can run in.
RanHasPages ==
    \A t \in ran : file[t] # None /\ (Known(t) => spaces[space[t]].firstPage # <<>>)

LEMMA RanHasPagesStep == ListInv /\ RanHasPages /\ [Next]_vars => RanHasPages'
<1> SUFFICES ASSUME ListInv, RanHasPages, [Next]_vars
             PROVE  RanHasPages'
  OBVIOUS
<1> USE DEF RanHasPages
<1>0. ran \subseteq Threads /\ file \in [Threads -> Files \cup {None}] /\ space \in [Threads -> {NoSpace} \cup SpaceSlots]
  BY DEF ListInv, TypeOK
<1>1. ASSUME NEW t \in Threads, NEW f \in Files, associateImage(t, f)
      PROVE  RanHasPages'
  <2>1. t \notin ran /\ ran' = ran /\ file' = [file EXCEPT ![t] = f]
    BY <1>1 DEF associateImage, Fresh
  <2>2. PICK s \in Nat \ {0} :
               /\ s \notin SpaceSlots \/ ~ Used(s)
               /\ \A r \in SpaceSlots \ {s} : spaces'[r] = spaces[r]
               /\ space' = [space EXCEPT ![t] = s]
    BY <1>1, AllocFacts DEF associateImage
  <2>3. ASSUME NEW u \in ran
        PROVE  file'[u] # None /\ (Known(u)' => spaces'[space'[u]].firstPage # <<>>)
    <3>1. u \in Threads /\ u # t
      BY <1>0, <2>1
    <3>2. Known(u)' => Known(u)
      <4>1. threads \in Seq(Threads) /\ threads' = <<t>> \o threads
        BY <1>1 DEF associateImage, ListInv, TypeOK
      <4>2. ToSet(threads') = {t} \cup ToSet(threads)
        BY <4>1, ListPrepend
      <4> QED BY <3>1, <4>2 DEF Known
    <3>3. Known(u) => space[u] \in SpaceSlots \ {s} /\ space'[u] = space[u]
      BY <1>0, <2>2, <3>1, KnownUses
    <3>4. file'[u] = file[u]
      BY <1>0, <2>1, <3>1
    <3> QED BY <2>2, <3>2, <3>3, <3>4
  <2> QED BY <2>1, <2>3
<1>2. ASSUME NEW from \in Threads, NEW to \in Threads, copyAssociation(from, to)
      PROVE  RanHasPages'
  <2>1. /\ from \in ran /\ Known(from) /\ ran' = ran \cup {to} /\ threads' = <<to>> \o threads
        /\ space' = [space EXCEPT ![to] = space[from]]
        /\ file' = [file EXCEPT ![to] = file[from]]
    BY <1>2 DEF copyAssociation
  <2>2. \A r \in SpaceSlots : spaces'[r].firstPage = spaces[r].firstPage
    BY <1>2, CopyFacts DEF Changes
  <2>3. ASSUME NEW u \in ran'
        PROVE  file'[u] # None /\ (Known(u)' => spaces'[space'[u]].firstPage # <<>>)
    <3>1. CASE u = to
      <4>1. space'[u] = space[from] /\ file'[u] = file[from] /\ space[from] \in SpaceSlots
        BY <1>0, <2>1, <3>1, KnownUses
      <4> QED BY <2>1, <2>2, <4>1
    <3>2. CASE u # to
      <4>1. u \in ran /\ u \in Threads /\ space'[u] = space[u] /\ file'[u] = file[u]
        BY <1>0, <2>1, <3>2
      <4>2. Known(u)' => Known(u)
        <5>1. threads \in Seq(Threads)
          BY DEF ListInv, TypeOK
        <5>2. ToSet(threads') = {to} \cup ToSet(threads)
          BY <2>1, <5>1, ListPrepend
        <5> QED BY <3>2, <5>2 DEF Known
      <4>3. Known(u) => space[u] \in SpaceSlots
        BY <4>1, KnownUses
      <4> QED BY <2>2, <4>1, <4>2, <4>3
    <3> QED BY <3>1, <3>2
  <2> QED BY <2>3
<1>3. ASSUME NEW t \in Threads, pagefault(t)
      PROVE  RanHasPages'
  <2>1. CASE status' # "up"
    <3>1. UNCHANGED <<threads, space, spaces, file, ran>>
      BY <1>3, <2>1 DEF pagefault, lists
    <3> QED BY <3>1 DEF Known
  <2>2. CASE status' = "up"
    <3>1. PICK p \in Pages :
               /\ space[t] \in SpaceSlots
               /\ Changes(space[t], spaces[space[t]].firstThread, <<p>> \o spaces[space[t]].firstPage)
               /\ ran' = ran \cup {t}
               /\ UNCHANGED <<threads, space, file>>
      BY <1>3, <2>2, FaultFacts
    <3>2. <<p>> \o spaces[space[t]].firstPage # <<>>
      <4>1. spaces[space[t]].firstPage \in Seq(Pages)
        BY <1>3, KnownUses, ObjectParts DEF pagefault
      <4>2. ToSet(<<p>> \o spaces[space[t]].firstPage) # {}
        BY <4>1, ListPrepend
      <4> QED BY <4>2, EmptyList
    <3>3. Known(t) /\ file[t] # None
      BY <1>3 DEF pagefault, ListInv, KnownStarted
    <3>4. \A u \in Threads : Known(u) => space[u] \in SpaceSlots
      BY KnownUses
    <3>5. \A r \in SpaceSlots : spaces[r].firstPage # <<>> => spaces'[r].firstPage # <<>>
      BY <3>1, <3>2 DEF Changes
    <3>6. spaces'[space[t]].firstPage # <<>>
      BY <3>1, <3>2 DEF Changes
    <3>7. \A u : Known(u)' <=> Known(u)
      BY <3>1 DEF Known
    <3> QED BY <1>0, <3>1, <3>3, <3>4, <3>5, <3>6, <3>7
  <2> QED BY <2>1, <2>2
<1>4. ASSUME NEW t \in Threads, deleteAssociation(t)
      PROVE  RanHasPages'
  <2>1. UNCHANGED <<space, file, ran>>
    BY <1>4 DEF deleteAssociation
  <2>2. \A r \in SpaceSlots : spaces'[r].firstPage = spaces[r].firstPage
    BY <1>4, DeleteFacts DEF Changes
  <2>3. \A u \in Threads : Known(u)' => Known(u) /\ space[u] \in SpaceSlots
    BY <1>4, DeleteFacts, KnownUses DEF Known
  <2> QED BY <1>0, <2>1, <2>2, <2>3
<1>5. CASE UNCHANGED vars
  BY <1>5 DEF vars, lists, Known
<1> QED BY <1>1, <1>2, <1>3, <1>4, <1>5 DEF Next

\* util.cc:148, Page::free: the free list is lost only by the end of a thread
\* that has never run.
LEMMA LostByEarlyKill ==
    ASSUME ListInv, RanHasPages, [Next]_vars, lostPages' # lostPages
    PROVE  \E t \in Threads \ ran : Known(t) /\ t \notin ToSet(threads')
<1>1. PICK t \in Threads : deleteAssociation(t)
  <2>1. ASSUME NEW t \in Threads, pagefault(t)
        PROVE  FALSE
    BY <2>1 DEF pagefault, memory
  <2>2. ASSUME NEW from \in Threads, NEW to \in Threads, copyAssociation(from, to)
        PROVE  FALSE
    BY <2>2 DEF copyAssociation, memory
  <2>3. ASSUME NEW t \in Threads, NEW f \in Files, associateImage(t, f)
        PROVE  FALSE
    BY <2>3 DEF associateImage
  <2>4. ~ UNCHANGED vars
    BY DEF vars, memory
  <2> QED BY <2>1, <2>2, <2>3, <2>4 DEF Next
<1>2. Known(t) /\ spaces[space[t]].firstPage = <<>>
  BY <1>1 DEF deleteAssociation, Page_free
<1>3. t \notin ran
  BY <1>2 DEF RanHasPages
<1>4. t \notin ToSet(threads')
  BY <1>1, DeleteFacts
<1> QED BY <1>2, <1>3, <1>4

\* util.cc:148: "Page::free() takes care of the whole list", unless the thread
\* that ends last has never run; then the free list is lost.
THEOREM PagesLostOnlyByEarlyKill == Spec => LostOnlyByEarlyKill
<1>1. Init => RanHasPages
  BY DEF Init, RanHasPages
<1>2. Spec => [](ListInv /\ RanHasPages)
  BY <1>1, RanHasPagesStep, ListInvInit, ListInvStep, PTL DEF Spec
<1>3. ListInv /\ RanHasPages /\ [Next]_vars =>
        [lostPages' # lostPages =>
            \E t \in Threads \ ran : Known(t) /\ t \notin ToSet(threads')]_vars
  BY LostByEarlyKill
<1> QED BY <1>2, <1>3, PTL DEF Spec, LostOnlyByEarlyKill

-----------------------------------------------------------------------------
\* The file slot shows the image of the program that was started last, if there
\* is such a file; with NewestFromOwnFile and the invariants of the pages this is
\* inductive.
NewestInSlot ==
    newest # None => /\ file[newest] # None
                     /\ file[newest] \in StoredFiles => slots[nextAllocableFileSlot] = file[newest]

\* The page that a fault takes belongs to no space.
LEMMA FaultTakesUnowned ==
    ASSUME ListInv, NotShared, Conserved, NEW t \in Threads, pagefault(t), status' = "up"
    PROVE  \E p \in Pages :
               /\ \A r \in SpaceSlots : Used(r) => p \notin Owned(r)
               /\ \A r \in SpaceSlots : Owned(r)' \subseteq Owned(r) \cup {p}
               /\ filledFrom' = [filledFrom EXCEPT ![p] = slots[nextAllocableFileSlot]]
               /\ UNCHANGED <<threads, space, slots, file, newest>>
<1>1. PICK s \in SpaceSlots, p \in Pages :
             /\ s = space[t]
             /\ Changes(s, spaces[s].firstThread, <<p>> \o spaces[s].firstPage)
             /\ filledFrom' = [filledFrom EXCEPT ![p] = slots[nextAllocableFileSlot]]
             /\ \/ freePages # <<>> /\ p = Head(freePages)
                \/ p = numPages + 1
             /\ UNCHANGED <<threads, space, slots, file, newest>>
  BY FaultFacts
<1>2. p \in ToSet(freePages) \/ p \notin 1 .. numPages
  <2>1. freePages \in Seq(Pages) /\ numPages \in Nat
    <3>1. freePages \in Seq(Pages) /\ numPages \in 0 .. MaxPages
      BY DEF ListInv, TypeOK
    <3> QED BY <3>1, AppPagerAssumption
  <2>2. CASE freePages # <<>> /\ p = Head(freePages)
    BY <2>1, <2>2, ListTail
  <2>3. CASE p = numPages + 1
    BY <2>1, <2>3
  <2> QED BY <1>1, <2>2, <2>3
<1>3. \A r \in SpaceSlots : Used(r) => p \notin Owned(r)
  BY <1>2 DEF NotShared
<1>4. \A r \in SpaceSlots : Owned(r)' \subseteq Owned(r) \cup {p}
  <2>1. spaces[s].firstPage \in Seq(Pages)
    BY <1>1, KnownUses, ObjectParts DEF pagefault
  <2>2. ToSet(<<p>> \o spaces[s].firstPage) = {p} \cup ToSet(spaces[s].firstPage)
    BY <2>1, ListPrepend
  <2> QED BY <1>1, <2>2 DEF Changes, Owned
<1> WITNESS p \in Pages
<1> QED BY <1>1, <1>3, <1>4

LEMMA NewestStep ==
    ListInv /\ NotShared /\ Conserved /\ NewestInSlot /\ NewestFromOwnFile /\ [Next]_vars
        => NewestInSlot' /\ NewestFromOwnFile'
<1> SUFFICES ASSUME ListInv, NotShared, Conserved, NewestInSlot, NewestFromOwnFile, [Next]_vars
             PROVE  NewestInSlot' /\ NewestFromOwnFile'
  OBVIOUS
<1>0. /\ newest \in Threads \cup {None} /\ file \in [Threads -> Files \cup {None}]
      /\ space \in [Threads -> {NoSpace} \cup SpaceSlots]
  BY DEF ListInv, TypeOK
<1>1. ASSUME NEW t \in Threads, NEW f \in Files, associateImage(t, f)
      PROVE  NewestInSlot' /\ NewestFromOwnFile'
  <2>1. PICK s \in Nat \ {0} :
               /\ spaces'[s] = [firstThread |-> <<t>>, firstPage |-> <<>>, fileSlot |-> nextAllocableFileSlot]
               /\ space' = [space EXCEPT ![t] = s]
    BY <1>1, AllocFacts DEF associateImage
  <2>2. space'[t] = s /\ spaces'[s].firstPage = <<>> /\ spaces'[s].fileSlot = nextAllocableFileSlot
    BY <1>0, <2>1
  <2>3. newest' = t /\ file'[t] = f /\ mapFile(nextAllocableFileSlot, f)
    BY <1>0, <1>1, <2>2 DEF associateImage
  <2>4. f # None
    BY AppPagerAssumption
  <2>5. f \in StoredFiles => slots'[nextAllocableFileSlot] = f
    BY <2>3 DEF mapFile, ListInv, TypeOK, Slots
  <2>6. NewestInSlot'
    BY <2>3, <2>4, <2>5 DEF NewestInSlot
  <2>7. NewestFromOwnFile'
    BY <2>2, <2>3, EmptyList DEF NewestFromOwnFile
  <2> QED BY <2>6, <2>7
<1>2. ASSUME NEW from \in Threads, NEW to \in Threads, copyAssociation(from, to)
      PROVE  NewestInSlot' /\ NewestFromOwnFile'
  <2>1. /\ Known(from) /\ threads' = <<to>> \o threads /\ file[to] = None
        /\ space' = [space EXCEPT ![to] = space[from]]
        /\ file' = [file EXCEPT ![to] = file[from]]
        /\ UNCHANGED <<slots, filledFrom, newest>>
    BY <1>2 DEF copyAssociation, Fresh, memory
  <2>2. ASSUME newest # None
        PROVE  newest \in Threads /\ newest # to /\ file'[newest] = file[newest] /\ space'[newest] = space[newest]
    BY <1>0, <2>1, <2>2 DEF NewestInSlot
  <2>3. NewestInSlot'
    BY <2>1, <2>2 DEF NewestInSlot
  <2>4. \A r \in SpaceSlots : spaces'[r].firstPage = spaces[r].firstPage
    BY <1>2, CopyFacts DEF Changes
  <2>5. ASSUME NEW u \in Threads, Known(u)'
        PROVE  \E w \in Threads : Known(w) /\ space'[u] = space[w] /\ space[w] \in SpaceSlots
    <3>1. CASE u = to
      BY <1>0, <2>1, <3>1, KnownUses
    <3>2. CASE u # to
      <4>1. threads \in Seq(Threads)
        BY DEF ListInv, TypeOK
      <4>2. ToSet(threads') = {to} \cup ToSet(threads)
        BY <2>1, <4>1, ListPrepend
      <4>3. Known(u)
        BY <2>5, <3>2, <4>2 DEF Known
      <4> QED BY <1>0, <2>1, <3>2, <4>3, KnownUses
    <3> QED BY <3>1, <3>2
  <2>6. NewestFromOwnFile'
    <3> SUFFICES ASSUME newest # None, NEW u \in Threads, Known(u)', space'[u] = space[newest],
                        file[newest] \in StoredFiles, NEW p \in ToSet(spaces'[space'[u]].firstPage)
                 PROVE  filledFrom[p] = file[newest]
      BY <2>1, <2>2 DEF NewestFromOwnFile
    <3>1. PICK w \in Threads : Known(w) /\ space'[u] = space[w] /\ space[w] \in SpaceSlots
      BY <2>5
    <3> QED BY <2>4, <3>1 DEF NewestFromOwnFile
  <2> QED BY <2>3, <2>6
<1>3. ASSUME NEW t \in Threads, pagefault(t)
      PROVE  NewestInSlot' /\ NewestFromOwnFile'
  <2>1. CASE status' # "up"
    <3>1. UNCHANGED <<threads, space, spaces, slots, filledFrom, file, newest>>
      BY <1>3, <2>1 DEF pagefault, lists, memory
    <3> QED BY <3>1 DEF NewestInSlot, NewestFromOwnFile, Known
  <2>2. CASE status' = "up"
    <3>1. PICK p \in Pages :
               /\ \A r \in SpaceSlots : Used(r) => p \notin Owned(r)
               /\ \A r \in SpaceSlots : Owned(r)' \subseteq Owned(r) \cup {p}
               /\ filledFrom' = [filledFrom EXCEPT ![p] = slots[nextAllocableFileSlot]]
               /\ UNCHANGED <<threads, space, slots, file, newest>>
      BY <1>3, <2>2, FaultTakesUnowned
    <3>2. NewestInSlot'
      BY <3>1 DEF NewestInSlot
    <3>3. NewestFromOwnFile'
      <4> SUFFICES ASSUME newest # None, NEW u \in Threads, Known(u), space[u] = space[newest],
                          file[newest] \in StoredFiles, NEW x \in Owned(space[u])'
                   PROVE  filledFrom'[x] = file[newest]
        BY <3>1 DEF NewestFromOwnFile, Owned, Known
      <4>1. PICK r \in SpaceSlots : r = space[u] /\ Used(r) /\ spaces[r] \in Objects
        BY KnownUses
      <4>2. x \in Owned(r)'
        BY <3>1, <4>1 DEF Owned
      <4>3. CASE x = p
        <5>1. filledFrom'[p] = slots[nextAllocableFileSlot]
          BY <3>1 DEF ListInv, TypeOK
        <5> QED BY <4>3, <5>1 DEF NewestInSlot
      <4>4. CASE x # p
        <5>1. x \in Owned(r)
          BY <3>1, <4>2, <4>4
        <5>2. filledFrom[x] = file[newest]
          BY <4>1, <5>1 DEF NewestFromOwnFile, Owned
        <5>3. x \in Pages
          BY <4>1, <5>1, ObjectParts, ListElements DEF Owned
        <5> QED BY <3>1, <4>4, <5>2, <5>3 DEF ListInv, TypeOK
      <4> QED BY <4>3, <4>4
    <3> QED BY <3>2, <3>3
  <2> QED BY <2>1, <2>2
<1>4. ASSUME NEW t \in Threads, deleteAssociation(t)
      PROVE  NewestInSlot' /\ NewestFromOwnFile'
  <2>1. UNCHANGED <<space, slots, filledFrom, file, newest>>
    BY <1>4 DEF deleteAssociation
  <2>2. \A r \in SpaceSlots : spaces'[r].firstPage = spaces[r].firstPage
    BY <1>4, DeleteFacts DEF Changes
  <2>3. \A u \in Threads : Known(u)' => Known(u) /\ space[u] \in SpaceSlots
    BY <1>4, DeleteFacts, KnownUses DEF Known
  <2>4. NewestFromOwnFile'
    <3> SUFFICES ASSUME newest # None, NEW u \in Threads, Known(u)', space[u] = space[newest],
                        file[newest] \in StoredFiles, NEW p \in ToSet(spaces'[space[u]].firstPage)
                 PROVE  filledFrom[p] = file[newest]
      BY <2>1 DEF NewestFromOwnFile
    <3> QED BY <2>2, <2>3 DEF NewestFromOwnFile
  <2> QED BY <2>1, <2>4 DEF NewestInSlot
<1>5. CASE UNCHANGED vars
  BY <1>5 DEF vars, lists, memory, Known, NewestInSlot, NewestFromOwnFile
<1> QED BY <1>1, <1>2, <1>3, <1>4, <1>5 DEF Next

\* apppager.cc:30: the program that was started last gets its pages from its own
\* file, for any number of programs before it and whatever their threads do.
THEOREM NewestAlwaysFromOwnFile == Spec => []NewestFromOwnFile
<1>1. Init => NewestInSlot /\ NewestFromOwnFile
  BY DEF Init, NewestInSlot, NewestFromOwnFile
<1> QED BY <1>1, NewestStep, PagesInit, PagesStep, ListInvInit, ListInvStep, PTL DEF Spec
=============================================================================
