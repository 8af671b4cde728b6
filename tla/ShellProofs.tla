---------------------------- MODULE ShellProofs ----------------------------
(***************************************************************************)
(* What the shell does to memory without a check, the windows of download  *)
(* and the command buffer, what it makes of the line that is typed, and    *)
(* what the console shows of it.  For any modules, any sizes of windows,   *)
(* buffer and screen and any typing.                                       *)
(***************************************************************************)
EXTENDS Shell, FiniteSetTheorems, SequenceTheorems, NaturalsInduction, WellFoundedInduction, TLAPS

\* A set of numbers has a least one.
LEMMA LeastNumber ==
    ASSUME NEW S \in SUBSET Nat, S # {}
    PROVE  \E x \in S : \A y \in S : x <= y
<1> DEFINE R == {x \in Nat \X Nat : x[1] < x[2]}
<1>1. IsWellFoundedOn(R, Nat)
  BY NatLessThanWellFounded DEF OpToRel
<1>2. PICK x \in S : \A y \in S : ~ (<<y, x>> \in R)
  <2> HIDE DEF R
  <2> QED BY <1>1, WFMin
<1>3. \A y \in S : x <= y
  <2> TAKE y \in S
  <2>1. <<y, x>> \in Nat \X Nat /\ ~ (<<y, x>>[1] < <<y, x>>[2])
    BY <1>2
  <2> QED BY <2>1
<1> QED BY <1>3

LEMMA ModulesFacts ==
    /\ Len(ModuleSize) \in Nat /\ Modules = 1 .. Len(ModuleSize)
    /\ \A m \in Modules : ModuleSize[m] \in Nat /\ FullPages(ModuleSize[m]) \in Nat
    /\ \A m \in Modules : DOMAIN OwnPages(m) = 1 .. FullPages(ModuleSize[m])
    /\ \A m \in Modules : \A i \in DOMAIN OwnPages(m) : OwnPages(m)[i] = Start(m) + (i - 1)
<1>1. Len(ModuleSize) \in Nat /\ Modules = 1 .. Len(ModuleSize)
  BY ShellAssumption DEF Modules
<1>2. \A m \in Modules : ModuleSize[m] \in Nat
  BY <1>1, ShellAssumption
<1>3. \A m \in Modules : FullPages(ModuleSize[m]) \in Nat
  BY <1>2 DEF FullPages
<1> QED BY <1>1, <1>2, <1>3 DEF OwnPages

\* Some module is the largest.
LEMMA LargestModule ==
    ASSUME Modules # {}
    PROVE  \E m \in Modules : \A n \in Modules : ModuleSize[n] <= ModuleSize[m]
<1> DEFINE L == Len(ModuleSize)
           Largest(k) == \E m \in 1 .. k : \A n \in 1 .. k : ModuleSize[n] <= ModuleSize[m]
           S == {k \in 1 .. L : ~ Largest(k)}
<1>1. L \in Nat /\ L >= 1 /\ Modules = 1 .. L
  BY ModulesFacts
<1>2. \A k \in 1 .. L : ModuleSize[k] \in Nat
  BY <1>1, ModulesFacts
<1>3. S = {}
  <2> SUFFICES ASSUME S # {} PROVE FALSE
    OBVIOUS
  <2>1. PICK k \in S : \A y \in S : k <= y
    <3>1. S \in SUBSET Nat
      BY <1>1
    <3> HIDE DEF S
    <3> QED BY <3>1, LeastNumber
  <2>2. k \in 1 .. L /\ ~ Largest(k)
    BY <2>1
  <2> HIDE DEF S
  <2>3. CASE k = 1
    BY <1>2, <2>2, <2>3
  <2>4. CASE k # 1
    <3>1. k - 1 \in 1 .. L /\ ~ (k <= k - 1)
      BY <1>1, <2>2, <2>4
    <3>2. Largest(k - 1)
      <4> HIDE DEF Largest
      <4> QED BY <2>1, <3>1 DEF S
    <3>3. PICK m \in 1 .. k - 1 : \A n \in 1 .. k - 1 : ModuleSize[n] <= ModuleSize[m]
      BY <3>2
    <3>4. m \in 1 .. k /\ k \in 1 .. k /\ m \in 1 .. L
      BY <1>1, <2>2, <3>3
    <3>5. \A n \in 1 .. k : n \in 1 .. L /\ (n = k \/ n \in 1 .. k - 1)
      <4>1. k \in Nat /\ k <= L
        BY <1>1, <2>2
      <4> QED BY <1>1, <4>1
    <3>6. ModuleSize[m] \in Nat /\ ModuleSize[k] \in Nat
      BY <1>2, <2>2, <3>4
    <3>7. CASE ModuleSize[k] <= ModuleSize[m]
      BY <2>2, <3>3, <3>4, <3>5, <3>7
    <3>8. CASE ModuleSize[m] <= ModuleSize[k]
      <4>1. \A n \in 1 .. k : ModuleSize[n] <= ModuleSize[k]
        <5> TAKE n \in 1 .. k
        <5>1. ModuleSize[n] \in Nat /\ (n = k \/ ModuleSize[n] <= ModuleSize[m])
          BY <1>2, <3>3, <3>5
        <5> QED BY <3>6, <3>8, <5>1
      <4> QED BY <2>2, <3>4, <4>1
    <3>9. ModuleSize[k] <= ModuleSize[m] \/ ModuleSize[m] <= ModuleSize[k]
      BY <3>6
    <3> QED BY <3>7, <3>8, <3>9
  <2> QED BY <2>3, <2>4
<1>4. Largest(L)
  <2> HIDE DEF Largest
  <2> QED BY <1>1, <1>3
<1> QED BY <1>1, <1>4

\* The windows of all modules lie in the memory that the model follows.
LEMMA WindowReach ==
    ASSUME Modules # {}, NEW x \in Nat, x < WindowPages * Len(ModuleSize)
    PROVE  x \in Window
<1> DEFINE big == CHOOSE m \in Modules : \A n \in Modules : ModuleSize[n] <= ModuleSize[m]
<1>1. big \in Modules
  BY LargestModule
<1> HIDE DEF big
<1>2. PICK n \in Nat : n = Len(OwnPages(big))
  <2>1. FullPages(ModuleSize[big]) \in Nat
    BY <1>1, ModulesFacts
  <2> QED BY <2>1 DEF OwnPages
<1>3. PICK w \in Nat : w = WindowPages * Len(ModuleSize)
  BY ShellAssumption, ModulesFacts
<1>4. Window = 0 .. w + n + 1
  BY <1>2, <1>3 DEF Window, big
<1> QED BY <1>3, <1>4

-----------------------------------------------------------------------------
(***************************************************************************)
(* download.                                                               *)
(***************************************************************************)
MappedModules == {m \in Modules : modulePos[m] # Nowhere}

\* What the windows show of their modules, as far as these fit.
WindowsRight ==
    \A m \in MappedModules :
        /\ modulePos[m] \in Nat /\ modulePos[m] + WindowPages <= nextPos
        /\ FullPages(ModuleSize[m]) <= WindowPages =>
              \A i \in DOMAIN OwnPages(m) : view[modulePos[m] + i - 1] = OwnPages(m)[i]

DownloadInv ==
    /\ DOMAIN modulePos = Modules
    /\ DOMAIN view = Window
    /\ nextPos = WindowPages * Cardinality(MappedModules)
    /\ WindowsRight
    /\ CopyIsModule

\* There is a window left for a module that is not mapped yet.
LEMMA OneMoreWindow ==
    ASSUME NEW S \in SUBSET Modules, NEW m \in Modules, m \notin S
    PROVE  /\ Cardinality(S) \in Nat
           /\ Cardinality(S \cup {m}) = Cardinality(S) + 1
           /\ WindowPages * Cardinality(S) \in Nat
           /\ WindowPages * (Cardinality(S) + 1) = WindowPages * Cardinality(S) + WindowPages
           /\ WindowPages * Cardinality(S) + WindowPages <= WindowPages * Len(ModuleSize)
<1>0. Len(ModuleSize) \in Nat /\ Modules = 1 .. Len(ModuleSize) /\ WindowPages \in Nat
  BY ModulesFacts, ShellAssumption
<1>1. IsFiniteSet(Modules) /\ Cardinality(Modules) = Len(ModuleSize)
  <2>1. IsFiniteSet(1 .. Len(ModuleSize))
        /\ Cardinality(1 .. Len(ModuleSize)) =
              IF 1 > Len(ModuleSize) THEN 0 ELSE Len(ModuleSize) - 1 + 1
    <3>1. 1 \in Int /\ Len(ModuleSize) \in Int
      BY <1>0
    <3> QED BY <3>1, FS_Interval, Zenon
  <2> QED BY <1>0, <2>1
<1>2. IsFiniteSet(S) /\ Cardinality(S) \in Nat
  BY <1>1, FS_Subset, FS_CardinalityType
<1>3. Cardinality(S \cup {m}) = Cardinality(S) + 1
  BY <1>2, FS_AddElement
<1>4. Cardinality(S \cup {m}) <= Cardinality(Modules)
  BY <1>1, FS_Subset
<1>5. PICK c \in Nat, l \in Nat : c = Cardinality(S) /\ l = Len(ModuleSize)
  BY <1>0, <1>2
<1>6. PICK d \in Nat : l = c + 1 + d
  <2>1. c + 1 <= l
    BY <1>1, <1>3, <1>4, <1>5
  <2>2. l - c - 1 \in Nat /\ l = c + 1 + (l - c - 1)
    BY <2>1
  <2> QED BY <2>2
<1>7. PICK w \in Nat : w = WindowPages
  BY <1>0
<1>8. w * c \in Nat /\ w * d \in Nat /\ w * (c + 1) = w * c + w /\ w * l = w * c + w + w * d
  BY <1>6
<1> QED BY <1>3, <1>5, <1>7, <1>8

LEMMA DownloadCases ==
    ASSUME [Next]_vars
    PROVE  \/ UNCHANGED <<modulePos, nextPos, view, copied>>
           \/ \E m \in Modules : DownloadNew(m)
           \/ \E m \in Modules : DownloadAgain(m)
<1>1. CASE UNCHANGED vars
  BY <1>1 DEF vars, download
<1>2. ASSUME NEW batch, read(batch) PROVE UNCHANGED download
  BY <1>2 DEF read
<1>3. ASSUME NEW k, Scan(k) PROVE UNCHANGED download
  BY <1>3 DEF Scan
<1>4. CASE ScanBackspace \/ ScanBackspaceAtStart \/ ScanNewline \/ ScanTab \/ ScanLetter
  BY <1>3, <1>4 DEF ScanBackspace, ScanBackspaceAtStart, ScanNewline, ScanTab, ScanLetter, download
<1>5. CASE Scanned \/ Execute
  BY <1>5 DEF Scanned, Execute, download
<1>6. ASSUME NEW m, DownloadRejected(m) PROVE UNCHANGED download
  BY <1>6 DEF DownloadRejected
<1>7. ASSUME NEW m, OtherLoads(m) PROVE UNCHANGED <<modulePos, nextPos, view, copied>>
  BY <1>7 DEF OtherLoads
<1> QED BY <1>1, <1>2, <1>4, <1>5, <1>6, <1>7 DEF Next, download

\* A new window shows its module, as far as it fits.
LEMMA NewWindow ==
    ASSUME DownloadInv, NEW m \in Modules, modulePos[m] = Nowhere,
           FullPages(ModuleSize[m]) <= WindowPages, NEW i \in DOMAIN OwnPages(m)
    PROVE  Mapped(m)[nextPos + i - 1] = OwnPages(m)[i]
<1>1. MappedModules \in SUBSET Modules /\ m \notin MappedModules
  BY DEF MappedModules
<1>2. nextPos \in Nat /\ nextPos + WindowPages <= WindowPages * Len(ModuleSize)
  BY <1>1, OneMoreWindow DEF DownloadInv
<1>3. i \in Nat /\ 1 <= i /\ i <= FullPages(ModuleSize[m]) /\ WindowPages \in Nat
      /\ ModuleSize[m] \in Nat /\ FullPages(ModuleSize[m]) \in Nat
  BY ModulesFacts, ShellAssumption
<1>4. PICK w \in Nat : w = nextPos + i - 1
  BY <1>2, <1>3
<1>5. w \in Window
  <2>1. w < WindowPages * Len(ModuleSize)
    <3>1. WindowPages * Len(ModuleSize) \in Nat
      BY <1>3, ModulesFacts
    <3> QED BY <1>2, <1>3, <1>4, <3>1
  <2> QED BY <2>1, WindowReach
<1>6. w - nextPos = i - 1
  BY <1>2, <1>3, <1>4
<1>7. i - 1 \in 0 .. ModuleSize[m] \div 2
  BY <1>3 DEF FullPages
<1>8. Mapped(m)[w] = Start(m) + (i - 1)
  BY <1>5, <1>6, <1>7 DEF Mapped
<1> QED BY <1>4, <1>8, ModulesFacts

\* A new window is in nobody's way.
LEMMA OldWindow ==
    ASSUME DownloadInv, NEW m \in Modules, modulePos[m] = Nowhere, NEW n \in MappedModules,
           FullPages(ModuleSize[n]) <= WindowPages, NEW i \in DOMAIN OwnPages(n)
    PROVE  Mapped(m)[modulePos[n] + i - 1] = OwnPages(n)[i]
<1>1. MappedModules \in SUBSET Modules /\ m \notin MappedModules /\ n \in Modules
  BY DEF MappedModules
<1>2. nextPos \in Nat /\ nextPos + WindowPages <= WindowPages * Len(ModuleSize)
  BY <1>1, OneMoreWindow DEF DownloadInv
<1>3. i \in Nat /\ 1 <= i /\ i <= FullPages(ModuleSize[n]) /\ WindowPages \in Nat
      /\ FullPages(ModuleSize[n]) \in Nat
  BY <1>1, ModulesFacts, ShellAssumption
<1>4. /\ modulePos[n] \in Nat /\ modulePos[n] + WindowPages <= nextPos
      /\ view[modulePos[n] + i - 1] = OwnPages(n)[i]
  BY DEF DownloadInv, WindowsRight
<1>5. PICK w \in Nat : w = modulePos[n] + i - 1
  BY <1>3, <1>4
<1>6. w < nextPos
  BY <1>2, <1>3, <1>4, <1>5
<1>7. w \in Window
  <2>1. w < WindowPages * Len(ModuleSize)
    <3>1. WindowPages * Len(ModuleSize) \in Nat
      BY <1>3, ModulesFacts
    <3> QED BY <1>2, <1>3, <1>6, <3>1
  <2> QED BY <2>1, WindowReach
<1>8. ~ (w - nextPos \in 0 .. ModuleSize[m] \div 2)
  <2>1. ModuleSize[m] \div 2 \in Int
    BY ModulesFacts
  <2> QED BY <1>2, <1>6, <2>1
<1>9. Mapped(m)[w] = view[w]
  BY <1>7, <1>8 DEF Mapped
<1> QED BY <1>4, <1>5, <1>9

\* A copy through a window that shows the module is the module.
LEMMA CopyRight ==
    ASSUME NEW m \in Modules, NEW v, NEW window,
           FullPages(ModuleSize[m]) <= WindowPages =>
               \A i \in DOMAIN OwnPages(m) : v[window + i - 1] = OwnPages(m)[i],
           copied' = CopyOf(m, v, window)
    PROVE  CopyIsModule'
<1>1. copied'.module = m /\ copied'.pages = [i \in DOMAIN OwnPages(m) |-> v[window + i - 1]]
  BY DEF CopyOf
<1>2. OwnPages(m) = [i \in DOMAIN OwnPages(m) |-> OwnPages(m)[i]]
  BY DEF OwnPages
<1>3. FullPages(ModuleSize[m]) <= WindowPages => copied'.pages = OwnPages(m)
  BY <1>1, <1>2
<1> QED BY <1>1, <1>3 DEF CopyIsModule

LEMMA DownloadInvStep ==
    ASSUME DownloadInv, [Next]_vars
    PROVE  DownloadInv'
<1>1. CASE UNCHANGED <<modulePos, nextPos, view, copied>>
  BY <1>1 DEF DownloadInv, WindowsRight, MappedModules, CopyIsModule
<1>2. ASSUME NEW m \in Modules, DownloadNew(m) PROVE DownloadInv'
  <2>1. /\ modulePos[m] = Nowhere
        /\ modulePos' = [modulePos EXCEPT ![m] = nextPos]
        /\ nextPos' = nextPos + WindowPages
        /\ view' = Mapped(m)
        /\ copied' = CopyOf(m, Mapped(m), nextPos)
    BY <1>2 DEF DownloadNew, AfterWindow
  <2>2. PICK S \in SUBSET Modules : S = MappedModules
    BY DEF MappedModules
  <2>3. m \notin S
    BY <2>1, <2>2 DEF MappedModules
  <2>4. nextPos = WindowPages * Cardinality(S) /\ nextPos \in Nat
    BY <2>2, <2>3, OneMoreWindow DEF DownloadInv
  <2>5. MappedModules' = S \cup {m}
    BY <2>1, <2>2, <2>4 DEF MappedModules, DownloadInv, Nowhere
  <2>6. nextPos' = WindowPages * Cardinality(MappedModules')
    BY <2>1, <2>3, <2>4, <2>5, OneMoreWindow
  <2>7. DOMAIN modulePos' = Modules /\ DOMAIN view' = Window
    BY <2>1 DEF DownloadInv, Mapped
  <2>8. WindowsRight'
    <3> SUFFICES ASSUME NEW n \in MappedModules'
                 PROVE  /\ modulePos'[n] \in Nat /\ modulePos'[n] + WindowPages <= nextPos'
                        /\ FullPages(ModuleSize[n]) <= WindowPages =>
                              \A i \in DOMAIN OwnPages(n) :
                                  view'[modulePos'[n] + i - 1] = OwnPages(n)[i]
      BY DEF WindowsRight
    <3>1. CASE n = m
      <4>1. modulePos'[n] = nextPos
        BY <2>1, <3>1 DEF DownloadInv
      <4>2. FullPages(ModuleSize[n]) <= WindowPages =>
                \A i \in DOMAIN OwnPages(n) : Mapped(m)[nextPos + i - 1] = OwnPages(n)[i]
        BY <2>1, <3>1, NewWindow
      <4>3. WindowPages \in Nat
        BY ShellAssumption
      <4> QED BY <2>1, <2>4, <4>1, <4>2, <4>3
    <3>2. CASE n \in S /\ n # m
      <4>1. modulePos'[n] = modulePos[n]
        BY <2>1, <3>2 DEF DownloadInv
      <4>2. modulePos[n] \in Nat /\ modulePos[n] + WindowPages <= nextPos
        BY <2>2, <3>2 DEF DownloadInv, WindowsRight
      <4>3. FullPages(ModuleSize[n]) <= WindowPages =>
                \A i \in DOMAIN OwnPages(n) : Mapped(m)[modulePos[n] + i - 1] = OwnPages(n)[i]
        BY <2>1, <2>2, <3>2, OldWindow
      <4>4. WindowPages \in Nat
        BY ShellAssumption
      <4> QED BY <2>1, <2>4, <4>1, <4>2, <4>3, <4>4
    <3> QED BY <2>3, <2>5, <3>1, <3>2
  <2>9. CopyIsModule'
    BY <2>1, NewWindow, CopyRight
  <2> QED BY <2>6, <2>7, <2>8, <2>9 DEF DownloadInv
<1>3. ASSUME NEW m \in Modules, DownloadAgain(m) PROVE DownloadInv'
  <2>1. /\ m \in MappedModules
        /\ copied' = CopyOf(m, view, modulePos[m])
        /\ UNCHANGED <<modulePos, nextPos, view>>
    BY <1>3 DEF DownloadAgain, MappedModules
  <2>2. CopyIsModule'
    BY <2>1, CopyRight DEF DownloadInv, WindowsRight
  <2> QED BY <2>1, <2>2 DEF DownloadInv, WindowsRight, MappedModules
<1> QED BY <1>1, <1>2, <1>3, DownloadCases

\* main.cc:277 and :292: a module that fits a window is copied from its own
\* memory, for any number of modules of any sizes, the first time and again
\* after others were mapped.
THEOREM CopyAlwaysModule == Spec => []CopyIsModule
<1>1. Init => DownloadInv
  <2> SUFFICES ASSUME Init PROVE DownloadInv
    OBVIOUS
  <2>1. MappedModules = {}
    BY DEF Init, MappedModules
  <2>2. WindowPages * Cardinality({}) = 0
    BY ShellAssumption, FS_EmptySet
  <2>3. DOMAIN modulePos = Modules /\ DOMAIN view = Window /\ nextPos = 0 /\ copied.module = 0
    BY DEF Init
  <2> QED BY <2>1, <2>2, <2>3 DEF DownloadInv, WindowsRight, CopyIsModule
<1>2. DownloadInv /\ [Next]_vars => DownloadInv'
  BY DownloadInvStep
<1>3. DownloadInv => CopyIsModule
  BY DEF DownloadInv
<1> QED BY <1>1, <1>2, <1>3, PTL DEF Spec

-----------------------------------------------------------------------------
(***************************************************************************)
(* The command buffer.                                                     *)
(***************************************************************************)
\* What the first n characters of s take in the buffer, at most.
Taken(s, n) == n + Cardinality({i \in 1 .. n : s[i] = NL})

\* The characters that the loop has gone through.
Seen == IF pc = "scan" THEN Len(typed) - Len(inChars) + pos ELSE Len(typed)

\* The characters read are the last of those typed.
ReadLast ==
    pc = "scan" =>
        /\ pos <= Len(inChars) /\ Len(inChars) <= Len(typed)
        /\ \A j \in 1 .. Len(inChars) : typed[Len(typed) - Len(inChars) + j] = inChars[j]

BufferTypes ==
    /\ typed \in Seq(Keys) /\ inChars \in Seq(Keys)
    /\ pos \in Nat /\ numchars \in Int /\ numchars <= Len(inChars)
    /\ cmdPointer \in Nat

BufferInv ==
    /\ BufferTypes
    /\ ReadLast
    /\ status = "up" => cmdPointer <= Taken(typed, Seen)
    /\ status = "overrun" => Taken(typed, Len(typed)) > MAX_COMMAND_LENGTH

LEMMA TakenFinite ==
    ASSUME NEW s, NEW n \in Nat
    PROVE  /\ IsFiniteSet({i \in 1 .. n : s[i] = NL})
           /\ Cardinality({i \in 1 .. n : s[i] = NL}) \in Nat
           /\ Taken(s, n) \in Nat
<1> DEFINE S == {i \in 1 .. n : s[i] = NL}
<1>1. IsFiniteSet(1 .. n)
  BY FS_Interval
<1>2. S \subseteq 1 .. n
  OBVIOUS
<1>3. IsFiniteSet(S) /\ Cardinality(S) \in Nat
  <2> HIDE DEF S
  <2> QED BY <1>1, <1>2, FS_Subset, FS_CardinalityType
<1> QED BY <1>3 DEF Taken

LEMMA TakenGrows ==
    ASSUME NEW s, NEW n \in Nat, NEW k \in Nat, n <= k
    PROVE  Taken(s, n) <= Taken(s, k)
<1> DEFINE S == {i \in 1 .. n : s[i] = NL}
           T == {i \in 1 .. k : s[i] = NL}
<1>1. S \subseteq T
  OBVIOUS
<1>2. IsFiniteSet(T) /\ Cardinality(T) \in Nat /\ Cardinality(S) \in Nat
  BY TakenFinite
<1>3. Taken(s, n) = n + Cardinality(S) /\ Taken(s, k) = k + Cardinality(T)
  BY DEF Taken
<1> HIDE DEF S, T
<1>4. Cardinality(S) <= Cardinality(T)
  BY <1>1, <1>2, FS_Subset
<1> QED BY <1>2, <1>3, <1>4

LEMMA TakenOneMore ==
    ASSUME NEW s, NEW n \in Nat
    PROVE  Taken(s, n + 1) = Taken(s, n) + IF s[n + 1] = NL THEN 2 ELSE 1
<1> DEFINE S == {i \in 1 .. n : s[i] = NL}
           T == {i \in 1 .. n + 1 : s[i] = NL}
<1>1. T = IF s[n + 1] = NL THEN S \cup {n + 1} ELSE S
  OBVIOUS
<1>2. IsFiniteSet(S) /\ Cardinality(S) \in Nat
  BY TakenFinite
<1>3. Taken(s, n) = n + Cardinality(S) /\ Taken(s, n + 1) = n + 1 + Cardinality(T)
  BY DEF Taken
<1>4. n + 1 \notin S
  OBVIOUS
<1> HIDE DEF S, T
<1>5. Cardinality(S \cup {n + 1}) = Cardinality(S) + 1
  BY <1>2, <1>4, FS_AddElement
<1> QED BY <1>1, <1>2, <1>3, <1>5

LEMMA TakenSame ==
    ASSUME NEW s, NEW t, NEW n \in Nat, \A i \in 1 .. n : s[i] = t[i]
    PROVE  Taken(s, n) = Taken(t, n)
<1>1. {i \in 1 .. n : s[i] = NL} = {i \in 1 .. n : t[i] = NL}
  OBVIOUS
<1> QED BY <1>1 DEF Taken

\* What a step does to the loop and the buffer.
StaysStep ==
    /\ UNCHANGED <<pc, typed, inChars, pos, numchars, cmdPointer>>
    /\ status' \in {status, "sigma0 rejected request"}
ReadStep(batch) ==
    /\ pc = "read" /\ pc' = "scan"
    /\ typed' = typed \o batch
    /\ inChars' = batch /\ numchars' = Len(batch) /\ pos' = 0
    /\ UNCHANGED <<cmdPointer, status>>
ScanStep ==
    /\ pc = "scan" /\ pos < numchars
    /\ pos' = pos + 1
    /\ numchars' \in {numchars, numchars - 1}
    /\ \/ cmdPointer' = cmdPointer
       \/ cmdPointer > 0 /\ cmdPointer' = cmdPointer - 1
       \/ cmdPointer' = cmdPointer + IF inChars[pos + 1] = NL THEN 2 ELSE 1
    /\ status' = "up" \/ (status' = "overrun" /\ cmdPointer' > MAX_COMMAND_LENGTH)
    /\ UNCHANGED <<pc, inChars, typed>>
ScannedStep ==
    /\ pc' # "scan"
    /\ UNCHANGED <<typed, inChars, pos, numchars, cmdPointer, status>>
PromptStep ==
    /\ cmdPointer' = 0 /\ typed' = <<>> /\ pc' = "read"
    /\ UNCHANGED <<inChars, pos, numchars, status>>

LEMMA BufferCases ==
    ASSUME [Next]_vars
    PROVE  \/ StaysStep
           \/ /\ status = "up"
              /\ \/ \E n \in 1 .. MaxBatch : \E batch \in [1 .. n -> Keys] : ReadStep(batch)
                 \/ ScanStep \/ ScannedStep \/ PromptStep
<1>1. CASE UNCHANGED vars
  BY <1>1 DEF vars, scanning, buffer, user, StaysStep
<1>2. ASSUME NEW batch, read(batch) PROVE ReadStep(batch)
  BY <1>2 DEF read, ReadStep, buffer
<1>3. ASSUME NEW k, Scan(k)
      PROVE  /\ pc = "scan" /\ pos < numchars /\ pos' = pos + 1 /\ inChars[pos + 1] \in k
             /\ UNCHANGED <<pc, inChars, typed>>
  BY <1>3 DEF Scan, user
<1>4. ASSUME status = "up", ScanBackspace PROVE ScanStep
  BY <1>3, <1>4 DEF ScanBackspace, ScanStep
<1>5. ASSUME status = "up", ScanBackspaceAtStart \/ ScanTab PROVE ScanStep
  BY <1>3, <1>5 DEF ScanBackspaceAtStart, ScanTab, ScanStep, buffer
<1>6. ASSUME status = "up", ScanNewline PROVE ScanStep
  <2>1. inChars[pos + 1] = NL
    BY <1>3, <1>6 DEF ScanNewline
  <2>2. Len(<<NL, NUL>>) = 2
    OBVIOUS
  <2>3. cmdPointer' = cmdPointer + 2 /\ (status' = "up" \/ (status' = "overrun" /\ cmdPointer' > MAX_COMMAND_LENGTH))
    BY <1>6, <2>2 DEF ScanNewline, Store
  <2> QED BY <1>3, <1>6, <2>1, <2>3 DEF ScanNewline, ScanStep
<1>7. ASSUME status = "up", ScanLetter PROVE ScanStep
  <2>1. inChars[pos + 1] # NL
    BY <1>3, <1>7, ShellAssumption DEF ScanLetter
  <2>2. Len(<<inChars[pos + 1]>>) = 1
    OBVIOUS
  <2>3. cmdPointer' = cmdPointer + 1 /\ (status' = "up" \/ (status' = "overrun" /\ cmdPointer' > MAX_COMMAND_LENGTH))
    BY <1>7, <2>2 DEF ScanLetter, Store
  <2> QED BY <1>3, <1>7, <2>1, <2>3 DEF ScanLetter, ScanStep
<1>8. ASSUME Scanned PROVE ScannedStep
  BY <1>8 DEF Scanned, ScannedStep, scanning, buffer, user
<1>9. ASSUME NEW text, Prompted(text) PROVE PromptStep
  BY <1>9 DEF Prompted, PromptStep, scanning
<1>10. ASSUME Execute PROVE PromptStep
  BY <1>9, <1>10 DEF Execute
<1>11. ASSUME NEW m, DownloadNew(m) \/ DownloadAgain(m) PROVE PromptStep
  BY <1>9, <1>11 DEF DownloadNew, DownloadAgain
<1>12. ASSUME NEW m, DownloadRejected(m) \/ OtherLoads(m) PROVE StaysStep
  BY <1>12 DEF DownloadRejected, OtherLoads, StaysStep, scanning, buffer, user
<1> QED BY <1>1, <1>2, <1>4, <1>5, <1>6, <1>7, <1>8, <1>10, <1>11, <1>12 DEF Next

LEMMA BufferScan ==
    ASSUME BufferInv, status = "up", ScanStep
    PROVE  BufferInv'
<1>1. /\ typed \in Seq(Keys) /\ inChars \in Seq(Keys) /\ pos \in Nat /\ cmdPointer \in Nat
      /\ numchars \in Int /\ numchars <= Len(inChars) /\ Len(typed) \in Nat /\ Len(inChars) \in Nat
  BY DEF BufferInv, BufferTypes
<1>2. /\ pc = "scan" /\ pos < numchars /\ pos' = pos + 1
      /\ UNCHANGED <<pc, inChars, typed>>
      /\ numchars' \in {numchars, numchars - 1}
      /\ status' = "up" \/ (status' = "overrun" /\ cmdPointer' > MAX_COMMAND_LENGTH)
  BY DEF ScanStep
<1>3. pos + 1 \in 1 .. Len(inChars)
  BY <1>1, <1>2
<1>4. /\ Len(inChars) <= Len(typed)
      /\ \A j \in 1 .. Len(inChars) : typed[Len(typed) - Len(inChars) + j] = inChars[j]
  BY <1>2 DEF BufferInv, ReadLast
<1>5. PICK n : n = Seen
  OBVIOUS
<1>6. n = Len(typed) - Len(inChars) + pos /\ n \in Nat /\ n + 1 <= Len(typed)
  BY <1>1, <1>2, <1>3, <1>4, <1>5 DEF Seen
<1>7. Seen' = n + 1
  BY <1>1, <1>2, <1>6 DEF Seen
<1>8. typed[n + 1] = inChars[pos + 1]
  <2>1. Len(typed) - Len(inChars) + (pos + 1) = n + 1
    BY <1>1, <1>6
  <2> QED BY <1>3, <1>4, <2>1
<1>9. cmdPointer <= Taken(typed, n) /\ Taken(typed, n) \in Nat
  BY <1>5, <1>6, TakenFinite DEF BufferInv
<1>10. Taken(typed, n + 1) = Taken(typed, n) + IF inChars[pos + 1] = NL THEN 2 ELSE 1
  BY <1>6, <1>8, TakenOneMore
<1>11. cmdPointer' \in Nat /\ cmdPointer' <= Taken(typed, n + 1)
  BY <1>1, <1>9, <1>10 DEF ScanStep
<1>12. Taken(typed, n + 1) <= Taken(typed, Len(typed))
       /\ Taken(typed, n + 1) \in Nat /\ Taken(typed, Len(typed)) \in Nat
  <2>1. n + 1 \in Nat
    BY <1>6
  <2> QED BY <1>1, <1>6, <2>1, TakenGrows, TakenFinite
<1>13. BufferTypes'
  BY <1>1, <1>2, <1>11 DEF BufferTypes
<1>14. ReadLast'
  BY <1>2, <1>3, <1>4 DEF ReadLast
<1>15. status' = "up" => cmdPointer' <= Taken(typed', Seen')
  BY <1>2, <1>7, <1>11
<1>16. status' = "overrun" => Taken(typed', Len(typed')) > MAX_COMMAND_LENGTH
  BY <1>2, <1>11, <1>12, ShellAssumption
<1>17. Taken(typed', Seen') = Taken(typed, Seen)'
  BY DEF Taken
<1> QED BY <1>13, <1>14, <1>15, <1>16, <1>17 DEF BufferInv

LEMMA BufferRead ==
    ASSUME BufferInv, status = "up", NEW n \in 1 .. MaxBatch, NEW batch \in [1 .. n -> Keys],
           ReadStep(batch)
    PROVE  BufferInv'
<1>1. /\ typed \in Seq(Keys) /\ cmdPointer \in Nat /\ Len(typed) \in Nat
  BY DEF BufferInv, BufferTypes
<1>2. batch \in Seq(Keys) /\ Len(batch) \in Nat
  BY ShellAssumption
<1>3. /\ pc = "read" /\ pc' = "scan" /\ typed' = typed \o batch
      /\ inChars' = batch /\ numchars' = Len(batch) /\ pos' = 0
      /\ UNCHANGED <<cmdPointer, status>>
  BY DEF ReadStep
<1>4. /\ typed' \in Seq(Keys) /\ Len(typed') = Len(typed) + Len(batch)
      /\ \A i \in 1 .. Len(typed) : typed'[i] = typed[i]
      /\ \A i \in 1 .. Len(batch) : typed'[Len(typed) + i] = batch[i]
  BY <1>1, <1>2, <1>3
<1>5. Seen = Len(typed) /\ Seen' = Len(typed)
  BY <1>1, <1>2, <1>3, <1>4 DEF Seen
<1>6. Taken(typed', Len(typed)) = Taken(typed, Len(typed))
  BY <1>1, <1>4, TakenSame
<1>7. BufferTypes'
  BY <1>1, <1>2, <1>3, <1>4 DEF BufferTypes
<1>8. ReadLast'
  <2>1. Len(typed') - Len(inChars') = Len(typed) /\ pos' <= Len(inChars') /\ Len(inChars') <= Len(typed')
    BY <1>1, <1>2, <1>3, <1>4
  <2> QED BY <1>3, <1>4, <2>1 DEF ReadLast
<1>9. cmdPointer' <= Taken(typed', Seen')
  BY <1>3, <1>5, <1>6 DEF BufferInv
<1>10. status' = "up"
  BY <1>3
<1>11. Taken(typed', Seen') = Taken(typed, Seen)'
  BY DEF Taken
<1> QED BY <1>7, <1>8, <1>9, <1>10, <1>11 DEF BufferInv

LEMMA BufferRest ==
    ASSUME BufferInv, StaysStep \/ (status = "up" /\ (ScannedStep \/ PromptStep))
    PROVE  BufferInv'
<1>1. /\ typed \in Seq(Keys) /\ inChars \in Seq(Keys) /\ pos \in Nat /\ cmdPointer \in Nat
      /\ numchars \in Int /\ numchars <= Len(inChars) /\ Len(typed) \in Nat /\ Len(inChars) \in Nat
  BY DEF BufferInv, BufferTypes
<1>2. CASE StaysStep
  <2>1. UNCHANGED <<pc, typed, inChars, pos, numchars, cmdPointer>>
        /\ status' \in {status, "sigma0 rejected request"}
    BY <1>2 DEF StaysStep
  <2>2. Seen' = Seen
    BY <2>1 DEF Seen
  <2>3. PICK n : n = Seen
    OBVIOUS
  <2>4. BufferTypes' /\ ReadLast'
    BY <2>1 DEF BufferInv, BufferTypes, ReadLast
  <2>5. status' = "up" => cmdPointer' <= Taken(typed', n)
    BY <2>1, <2>3 DEF BufferInv
  <2>6. status' = "overrun" => Taken(typed', Len(typed')) > MAX_COMMAND_LENGTH
    BY <2>1 DEF BufferInv
  <2>7. Taken(typed, Seen)' = Taken(typed', n)
    BY <2>2, <2>3 DEF Taken
  <2> QED BY <2>4, <2>5, <2>6, <2>7 DEF BufferInv
<1>3. CASE status = "up" /\ ScannedStep
  <2>1. UNCHANGED <<typed, inChars, pos, numchars, cmdPointer, status>> /\ pc' # "scan"
    BY <1>3 DEF ScannedStep
  <2>2. Seen \in Nat /\ Seen <= Len(typed) /\ Seen' = Len(typed)
    BY <1>1, <2>1 DEF Seen, BufferInv, ReadLast
  <2>3. PICK n \in Nat : n = Seen
    BY <2>2
  <2>4. Taken(typed, n) <= Taken(typed, Len(typed)) /\ Taken(typed, n) \in Nat
        /\ Taken(typed, Len(typed)) \in Nat
    BY <1>1, <2>2, <2>3, TakenGrows, TakenFinite
  <2>5. cmdPointer <= Taken(typed, n)
    BY <1>3, <2>3 DEF BufferInv
  <2>6. cmdPointer' <= Taken(typed, Len(typed))
    BY <1>1, <2>1, <2>4, <2>5
  <2>7. BufferTypes' /\ ReadLast'
    BY <1>1, <2>1 DEF BufferTypes, ReadLast
  <2>8. Taken(typed, Seen)' = Taken(typed, Len(typed))
    BY <2>1, <2>2 DEF Taken
  <2>9. status' = "up"
    BY <1>3, <2>1
  <2> QED BY <2>6, <2>7, <2>8, <2>9 DEF BufferInv
<1>4. CASE status = "up" /\ PromptStep
  <2>1. /\ cmdPointer' = 0 /\ typed' = <<>> /\ pc' = "read" /\ status' = "up"
        /\ UNCHANGED <<inChars, pos, numchars>>
    BY <1>4 DEF PromptStep
  <2>2. BufferTypes' /\ ReadLast'
    BY <1>1, <2>1 DEF BufferTypes, ReadLast
  <2>3. Seen' = 0
    BY <2>1 DEF Seen
  <2>4. Taken(typed', 0) \in Nat
    BY TakenFinite
  <2>5. Taken(typed, Seen)' = Taken(typed', 0)
    BY <2>3 DEF Taken
  <2> QED BY <2>1, <2>2, <2>4, <2>5 DEF BufferInv
<1> QED BY <1>2, <1>3, <1>4

\* main.cc:165: the shell writes behind its buffer only when more is typed
\* between two prompts than fits, each newline counted twice, whatever is read at
\* a time and corrected in between.
THEOREM OverrunAlwaysByLongLine == Spec => []OverrunOnlyByLongLine
<1>1. Init => BufferInv
  <2> SUFFICES ASSUME Init PROVE BufferInv
    OBVIOUS
  <2>1. /\ typed = <<>> /\ inChars = <<>> /\ pos = 0 /\ numchars = 0 /\ cmdPointer = 0
        /\ pc = "read" /\ status = "up"
    BY DEF Init
  <2>2. BufferTypes /\ ReadLast
    BY <2>1 DEF BufferTypes, ReadLast
  <2>3. Seen = 0
    BY <2>1 DEF Seen
  <2>4. Taken(typed, 0) \in Nat
    BY TakenFinite
  <2> QED BY <2>1, <2>2, <2>3, <2>4 DEF BufferInv
<1>2. BufferInv /\ [Next]_vars => BufferInv'
  BY BufferCases, BufferScan, BufferRead, BufferRest
<1>3. BufferInv => OverrunOnlyByLongLine
  <2> SUFFICES ASSUME BufferInv PROVE OverrunOnlyByLongLine
    OBVIOUS
  <2>1. DOMAIN typed = 1 .. Len(typed)
    BY DEF BufferInv, BufferTypes
  <2> QED BY <2>1 DEF BufferInv, OverrunOnlyByLongLine, Taken
<1> QED BY <1>1, <1>2, <1>3, PTL DEF Spec

-----------------------------------------------------------------------------
(***************************************************************************)
(* The command line.  While the shell goes through the characters read the *)
(* buffer holds a part of the line only.                                   *)
(***************************************************************************)
\* The first n characters of the line are in the buffer.
Held(n) == n <= MAX_COMMAND_LENGTH /\ \A i \in 1 .. n : cmdChars[i - 1] = line[i]

\* The whole line and the newline are.
Complete == Len(line) < MAX_COMMAND_LENGTH /\ Held(Len(line)) /\ cmdChars[Len(line)] = NL

\* How many of the characters read belong to the line.
Given(batch) == IF batch[Len(batch)] = NL THEN Len(batch) - 1 ELSE Len(batch)

\* A single backspace was read.
Corrects ==
    /\ inChars[1] = KEY_BACKSPACE /\ ~ exCmd /\ Held(Len(line)) /\ numchars <= 1
    /\ \/ pos = 0 /\ numchars = 1 /\ (cmdPointer = Len(line) + 1 \/ (cmdPointer = 0 /\ Len(line) = 0))
       \/ pos = 1 /\ cmdPointer = Len(line)

\* Letters were read, with or without a newline behind them.
Adds ==
    LET g == Given(inChars)
    IN  /\ Len(inChars) # 0 /\ numchars = Len(inChars) /\ pos <= numchars
        /\ g <= Len(line)
        /\ \A j \in 1 .. g : inChars[j] \in Letters /\ line[Len(line) - g + j] = inChars[j]
        /\ pos <= g => ~ exCmd /\ cmdPointer = Len(line) - g + pos /\ Held(cmdPointer)
        /\ pos > g => exCmd /\ Complete

LineTypes ==
    /\ DOMAIN cmdChars = 0 .. MAX_COMMAND_LENGTH - 1
    /\ cmdPointer \in Nat /\ pos \in Nat /\ numchars \in Int
    /\ inChars \in Seq(Keys)
    /\ pc \in {"read", "scan", "execute"}
    /\ careful \in BOOLEAN

LineInv ==
    /\ LineTypes
    /\ status = "overrun" => pc = "scan"
    /\ careful /\ status # "overrun" =>
        /\ line \in Seq(Letters)
        /\ pc = "read" => cmdPointer = Len(line) /\ Held(Len(line))
        /\ pc = "scan" => Corrects \/ Adds
        /\ pc = "execute" => Complete

\* The parser stops at the newline.
LEMMA CompleteCommand ==
    ASSUME LineTypes, line \in Seq(Letters), Complete
    PROVE  Command = line
<1>1. PICK n \in Nat : n = Len(line)
  OBVIOUS
<1>2. n < MAX_COMMAND_LENGTH /\ cmdChars[n] = NL /\ \A i \in 1 .. n : cmdChars[i - 1] = line[i]
  BY <1>1 DEF Complete, Held
<1>3. \A i \in 1 .. n : line[i] \in Letters
  BY <1>1
<1>4. MAX_COMMAND_LENGTH \in Nat /\ Letters \cap {NL, NUL} = {}
  BY ShellAssumption
<1>5. n \in CommandEnd
  BY <1>2, <1>4 DEF CommandEnd, LineTypes
<1>6. \A j \in CommandEnd : j \in Nat /\ n <= j
  <2> TAKE j \in CommandEnd
  <2>1. j \in 0 .. MAX_COMMAND_LENGTH - 1 /\ cmdChars[j] \in {NL, NUL}
    BY DEF CommandEnd, LineTypes
  <2>2. CASE j < n
    <3>1. j + 1 \in 1 .. n /\ (j + 1) - 1 = j
      BY <1>1, <2>1, <2>2
    <3>2. cmdChars[j] \in Letters
      BY <1>2, <1>3, <3>1
    <3> QED BY <1>4, <2>1, <3>2
  <2> QED BY <1>1, <2>1, <2>2
<1>7. (CHOOSE i \in CommandEnd : \A j \in CommandEnd : i <= j) = n
  <2>1. \A i \in CommandEnd : (\A j \in CommandEnd : i <= j) => i = n
    BY <1>5, <1>6
  <2> QED BY <1>5, <1>6, <2>1
<1>8. Command = [i \in 1 .. n |-> cmdChars[i - 1]]
  BY <1>5, <1>7 DEF Command
<1>9. Command = [i \in 1 .. n |-> line[i]]
  BY <1>2, <1>8
<1> QED BY <1>1, <1>9

\* The next character of a batch of letters.
LEMMA NextRead ==
    ASSUME LineTypes, line \in Seq(Letters), Adds, pos < numchars
    PROVE  \/ pos + 1 <= Given(inChars) /\ inChars[pos + 1] \in Letters
           \/ /\ pos = Given(inChars) /\ pos + 1 = Len(inChars)
              /\ inChars[pos + 1] = NL
<1>1. PICK n \in Nat : n = Len(inChars)
  BY DEF LineTypes
<1>2. PICK g : g = Given(inChars)
  OBVIOUS
<1>3. n # 0 /\ numchars = n /\ \A j \in 1 .. g : inChars[j] \in Letters
  BY <1>1, <1>2 DEF Adds
<1>4. g = (IF inChars[n] = NL THEN n - 1 ELSE n) /\ g \in Nat /\ pos \in Nat /\ pos < n
  BY <1>1, <1>2, <1>3 DEF Given, LineTypes
<1>5. CASE pos + 1 <= g
  BY <1>2, <1>3, <1>4, <1>5
<1>6. CASE ~ (pos + 1 <= g)
  BY <1>1, <1>2, <1>4, <1>6
<1> QED BY <1>5, <1>6

\* What a store leaves in the buffer.
LEMMA StoreFacts ==
    ASSUME LineTypes, NEW chars, Len(chars) \in Nat, Len(chars) >= 1, Store(chars), status = "up"
    PROVE  /\ cmdPointer' = cmdPointer + Len(chars) /\ cmdPointer' \in Nat
           /\ DOMAIN cmdChars' = 0 .. MAX_COMMAND_LENGTH - 1
           /\ status' # "overrun" => /\ cmdPointer + Len(chars) <= MAX_COMMAND_LENGTH
                                     /\ cmdChars'[cmdPointer] = chars[1]
           /\ \A i \in 0 .. MAX_COMMAND_LENGTH - 1 : i < cmdPointer => cmdChars'[i] = cmdChars[i]
<1>0. PICK n \in Nat : n = Len(chars) /\ n >= 1
  OBVIOUS
<1>1. /\ cmdPointer \in Nat /\ MAX_COMMAND_LENGTH \in Nat
      /\ DOMAIN cmdChars = 0 .. MAX_COMMAND_LENGTH - 1
  BY ShellAssumption DEF LineTypes
<1>2. /\ cmdChars' = [i \in DOMAIN cmdChars |->
             IF i - cmdPointer \in 0 .. n - 1 THEN chars[i - cmdPointer + 1] ELSE cmdChars[i]]
      /\ cmdPointer' = cmdPointer + n
      /\ status' = IF cmdPointer + n > MAX_COMMAND_LENGTH THEN "overrun" ELSE status
  BY <1>0 DEF Store
<1>3. ASSUME status' # "overrun"
      PROVE  cmdPointer + n <= MAX_COMMAND_LENGTH /\ cmdChars'[cmdPointer] = chars[1]
  <2>1. cmdPointer + n <= MAX_COMMAND_LENGTH /\ cmdPointer \in 0 .. MAX_COMMAND_LENGTH - 1
    BY <1>0, <1>1, <1>2, <1>3
  <2>2. cmdPointer - cmdPointer = 0 /\ 0 \in 0 .. n - 1 /\ 0 + 1 = 1
    BY <1>0, <1>1
  <2> QED BY <1>1, <1>2, <2>1, <2>2
<1>4. ASSUME NEW i \in 0 .. MAX_COMMAND_LENGTH - 1, i < cmdPointer PROVE cmdChars'[i] = cmdChars[i]
  <2>1. i - cmdPointer \notin 0 .. n - 1
    BY <1>0, <1>1, <1>4
  <2> QED BY <1>1, <1>2, <2>1
<1> QED BY <1>0, <1>1, <1>2, <1>3, <1>4

\* What the line and the buffer have in common stays.
LEMMA HeldStays ==
    ASSUME LineTypes, NEW n \in Nat, Held(n), line' = line,
           \A i \in 0 .. MAX_COMMAND_LENGTH - 1 : i < n => cmdChars'[i] = cmdChars[i]
    PROVE  \A i \in 1 .. n : cmdChars'[i - 1] = line'[i]
<1> TAKE i \in 1 .. n
<1>1. i - 1 \in 0 .. MAX_COMMAND_LENGTH - 1 /\ i - 1 < n
  BY ShellAssumption DEF Held
<1> QED BY <1>1 DEF Held

LEMMA LineLetter ==
    ASSUME LineInv, status = "up", ScanLetter
    PROVE  LineInv'
<1>1. /\ pc = "scan" /\ pos < numchars /\ inChars[pos + 1] \in Letters /\ pos' = pos + 1
      /\ UNCHANGED <<pc, inChars, line, careful, numchars, exCmd>>
      /\ Store(<<inChars[pos + 1]>>)
  BY DEF ScanLetter, Scan, user
<1>2. LineTypes /\ MAX_COMMAND_LENGTH \in Nat
  BY ShellAssumption DEF LineInv
<1>3. /\ cmdPointer' = cmdPointer + 1 /\ cmdPointer' \in Nat
      /\ DOMAIN cmdChars' = 0 .. MAX_COMMAND_LENGTH - 1
      /\ status' # "overrun" => /\ cmdPointer + 1 <= MAX_COMMAND_LENGTH
                                /\ cmdChars'[cmdPointer] = inChars[pos + 1]
      /\ \A i \in 0 .. MAX_COMMAND_LENGTH - 1 : i < cmdPointer => cmdChars'[i] = cmdChars[i]
  <2>1. PICK chars : chars = <<inChars[pos + 1]>>
    OBVIOUS
  <2>2. Len(chars) = 1 /\ Len(chars) \in Nat /\ Len(chars) >= 1 /\ chars[1] = inChars[pos + 1]
    BY <2>1
  <2> QED BY <1>1, <1>2, <2>1, <2>2, StoreFacts
<1>4. LineTypes'
  BY <1>1, <1>2, <1>3 DEF LineTypes
<1>5. ASSUME careful, status' # "overrun"
      PROVE  line \in Seq(Letters) /\ Adds'
  <2>1. line \in Seq(Letters) /\ (Corrects \/ Adds)
    BY <1>1, <1>5 DEF LineInv
  <2>2. Adds
    <3>1. inChars[0 + 1] # KEY_BACKSPACE \/ pos # 0
      BY <1>1, ShellAssumption
    <3> QED BY <1>1, <1>2, <2>1, <3>1 DEF Corrects, LineTypes
  <2>3. PICK g : g = Given(inChars)
    OBVIOUS
  <2>4. pos + 1 <= g
    BY <1>1, <1>2, <2>1, <2>2, <2>3, NextRead, ShellAssumption
  <2>5. PICK n \in Nat : n = Len(inChars)
    BY <1>2 DEF LineTypes
  <2>6. g \in Int /\ pos \in Nat /\ cmdPointer \in Nat /\ Len(line) \in Nat
    BY <1>2, <2>1, <2>3, <2>5 DEF LineTypes, Given
  <2>7. /\ n # 0 /\ numchars = n /\ g <= Len(line)
        /\ \A j \in 1 .. g : inChars[j] \in Letters /\ line[Len(line) - g + j] = inChars[j]
        /\ ~ exCmd /\ cmdPointer = Len(line) - g + pos /\ Held(cmdPointer)
    BY <2>2, <2>3, <2>4, <2>5, <2>6 DEF Adds
  <2>8. Held(cmdPointer)'
    <3>1. \A i \in 1 .. cmdPointer : cmdChars'[i - 1] = line'[i]
      BY <1>1, <1>2, <1>3, <2>6, <2>7, HeldStays
    <3>2. line[cmdPointer + 1] = inChars[pos + 1]
      <4>1. pos + 1 \in 1 .. g /\ Len(line) - g + (pos + 1) = cmdPointer + 1
        BY <2>4, <2>6, <2>7
      <4> QED BY <2>7, <4>1
    <3>3. cmdChars'[(cmdPointer + 1) - 1] = line'[cmdPointer + 1]
      <4>1. (cmdPointer + 1) - 1 = cmdPointer
        BY <2>6
      <4> QED BY <1>1, <1>3, <1>5, <3>2, <4>1
    <3>4. \A i \in 1 .. cmdPointer + 1 : i = cmdPointer + 1 \/ i \in 1 .. cmdPointer
      BY <2>6
    <3>5. \A i \in 1 .. cmdPointer' : cmdChars'[i - 1] = line'[i]
      BY <1>3, <3>1, <3>3, <3>4
    <3> QED BY <1>3, <1>5, <3>5 DEF Held
  <2>10. Given(inChars)' = g
    BY <1>1, <2>3 DEF Given
  <2>11. pos' <= numchars' /\ cmdPointer' = Len(line) - g + pos' /\ pos' <= g
    BY <1>1, <1>3, <2>4, <2>5, <2>6, <2>7
  <2>12. ~ (pos' > g)
    BY <1>1, <2>6, <2>11
  <2> QED BY <1>1, <2>1, <2>5, <2>7, <2>8, <2>10, <2>11, <2>12 DEF Adds
<1> QED BY <1>1, <1>4, <1>5 DEF LineInv

LEMMA LineNewline ==
    ASSUME LineInv, status = "up", ScanNewline
    PROVE  LineInv'
<1>1. /\ pc = "scan" /\ pos < numchars /\ inChars[pos + 1] = NL /\ pos' = pos + 1 /\ exCmd'
      /\ UNCHANGED <<pc, inChars, line, careful, numchars>>
      /\ Store(<<NL, NUL>>)
  BY DEF ScanNewline, Scan, user
<1>2. LineTypes /\ MAX_COMMAND_LENGTH \in Nat
  BY ShellAssumption DEF LineInv
<1>3. /\ cmdPointer' \in Nat
      /\ DOMAIN cmdChars' = 0 .. MAX_COMMAND_LENGTH - 1
      /\ status' # "overrun" => /\ cmdPointer + 2 <= MAX_COMMAND_LENGTH
                                /\ cmdChars'[cmdPointer] = NL
      /\ \A i \in 0 .. MAX_COMMAND_LENGTH - 1 : i < cmdPointer => cmdChars'[i] = cmdChars[i]
  <2>1. PICK chars : chars = <<NL, NUL>>
    OBVIOUS
  <2>2. Len(chars) = 2 /\ Len(chars) \in Nat /\ Len(chars) >= 1 /\ chars[1] = NL
    BY <2>1
  <2> QED BY <1>1, <1>2, <2>1, <2>2, StoreFacts
<1>4. LineTypes'
  BY <1>1, <1>2, <1>3 DEF LineTypes
<1>5. ASSUME careful, status' # "overrun"
      PROVE  line \in Seq(Letters) /\ Adds'
  <2>1. line \in Seq(Letters) /\ (Corrects \/ Adds)
    BY <1>1, <1>5 DEF LineInv
  <2>2. Adds
    <3>1. inChars[0 + 1] # KEY_BACKSPACE \/ pos # 0
      BY <1>1 DEF NL, KEY_BACKSPACE
    <3> QED BY <1>1, <1>2, <2>1, <3>1 DEF Corrects, LineTypes
  <2>3. PICK g : g = Given(inChars)
    OBVIOUS
  <2>4. pos = g /\ pos + 1 = Len(inChars)
    BY <1>1, <1>2, <2>1, <2>2, <2>3, NextRead, ShellAssumption
  <2>5. pos \in Nat /\ cmdPointer \in Nat /\ Len(line) \in Nat
    BY <1>2, <2>1 DEF LineTypes
  <2>6. /\ Len(inChars) # 0 /\ numchars = Len(inChars) /\ g <= Len(line)
        /\ \A j \in 1 .. g : inChars[j] \in Letters /\ line[Len(line) - g + j] = inChars[j]
        /\ cmdPointer = Len(line) - g + pos /\ Held(cmdPointer)
    BY <2>2, <2>3, <2>4, <2>5 DEF Adds
  <2>7. cmdPointer = Len(line)
    BY <2>4, <2>5, <2>6
  <2>8. \A i \in 1 .. cmdPointer : cmdChars'[i - 1] = line'[i]
    BY <1>1, <1>2, <1>3, <2>5, <2>6, HeldStays
  <2>9. cmdPointer < MAX_COMMAND_LENGTH
    BY <1>2, <1>3, <1>5, <2>5
  <2>10. Complete'
    BY <1>1, <1>2, <1>3, <1>5, <2>5, <2>7, <2>8, <2>9 DEF Complete, Held
  <2>11. Given(inChars)' = g
    BY <1>1, <2>3 DEF Given
  <2>12. pos' <= numchars' /\ pos' > g /\ ~ (pos' <= g)
    BY <1>1, <2>4, <2>5, <2>6
  <2> QED BY <1>1, <2>1, <2>6, <2>10, <2>11, <2>12 DEF Adds
<1> QED BY <1>1, <1>4, <1>5 DEF LineInv

\* Nothing but a backspace that comes alone is not a letter or a newline.
LEMMA LineOther ==
    ASSUME LineInv, status = "up", ScanBackspace \/ ScanBackspaceAtStart \/ ScanTab
    PROVE  LineInv'
<1>1. /\ pc = "scan" /\ pos < numchars /\ inChars[pos + 1] \in {KEY_BACKSPACE, TAB} /\ pos' = pos + 1
      /\ UNCHANGED <<pc, inChars, line, careful, exCmd, cmdChars, status>>
  BY DEF ScanBackspace, ScanBackspaceAtStart, ScanTab, Scan, user, buffer
<1>2. LineTypes
  BY DEF LineInv
<1>3. /\ ScanTab => inChars[pos + 1] = TAB
      /\ ScanBackspace => cmdPointer > 0 /\ cmdPointer' = cmdPointer - 1 /\ numchars' = numchars - 1
      /\ ScanBackspaceAtStart => cmdPointer = 0
      /\ ScanBackspaceAtStart \/ ScanTab => cmdPointer' = cmdPointer /\ numchars' = numchars
  BY DEF ScanBackspace, ScanBackspaceAtStart, ScanTab, Scan, buffer
<1>4. LineTypes'
  BY <1>1, <1>2, <1>3 DEF LineTypes
<1>5. ASSUME careful PROVE line \in Seq(Letters) /\ Corrects'
  <2>1. line \in Seq(Letters) /\ (Corrects \/ Adds)
    BY <1>1, <1>5 DEF LineInv
  <2>2. ~ Adds
    <3>1. inChars[pos + 1] \notin Letters /\ inChars[pos + 1] # NL
      BY <1>1, ShellAssumption DEF NL, KEY_BACKSPACE, TAB
    <3> QED BY <1>1, <1>2, <2>1, <3>1, NextRead
  <2>3. Corrects /\ Len(line) \in Nat /\ cmdPointer \in Nat /\ numchars \in Int /\ pos \in Nat
    BY <1>2, <2>1, <2>2 DEF LineTypes
  <2>4. /\ inChars[1] = KEY_BACKSPACE /\ ~ exCmd /\ Held(Len(line))
        /\ pos = 0 /\ numchars = 1
        /\ cmdPointer = Len(line) + 1 \/ (cmdPointer = 0 /\ Len(line) = 0)
    BY <1>1, <2>3 DEF Corrects
  <2>5. inChars[pos + 1] # TAB
    BY <2>4 DEF KEY_BACKSPACE, TAB
  <2>6. cmdPointer' = Len(line) /\ numchars' <= 1 /\ pos' = 1
    BY <1>1, <1>3, <2>3, <2>4, <2>5
  <2>7. Held(Len(line))'
    BY <1>1, <2>4 DEF Held
  <2> QED BY <1>1, <2>1, <2>4, <2>6, <2>7 DEF Corrects
<1> QED BY <1>1, <1>4, <1>5 DEF LineInv

LEMMA LineScanned ==
    ASSUME LineInv, status = "up", Scanned
    PROVE  LineInv'
<1>1. /\ pc = "scan" /\ pos >= numchars /\ pc' = (IF exCmd THEN "execute" ELSE "read")
      /\ UNCHANGED <<line, careful, cmdChars, cmdPointer, status, inChars, pos, numchars>>
  BY DEF Scanned, user, buffer, scanning
<1>2. LineTypes
  BY DEF LineInv
<1>3. LineTypes'
  BY <1>1, <1>2 DEF LineTypes
<1>4. Held(Len(line))' = Held(Len(line)) /\ Complete' = Complete
  BY <1>1 DEF Held, Complete
<1>5. ASSUME careful
      PROVE  /\ line \in Seq(Letters)
             /\ ~ exCmd => cmdPointer = Len(line) /\ Held(Len(line))
             /\ exCmd => Complete
  <2>1. line \in Seq(Letters) /\ (Corrects \/ Adds)
    BY <1>1, <1>5 DEF LineInv
  <2>2. CASE Corrects
    BY <1>1, <2>1, <2>2 DEF Corrects
  <2>3. CASE Adds
    <3>1. PICK n \in Nat : n = Len(inChars)
      BY <1>2 DEF LineTypes
    <3>2. PICK g : g = Given(inChars)
      OBVIOUS
    <3>3. n # 0 /\ numchars = n /\ pos <= n /\ g = (IF inChars[n] = NL THEN n - 1 ELSE n)
      BY <2>3, <3>1, <3>2 DEF Adds, Given
    <3>4. pos = n /\ g \in Nat
      BY <1>1, <1>2, <3>1, <3>3 DEF LineTypes
    <3>5. Len(line) \in Nat
      BY <2>1
    <3>6. CASE pos <= g
      <4>1. ~ exCmd /\ cmdPointer = Len(line) - g + pos /\ Held(cmdPointer)
        BY <2>3, <3>2, <3>6 DEF Adds
      <4>2. cmdPointer = Len(line)
        BY <3>3, <3>4, <3>5, <3>6, <4>1
      <4> QED BY <2>1, <4>1, <4>2
    <3>7. CASE ~ (pos <= g)
      <4>1. pos > g
        BY <3>4, <3>7
      <4>2. exCmd /\ Complete
        BY <2>3, <3>2, <4>1 DEF Adds
      <4> QED BY <2>1, <4>2
    <3> QED BY <3>6, <3>7
  <2> QED BY <2>1, <2>2, <2>3
<1>6. pc' \in {"read", "execute"} /\ (pc' = "read" => ~ exCmd) /\ (pc' = "execute" => exCmd)
  BY <1>1
<1> QED BY <1>1, <1>3, <1>4, <1>5, <1>6 DEF LineInv

LEMMA FrontFacts ==
    ASSUME NEW S, NEW s \in Seq(S), Len(s) # 0
    PROVE  /\ Front(s) \in Seq(S) /\ Len(Front(s)) = Len(s) - 1
           /\ \A i \in 1 .. Len(s) - 1 : Front(s)[i] = s[i]
<1>1. PICK n \in Nat : n = Len(s) /\ n >= 1
  OBVIOUS
<1>2. Front(s) = SubSeq(s, 1, n - 1)
  BY <1>1 DEF Front
<1> QED BY <1>1, <1>2

\* The lemma's premise, kept folded where it is used.
Joins(s, u, joined) == joined = s \o u

LEMMA JoinFacts ==
    ASSUME NEW S, NEW s \in Seq(S), NEW u \in Seq(S), NEW joined, Joins(s, u, joined)
    PROVE  /\ joined \in Seq(S) /\ Len(joined) = Len(s) + Len(u)
           /\ \A i \in 1 .. Len(s) : joined[i] = s[i]
           /\ \A i \in 1 .. Len(u) : joined[Len(s) + i] = u[i]
<1>1. PICK l \in Nat : l = Len(s)
  OBVIOUS
<1>2. PICK g \in Nat : g = Len(u)
  OBVIOUS
<1>3. joined \in Seq(S) /\ Len(joined) = l + g
  BY <1>1, <1>2 DEF Joins
<1>4. \A i \in 1 .. l + g : joined[i] = IF i <= l THEN s[i] ELSE u[i - l]
  BY <1>1, <1>2 DEF Joins
<1>5. ASSUME NEW i \in 1 .. l PROVE joined[i] = s[i]
  <2>1. i \in 1 .. l + g /\ i <= l
    BY <1>1, <1>2
  <2> QED BY <1>4, <2>1
<1>6. ASSUME NEW i \in 1 .. g PROVE joined[l + i] = u[i]
  <2>1. l + i \in 1 .. l + g /\ ~ (l + i <= l) /\ (l + i) - l = i
    BY <1>1, <1>2
  <2> QED BY <1>4, <2>1
<1> QED BY <1>1, <1>2, <1>3, <1>5, <1>6

LEMMA LineRead ==
    ASSUME LineInv, status = "up", NEW n \in 1 .. MaxBatch, NEW batch \in [1 .. n -> Keys], read(batch)
    PROVE  LineInv'
<1>1. /\ pc = "read" /\ pc' = "scan" /\ inChars' = batch /\ numchars' = Len(batch) /\ pos' = 0
      /\ exCmd' = FALSE /\ line' = Edited(batch) /\ careful' = (careful /\ Careful(batch))
      /\ UNCHANGED <<cmdChars, cmdPointer, status>>
  BY DEF read, buffer
<1>2. LineTypes /\ MAX_COMMAND_LENGTH \in Nat
  BY ShellAssumption DEF LineInv
<1>3. n \in Nat /\ n >= 1 /\ batch \in Seq(Keys) /\ Len(batch) = n /\ 1 \in 1 .. n /\ n \in 1 .. n
  BY ShellAssumption
<1>4. LineTypes'
  BY <1>1, <1>2, <1>3 DEF LineTypes
<1>5. ASSUME careful, Careful(batch) PROVE line' \in Seq(Letters) /\ (Corrects' \/ Adds')
  <2>1. line \in Seq(Letters) /\ cmdPointer = Len(line) /\ Held(Len(line))
    BY <1>1, <1>5 DEF LineInv
  <2>2. PICK l \in Nat : l = Len(line)
    BY <2>1
  <2>3. l <= MAX_COMMAND_LENGTH /\ \A i \in 1 .. l : cmdChars[i - 1] = line[i]
    BY <2>1, <2>2 DEF Held
  <2>4. CASE batch = <<KEY_BACKSPACE>>
    <3>1. batch[1] = KEY_BACKSPACE /\ Len(batch) = 1
      BY <2>4
    <3>2. CASE line = <<>>
      <4>1. line' = line /\ l = 0
        BY <1>1, <2>2, <2>4, <3>2 DEF Edited
      <4>2. Len(line') = 0 /\ Held(Len(line))'
        BY <1>1, <2>1, <2>2, <4>1 DEF Held
      <4> QED BY <1>1, <2>1, <2>2, <3>1, <4>1, <4>2 DEF Corrects
    <3>3. CASE line # <<>>
      <4>1. l # 0
        BY <2>1, <2>2, <3>3, EmptySeq
      <4>2. PICK f : f = Front(line)
        OBVIOUS
      <4>3. f \in Seq(Letters) /\ Len(f) = l - 1 /\ \A i \in 1 .. l - 1 : f[i] = line[i]
        BY <2>1, <2>2, <4>1, <4>2, FrontFacts
      <4>4. line' = f
        BY <1>1, <2>4, <3>3, <4>2 DEF Edited
      <4>5. Held(Len(line))'
        <5>1. \A i \in 1 .. l - 1 : cmdChars[i - 1] = f[i]
          BY <2>2, <2>3, <4>3
        <5>2. l - 1 <= MAX_COMMAND_LENGTH
          BY <1>2, <2>2, <2>3
        <5> QED BY <1>1, <4>3, <4>4, <5>1, <5>2 DEF Held
      <4>6. cmdPointer' = Len(line') + 1
        BY <1>1, <2>1, <2>2, <4>3, <4>4
      <4> QED BY <1>1, <3>1, <4>3, <4>4, <4>5, <4>6 DEF Corrects
    <3> QED BY <3>2, <3>3
  <2>5. CASE batch # <<KEY_BACKSPACE>>
    <3>1. \A i \in 1 .. n : batch[i] \in Keys /\ batch[i] # TAB /\ batch[i] # KEY_BACKSPACE
      <4>1. \A i \in 1 .. n : batch[i] \in ToSet(batch)
        BY <1>3 DEF ToSet
      <4>2. KEY_BACKSPACE \notin ToSet(batch)
        <5>1. CASE n # 1
          BY <1>3, <1>5, <5>1 DEF Careful
        <5>2. CASE n = 1
          <6>1. batch = <<batch[1]>>
            BY <1>3, <5>2
          <6>2. batch[1] # KEY_BACKSPACE
            BY <2>5, <6>1
          <6>3. \A i \in 1 .. 1 : i = 1
            OBVIOUS
          <6>4. \A x \in ToSet(batch) : \E i \in 1 .. n : x = batch[i]
            BY <1>3 DEF ToSet
          <6> QED BY <5>2, <6>2, <6>3, <6>4
        <5> QED BY <5>1, <5>2
      <4>3. TAB \notin ToSet(batch)
        BY <1>5 DEF Careful
      <4> QED BY <4>1, <4>2, <4>3
    <3>2. \A i \in 1 .. n - 1 : batch[i] # NL
      <4>1. /\ Front(batch) \in Seq(Keys) /\ Len(Front(batch)) = n - 1
            /\ \A i \in 1 .. n - 1 : Front(batch)[i] = batch[i]
        BY <1>3, FrontFacts
      <4>2. \A i \in 1 .. n - 1 : Front(batch)[i] \in ToSet(Front(batch))
        BY <4>1 DEF ToSet
      <4>3. NL \notin ToSet(Front(batch))
        BY <1>5 DEF Careful
      <4> QED BY <4>1, <4>2, <4>3
    <3>3. PICK add : add = IF Last(batch) = NL THEN Front(batch) ELSE batch
      OBVIOUS
    <3>4. PICK g \in Nat : g = Given(batch)
      BY <1>3 DEF Given
    <3>5. Last(batch) = batch[n]
      BY <1>3 DEF Last
    <3>6. /\ add \in Seq(Keys) /\ Len(add) = g /\ g <= n
          /\ \A i \in 1 .. g : add[i] = batch[i] /\ batch[i] \in Letters
      <4>1. CASE batch[n] = NL
        <5>1. g = n - 1 /\ add = Front(batch)
          BY <1>3, <3>3, <3>4, <3>5, <4>1 DEF Given
        <5>2. \A i \in 1 .. g : batch[i] \in Letters
          BY <1>3, <3>1, <3>2, <5>1 DEF Keys
        <5> QED BY <1>3, <5>1, <5>2, FrontFacts
      <4>2. CASE batch[n] # NL
        <5>1. g = n /\ add = batch
          BY <1>3, <3>3, <3>4, <3>5, <4>2 DEF Given
        <5>2. \A i \in 1 .. n : i = n \/ i \in 1 .. n - 1
          BY <1>3
        <5>3. \A i \in 1 .. n : batch[i] # NL
          BY <3>2, <4>2, <5>2
        <5>4. \A i \in 1 .. n : batch[i] \in Letters
          BY <3>1, <5>3 DEF Keys
        <5> QED BY <1>3, <5>1, <5>4
      <4> QED BY <4>1, <4>2
    <3>7. add \in Seq(Letters)
      BY <3>6
    <3>8. line' = line \o add
      BY <1>1, <2>5, <3>3 DEF Edited
    <3>9. /\ line' \in Seq(Letters) /\ Len(line') = l + g
          /\ \A i \in 1 .. l : line'[i] = line[i]
          /\ \A i \in 1 .. g : line'[l + i] = add[i]
      <4>1. PICK joined : joined = line' /\ Joins(line, add, joined)
        BY <3>8 DEF Joins
      <4>2. line \in Seq(Letters) /\ add \in Seq(Letters) /\ l = Len(line) /\ g = Len(add)
        BY <2>1, <2>2, <3>6, <3>7
      <4>3. /\ joined \in Seq(Letters) /\ Len(joined) = Len(line) + Len(add)
            /\ \A i \in 1 .. Len(line) : joined[i] = line[i]
            /\ \A i \in 1 .. Len(add) : joined[Len(line) + i] = add[i]
        BY <4>1, <4>2, JoinFacts
      <4> QED BY <4>1, <4>2, <4>3
    <3>10. Len(line') - g = l /\ g <= Len(line') /\ Len(line') - g + 0 = l /\ ~ (0 > g) /\ 0 <= n
      BY <1>3, <2>2, <3>4, <3>9
    <3>11. Held(cmdPointer)'
      BY <1>1, <2>1, <2>2, <2>3, <3>9 DEF Held
    <3>12. Given(inChars)' = g
      BY <1>1, <3>4 DEF Given
    <3>13. \A j \in 1 .. g : batch[j] \in Letters /\ line'[Len(line') - g + j] = batch[j]
      BY <3>6, <3>9, <3>10
    <3> QED BY <1>1, <1>3, <2>1, <2>2, <3>9, <3>10, <3>11, <3>12, <3>13 DEF Adds
  <2> QED BY <2>4, <2>5
<1> QED BY <1>1, <1>4, <1>5 DEF LineInv

LEMMA LineStep == LineInv /\ [Next]_vars => LineInv'
<1> SUFFICES ASSUME LineInv, [Next]_vars PROVE LineInv'
  OBVIOUS
<1>1. LineTypes /\ MAX_COMMAND_LENGTH \in Nat
  BY ShellAssumption DEF LineInv
<1>2. ASSUME status = "up", NEW text, Prompted(text) PROVE LineInv'
  <2>1. /\ cmdChars' = Parsed /\ cmdPointer' = 0 /\ pc' = "read" /\ line' = <<>> /\ careful' = TRUE
        /\ UNCHANGED <<inChars, numchars, pos, status>>
    BY <1>2 DEF Prompted, scanning
  <2>2. DOMAIN cmdChars' = DOMAIN cmdChars
    BY <2>1 DEF Parsed
  <2>3. LineTypes'
    BY <1>1, <2>1, <2>2 DEF LineTypes
  <2>4. line' \in Seq(Letters) /\ Len(line') = 0
    BY <2>1
  <2>5. Held(Len(line))'
    BY <1>1, <2>4 DEF Held
  <2>6. status' = "up" /\ cmdPointer' = Len(line')
    BY <1>2, <2>1, <2>4
  <2> QED BY <2>1, <2>3, <2>4, <2>5, <2>6 DEF LineInv
<1>3. ASSUME UNCHANGED <<pc, scanning, buffer, user>>,
             status' = status \/ (pc = "execute" /\ status' = "sigma0 rejected request")
      PROVE  LineInv'
  <2>1. UNCHANGED <<pc, inChars, numchars, pos, exCmd, cmdChars, cmdPointer, line, careful>>
    BY <1>3 DEF scanning, buffer, user
  <2>2. LineTypes'
    BY <1>1, <2>1 DEF LineTypes
  <2>3. (Complete' = Complete) /\ (Corrects' = Corrects) /\ (Adds' = Adds)
        /\ (Held(Len(line))' = Held(Len(line)))
    BY <2>1 DEF Complete, Corrects, Adds, Held, Given
  <2>4. status = "overrun" => pc = "scan"
    BY DEF LineInv
  <2> QED BY <1>3, <2>1, <2>2, <2>3, <2>4 DEF LineInv
<1>4. CASE UNCHANGED vars
  BY <1>3, <1>4 DEF vars
<1>5. CASE Next
  <2>1. status = "up"
    BY <1>5 DEF Next
  <2>2. ASSUME Execute PROVE LineInv'
    BY <1>2, <2>1, <2>2 DEF Execute
  <2>3. ASSUME NEW m \in Modules, DownloadNew(m) \/ DownloadAgain(m) PROVE LineInv'
    BY <1>2, <2>1, <2>3 DEF DownloadNew, DownloadAgain
  <2>4. ASSUME NEW m \in Modules, DownloadRejected(m) \/ OtherLoads(m) PROVE LineInv'
    BY <1>3, <2>4 DEF DownloadRejected, OtherLoads
  <2> QED BY <1>5, <2>1, <2>2, <2>3, <2>4, LineRead, LineLetter, LineNewline, LineOther, LineScanned
          DEF Next
<1> QED BY <1>4, <1>5

\* main.cc:155 and :186: whatever is typed, corrected and executed, the command
\* that the parser finds in the buffer is the line as edited, for whoever corrects
\* only what the shell has read.
THEOREM CommandAlwaysAsTyped == Spec => []CommandAsTyped
<1>1. Init => LineInv
  <2> SUFFICES ASSUME Init PROVE LineInv
    OBVIOUS
  <2>1. /\ line = <<>> /\ inChars = <<>> /\ pos = 0 /\ numchars = 0 /\ cmdPointer = 0
        /\ pc = "read" /\ status = "up" /\ careful = TRUE
        /\ DOMAIN cmdChars = 0 .. MAX_COMMAND_LENGTH - 1
    BY DEF Init
  <2>2. LineTypes /\ line \in Seq(Letters) /\ Len(line) = 0
    BY <2>1 DEF LineTypes
  <2>3. Held(Len(line))
    BY <2>2, ShellAssumption DEF Held
  <2> QED BY <2>1, <2>2, <2>3 DEF LineInv
<1>2. LineInv => CommandAsTyped
  <2> SUFFICES ASSUME LineInv PROVE CommandAsTyped
    OBVIOUS
  <2>1. LineTypes /\ (pc # "scan" => status # "overrun")
    BY DEF LineInv
  <2>2. pc = "read" /\ careful => cmdPointer = Len(line)
    BY <2>1 DEF LineInv
  <2>3. pc = "execute" /\ careful => Command = line
    BY <2>1, CompleteCommand DEF LineInv
  <2> QED BY <2>2, <2>3 DEF CommandAsTyped
<1> QED BY <1>1, <1>2, LineStep, PTL DEF Spec

-----------------------------------------------------------------------------
(***************************************************************************)
(* What the console shows.  First, that write prints one character after   *)
(* the other: the function that the fold chooses exists.                   *)
(***************************************************************************)
LEMMA Greatest ==
    ASSUME NEW n \in Nat, NEW s \in SUBSET (1 .. n), s # {}
    PROVE  Max(s) \in s /\ \A y \in s : Max(s) >= y
<1>1. PICK S : S = {x \in Nat : \A y \in s : x >= y}
  OBVIOUS
<1>2. n \in S /\ S \subseteq Nat
  BY <1>1
<1>3. PICK x \in S : \A y \in S : x <= y
  BY <1>2, LeastNumber
<1>4. x \in Nat /\ \A y \in s : x >= y
  BY <1>1, <1>3
<1>5. x \in s
  <2> SUFFICES ASSUME x \notin s PROVE FALSE
    OBVIOUS
  <2>1. \A y \in s : y \in Nat /\ y >= 1 /\ x - 1 >= y
    BY <1>4
  <2>2. x - 1 \in Nat
    <3>1. PICK y : y \in s
      OBVIOUS
    <3> QED BY <1>4, <2>1, <3>1
  <2>3. x - 1 \in S
    BY <1>1, <2>1, <2>2
  <2> QED BY <1>3, <1>4, <2>3
<1>6. \E z \in s : \A y \in s : z >= y
  BY <1>4, <1>5
<1>7. (CHOOSE z \in s : \A y \in s : z >= y) \in s
      /\ \A y \in s : (CHOOSE z \in s : \A y2 \in s : z >= y2) >= y
  BY <1>6
<1> QED BY <1>7 DEF Max

LEMMA GreatestOf ==
    ASSUME NEW n \in Nat, n # 0
    PROVE  Max(1 .. n) = n /\ (1 .. n) \ {n} = 1 .. n - 1
<1>1. Max(1 .. n) \in 1 .. n /\ \A y \in 1 .. n : Max(1 .. n) >= y
  <2>1. 1 .. n \in SUBSET (1 .. n) /\ 1 .. n # {}
    OBVIOUS
  <2> QED BY <2>1, Greatest
<1> QED BY <1>1

\* The turn of the fold for the characters with numbers in s.
Turn(con, text, f, s) == IF s = {} THEN con ELSE WriteChar(f[s \ {Max(s)}], text[Max(s)])

LEMMA FoldExists ==
    ASSUME NEW con, NEW text, NEW n \in Nat
    PROVE  \E f : f = [s \in SUBSET (1 .. n) |-> Turn(con, text, f, s)]
<1> DEFINE Bad == {k \in Nat : ~ \E f : f = [s \in SUBSET (1 .. k) |-> Turn(con, text, f, s)]}
<1> SUFFICES ASSUME Bad # {} PROVE FALSE
  OBVIOUS
<1>1. PICK k \in Bad : \A j \in Bad : k <= j
  <2>1. Bad \in SUBSET Nat
    OBVIOUS
  <2> HIDE DEF Bad
  <2> QED BY <2>1, LeastNumber
<1>2. k \in Nat
  BY <1>1
<1>3. k # 0
  <2> SUFFICES ASSUME k = 0 PROVE FALSE
    OBVIOUS
  <2>1. PICK f : f = [s \in SUBSET (1 .. k) |-> con]
    OBVIOUS
  <2>2. \A s \in SUBSET (1 .. k) : s = {}
    OBVIOUS
  <2>3. \A s \in SUBSET (1 .. k) : Turn(con, text, f, s) = con
    BY <2>2 DEF Turn
  <2>4. f = [s \in SUBSET (1 .. k) |-> Turn(con, text, f, s)]
    BY <2>1, <2>3
  <2> QED BY <1>1, <2>4
<1>4. k - 1 \in Nat /\ k - 1 \notin Bad
  <2>1. k - 1 \in Nat /\ ~ (k <= k - 1)
    BY <1>2, <1>3
  <2> HIDE DEF Bad
  <2> QED BY <1>1, <2>1
<1>5. PICK f : f = [s \in SUBSET (1 .. k - 1) |-> Turn(con, text, f, s)]
  BY <1>4
<1>6. PICK g : g = [s \in SUBSET (1 .. k) |-> Turn(con, text, f, s)]
  OBVIOUS
<1>7. \A s \in SUBSET (1 .. k - 1) : s \in SUBSET (1 .. k)
  BY <1>2
<1>8. \A s \in SUBSET (1 .. k - 1) : g[s] = f[s]
  <2> TAKE s \in SUBSET (1 .. k - 1)
  <2>1. f[s] = Turn(con, text, f, s)
    BY <1>5
  <2>2. g[s] = Turn(con, text, f, s)
    BY <1>6, <1>7
  <2> QED BY <2>1, <2>2
<1>9. \A s \in SUBSET (1 .. k) : Turn(con, text, f, s) = Turn(con, text, g, s)
  <2> TAKE s \in SUBSET (1 .. k)
  <2>1. CASE s = {}
    BY <2>1 DEF Turn
  <2>2. CASE s # {}
    <3>1. Max(s) \in s /\ \A y \in s : Max(s) >= y
      BY <1>2, <2>2, Greatest
    <3>2. PICK x \in s : x = Max(s)
      BY <3>1
    <3>3. s \ {x} \in SUBSET (1 .. k - 1)
      <4>1. \A y \in s : y \in 1 .. k /\ x >= y
        BY <3>1, <3>2
      <4> HIDE DEF Bad
      <4>2. \A y \in s \ {x} : y \in 1 .. k - 1
        BY <1>2, <4>1
      <4> QED BY <4>2
    <3>4. g[s \ {x}] = f[s \ {x}]
      BY <1>8, <3>3
    <3> QED BY <2>2, <3>2, <3>4 DEF Turn
  <2> QED BY <2>1, <2>2
<1>10. g = [s \in SUBSET (1 .. k) |-> Turn(con, text, g, s)]
  <2> HIDE DEF Bad
  <2> QED BY <1>6, <1>9
<1> QED BY <1>1, <1>10

LEMMA WriteFolds ==
    ASSUME NEW con, NEW text
    PROVE  write(con, text) =
             (CHOOSE f : f = [s \in SUBSET (DOMAIN text) |-> Turn(con, text, f, s)])[DOMAIN text]
BY DEF write, FoldLeft, MapThenFoldSet, Turn

\* What the console is after each character.
Steps(con, text, w) ==
    /\ w[0] = con /\ w[Len(text)] = write(con, text)
    /\ \A k \in 1 .. Len(text) : w[k] = WriteChar(w[k - 1], text[k])

LEMMA WriteSteps ==
    ASSUME NEW con, NEW S, NEW text \in Seq(S)
    PROVE  \E w : Steps(con, text, w)
<1>1. PICK n \in Nat : n = Len(text) /\ DOMAIN text = 1 .. n
  OBVIOUS
<1>2. PICK f : /\ f = [s \in SUBSET (1 .. n) |-> Turn(con, text, f, s)]
               /\ write(con, text) = f[1 .. n]
  <2>1. \E f : f = [s \in SUBSET (1 .. n) |-> Turn(con, text, f, s)]
    BY FoldExists
  <2>2. write(con, text) = (CHOOSE f : f = [s \in SUBSET (1 .. n) |-> Turn(con, text, f, s)])[1 .. n]
    BY <1>1, WriteFolds
  <2> QED BY <2>1, <2>2
<1>3. PICK w : w = [k \in 0 .. n |-> f[1 .. k]]
  OBVIOUS
<1>4. \A k \in 0 .. n : w[k] = Turn(con, text, f, 1 .. k)
  <2>1. \A k \in 0 .. n : (1 .. k) \in SUBSET (1 .. n)
    OBVIOUS
  <2> QED BY <1>2, <1>3, <2>1
<1>5. w[0] = con
  <2>1. 1 .. 0 = {} /\ 0 \in 0 .. n
    OBVIOUS
  <2> QED BY <1>4, <2>1 DEF Turn
<1>6. \A k \in 1 .. n : w[k] = WriteChar(w[k - 1], text[k])
  <2> TAKE k \in 1 .. n
  <2>1. k \in 0 .. n /\ k - 1 \in 0 .. n /\ k \in Nat /\ k # 0
    OBVIOUS
  <2>2. Max(1 .. k) = k /\ (1 .. k) \ {k} = 1 .. k - 1
    BY <2>1, GreatestOf
  <2>3. 1 .. k # {}
    BY <2>1
  <2>4. Turn(con, text, f, 1 .. k) = WriteChar(f[1 .. k - 1], text[k])
    BY <2>2, <2>3 DEF Turn
  <2>5. w[k - 1] = f[1 .. k - 1]
    BY <1>3, <2>1
  <2> QED BY <1>4, <2>1, <2>4, <2>5
<1>7. w[n] = write(con, text)
  BY <1>2, <1>3
<1> QED BY <1>1, <1>5, <1>6, <1>7 DEF Steps


-----------------------------------------------------------------------------
(***************************************************************************)
(* The characters in front of the cursor.  Above the last line there are   *)
(* Room cells.                                                             *)
(***************************************************************************)
Room == Cols * (Rows - 1)

Shows(con, s) ==
    /\ Len(s) <= Cursor(con)
    /\ \A i \in 1 .. Len(s) : con.screen[Cursor(con) - Len(s) + i - 1] = s[i]

LEMMA Times ==
    ASSUME NEW a \in Nat, NEW b \in Nat, NEW c \in Nat, b <= c
    PROVE  a * b \in Nat /\ a * b <= a * c /\ a * (c + 1) = a * c + a
OBVIOUS

LEMMA LineFacts ==
    ASSUME NEW v \in 0 .. Rows - 1
    PROVE  /\ Cols * v \in Nat /\ Room \in Nat /\ Cols * v <= Room
           /\ v = Rows - 1 => Cols * v = Room
           /\ v # Rows - 1 => Cols * (v + 1) = Cols * v + Cols /\ Cols * v + Cols <= Room
           /\ v # 0 => Cols * (v - 1) = Cols * v - Cols
           /\ Cols * Rows = Room + Cols
<1>1. Cols \in Nat /\ Cols # 0 /\ Rows \in Nat /\ Rows # 0
  BY ConsoleAssumption
<1>2. PICK last \in Nat : last = Rows - 1 /\ Rows = last + 1
  BY <1>1
<1>3. v \in Nat /\ v <= last
  BY <1>2
<1>4. Cols * v \in Nat /\ Cols * v <= Cols * last /\ Cols * (last + 1) = Cols * last + Cols
  BY <1>1, <1>2, <1>3, Times
<1>5. v # last => Cols * (v + 1) = Cols * v + Cols /\ Cols * (v + 1) <= Cols * last
  <2> SUFFICES ASSUME v # last PROVE Cols * (v + 1) = Cols * v + Cols /\ Cols * (v + 1) <= Cols * last
    OBVIOUS
  <2>1. v + 1 \in Nat /\ v + 1 <= last /\ v <= v
    BY <1>2, <1>3
  <2> QED BY <1>1, <1>2, <1>3, <2>1, Times
<1>6. v # 0 => Cols * (v - 1) = Cols * v - Cols
  <2> SUFFICES ASSUME v # 0 PROVE Cols * (v - 1) = Cols * v - Cols
    OBVIOUS
  <2>1. PICK u \in Nat : u = v - 1 /\ v = u + 1
    BY <1>3
  <2>2. Cols * (u + 1) = Cols * u + Cols /\ Cols * u \in Nat
    BY <1>1, <2>1, Times
  <2> QED BY <1>1, <2>1, <2>2
<1>7. Cols * last \in Nat
  BY <1>1, <1>2, Times
<1> QED BY <1>1, <1>2, <1>4, <1>5, <1>6, <1>7 DEF Room

LEMMA CursorFacts ==
    ASSUME NEW C, NEW con \in Consoles(C)
    PROVE  /\ con.screen \in [Cells -> C]
           /\ con.consoleCursorHPos \in 0 .. Cols /\ con.consoleCursorVPos \in 0 .. Rows - 1
           /\ Cursor(con) \in Nat /\ Cursor(con) <= Room + Cols /\ Room \in Nat
           /\ Cells = 0 .. Room + Cols - 1
<1>1. con.screen \in [Cells -> C] /\ con.consoleCursorHPos \in 0 .. Cols /\ con.consoleCursorVPos \in 0 .. Rows - 1
  BY DEF Consoles
<1>2. PICK h, v, base : h = con.consoleCursorHPos /\ v = con.consoleCursorVPos /\ base = Cols * v
  OBVIOUS
<1>3. base \in Nat /\ base <= Room /\ Room \in Nat /\ Cols * Rows = Room + Cols
  BY <1>1, <1>2, LineFacts
<1>4. Cursor(con) = base + h
  BY <1>2 DEF Cursor
<1>5. Cells = 0 .. Room + Cols - 1
  <2>1. PICK n : n = Cols * Rows
    OBVIOUS
  <2>2. Cells = 0 .. n - 1
    BY <2>1, Zenon DEF Cells
  <2>3. n = Room + Cols
    BY <1>3, <2>1
  <2> QED BY <1>3, <2>2, <2>3, ConsoleAssumption
<1> QED BY <1>1, <1>2, <1>3, <1>4, <1>5, ConsoleAssumption

LEMMA PutFacts ==
    ASSUME NEW C, NEW con \in Consoles(C), NEW c \in C, NEW cell, NEW t, t = Put(con, cell, c)
    PROVE  /\ t \in Consoles(C)
           /\ t.consoleCursorHPos = con.consoleCursorHPos /\ t.consoleCursorVPos = con.consoleCursorVPos
           /\ Cursor(t) = Cursor(con)
           /\ \A x \in Cells : t.screen[x] = IF x = cell THEN c ELSE con.screen[x]
<1>1. PICK scr : scr = [x \in Cells |-> IF x = cell THEN c ELSE con.screen[x]]
  OBVIOUS
<1>2. t = [con EXCEPT !.screen = scr]
  BY <1>1 DEF Put, Consoles
<1>3. scr \in [Cells -> C]
  BY <1>1 DEF Consoles
<1>4. t \in Consoles(C) /\ t.screen = scr /\ t.consoleCursorHPos = con.consoleCursorHPos
      /\ t.consoleCursorVPos = con.consoleCursorVPos
  BY <1>2, <1>3 DEF Consoles
<1> QED BY <1>1, <1>4 DEF Cursor

LEMMA NewLineFacts ==
    ASSUME NEW C, NEW con \in Consoles(C), Blank \in C, NEW t, t = NewLine(con)
    PROVE  /\ t \in Consoles(C) /\ t.consoleCursorHPos = 0
           /\ \A s : /\ con.consoleCursorHPos = Cols /\ Shows(con, s) /\ Len(s) \in 0 .. Room
                     => Shows(t, s)
<1>0. Cols \in Nat /\ Cols # 0 /\ Rows \in Nat /\ Rows # 0
  BY ConsoleAssumption
<1>1. PICK h, v, base : h = con.consoleCursorHPos /\ v = con.consoleCursorVPos /\ base = Cols * v
  OBVIOUS
<1>2. h \in 0 .. Cols /\ v \in 0 .. Rows - 1 /\ con.screen \in [Cells -> C] /\ Cells = 0 .. Room + Cols - 1
  BY <1>1, CursorFacts
<1>3. /\ base \in Nat /\ Room \in Nat /\ base <= Room
      /\ v = Rows - 1 => base = Room
      /\ v # Rows - 1 => Cols * (v + 1) = base + Cols /\ base + Cols <= Room
  BY <1>1, <1>2, LineFacts
<1>4. Cursor(con) = base + h
  BY <1>1 DEF Cursor
<1>7. 0 \in 0 .. Cols
  BY <1>0
<1>5. CASE v = Rows - 1
  <2>1. PICK scr : scr = [x \in Cells |-> IF x + Cols \in Cells THEN con.screen[x + Cols] ELSE Blank]
    OBVIOUS
  <2>2. t = [con EXCEPT !.screen = scr, !.consoleCursorHPos = 0]
    BY <1>1, <1>5, <2>1 DEF NewLine, Consoles
  <2>3. scr \in [Cells -> C]
    BY <1>2, <2>1
  <2>4. t \in Consoles(C) /\ t.screen = scr /\ t.consoleCursorHPos = 0 /\ t.consoleCursorVPos = v
    BY <1>1, <1>7, <2>2, <2>3 DEF Consoles
  <2>5. Cursor(t) = Room
    BY <1>1, <1>3, <1>5, <2>4 DEF Cursor
  <2>6. ASSUME NEW s, h = Cols, Shows(con, s), Len(s) \in 0 .. Room
        PROVE  Shows(t, s)
    <3>1. Cursor(con) = Room + Cols
      BY <1>3, <1>4, <1>5, <2>6
    <3>2. ASSUME NEW i \in 1 .. Len(s)
          PROVE  t.screen[Room - Len(s) + i - 1] = s[i]
      <4>0. PICK n \in 0 .. Room : n = Len(s)
        BY <2>6
      <4>1. PICK x : x = Room - Len(s) + i - 1
        OBVIOUS
      <4>2. x \in 0 .. Room - 1 /\ x + Cols = (Room + Cols) - n + i - 1
        BY <1>0, <1>3, <3>2, <4>0, <4>1
      <4>4. x \in Cells /\ x + Cols \in Cells /\ x + Cols = Cursor(con) - Len(s) + i - 1
        BY <1>0, <1>2, <1>3, <3>1, <4>0, <4>2
      <4>3. con.screen[x + Cols] = s[i]
        BY <2>6, <4>4 DEF Shows
      <4> QED BY <2>1, <2>4, <4>1, <4>3, <4>4
    <3> QED BY <2>5, <2>6, <3>2 DEF Shows
  <2> QED BY <1>1, <2>4, <2>6
<1>6. CASE v # Rows - 1
  <2>1. t = [con EXCEPT !.consoleCursorVPos = v + 1, !.consoleCursorHPos = 0]
    BY <1>1, <1>6 DEF NewLine, Consoles
  <2>2. v + 1 \in 0 .. Rows - 1
    BY <1>0, <1>2, <1>6
  <2>3. t \in Consoles(C) /\ t.screen = con.screen /\ t.consoleCursorHPos = 0 /\ t.consoleCursorVPos = v + 1
    BY <1>1, <1>7, <2>1, <2>2 DEF Consoles
  <2>4. h = Cols => Cursor(t) = Cursor(con)
    BY <1>0, <1>3, <1>4, <1>6, <2>3 DEF Cursor
  <2> QED BY <1>1, <2>3, <2>4 DEF Shows
<1> QED BY <1>5, <1>6

\* A character that is printed is in front of the cursor, and what was there is
\* in front of it, also when the screen has scrolled meanwhile.
LEMMA WriteCharFacts ==
    ASSUME NEW C, NEW con \in Consoles(C), Blank \in C, NEW c \in C \cup {NL}, NEW t, t = WriteChar(con, c)
    PROVE  /\ t \in Consoles(C)
           /\ \A s \in Seq(C) : c # NL /\ Shows(con, s) /\ Len(s) <= Room => Shows(t, Append(s, c))
<1>0. Cols \in Nat /\ Cols # 0
  BY ConsoleAssumption
<1>1. PICK there : there = IF con.consoleCursorHPos = Cols \/ c = NL THEN NewLine(con) ELSE con
  OBVIOUS
<1>2. there \in Consoles(C) /\ there.consoleCursorHPos \in 0 .. Cols - 1
  <2>1. CASE con.consoleCursorHPos = Cols \/ c = NL
    BY <1>0, <1>1, <2>1, NewLineFacts
  <2>2. CASE ~ (con.consoleCursorHPos = Cols \/ c = NL)
    BY <1>0, <1>1, <2>2, CursorFacts
  <2> QED BY <2>1, <2>2
<1>3. ASSUME NEW s \in Seq(C), c # NL, Shows(con, s), Len(s) <= Room
      PROVE  Shows(there, s)
  <2>1. Len(s) \in 0 .. Room
    BY <1>3, CursorFacts
  <2> QED BY <1>1, <1>3, <2>1, NewLineFacts
<1>4. CASE c = NL
  <2>1. t = there
    BY <1>1, <1>4 DEF WriteChar
  <2> QED BY <1>2, <1>4, <2>1
<1>5. CASE c # NL
  <2>1. PICK put : put = Put(there, Cursor(there), c)
    OBVIOUS
  <2>2. /\ put \in Consoles(C) /\ put.consoleCursorHPos = there.consoleCursorHPos
        /\ Cursor(put) = Cursor(there)
        /\ \A x \in Cells : put.screen[x] = IF x = Cursor(there) THEN c ELSE there.screen[x]
    BY <1>2, <1>5, <2>1, PutFacts
  <2>3. PICK h : h = put.consoleCursorHPos
    OBVIOUS
  <2>4. t = [put EXCEPT !.consoleCursorHPos = h + 1]
    BY <1>1, <1>5, <2>1, <2>2, <2>3 DEF WriteChar, Consoles
  <2>5. h + 1 \in 0 .. Cols /\ h \in Nat
    BY <1>0, <1>2, <2>2, <2>3
  <2>6. t \in Consoles(C) /\ t.screen = put.screen /\ t.consoleCursorHPos = h + 1
        /\ t.consoleCursorVPos = put.consoleCursorVPos
    BY <2>2, <2>4, <2>5 DEF Consoles
  <2>7. PICK cur : cur = Cursor(there)
    OBVIOUS
  <2>8. cur \in Nat /\ Cells = 0 .. Room + Cols - 1 /\ Room \in Nat
    BY <1>2, <2>7, CursorFacts
  <2>9. cur \in Cells
    <3>1. PICK v, base : v = there.consoleCursorVPos /\ base = Cols * v
      OBVIOUS
    <3>2. base \in Nat /\ base <= Room
      BY <1>2, <3>1, CursorFacts, LineFacts
    <3>3. cur = base + h
      BY <2>2, <2>3, <2>7, <3>1 DEF Cursor
    <3>4. h < Cols
      BY <1>0, <1>2, <2>2, <2>3
    <3> QED BY <1>0, <2>5, <2>8, <3>2, <3>3, <3>4
  <2>10. Cursor(t) = cur + 1
    <3>1. PICK base : base = Cols * put.consoleCursorVPos
      OBVIOUS
    <3>2. base \in Nat
      BY <2>2, <3>1, CursorFacts, LineFacts
    <3>3. cur = base + h
      BY <2>2, <2>3, <2>7, <3>1 DEF Cursor
    <3>4. Cursor(t) = base + (h + 1)
      BY <2>6, <3>1 DEF Cursor
    <3> QED BY <2>5, <3>2, <3>3, <3>4
  <2>11. ASSUME NEW s \in Seq(C), Shows(con, s), Len(s) <= Room
         PROVE  Shows(t, Append(s, c))
    <3>1. PICK n \in Nat : n = Len(s)
      OBVIOUS
    <3>2. n <= cur /\ \A i \in 1 .. n : there.screen[cur - n + i - 1] = s[i]
      BY <1>3, <1>5, <2>7, <2>11, <3>1 DEF Shows
    <3>3. PICK u : u = Append(s, c)
      OBVIOUS
    <3>4. Len(u) = n + 1 /\ u[n + 1] = c /\ \A i \in 1 .. n : u[i] = s[i]
      BY <1>5, <3>1, <3>3
    <3>5. ASSUME NEW i \in 1 .. n + 1 PROVE t.screen[(cur + 1) - (n + 1) + i - 1] = u[i]
      <4>1. PICK x : x = cur - n + i - 1
        OBVIOUS
      <4>2. x = (cur + 1) - (n + 1) + i - 1
        BY <2>8, <3>1, <3>5, <4>1
      <4>3. x \in Cells
        BY <1>0, <2>8, <2>9, <3>1, <3>2, <3>5, <4>1
      <4>4. CASE i = n + 1
        <5>1. x = cur
          BY <2>8, <3>1, <4>1, <4>4
        <5>2. put.screen[x] = c
          BY <2>2, <2>7, <4>3, <5>1
        <5> QED BY <2>6, <3>4, <4>2, <4>4, <5>2
      <4>5. CASE i # n + 1
        <5>1. i \in 1 .. n /\ x # cur
          BY <2>8, <3>1, <3>5, <4>1, <4>5
        <5>2. put.screen[x] = there.screen[x]
          BY <2>2, <2>7, <4>3, <5>1
        <5>3. there.screen[x] = s[i]
          BY <3>2, <4>1, <5>1
        <5> QED BY <2>6, <3>4, <4>2, <5>1, <5>2, <5>3
      <4> QED BY <4>4, <4>5
    <3>6. n + 1 <= cur + 1
      BY <2>8, <3>1, <3>2
    <3> QED BY <2>10, <3>3, <3>4, <3>5, <3>6 DEF Shows
  <2> QED BY <2>6, <2>11
<1> QED BY <1>4, <1>5


\* delete takes the last of the characters away.
LEMMA DeleteFacts ==
    ASSUME NEW C, NEW con \in Consoles(C), Blank \in C, NEW t, t = delete(con)
    PROVE  /\ t \in Consoles(C)
           /\ \A s \in Seq(C) : \A u \in Seq(C) :
                /\ Shows(con, s) /\ Len(s) = Len(u) + 1
                /\ \A i \in 1 .. Len(u) : u[i] = s[i]
                => Shows(t, u)
<1>0. Cols \in Nat /\ Cols # 0
  BY ConsoleAssumption
<1>1. PICK wiped : wiped = Put(con, Cursor(con), Blank)
  OBVIOUS
<1>2. /\ wiped \in Consoles(C) /\ Cursor(wiped) = Cursor(con)
      /\ \A x \in Cells : wiped.screen[x] = IF x = Cursor(con) THEN Blank ELSE con.screen[x]
  BY <1>1, PutFacts
<1>3. PICK cur : cur = Cursor(con)
  OBVIOUS
<1>4. cur \in Nat /\ cur <= Room + Cols /\ Room \in Nat /\ Cells = 0 .. Room + Cols - 1
  BY <1>3, CursorFacts
<1>5. PICK moved : moved = Back(wiped)
  OBVIOUS
<1>6. moved \in Consoles(C) /\ moved.screen = wiped.screen /\ (cur # 0 => Cursor(moved) = cur - 1)
  <2>1. PICK h, v, base : h = wiped.consoleCursorHPos /\ v = wiped.consoleCursorVPos /\ base = Cols * v
    OBVIOUS
  <2>2. h \in 0 .. Cols /\ v \in 0 .. Rows - 1
    BY <1>2, <2>1, CursorFacts
  <2>3. cur = base + h
    BY <1>2, <1>3, <2>1 DEF Cursor
  <2>4. base \in Nat /\ (v # 0 => Cols * (v - 1) = base - Cols)
    BY <2>1, <2>2, LineFacts
  <2>5. CASE h # 0
    <3>1. moved = [wiped EXCEPT !.consoleCursorHPos = h - 1]
      BY <1>2, <1>5, <2>1, <2>5 DEF Back, Consoles
    <3>2. h - 1 \in 0 .. Cols
      BY <1>0, <2>2, <2>5
    <3>3. /\ moved \in Consoles(C) /\ moved.screen = wiped.screen
          /\ moved.consoleCursorHPos = h - 1 /\ moved.consoleCursorVPos = v
      BY <1>2, <2>1, <3>1, <3>2 DEF Consoles
    <3>4. Cursor(moved) = base + (h - 1)
      BY <2>1, <3>3 DEF Cursor
    <3> QED BY <2>2, <2>3, <2>4, <3>3, <3>4
  <2>6. CASE h = 0 /\ v # 0
    <3>1. moved = [wiped EXCEPT !.consoleCursorVPos = v - 1, !.consoleCursorHPos = Cols - 1]
      BY <1>2, <1>5, <2>1, <2>6 DEF Back, Consoles
    <3>2. Cols - 1 \in 0 .. Cols /\ v - 1 \in 0 .. Rows - 1
      BY <1>0, <2>2, <2>6, ConsoleAssumption
    <3>3. /\ moved \in Consoles(C) /\ moved.screen = wiped.screen
          /\ moved.consoleCursorHPos = Cols - 1 /\ moved.consoleCursorVPos = v - 1
      BY <1>2, <3>1, <3>2 DEF Consoles
    <3>4. Cursor(moved) = Cols * (v - 1) + (Cols - 1)
      BY <3>3 DEF Cursor
    <3>5. Cursor(moved) = (base - Cols) + (Cols - 1)
      BY <2>4, <2>6, <3>4
    <3> QED BY <1>0, <2>3, <2>4, <2>6, <3>3, <3>5
  <2>7. CASE h = 0 /\ v = 0
    <3>1. moved = wiped
      BY <1>5, <2>1, <2>7 DEF Back
    <3>2. base = 0
      BY <1>0, <2>1, <2>7
    <3>3. cur = 0
      BY <2>3, <2>7, <3>2
    <3> QED BY <1>2, <3>1, <3>3
  <2> QED BY <2>5, <2>6, <2>7
<1>7. t = Put(moved, Cursor(moved), Blank)
  BY <1>1, <1>5 DEF delete
<1>8. /\ t \in Consoles(C) /\ Cursor(t) = Cursor(moved)
      /\ \A x \in Cells : t.screen[x] = IF x = Cursor(moved) THEN Blank ELSE moved.screen[x]
  BY <1>6, <1>7, PutFacts
<1>9. ASSUME NEW s \in Seq(C), NEW u \in Seq(C), Shows(con, s), Len(s) = Len(u) + 1,
             \A i \in 1 .. Len(u) : u[i] = s[i]
      PROVE  Shows(t, u)
  <2>1. PICK n \in Nat : n = Len(u) /\ Len(s) = n + 1
    BY <1>9
  <2>2. n + 1 <= cur /\ \A i \in 1 .. n + 1 : con.screen[cur - (n + 1) + i - 1] = s[i]
    BY <1>3, <1>9, <2>1 DEF Shows
  <2>3. cur # 0 /\ Cursor(t) = cur - 1 /\ Cursor(moved) = cur - 1
    BY <1>4, <1>6, <1>8, <2>1, <2>2
  <2>4. ASSUME NEW i \in 1 .. n
        PROVE  t.screen[(cur - 1) - n + i - 1] = u[i]
    <3>1. PICK x : x = cur - (n + 1) + i - 1
      OBVIOUS
    <3>2. x = (cur - 1) - n + i - 1 /\ x \in 0 .. cur - 2
      BY <1>4, <2>1, <2>2, <2>4, <3>1
    <3>3. x \in Cells /\ x # cur /\ x # cur - 1
      BY <1>0, <1>4, <3>2
    <3>4. t.screen[x] = con.screen[x]
      BY <1>2, <1>3, <1>6, <1>8, <2>3, <3>3
    <3>5. i \in 1 .. n + 1
      BY <2>1, <2>4
    <3>6. con.screen[x] = s[i]
      BY <2>2, <3>1, <3>5
    <3>7. u[i] = s[i]
      BY <1>9, <2>1, <2>4
    <3> QED BY <3>2, <3>4, <3>6, <3>7
  <2>5. n <= cur - 1
    BY <1>4, <2>1, <2>2
  <2> QED BY <2>1, <2>3, <2>4, <2>5 DEF Shows
<1> QED BY <1>8, <1>9

LEMMA StepsStay ==
    ASSUME NEW C, Blank \in C, NEW con \in Consoles(C), NEW text \in Seq(C \cup {NL}),
           NEW w, Steps(con, text, w)
    PROVE  \A k \in 0 .. Len(text) : w[k] \in Consoles(C)
<1>1. PICK n \in Nat : n = Len(text)
  OBVIOUS
<1> DEFINE Bad == {k \in 0 .. n : w[k] \notin Consoles(C)}
<1> SUFFICES ASSUME Bad # {} PROVE FALSE
  BY <1>1
<1>2. PICK k \in Bad : \A j \in Bad : k <= j
  <2>1. Bad \in SUBSET Nat
    BY <1>1
  <2> HIDE DEF Bad
  <2> QED BY <2>1, LeastNumber
<1>3. k \in 0 .. n /\ w[k] \notin Consoles(C)
  BY <1>2
<1>4. k # 0
  BY <1>3 DEF Steps
<1>5. k - 1 \in 0 .. n /\ ~ (k <= k - 1) /\ k \in 1 .. n
  BY <1>1, <1>3, <1>4
<1>6. w[k - 1] \in Consoles(C)
  BY <1>2, <1>5
<1>7. w[k] = WriteChar(w[k - 1], text[k])
  BY <1>1, <1>5 DEF Steps
<1>8. text[k] \in C \cup {NL}
  BY <1>1, <1>5
<1> QED BY <1>3, <1>6, <1>7, <1>8, WriteCharFacts

LEMMA WriteStays ==
    ASSUME NEW C, Blank \in C, NEW con \in Consoles(C), NEW text \in Seq(C \cup {NL})
    PROVE  write(con, text) \in Consoles(C)
<1>1. PICK w : Steps(con, text, w)
  BY WriteSteps
<1>2. Len(text) \in 0 .. Len(text)
  OBVIOUS
<1>3. w[Len(text)] \in Consoles(C)
  BY <1>1, <1>2, StepsStay
<1> QED BY <1>1, <1>3 DEF Steps

\* t is s with text behind it.
Follows(s, text, t) ==
    /\ Len(t) = Len(s) + Len(text)
    /\ \A i \in 1 .. Len(s) : t[i] = s[i]
    /\ \A i \in 1 .. Len(text) : t[Len(s) + i] = text[i]

LEMMA WriteShows ==
    ASSUME NEW C, Blank \in C, NEW con \in Consoles(C), NEW text \in Seq(C),
           \A i \in 1 .. Len(text) : text[i] # NL,
           NEW s \in Seq(C), Shows(con, s), Len(s) + Len(text) <= Room + 1
    PROVE  \E t \in Seq(C) : Shows(write(con, text), t) /\ Follows(s, text, t)
<1>1. PICK n \in Nat : n = Len(text)
  OBVIOUS
<1>2. PICK l \in Nat : l = Len(s)
  OBVIOUS
<1>3. PICK w : Steps(con, text, w)
  BY WriteSteps
<1> DEFINE Upto(k, t) == /\ Len(t) = l + k
                         /\ \A i \in 1 .. l : t[i] = s[i]
                         /\ \A i \in 1 .. k : t[l + i] = text[i]
           Bad == {k \in 0 .. n : ~ \E t \in Seq(C) : Shows(w[k], t) /\ Upto(k, t)}
<1>4. ASSUME Bad # {} PROVE FALSE
  <2>1. PICK k \in Bad : \A j \in Bad : k <= j
    <3>1. Bad \in SUBSET Nat
      BY <1>1
    <3> HIDE DEF Bad
    <3> QED BY <1>4, <3>1, LeastNumber
  <2>2. k \in 0 .. n
    BY <2>1
  <2>3. k # 0
    <3> SUFFICES ASSUME k = 0 PROVE FALSE
      OBVIOUS
    <3>1. w[k] = con /\ Upto(k, s)
      BY <1>2, <1>3 DEF Steps
    <3> QED BY <2>1, <3>1
  <2>4. k - 1 \in 0 .. n /\ ~ (k <= k - 1) /\ k \in 1 .. n /\ k \in Nat
    BY <1>1, <2>2, <2>3
  <2>5. PICK t \in Seq(C) : Shows(w[k - 1], t) /\ Upto(k - 1, t)
    BY <2>1, <2>4
  <2> HIDE DEF Bad
  <2>6. w[k - 1] \in Consoles(C)
    <3>1. text \in Seq(C \cup {NL})
      OBVIOUS
    <3> QED BY <1>1, <1>3, <2>4, <3>1, StepsStay
  <2>7. w[k] = WriteChar(w[k - 1], text[k])
    BY <1>1, <1>3, <2>4 DEF Steps
  <2>8. text[k] \in C /\ text[k] # NL
    BY <1>1, <2>4
  <2>9. Len(t) <= Room
    <3>1. Room \in Nat
      BY CursorFacts
    <3> QED BY <1>1, <1>2, <2>4, <2>5, <3>1
  <2>10. PICK u : u = Append(t, text[k])
    OBVIOUS
  <2>11. Shows(w[k], u)
    BY <2>5, <2>6, <2>7, <2>8, <2>9, <2>10, WriteCharFacts
  <2>12. u \in Seq(C) /\ Len(u) = (l + (k - 1)) + 1 /\ u[(l + (k - 1)) + 1] = text[k]
         /\ \A i \in 1 .. l + (k - 1) : u[i] = t[i]
    BY <2>5, <2>8, <2>10
  <2>13. Upto(k, u)
    <3>1. Len(u) = l + k /\ (l + (k - 1)) + 1 = l + k
      BY <1>2, <2>4, <2>12
    <3>2. \A i \in 1 .. l : u[i] = s[i]
      <4>1. \A i \in 1 .. l : i \in 1 .. l + (k - 1)
        BY <1>2, <2>4
      <4> QED BY <2>5, <2>12, <4>1
    <3>3. \A i \in 1 .. k : u[l + i] = text[i]
      <4> TAKE i \in 1 .. k
      <4>1. CASE i = k
        BY <2>12, <3>1, <4>1
      <4>2. CASE i # k
        <5>1. i \in 1 .. k - 1 /\ l + i \in 1 .. l + (k - 1)
          BY <1>2, <2>4, <4>2
        <5> QED BY <2>5, <2>12, <5>1
      <4> QED BY <4>1, <4>2
    <3> QED BY <3>1, <3>2, <3>3
  <2>14. ~ \E x \in Seq(C) : Shows(w[k], x) /\ Upto(k, x)
    BY <2>1 DEF Bad
  <2> QED BY <2>11, <2>12, <2>13, <2>14
<1>5. PICK t \in Seq(C) : Shows(w[n], t) /\ Upto(n, t)
  <2>1. n \in 0 .. n
    BY <1>1
  <2> QED BY <1>4, <2>1
<1>6. w[n] = write(con, text)
  BY <1>1, <1>3 DEF Steps
<1>7. Follows(s, text, t)
  BY <1>1, <1>2, <1>5 DEF Follows
<1> QED BY <1>5, <1>6, <1>7

\* Whatever is on the screen, the last two characters written are in front of the
\* cursor.
LEMMA TwoShown ==
    ASSUME NEW C, Blank \in C, NEW con \in Consoles(C), Room >= 1,
           NEW a \in C, NEW b \in C, a # NL, b # NL,
           NEW two \in Seq(C), Len(two) = 2, two[1] = a, two[2] = b,
           NEW n \in Nat, NEW all \in Seq(C \cup {NL}), Len(all) = n + 2, all[n + 1] = a, all[n + 2] = b,
           NEW t, t = write(con, all)
    PROVE  t \in Consoles(C) /\ Shows(t, two)
<1>5. PICK w : Steps(con, all, w)
  BY WriteSteps
<1>6. t = w[n + 2]
  BY <1>5 DEF Steps
<1>7. \A k \in 0 .. n + 2 : w[k] \in Consoles(C)
  BY <1>5, StepsStay
<1>8. n \in 0 .. n + 2 /\ n + 1 \in 1 .. n + 2 /\ n + 2 \in 1 .. n + 2 /\ (n + 1) - 1 = n /\ (n + 2) - 1 = n + 1
      /\ n + 1 \in 0 .. n + 2 /\ n + 2 \in 0 .. n + 2
  OBVIOUS
<1>9. w[n + 1] = WriteChar(w[n], a) /\ w[n + 2] = WriteChar(w[n + 1], b)
  BY <1>5, <1>8 DEF Steps
<1>10. PICK none : none = <<>> /\ none \in Seq(C)
  <2>1. <<>> \in Seq(C)
    OBVIOUS
  <2> QED BY <2>1, Zenon
<1>11. Shows(w[n], none) /\ Len(none) = 0
  <2>1. Cursor(w[n]) \in Nat
    BY <1>7, <1>8, CursorFacts
  <2> QED BY <1>10, <2>1 DEF Shows
<1>12. Room \in Nat
  BY CursorFacts
<1>13. PICK one : one = Append(none, a) /\ one \in Seq(C)
  <2>1. Append(none, a) \in Seq(C)
    BY <1>10
  <2> QED BY <2>1, Zenon
<1>14. PICK u : u = Append(one, b) /\ u \in Seq(C)
  <2>1. Append(one, b) \in Seq(C)
    BY <1>13
  <2> QED BY <2>1, Zenon
<1>15. Len(one) = 1 /\ one[1] = a /\ Len(u) = 2 /\ u[1] = a /\ u[2] = b
  BY <1>10, <1>11, <1>13, <1>14
<1>16. Shows(w[n + 1], one)
  <2>1. w[n] \in Consoles(C) /\ a \in C \cup {NL} /\ Len(none) <= Room
    BY <1>7, <1>8, <1>11, <1>12
  <2>2. \A s \in Seq(C) : Shows(w[n], s) /\ Len(s) <= Room => Shows(w[n + 1], Append(s, a))
    BY <1>9, <2>1, WriteCharFacts
  <2> QED BY <1>10, <1>11, <1>13, <2>1, <2>2
<1>17. Shows(w[n + 2], u)
  <2>1. w[n + 1] \in Consoles(C) /\ b \in C \cup {NL} /\ Len(one) <= Room
    BY <1>7, <1>8, <1>12, <1>15
  <2>2. \A s \in Seq(C) : Shows(w[n + 1], s) /\ Len(s) <= Room => Shows(w[n + 2], Append(s, b))
    BY <1>9, <2>1, WriteCharFacts
  <2> QED BY <1>13, <1>14, <1>16, <2>1, <2>2
<1>18. \A i \in 1 .. 2 : two[i] = u[i]
  BY <1>15
<1>19. Shows(w[n + 2], two)
  BY <1>15, <1>17, <1>18 DEF Shows
<1> QED BY <1>6, <1>7, <1>8, <1>19

\* The prompt is two characters, none of them a newline.
LEMMA PromptFacts ==
    \E a, b \in Characters : a # NL /\ b # NL /\ Prompt = <<a, b>>
BY Zenon DEF Characters, Prompt, NL

LEMMA PrintedFacts ==
    /\ Blank \in Characters /\ Letters \subseteq Characters
    /\ \A l : \A text \in Output(l) : text \in Seq(Characters \cup {NL})
<1>1. Blank \in Characters /\ Letters \subseteq Characters
  BY Zenon DEF Characters
<1>2. ASSUME NEW l, NEW text \in Output(l) PROVE text \in Seq(Characters \cup {NL})
  <2>1. text \in Texts \/ text = <<>> \/ \E x \in Characters : text = <<x, NL>>
    <3>1. "!" \in Characters
      BY Zenon DEF Characters
    <3> QED BY <1>2, <3>1, Zenon DEF Output
  <2>2. CASE text \in Texts
    <3>1. ToSet(text) \subseteq Characters
      BY <2>2, Zenon DEF Characters
    <3>2. PICK n \in Nat : text \in [1 .. n -> ToSet(text)]
      <4>1. text \in Seq(STRING)
        BY <2>2, ShellAssumption
      <4> QED BY <4>1 DEF ToSet
    <3> QED BY <3>1, <3>2
  <2>3. CASE \E x \in Characters : text = <<x, NL>>
    BY <2>3
  <2>4. CASE text = <<>>
    BY <2>4
  <2> QED BY <2>1, <2>2, <2>3, <2>4, Zenon
<1> QED BY <1>1, <1>2

LEMMA PromptShows ==
    ASSUME NEW con \in Consoles(Characters), NEW text \in Seq(Characters \cup {NL}), Room >= 1,
           NEW t, t = write(con, text \o Prompt)
    PROVE  t \in Consoles(Characters) /\ Shows(t, Prompt)
<1>1. PICK all : Joins(text, Prompt, all) /\ t = write(con, all)
  BY DEF Joins
<1>2. PICK a, b \in Characters : a # NL /\ b # NL /\ Prompt = <<a, b>>
  BY PromptFacts
<1>3. Prompt \in Seq(Characters) /\ Len(Prompt) = 2 /\ Prompt[1] = a /\ Prompt[2] = b
  BY <1>2
<1>4. PICK S : S = Characters \cup {NL} /\ \A x \in Seq(Characters) : x \in Seq(S)
  OBVIOUS
<1>5. text \in Seq(S) /\ Prompt \in Seq(S)
  BY <1>3, <1>4
<1>6. /\ all \in Seq(S) /\ Len(all) = Len(text) + Len(Prompt)
      /\ \A i \in 1 .. Len(text) : all[i] = text[i]
      /\ \A i \in 1 .. Len(Prompt) : all[Len(text) + i] = Prompt[i]
  BY <1>1, <1>5, JoinFacts
<1>7. PICK n \in Nat : n = Len(text)
  OBVIOUS
<1>8. 1 \in 1 .. 2 /\ 2 \in 1 .. 2
  OBVIOUS
<1>9. all \in Seq(Characters \cup {NL}) /\ Len(all) = n + 2 /\ all[n + 1] = a /\ all[n + 2] = b
  BY <1>3, <1>4, <1>6, <1>7, <1>8
<1> QED BY <1>1, <1>2, <1>3, <1>9, PrintedFacts, TwoShown


-----------------------------------------------------------------------------
(***************************************************************************)
(* The line on the screen.  While the shell goes through the characters    *)
(* read, the screen shows the line without them, or with the character     *)
(* that is being corrected.                                                *)
(***************************************************************************)
\* u is the prompt and n characters of the line, and maybe more.
Begins(u, n) ==
    /\ u \in Seq(Characters) /\ Len(u) >= n + 2
    /\ u[1] = Prompt[1] /\ u[2] = Prompt[2]
    /\ \A i \in 1 .. n : u[i + 2] = line[i]

ShowsPart(n, more) == \E u : Begins(u, n) /\ Len(u) = n + 2 + more /\ Shows(console, u)

Printing ==
    /\ inChars[1] = KEY_BACKSPACE =>
        /\ Len(cleanChars) = 0
        /\ ShowsPart(Len(line), IF pos = 0 /\ cmdPointer # 0 THEN 1 ELSE 0)
    /\ inChars[1] # KEY_BACKSPACE =>
        /\ Len(cleanChars) = pos /\ \A i \in 1 .. pos : cleanChars[i] = inChars[i]
        /\ ShowsPart(Len(line) - Given(inChars), 0)

ScreenInv ==
    /\ console \in Consoles(Characters) /\ cleanChars \in Seq(Characters \cup {NL})
    /\ careful /\ status # "overrun" =>
        /\ pc = "read" => ShowsPart(Len(line), 0)
        /\ pc = "scan" => Printing

LEMMA AddsFirst ==
    ASSUME LineTypes, Adds
    PROVE  inChars[1] # KEY_BACKSPACE
<1>1. PICK n \in Nat : n = Len(inChars)
  BY DEF LineTypes
<1>2. PICK g : g = Given(inChars)
  OBVIOUS
<1>3. n # 0 /\ g = (IF inChars[n] = NL THEN n - 1 ELSE n) /\ \A j \in 1 .. g : inChars[j] \in Letters
  BY <1>1, <1>2 DEF Adds, Given
<1>4. KEY_BACKSPACE \notin Letters /\ KEY_BACKSPACE # NL
  BY ShellAssumption DEF KEY_BACKSPACE, NL
<1>5. CASE inChars[n] = NL /\ n = 1
  BY <1>4, <1>5
<1>6. CASE ~ (inChars[n] = NL /\ n = 1)
  <2>1. 1 \in 1 .. g
    BY <1>1, <1>3, <1>6
  <2> QED BY <1>3, <1>4, <2>1
<1> QED BY <1>5, <1>6

LEMMA PartStays ==
    ASSUME UNCHANGED <<console, line>>, NEW n, NEW more, ShowsPart(n, more)
    PROVE  \E u : Begins(u, n)' /\ Len(u) = n + 2 + more /\ Shows(console, u)'
<1>1. PICK u : Begins(u, n) /\ Len(u) = n + 2 + more /\ Shows(console, u)
  BY DEF ShowsPart
<1>2. Begins(u, n)'
  BY <1>1 DEF Begins
<1>3. Shows(console, u)'
  BY <1>1 DEF Shows, Cursor
<1> QED BY <1>1, <1>2, <1>3

LEMMA ScreenAdds ==
    ASSUME LineInv, ScreenInv, status = "up", ScanNewline \/ ScanLetter
    PROVE  ScreenInv'
<1>1. /\ pc = "scan" /\ pos < numchars /\ inChars[pos + 1] \in Letters \cup {NL} /\ pos' = pos + 1
      /\ cleanChars' = Append(cleanChars, inChars[pos + 1])
      /\ UNCHANGED <<pc, inChars, line, careful, console>>
  BY DEF ScanNewline, ScanLetter, Scan, user
<1>2. LineTypes /\ console \in Consoles(Characters) /\ cleanChars \in Seq(Characters \cup {NL})
  BY DEF LineInv, ScreenInv
<1>3. PICK x : x = inChars[pos + 1] /\ x \in Characters \cup {NL}
  BY <1>1, PrintedFacts
<1>4. cleanChars' \in Seq(Characters \cup {NL}) /\ Len(cleanChars') = Len(cleanChars) + 1
      /\ cleanChars'[Len(cleanChars) + 1] = x /\ \A i \in 1 .. Len(cleanChars) : cleanChars'[i] = cleanChars[i]
  BY <1>1, <1>2, <1>3
<1>5. ASSUME careful PROVE Printing'
  <2>1. (Corrects \/ Adds) /\ Printing
    BY <1>1, <1>5 DEF LineInv, ScreenInv
  <2>2. ~ Corrects
    <3> SUFFICES ASSUME Corrects PROVE FALSE
      OBVIOUS
    <3>1. pos \in Nat /\ numchars \in Int /\ numchars <= 1 /\ inChars[1] = KEY_BACKSPACE
      BY <1>2 DEF Corrects, LineTypes
    <3>2. pos + 1 = 1
      BY <1>1, <3>1
    <3>3. KEY_BACKSPACE \notin Letters /\ KEY_BACKSPACE # NL
      BY ShellAssumption DEF KEY_BACKSPACE, NL
    <3> QED BY <1>1, <3>1, <3>2, <3>3
  <2>3. inChars[1] # KEY_BACKSPACE
    BY <1>2, <2>1, <2>2, AddsFirst
  <2>4. PICK p \in Nat : p = pos
    BY <1>2 DEF LineTypes
  <2>5. Len(cleanChars) = p /\ \A i \in 1 .. p : cleanChars[i] = inChars[i]
    BY <2>1, <2>3, <2>4 DEF Printing
  <2>6. \A i \in 1 .. p + 1 : cleanChars'[i] = inChars[i]
    <3> TAKE i \in 1 .. p + 1
    <3>1. CASE i = p + 1
      BY <1>3, <1>4, <2>4, <2>5, <3>1
    <3>2. CASE i # p + 1
      <4>1. i \in 1 .. p
        BY <2>4, <3>2
      <4> QED BY <1>4, <2>5, <4>1
    <3> QED BY <3>1, <3>2
  <2>7. PICK n : n = Len(line) - Given(inChars)
    OBVIOUS
  <2>8. ShowsPart(n, 0)
    BY <2>1, <2>3, <2>7 DEF Printing
  <2>9. \E u : Begins(u, n)' /\ Len(u) = n + 2 + 0 /\ Shows(console, u)'
    BY <1>1, <2>8, PartStays
  <2>10. (Len(line) - Given(inChars))' = n
    BY <1>1, <2>7 DEF Given
  <2>11. ShowsPart(Len(line) - Given(inChars), 0)'
    BY <2>9, <2>10 DEF ShowsPart
  <2>12. pos' = p + 1 /\ inChars'[1] # KEY_BACKSPACE
    BY <1>1, <2>3, <2>4
  <2>13. Len(cleanChars') = pos' /\ \A i \in 1 .. pos' : cleanChars'[i] = inChars'[i]
    BY <1>1, <1>4, <2>5, <2>6, <2>12
  <2> QED BY <2>11, <2>12, <2>13 DEF Printing
<1> QED BY <1>1, <1>2, <1>4, <1>5 DEF ScreenInv

LEMMA ScreenCorrects ==
    ASSUME LineInv, ScreenInv, status = "up", ScanBackspace \/ ScanBackspaceAtStart
    PROVE  ScreenInv'
<1>1. /\ pc = "scan" /\ pos < numchars /\ inChars[pos + 1] = KEY_BACKSPACE /\ pos' = pos + 1
      /\ UNCHANGED <<pc, inChars, line, careful, cleanChars, status>>
      /\ \/ cmdPointer > 0 /\ console' = delete(console)
         \/ cmdPointer = 0 /\ console' = console
  BY DEF ScanBackspace, ScanBackspaceAtStart, Scan, user, buffer
<1>2. LineTypes /\ console \in Consoles(Characters) /\ cleanChars \in Seq(Characters \cup {NL})
  BY DEF LineInv, ScreenInv
<1>3. console' \in Consoles(Characters)
  <2>1. PICK t : t = delete(console)
    OBVIOUS
  <2>2. t \in Consoles(Characters)
    BY <1>2, <2>1, DeleteFacts, PrintedFacts
  <2> QED BY <1>1, <1>2, <2>1, <2>2
<1>4. ASSUME careful PROVE Printing'
  <2>1. (Corrects \/ Adds) /\ Printing /\ line \in Seq(Letters)
    BY <1>1, <1>4 DEF LineInv, ScreenInv
  <2>2. ~ Adds
    <3> SUFFICES ASSUME Adds PROVE FALSE
      OBVIOUS
    <3>1. inChars[pos + 1] \in Letters \/ inChars[pos + 1] = NL
      BY <1>1, <1>2, <2>1, NextRead
    <3>2. KEY_BACKSPACE \notin Letters /\ KEY_BACKSPACE # NL
      BY ShellAssumption DEF KEY_BACKSPACE, NL
    <3> QED BY <1>1, <3>1, <3>2
  <2>3. inChars[1] = KEY_BACKSPACE /\ numchars <= 1
    BY <2>1, <2>2 DEF Corrects
  <2>4. pos = 0 /\ pos' = 1
    BY <1>1, <1>2, <2>3 DEF LineTypes
  <2>5. PICK n \in Nat : n = Len(line)
    BY <2>1
  <2>6. Len(cleanChars) = 0 /\ ShowsPart(n, IF cmdPointer # 0 THEN 1 ELSE 0)
    BY <2>1, <2>3, <2>4, <2>5 DEF Printing
  <2>7. \E u : Begins(u, n)' /\ Len(u) = n + 2 + 0 /\ Shows(console, u)'
    <3>1. CASE cmdPointer = 0
      <4>1. ShowsPart(n, 0) /\ UNCHANGED <<console, line>>
        BY <1>1, <2>6, <3>1
      <4> QED BY <4>1, PartStays
    <3>2. CASE cmdPointer # 0
      <4>1. console' = delete(console)
        BY <1>1, <3>2
      <4>2. PICK u : Begins(u, n) /\ Len(u) = n + 2 + 1 /\ Shows(console, u)
        BY <2>6, <3>2 DEF ShowsPart
      <4>3. u \in Seq(Characters)
        BY <4>2 DEF Begins
      <4>4. PICK s : s = SubSeq(u, 1, n + 2)
        OBVIOUS
      <4>5. s \in Seq(Characters) /\ Len(s) = n + 2 /\ \A i \in 1 .. n + 2 : s[i] = u[i]
        BY <2>5, <4>2, <4>3, <4>4
      <4>6. Len(u) = Len(s) + 1 /\ \A i \in 1 .. Len(s) : s[i] = u[i]
        BY <2>5, <4>2, <4>5
      <4>7. PICK t : t = delete(console)
        OBVIOUS
      <4>8. Shows(t, s)
        BY <1>2, <4>2, <4>3, <4>5, <4>6, <4>7, DeleteFacts, PrintedFacts
      <4>9. Shows(console, s)'
        BY <4>1, <4>7, <4>8 DEF Shows, Cursor
      <4>10. Begins(s, n)'
        <5>1. u[1] = Prompt[1] /\ u[2] = Prompt[2] /\ \A i \in 1 .. n : u[i + 2] = line[i]
          BY <4>2 DEF Begins
        <5>2. \A i \in 1 .. n : i + 2 \in 1 .. n + 2
          BY <2>5
        <5>3. 1 \in 1 .. n + 2 /\ 2 \in 1 .. n + 2 /\ n + 2 >= n + 2
          BY <2>5
        <5>4. s[1] = Prompt[1] /\ s[2] = Prompt[2] /\ \A i \in 1 .. n : s[i + 2] = line'[i]
          BY <1>1, <4>5, <5>1, <5>2, <5>3
        <5> QED BY <4>5, <5>3, <5>4 DEF Begins
      <4>11. Len(s) = n + 2 + 0
        BY <2>5, <4>5
      <4> QED BY <4>9, <4>10, <4>11
    <3> QED BY <3>1, <3>2
  <2>8. Len(line)' = n
    BY <1>1, <2>5
  <2>9. ShowsPart(Len(line), 0)'
    BY <2>7, <2>8 DEF ShowsPart
  <2>10. (IF pos = 0 /\ cmdPointer # 0 THEN 1 ELSE 0)' = 0
    BY <2>4
  <2> QED BY <1>1, <2>3, <2>6, <2>9, <2>10 DEF Printing
<1> QED BY <1>1, <1>2, <1>3, <1>4 DEF ScreenInv

LEMMA ScreenTab ==
    ASSUME LineInv, ScreenInv, status = "up", ScanTab
    PROVE  ScreenInv'
<1>1. /\ pc = "scan" /\ pos < numchars /\ inChars[pos + 1] = TAB
      /\ UNCHANGED <<pc, careful, cleanChars, status>>
  BY DEF ScanTab, Scan, user
<1>2. LineTypes /\ console \in Consoles(Characters) /\ cleanChars \in Seq(Characters \cup {NL})
  BY DEF LineInv, ScreenInv
<1>3. console' \in Consoles(Characters)
  <2>1. PICK tab : console' = write(console, tab) /\ \E x \in Characters : tab = <<x, x, x, x>>
    <3>1. " " \in Characters
      BY Zenon DEF Characters
    <3>2. console' = write(console, <<" ", " ", " ", " ">>)
      BY Zenon DEF ScanTab
    <3> QED BY <3>1, <3>2, Zenon
  <2>2. PICK x \in Characters : tab = <<x, x, x, x>>
    BY <2>1
  <2>3. tab \in Seq(Characters \cup {NL})
    BY <2>2
  <2> QED BY <1>2, <2>1, <2>3, WriteStays, PrintedFacts
<1>4. ~ careful
  <2> SUFFICES ASSUME careful PROVE FALSE
    OBVIOUS
  <2>1. (Corrects \/ Adds) /\ line \in Seq(Letters)
    BY <1>1 DEF LineInv
  <2>2. TAB \notin Letters /\ TAB # NL /\ TAB # KEY_BACKSPACE
    BY ShellAssumption DEF TAB, NL, KEY_BACKSPACE
  <2>3. CASE Adds
    BY <1>1, <1>2, <2>1, <2>2, <2>3, NextRead
  <2>4. CASE Corrects
    <3>1. numchars <= 1 /\ inChars[1] = KEY_BACKSPACE
      BY <2>4 DEF Corrects
    <3>2. pos + 1 = 1
      BY <1>1, <1>2, <3>1 DEF LineTypes
    <3> QED BY <1>1, <2>2, <3>1, <3>2
  <2> QED BY <2>1, <2>3, <2>4
<1> QED BY <1>1, <1>2, <1>3, <1>4 DEF ScreenInv


LEMMA WriteNothing ==
    ASSUME NEW con, NEW S, NEW text \in Seq(S), Len(text) = 0
    PROVE  write(con, text) = con
<1>1. PICK w : Steps(con, text, w)
  BY WriteSteps
<1> QED BY <1>1 DEF Steps

LEMMA ScreenScanned ==
    ASSUME LineFits, LineInv, ScreenInv, status = "up", Scanned
    PROVE  ScreenInv'
<1>1. /\ pc = "scan" /\ pos >= numchars /\ pc' = (IF exCmd THEN "execute" ELSE "read")
      /\ console' = (IF numchars # 0 THEN write(console, cleanChars) ELSE console)
      /\ UNCHANGED <<line, careful, status, cleanChars>>
  BY DEF Scanned, user, scanning
<1>2. LineTypes /\ console \in Consoles(Characters) /\ cleanChars \in Seq(Characters \cup {NL})
  BY DEF LineInv, ScreenInv
<1>3. console' \in Consoles(Characters)
  <2>1. write(console, cleanChars) \in Consoles(Characters)
    BY <1>2, WriteStays, PrintedFacts
  <2> QED BY <1>1, <1>2, <2>1
<1>4. ASSUME careful, ~ exCmd PROVE ShowsPart(Len(line), 0)'
  <2>1. (Corrects \/ Adds) /\ Printing /\ line \in Seq(Letters)
    BY <1>1, <1>4 DEF LineInv, ScreenInv
  <2>2. PICK l \in Nat : l = Len(line)
    BY <2>1
  <2>3. Len(line)' = l
    BY <1>1, <2>2
  <2>4. \E u : Begins(u, l)' /\ Len(u) = l + 2 + 0 /\ Shows(console, u)'
    <3>1. CASE Corrects
      <4>1. inChars[1] = KEY_BACKSPACE /\ pos = 1
        BY <1>1, <1>2, <3>1 DEF Corrects, LineTypes
      <4>2. Len(cleanChars) = 0 /\ ShowsPart(l, 0)
        BY <2>1, <2>2, <4>1 DEF Printing
      <4>3. write(console, cleanChars) = console
        BY <1>2, <4>2, WriteNothing
      <4>4. console' = console /\ line' = line
        BY <1>1, <4>3
      <4> QED BY <4>2, <4>4, PartStays
    <3>2. CASE Adds
      <4>1. PICK n \in Nat : n = Len(inChars)
        BY <1>2 DEF LineTypes
      <4>2. PICK g : g = Given(inChars)
        OBVIOUS
      <4>3. /\ n # 0 /\ numchars = n /\ pos <= n /\ g = (IF inChars[n] = NL THEN n - 1 ELSE n) /\ g <= l
            /\ \A j \in 1 .. g : inChars[j] \in Letters /\ line[l - g + j] = inChars[j]
            /\ pos > g => exCmd
            /\ pos <= g => cmdPointer = l - g + pos /\ Held(cmdPointer)
        BY <2>2, <3>2, <4>1, <4>2 DEF Adds, Given
      <4>4. pos = n /\ g = n
        BY <1>1, <1>2, <1>4, <4>1, <4>3 DEF LineTypes
      <4>5. l <= MAX_COMMAND_LENGTH
        <5>1. pos <= g
          BY <4>1, <4>4
        <5>2. cmdPointer = l - g + pos /\ Held(cmdPointer)
          BY <4>3, <5>1
        <5>3. cmdPointer = l
          BY <2>2, <4>1, <4>4, <5>2
        <5> QED BY <5>2, <5>3 DEF Held
      <4>6. inChars[1] # KEY_BACKSPACE
        BY <1>2, <3>2, AddsFirst
      <4>7. Len(cleanChars) = n /\ (\A i \in 1 .. n : cleanChars[i] = inChars[i]) /\ ShowsPart(l - n, 0)
        BY <2>1, <2>2, <4>2, <4>4, <4>6 DEF Printing
      <4>8. PICK m \in Nat : m = l - n /\ l = m + n
        <5>1. n <= l
          BY <4>3, <4>4
        <5>2. l - n \in Nat /\ l = (l - n) + n
          BY <2>2, <4>1, <5>1
        <5> QED BY <5>2
      <4>9. PICK u : Begins(u, m) /\ Len(u) = m + 2 /\ Shows(console, u)
        BY <4>7, <4>8 DEF ShowsPart
      <4>10. u \in Seq(Characters) /\ u[1] = Prompt[1] /\ u[2] = Prompt[2] /\ \A i \in 1 .. m : u[i + 2] = line[i]
        BY <4>9 DEF Begins
      <4>11. \A i \in 1 .. n : cleanChars[i] \in Letters /\ line[m + i] = cleanChars[i]
        BY <4>3, <4>4, <4>7, <4>8
      <4>12. cleanChars \in Seq(Characters) /\ \A i \in 1 .. n : cleanChars[i] # NL
        <5>1. NL \notin Letters
          BY ShellAssumption
        <5>2. \A i \in 1 .. Len(cleanChars) : cleanChars[i] \in Characters
          BY <4>7, <4>11, PrintedFacts
        <5> QED BY <1>2, <4>11, <5>1, <5>2
      <4>13. Len(u) + Len(cleanChars) <= Room + 1
        <5>1. Room \in Nat /\ MAX_COMMAND_LENGTH \in Nat /\ MAX_COMMAND_LENGTH < Room
          BY <1>2, CursorFacts, ShellAssumption DEF LineFits, Room
        <5> QED BY <4>1, <4>5, <4>7, <4>8, <4>9, <5>1
      <4>14. PICK t \in Seq(Characters) : Shows(write(console, cleanChars), t) /\ Follows(u, cleanChars, t)
        <5>1. \A i \in 1 .. Len(cleanChars) : cleanChars[i] # NL
          BY <4>7, <4>12
        <5> QED BY <1>2, <4>9, <4>10, <4>12, <4>13, <5>1, WriteShows, PrintedFacts
      <4>15. console' = write(console, cleanChars)
        BY <1>1, <4>3
      <4>16. Shows(console, t)'
        BY <4>14, <4>15 DEF Shows, Cursor
      <4>17. /\ Len(t) = m + 2 + n /\ \A i \in 1 .. m + 2 : t[i] = u[i]
             /\ \A i \in 1 .. n : t[m + 2 + i] = cleanChars[i]
        BY <4>7, <4>9, <4>14 DEF Follows
      <4>18. \A i \in 1 .. l : t[i + 2] = line[i]
        <5> TAKE i \in 1 .. l
        <5>1. CASE i <= m
          <6>1. i \in 1 .. m /\ i + 2 \in 1 .. m + 2
            BY <2>2, <4>8, <5>1
          <6> QED BY <4>10, <4>17, <6>1
        <5>2. CASE ~ (i <= m)
          <6>1. PICK j : j = i - m
            OBVIOUS
          <6>2. j \in 1 .. n /\ m + 2 + j = i + 2 /\ m + j = i
            BY <2>2, <4>1, <4>8, <5>2, <6>1
          <6>3. t[m + 2 + j] = cleanChars[j] /\ line[m + j] = cleanChars[j]
            BY <4>11, <4>17, <6>2
          <6> QED BY <6>2, <6>3
        <5> QED BY <5>1, <5>2
      <4>19. t[1] = Prompt[1] /\ t[2] = Prompt[2]
        <5>1. 1 \in 1 .. m + 2 /\ 2 \in 1 .. m + 2
          BY <4>8
        <5> QED BY <4>10, <4>17, <5>1
      <4>20. Len(t) = l + 2 + 0 /\ Len(t) >= l + 2
        BY <2>2, <4>1, <4>8, <4>17
      <4>21. Begins(t, l)'
        BY <1>1, <4>14, <4>18, <4>19, <4>20 DEF Begins
      <4> QED BY <4>16, <4>20, <4>21
    <3> QED BY <2>1, <3>1, <3>2
  <2> QED BY <2>3, <2>4 DEF ShowsPart
<1>5. pc' \in {"read", "execute"} /\ (pc' = "read" => ~ exCmd)
  BY <1>1
<1> QED BY <1>1, <1>2, <1>3, <1>4, <1>5 DEF ScreenInv

LEMMA ScreenRead ==
    ASSUME LineInv, ScreenInv, status = "up", NEW n \in 1 .. MaxBatch, NEW batch \in [1 .. n -> Keys], read(batch)
    PROVE  ScreenInv'
<1>1. /\ pc = "read" /\ pc' = "scan" /\ inChars' = batch /\ pos' = 0 /\ cleanChars' = <<>>
      /\ line' = Edited(batch) /\ careful' = (careful /\ Careful(batch))
      /\ UNCHANGED <<console, cmdPointer, status>>
  BY DEF read, buffer
<1>2. console \in Consoles(Characters) /\ cleanChars' \in Seq(Characters \cup {NL}) /\ Len(cleanChars') = 0
  BY <1>1 DEF ScreenInv
<1>3. n \in Nat /\ n >= 1 /\ batch \in Seq(Keys) /\ Len(batch) = n /\ 1 \in 1 .. n /\ n \in 1 .. n
  BY ShellAssumption
<1>4. ASSUME careful, Careful(batch) PROVE Printing'
  <2>1. line \in Seq(Letters) /\ cmdPointer = Len(line) /\ ShowsPart(Len(line), 0)
    BY <1>1, <1>4 DEF LineInv, ScreenInv
  <2>2. PICK l \in Nat : l = Len(line)
    BY <2>1
  <2>3. PICK u : Begins(u, l) /\ Len(u) = l + 2 /\ Shows(console, u)
    BY <2>1, <2>2 DEF ShowsPart
  <2>4. u \in Seq(Characters) /\ u[1] = Prompt[1] /\ u[2] = Prompt[2] /\ \A i \in 1 .. l : u[i + 2] = line[i]
    BY <2>3 DEF Begins
  <2>5. Shows(console, u)'
    BY <1>1, <2>3 DEF Shows, Cursor
  <2>6. CASE batch = <<KEY_BACKSPACE>>
    <3>1. batch[1] = KEY_BACKSPACE
      BY <2>6
    <3>2. PICK k \in Nat, more \in Nat :
              /\ k <= l /\ Len(line)' = k /\ l = k + more
              /\ more = (IF l # 0 THEN 1 ELSE 0) /\ \A i \in 1 .. k : line'[i] = line[i]
      <4>1. CASE line = <<>>
        <5>1. line' = line /\ l = 0
          BY <1>1, <2>2, <2>6, <4>1 DEF Edited
        <5> QED BY <2>2, <5>1
      <4>2. CASE line # <<>>
        <5>1. l # 0
          BY <2>1, <2>2, <4>2, EmptySeq
        <5>2. line' = Front(line)
          BY <1>1, <2>6, <4>2 DEF Edited
        <5>3. Len(line') = l - 1 /\ \A i \in 1 .. l - 1 : line'[i] = line[i]
          BY <2>1, <2>2, <5>1, <5>2, FrontFacts
        <5>4. l - 1 \in Nat /\ l - 1 <= l /\ l = (l - 1) + 1
          BY <2>2, <5>1
        <5> QED BY <5>1, <5>3, <5>4
      <4> QED BY <4>1, <4>2
    <3>3. Begins(u, k)'
      <4>1. \A i \in 1 .. k : i \in 1 .. l
        BY <2>2, <3>2
      <4>2. l + 2 >= k + 2
        BY <2>2, <3>2
      <4> QED BY <2>3, <2>4, <3>2, <4>1, <4>2 DEF Begins
    <3>4. Len(u) = k + 2 + more
      BY <2>2, <2>3, <3>2
    <3>5. (IF pos = 0 /\ cmdPointer # 0 THEN 1 ELSE 0)' = more
      BY <1>1, <2>1, <2>2, <3>2
    <3>6. ShowsPart(Len(line), IF pos = 0 /\ cmdPointer # 0 THEN 1 ELSE 0)'
      BY <2>5, <3>2, <3>3, <3>4, <3>5 DEF ShowsPart
    <3> QED BY <1>1, <1>2, <3>1, <3>6 DEF Printing
  <2>7. CASE batch # <<KEY_BACKSPACE>>
    <3>1. batch[1] # KEY_BACKSPACE
      <4>1. CASE n # 1
        <5>1. batch[1] \in ToSet(batch)
          BY <1>3 DEF ToSet
        <5> QED BY <1>3, <1>4, <4>1, <5>1 DEF Careful
      <4>2. CASE n = 1
        <5>1. batch = <<batch[1]>>
          BY <1>3, <4>2
        <5> QED BY <2>7, <5>1
      <4> QED BY <4>1, <4>2
    <3>2. PICK add : add = IF Last(batch) = NL THEN Front(batch) ELSE batch
      OBVIOUS
    <3>3. PICK g \in Nat : g = Given(batch)
      BY <1>3 DEF Given
    <3>4. Last(batch) = batch[n]
      BY <1>3 DEF Last
    <3>5. add \in Seq(Keys) /\ Len(add) = g
      <4>1. CASE batch[n] = NL
        <5>1. g = n - 1 /\ add = Front(batch)
          BY <1>3, <3>2, <3>3, <3>4, <4>1 DEF Given
        <5> QED BY <1>3, <5>1, FrontFacts
      <4>2. CASE batch[n] # NL
        BY <1>3, <3>2, <3>3, <3>4, <4>2 DEF Given
      <4> QED BY <4>1, <4>2
    <3>6. PICK joined : joined = line' /\ Joins(line, add, joined)
      BY <1>1, <2>7, <3>2 DEF Edited, Joins
    <3>7. line \in Seq(Keys)
      BY <2>1 DEF Keys
    <3>8. /\ joined \in Seq(Keys) /\ Len(joined) = Len(line) + Len(add)
          /\ \A i \in 1 .. Len(line) : joined[i] = line[i]
          /\ \A i \in 1 .. Len(add) : joined[Len(line) + i] = add[i]
      <4>1. line \in Seq(Keys) /\ add \in Seq(Keys) /\ Joins(line, add, joined)
        BY <3>5, <3>6, <3>7
      <4> QED BY <4>1, JoinFacts
    <3>9. Len(line') - g = l /\ \A i \in 1 .. l : line'[i] = line[i]
      BY <2>2, <3>3, <3>5, <3>6, <3>8
    <3>10. Begins(u, l)'
      <4>1. l + 2 >= l + 2
        BY <2>2
      <4> QED BY <2>3, <2>4, <3>9, <4>1 DEF Begins
    <3>11. (Len(line) - Given(inChars))' = l
      BY <1>1, <3>3, <3>9 DEF Given
    <3>12. Len(u) = l + 2 + 0
      BY <2>2, <2>3
    <3>13. ShowsPart(Len(line) - Given(inChars), 0)'
      BY <2>5, <3>10, <3>11, <3>12 DEF ShowsPart
    <3>14. 1 .. pos' = {} /\ Len(cleanChars') = pos'
      BY <1>1, <1>2
    <3> QED BY <1>1, <3>1, <3>13, <3>14 DEF Printing
  <2> QED BY <2>6, <2>7
<1> QED BY <1>1, <1>2, <1>4 DEF ScreenInv

LEMMA ScreenPrompt ==
    ASSUME LineFits, ScreenInv, NEW text \in Seq(Characters \cup {NL}), Prompted(text)
    PROVE  ScreenInv'
<1>1. /\ console' = write(console, text \o Prompt) /\ pc' = "read" /\ line' = <<>>
      /\ UNCHANGED <<cleanChars, status>>
  BY DEF Prompted, scanning
<1>2. console \in Consoles(Characters) /\ cleanChars \in Seq(Characters \cup {NL})
  BY DEF ScreenInv
<1>3. Room >= 1
  BY <1>2, CursorFacts, ShellAssumption DEF LineFits, Room
<1>4. PICK t : t = write(console, text \o Prompt)
  OBVIOUS
<1>5. t \in Consoles(Characters) /\ Shows(t, Prompt)
  BY <1>2, <1>3, <1>4, PromptShows
<1>6. console' = t
  BY <1>1, <1>4
<1>7. Shows(console, Prompt)'
  BY <1>5, <1>6 DEF Shows, Cursor, Prompt
<1>8. Prompt \in Seq(Characters) /\ Len(Prompt) = 2
  <2>1. PICK a, b \in Characters : Prompt = <<a, b>>
    BY PromptFacts
  <2> QED BY <2>1
<1>9. Len(line)' = 0
  BY <1>1
<1>10. Begins(Prompt, 0)'
  <2>1. 1 .. 0 = {} /\ Len(Prompt) >= 0 + 2
    BY <1>8
  <2> QED BY <1>8, <2>1 DEF Begins
<1>11. ShowsPart(Len(line), 0)'
  <2>1. Len(Prompt) = 0 + 2 + 0
    BY <1>8
  <2> QED BY <1>7, <1>9, <1>10, <2>1 DEF ShowsPart
<1> QED BY <1>1, <1>2, <1>5, <1>6, <1>11 DEF ScreenInv


LEMMA ScreenStep ==
    ASSUME LineFits
    PROVE  LineInv /\ ScreenInv /\ [Next]_vars => ScreenInv'
<1> SUFFICES ASSUME LineInv, ScreenInv, [Next]_vars PROVE ScreenInv'
  OBVIOUS
<1>1. ASSUME UNCHANGED <<console, pc, scanning, buffer, user>>,
             status' = status \/ (pc = "execute" /\ status' = "sigma0 rejected request")
      PROVE  ScreenInv'
  <2>1. UNCHANGED <<console, pc, inChars, pos, cleanChars, cmdPointer, line, careful>>
    BY <1>1 DEF scanning, buffer, user
  <2>2. ASSUME NEW n, NEW more PROVE ShowsPart(n, more)' = ShowsPart(n, more)
    BY <2>1 DEF ShowsPart, Begins, Shows, Cursor
  <2>3. PICK n, g, more : n = Len(line) /\ g = Given(inChars)
                          /\ more = IF pos = 0 /\ cmdPointer # 0 THEN 1 ELSE 0
    OBVIOUS
  <2>4. Len(line)' = n /\ Given(inChars)' = g /\ (IF pos = 0 /\ cmdPointer # 0 THEN 1 ELSE 0)' = more
    BY <2>1, <2>3 DEF Given
  <2>5. /\ ShowsPart(Len(line), 0) => ShowsPart(Len(line), 0)'
        /\ Printing => Printing'
    BY <2>1, <2>2, <2>3, <2>4 DEF Printing
  <2> QED BY <1>1, <2>1, <2>5 DEF ScreenInv
<1>2. CASE UNCHANGED vars
  BY <1>1, <1>2 DEF vars
<1>3. CASE Next
  <2>1. status = "up"
    BY <1>3 DEF Next
  <2>2. ASSUME Execute PROVE ScreenInv'
    <3>1. PICK text \in Output(Letter) : Prompted(text)
      BY <2>2 DEF Execute
    <3>2. text \in Seq(Characters \cup {NL})
      BY PrintedFacts
    <3> QED BY <3>1, <3>2, ScreenPrompt
  <2>3. ASSUME NEW m \in Modules, DownloadNew(m) \/ DownloadAgain(m) PROVE ScreenInv'
    <3>1. PICK none : none = <<>> /\ Prompted(none)
      BY <2>3 DEF DownloadNew, DownloadAgain
    <3>2. none \in Seq(Characters \cup {NL})
      BY <3>1
    <3> QED BY <3>1, <3>2, ScreenPrompt
  <2>4. ASSUME NEW m \in Modules, DownloadRejected(m) \/ OtherLoads(m) PROVE ScreenInv'
    BY <1>1, <2>4 DEF DownloadRejected, OtherLoads
  <2> QED BY <1>3, <2>1, <2>2, <2>3, <2>4, ScreenRead, ScreenAdds, ScreenCorrects, ScreenTab, ScreenScanned
          DEF Next
<1> QED BY <1>2, <1>3

\* main.cc:144 and console.cc:41, :73: whatever is typed, corrected and executed,
\* the prompt and the line as edited are in front of the cursor when the shell
\* reads, over the ends of lines and while the screen scrolls, for whoever corrects
\* only what the shell has read and for buffers that fit on the screen.
THEOREM ScreenAlwaysShowsLine ==
    ASSUME LineFits
    PROVE  Spec => []ScreenShowsLine
<1>1. Init => LineInv
  <2> SUFFICES ASSUME Init PROVE LineInv
    OBVIOUS
  <2>1. /\ line = <<>> /\ inChars = <<>> /\ pos = 0 /\ numchars = 0 /\ cmdPointer = 0
        /\ pc = "read" /\ status = "up" /\ careful = TRUE
        /\ DOMAIN cmdChars = 0 .. MAX_COMMAND_LENGTH - 1
    BY DEF Init
  <2>2. LineTypes /\ line \in Seq(Letters) /\ Len(line) = 0
    BY <2>1 DEF LineTypes
  <2>3. Held(Len(line))
    BY <2>2, ShellAssumption DEF Held
  <2> QED BY <2>1, <2>2, <2>3 DEF LineInv
<1>2. Init => ScreenInv
  <2> SUFFICES ASSUME Init PROVE ScreenInv
    OBVIOUS
  <2>1. console = write(clear, Prompt) /\ pc = "read" /\ line = <<>> /\ cleanChars = <<>>
    BY DEF Init
  <2>2. cleanChars \in Seq(Characters \cup {NL}) /\ Len(line) = 0
    BY <2>1
  <2>3. clear \in Consoles(Characters)
    <3>1. 0 \in 0 .. Cols /\ 0 \in 0 .. Rows - 1
      BY ConsoleAssumption
    <3> QED BY <3>1, PrintedFacts DEF clear, Consoles
  <2>4. Room >= 1
    BY <2>3, CursorFacts, ShellAssumption DEF LineFits, Room
  <2>5. PICK a, b \in Characters : a # NL /\ b # NL /\ Prompt = <<a, b>>
    BY PromptFacts
  <2>6. /\ Prompt \in Seq(Characters) /\ Len(Prompt) = 2 /\ Prompt[1] = a /\ Prompt[2] = b
        /\ Prompt \in Seq(Characters \cup {NL}) /\ Len(Prompt) = 0 + 2 /\ Prompt[0 + 1] = a /\ Prompt[0 + 2] = b
    BY <2>5
  <2>7. console \in Consoles(Characters) /\ Shows(console, Prompt)
    <3>1. PICK con, t : con = clear /\ t = write(con, Prompt) /\ t = console
      BY <2>1
    <3>2. con \in Consoles(Characters) /\ Blank \in Characters
      BY <2>3, <3>1, PrintedFacts
    <3>3. t \in Consoles(Characters) /\ Shows(t, Prompt)
      BY <2>4, <2>5, <2>6, <3>1, <3>2, TwoShown
    <3> QED BY <3>1, <3>3
  <2>8. Begins(Prompt, 0)
    BY <2>6 DEF Begins
  <2>9. ShowsPart(Len(line), 0)
    <3>1. Len(Prompt) = 0 + 2 + 0
      BY <2>6
    <3> QED BY <2>2, <2>7, <2>8, <3>1 DEF ShowsPart
  <2> QED BY <2>1, <2>2, <2>7, <2>9 DEF ScreenInv
<1>3. LineInv /\ ScreenInv => ScreenShowsLine
  <2> SUFFICES ASSUME LineInv, ScreenInv, pc = "read", careful,
                      NEW shown, Joins(Prompt, line, shown), NEW i \in 1 .. Len(shown)
               PROVE  console.screen[Cursor(console) - Len(shown) + i - 1] = shown[i]
    BY DEF ScreenShowsLine, Joins
  <2>1. ShowsPart(Len(line), 0) /\ line \in Seq(Letters)
    BY DEF LineInv, ScreenInv
  <2>2. PICK l \in Nat : l = Len(line)
    BY <2>1
  <2>3. PICK u : Begins(u, l) /\ Len(u) = l + 2 /\ Shows(console, u)
    BY <2>1, <2>2 DEF ShowsPart
  <2>4. PICK a, b \in Characters : Prompt = <<a, b>>
    BY PromptFacts
  <2>5. Prompt \in Seq(Characters) /\ Len(Prompt) = 2
    BY <2>4
  <2>6. line \in Seq(Characters) /\ Prompt \in Seq(Characters) /\ Joins(Prompt, line, shown)
    BY <2>1, <2>5, PrintedFacts
  <2>7. /\ shown \in Seq(Characters) /\ Len(shown) = Len(Prompt) + Len(line)
        /\ \A j \in 1 .. Len(Prompt) : shown[j] = Prompt[j]
        /\ \A j \in 1 .. Len(line) : shown[Len(Prompt) + j] = line[j]
    BY <2>6, JoinFacts
  <2>8. /\ Len(shown) = l + 2 /\ \A j \in 1 .. 2 : shown[j] = Prompt[j]
        /\ \A j \in 1 .. l : shown[2 + j] = line[j]
    BY <2>2, <2>5, <2>7
  <2>9. u[1] = Prompt[1] /\ u[2] = Prompt[2] /\ \A j \in 1 .. l : u[j + 2] = line[j]
    BY <2>3 DEF Begins
  <2>10. shown[i] = u[i]
    <3>1. CASE i \in 1 .. 2
      <4>1. i = 1 \/ i = 2
        BY <3>1
      <4> QED BY <2>8, <2>9, <3>1, <4>1
    <3>2. CASE i \notin 1 .. 2
      <4>1. PICK j : j = i - 2
        OBVIOUS
      <4>2. j \in 1 .. l /\ 2 + j = i /\ j + 2 = i
        BY <2>2, <2>8, <3>2, <4>1
      <4>3. shown[2 + j] = line[j] /\ u[j + 2] = line[j]
        BY <2>8, <2>9, <4>2
      <4> QED BY <4>2, <4>3
    <3> QED BY <3>1, <3>2
  <2>11. i \in 1 .. Len(u) /\ Len(u) = Len(shown)
    BY <2>3, <2>8
  <2> QED BY <2>3, <2>10, <2>11 DEF Shows
<1> QED BY <1>1, <1>2, <1>3, LineStep, ScreenStep, PTL DEF Spec
=============================================================================
