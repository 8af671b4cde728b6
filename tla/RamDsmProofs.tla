---------------------------- MODULE RamDsmProofs ----------------------------
(***************************************************************************)
(* Theorems about RAM-DSM, for any number of threads, modules and pages.   *)
(***************************************************************************)
EXTENDS RamDsm, FiniteSetTheorems, SequenceTheorems, NaturalsInduction, WellFoundedInduction, TLAPS

\* The order of the natural numbers is well-founded.
LEMMA LessWellFounded ==
    IsWellFoundedOn({x \in Nat \X Nat : x[1] < x[2]}, Nat)
BY NatLessThanWellFounded DEF OpToRel

\* The scans of the loader find something: a set of numbers has a least one.
LEMMA LeastNumber ==
    ASSUME NEW S \in SUBSET Nat, S # {}
    PROVE  \E x \in S : \A y \in S : x <= y
<1> DEFINE R == {x \in Nat \X Nat : x[1] < x[2]}
<1>1. PICK x \in S : \A y \in S : ~ (<<y, x>> \in R)
  <2>1. IsWellFoundedOn(R, Nat)
    BY LessWellFounded
  <2> HIDE DEF R
  <2> QED BY <2>1, WFMin
<1>2. \A y \in S : x <= y
  <2> TAKE y \in S
  <2>1. <<y, x>> \in Nat \X Nat /\ ~ (<<y, x>>[1] < <<y, x>>[2])
    BY <1>1
  <2> QED BY <2>1
<1> QED BY <1>2
-----------------------------------------------------------------------------
(***************************************************************************)
(* The page that is filled from an image, for pages, segments and address  *)
(* spaces of any size.                                                     *)
(***************************************************************************)
LEMMA ModSmall ==
    ASSUME NEW n \in Nat, NEW x \in Nat, x < n
    PROVE  x % n = x
OBVIOUS

\* Unsigned subtraction that goes below zero wraps.
LEMMA ModWrap ==
    ASSUME NEW n \in Nat \ {0}, NEW x \in Int, x < 0, -n <= x
    PROVE  x % n = x + n
OBVIOUS

\* A set of program headers has a last one.
LEMMA LastOfSet ==
    ASSUME NEW n \in Nat, NEW S \in SUBSET (1 .. n), S # {}
    PROVE  LastOf(S) \in S
<1> DEFINE U == {x \in Nat : \A y \in S : y <= x}
<1>1. n \in U /\ U \in SUBSET Nat
  OBVIOUS
<1>2. PICK u \in U : \A x \in U : u <= x
  <2> HIDE DEF U
  <2> QED BY <1>1, LeastNumber
<1>3. u \in S
  <2>1. SUFFICES ASSUME u \notin S PROVE FALSE
    OBVIOUS
  <2>2. u # 0
    <3>1. PICK y \in S : TRUE
      OBVIOUS
    <3> QED BY <3>1
  <2>3. u - 1 \in U
    BY <2>1, <2>2
  <2> QED BY <1>2, <2>3
<1>4. \E k \in S : \A j \in S : j <= k
  BY <1>3
<1> QED BY <1>4 DEF LastOf

\* What one turn of the loop copies, compared with what load_elfimage copies of
\* the segment when its file part is extended over the rest of the page.
LEMMA SegmentCopied ==
    ASSUME NEW p \in Phdrs, p.p_filesz <= p.p_memsz, p.p_vaddr + p.p_memsz < Word,
           NEW v \in PageStarts, NEW b \in Bytes,
           NEW f, f = IF Behind(p, v) THEN v + PageSize - p.p_vaddr ELSE p.p_filesz
    PROVE  /\ Copies(p, v, b) <=> /\ p.p_type = "PT_LOAD"
                                  /\ v + b >= p.p_vaddr
                                  /\ v + b < p.p_vaddr + f
           /\ Copies(p, v, b) =>
                p.p_offset + s_offset(p, v) + (b - d_offset(p, v)) + 1
                = p.p_offset + ((v + b) - p.p_vaddr) + 1
<1>0. PICK a, o, g, z : a = p.p_vaddr /\ o = p.p_offset /\ g = p.p_filesz /\ z = p.p_memsz
  OBVIOUS
<1>1. a \in Nat /\ o \in Nat /\ g \in Nat /\ z \in Nat /\ g <= z /\ a + z < Word
  BY <1>0 DEF Phdrs
<1>2. /\ PageSize \in Nat \ {0} /\ Word \in Nat \ {0} /\ b \in Nat /\ b < PageSize
      /\ v \in Nat /\ v + PageSize <= Word
  BY ElfPageAssumption DEF PageStarts, Bytes
<1>3. (a + z) % Word = a + z
  <2>1. a + z \in Nat
    BY <1>1
  <2> QED BY <1>1, <1>2, <2>1, ModSmall
<1>4. Overlaps(p, v) <=> v + PageSize - 1 >= a /\ a + z > v
  BY <1>0, <1>3 DEF Overlaps
<1>5. CASE ~ Overlaps(p, v)
  <2>1. ~ Behind(p, v)
    BY <1>0, <1>1, <1>2, <1>4, <1>5 DEF Behind
  <2>2. ~ (v + b >= a /\ v + b < a + g)
    BY <1>1, <1>2, <1>4, <1>5
  <2> QED BY <1>0, <1>5, <2>1, <2>2 DEF Copies
<1>6. CASE Overlaps(p, v) /\ a > v
  <2>1. s_offset(p, v) = 0 /\ d_offset(p, v) = a - v
    BY <1>0, <1>1, <1>2, <1>6 DEF s_offset, d_offset
  <2>2. (g - 0) % Word = g
    BY <1>1, <1>2, ModSmall
  <2>3. copylength(p, v) = IF g > PageSize - (a - v) THEN PageSize - (a - v) ELSE g
    BY <1>0, <2>1, <2>2 DEF copylength
  <2>4. f = g
    BY <1>0, <1>1, <1>2, <1>6 DEF Behind
  <2>5. b \in d_offset(p, v) .. d_offset(p, v) + copylength(p, v) - 1
        <=> v + b >= a /\ v + b < a + g
    BY <1>1, <1>2, <1>4, <1>6, <2>1, <2>3
  <2>6. o + 0 + (b - (a - v)) + 1 = o + ((v + b) - a) + 1
    BY <1>1, <1>2
  <2> QED BY <1>0, <1>6, <2>1, <2>4, <2>5, <2>6 DEF Copies
<1>7. CASE Overlaps(p, v) /\ a <= v /\ v <= a + g
  <2>1. s_offset(p, v) = v - a /\ d_offset(p, v) = 0
    BY <1>0, <1>1, <1>2, <1>7 DEF s_offset, d_offset
  <2>2. g - (v - a) \in Nat /\ g - (v - a) < Word
    BY <1>1, <1>2, <1>7
  <2>3. (g - (v - a)) % Word = g - (v - a)
    BY <1>2, <2>2, ModSmall
  <2>4. copylength(p, v) = IF g - (v - a) > PageSize - 0 THEN PageSize - 0 ELSE g - (v - a)
    BY <1>0, <2>1, <2>3 DEF copylength
  <2>5. f = g
    BY <1>0, <1>1, <1>2, <1>7 DEF Behind
  <2>6. b \in d_offset(p, v) .. d_offset(p, v) + copylength(p, v) - 1
        <=> v + b >= a /\ v + b < a + g
    BY <1>1, <1>2, <1>7, <2>1, <2>2, <2>4
  <2>7. o + (v - a) + (b - 0) + 1 = o + ((v + b) - a) + 1
    BY <1>1, <1>2
  <2> QED BY <1>0, <1>7, <2>1, <2>5, <2>6, <2>7 DEF Copies
<1>8. CASE Overlaps(p, v) /\ v > a + g
  <2>1. s_offset(p, v) = v - a /\ d_offset(p, v) = 0
    BY <1>0, <1>1, <1>2, <1>8 DEF s_offset, d_offset
  <2>2. g - (v - a) \in Int /\ g - (v - a) < 0 /\ -Word <= g - (v - a)
    BY <1>1, <1>2, <1>8
  <2>3. (g - (v - a)) % Word = g - (v - a) + Word
    BY <1>2, <2>2, ModWrap
  <2>4. g - (v - a) + Word >= PageSize
    BY <1>1, <1>2
  <2>5. copylength(p, v) = PageSize
    <3>1. copylength(p, v) = IF g - (v - a) + Word > PageSize - 0 THEN PageSize - 0
                             ELSE g - (v - a) + Word
      BY <1>0, <2>1, <2>3 DEF copylength
    <3> QED BY <1>1, <1>2, <2>4, <3>1
  <2>6. f = v + PageSize - a
    BY <1>0, <1>4, <1>8 DEF Behind
  <2>7. b \in d_offset(p, v) .. d_offset(p, v) + copylength(p, v) - 1
    BY <1>2, <2>1, <2>5
  <2>8. v + b >= a /\ v + b < a + f
    BY <1>1, <1>2, <1>8, <2>6
  <2>9. o + (v - a) + (b - 0) + 1 = o + ((v + b) - a) + 1
    BY <1>1, <1>2
  <2> QED BY <1>0, <1>8, <2>1, <2>7, <2>8, <2>9 DEF Copies
<1> QED BY <1>1, <1>2, <1>5, <1>6, <1>7, <1>8

\* A byte that load_elfimage leaves in a page.
LEMMA LoadedByte ==
    ASSUME NEW phdrs, NEW v, NEW b \in Bytes,
           NEW S, S = {k \in DOMAIN phdrs : InFilePart(phdrs[k], v + b)}
    PROVE  load_elfimage(phdrs, v)[b] =
               IF S = {} THEN 0
               ELSE phdrs[LastOf(S)].p_offset + ((v + b) - phdrs[LastOf(S)].p_vaddr) + 1
BY Zenon DEF load_elfimage

\* bielfloader.cc:95, apppager.cc:27: for pages, images and address spaces of any
\* size, segments that overlap included, the loop that copies the part of each
\* segment that lies in the page leaves there what load_elfimage does, but for
\* pages that begin behind a file part.
THEOREM FilledAsLoaded ==
    ASSUME NEW phdrs \in Seq(Phdrs), WellFormed(phdrs), NEW v \in PageStarts
    PROVE  Filled(phdrs, v) = AsLoaded(phdrs, v)
<1>0. PICK R : R = ReadOn(phdrs, v)
  OBVIOUS
<1> DEFINE len(k) == IF Behind(phdrs[k], v) THEN v + PageSize - phdrs[k].p_vaddr
                     ELSE phdrs[k].p_filesz
           copied(b) == {k \in DOMAIN phdrs : Copies(phdrs[k], v, b)}
           loaded(b) == {k \in DOMAIN R : InFilePart(R[k], v + b)}
<1>1. \A k \in DOMAIN phdrs : /\ phdrs[k] \in Phdrs
                              /\ phdrs[k].p_filesz <= phdrs[k].p_memsz
                              /\ phdrs[k].p_vaddr + phdrs[k].p_memsz < Word
  BY DEF WellFormed
<1>2. /\ DOMAIN R = DOMAIN phdrs
      /\ \A k \in DOMAIN phdrs : /\ R[k].p_type = phdrs[k].p_type
                                 /\ R[k].p_vaddr = phdrs[k].p_vaddr
                                 /\ R[k].p_offset = phdrs[k].p_offset
                                 /\ R[k].p_filesz = len(k)
  BY <1>0, <1>1 DEF ReadOn, Phdrs
<1>3. ASSUME NEW b \in Bytes
      PROVE  /\ copied(b) = loaded(b)
             /\ \A k \in copied(b) :
                    phdrs[k].p_offset + s_offset(phdrs[k], v) + (b - d_offset(phdrs[k], v)) + 1
                    = R[k].p_offset + ((v + b) - R[k].p_vaddr) + 1
  <2>1. ASSUME NEW k \in DOMAIN phdrs
        PROVE  /\ Copies(phdrs[k], v, b) <=> InFilePart(R[k], v + b)
               /\ Copies(phdrs[k], v, b) =>
                    phdrs[k].p_offset + s_offset(phdrs[k], v) + (b - d_offset(phdrs[k], v)) + 1
                    = R[k].p_offset + ((v + b) - R[k].p_vaddr) + 1
    <3>0. PICK f : f = len(k)
      OBVIOUS
    <3>1. f = IF Behind(phdrs[k], v) THEN v + PageSize - phdrs[k].p_vaddr
              ELSE phdrs[k].p_filesz
      BY <3>0
    <3>2. /\ Copies(phdrs[k], v, b) <=> /\ phdrs[k].p_type = "PT_LOAD"
                                        /\ v + b >= phdrs[k].p_vaddr
                                        /\ v + b < phdrs[k].p_vaddr + f
          /\ Copies(phdrs[k], v, b) =>
                phdrs[k].p_offset + s_offset(phdrs[k], v) + (b - d_offset(phdrs[k], v)) + 1
                = phdrs[k].p_offset + ((v + b) - phdrs[k].p_vaddr) + 1
      BY <1>1, <3>1, SegmentCopied
    <3> QED BY <1>2, <3>0, <3>2 DEF InFilePart
  <2> QED BY <1>2, <2>1
<1>4. ASSUME NEW b \in Bytes
      PROVE  Filled(phdrs, v)[b] = load_elfimage(R, v)[b]
  <2>1. Filled(phdrs, v)[b] =
            IF copied(b) = {} THEN 0
            ELSE phdrs[LastOf(copied(b))].p_offset + s_offset(phdrs[LastOf(copied(b))], v)
                 + (b - d_offset(phdrs[LastOf(copied(b))], v)) + 1
    BY DEF Filled
  <2>2. load_elfimage(R, v)[b] =
            IF loaded(b) = {} THEN 0
            ELSE R[LastOf(loaded(b))].p_offset + ((v + b) - R[LastOf(loaded(b))].p_vaddr) + 1
    BY LoadedByte, Zenon
  <2>3. copied(b) # {} => LastOf(copied(b)) \in copied(b)
    <3>1. copied(b) \in SUBSET (1 .. Len(phdrs)) /\ Len(phdrs) \in Nat
      OBVIOUS
    <3> HIDE DEF copied
    <3> QED BY <3>1, LastOfSet
  <2> HIDE DEF copied, loaded
  <2> QED BY <1>3, <2>1, <2>2, <2>3
<1>5. Filled(phdrs, v) = load_elfimage(R, v)
  BY <1>4 DEF Filled, load_elfimage
<1> QED BY <1>0, <1>5 DEF AsLoaded
-----------------------------------------------------------------------------
Started == {t \in Threads : space[t] # NilThread}

\* The threads of spaces that were started from a boot module.
Served == {t \in Started : image[space[t]] # NoImage}

\* A space is the one of its first thread.
SpacesNamed ==
    /\ \A t \in Started : space[space[t]] = space[t]
    /\ \A s \in Threads : image[s] # NoImage => space[s] = s

\* Whatever entry a scan of the table comes to first, it names the module of
\* the thread's space.
EntriesRight ==
    \A i \in DOMAIN associationTable :
        LET e == associationTable[i]
        IN  e.thread \in Started /\ e.module = image[space[e.thread]]

\* A loader that still serves knows the threads it was told of, and they run
\* modules it has.
EveryoneKnown ==
    Serving => /\ \A t \in Served : \E i \in DOMAIN associationTable :
                      associationTable[i].thread = t
               /\ \A s \in Threads : image[s] # NoImage =>
                      image[s] \in Records /\ bootinfo[image[s]] = "module"

\* The first thread of an application has another pager.
FaultsHere ==
    \A t \in Threads : fault[t] # None => t \in Served \/ space[t] # t

\* What the loader knows of the threads, the inductive invariant that makes
\* the answer of getModuleId right.
TableInv == TypeOK /\ SpacesNamed /\ EntriesRight /\ EveryoneKnown /\ FaultsHere

-----------------------------------------------------------------------------
\* A thread that runs or waits has been started.
LEMMA AliveStarted ==
    ASSUME NEW t \in Threads, Alive(t)
    PROVE  t \in Started
BY DEF Alive, Started

\* The module that a fault of a thread is served from, if its space was started
\* from one ...
LEMMA ModuleOfSpace ==
    ASSUME TableInv, Serving, NEW t \in Served
    PROVE  /\ getModuleId(t) = image[space[t]]
           /\ getModuleId(t) \in Ids \cap Records
           /\ bootinfo[getModuleId(t)] = "module"
<1> DEFINE found == {i \in DOMAIN associationTable : associationTable[i].thread = t}
<1>1. found # {}
  BY DEF TableInv, EveryoneKnown
<1>2. found \in SUBSET Nat
  BY DEF TableInv, TypeOK
<1> DEFINE first == CHOOSE i \in found : \A j \in found : i <= j
<1>3. first \in found
  <2> HIDE DEF found
  <2> QED BY <1>1, <1>2, LeastNumber
<1>4. getModuleId(t) = associationTable[first].module
  BY <1>1 DEF getModuleId
<1>5. associationTable[first].module = image[space[t]]
  <2> HIDE DEF first
  <2> QED BY <1>3 DEF TableInv, EntriesRight
<1>6. space[t] \in Threads /\ image[space[t]] # NoImage
  BY DEF Served, Started, TableInv, TypeOK
<1> HIDE DEF first
<1> QED BY <1>4, <1>5, <1>6 DEF TableInv, TypeOK, EveryoneKnown

\* ... and the first record, if not.
LEMMA ModuleOfStranger ==
    ASSUME TableInv, NEW t \in Started, t \notin Served
    PROVE  getModuleId(t) = FirstModule
<1>1. ASSUME NEW i \in DOMAIN associationTable, associationTable[i].thread = t
      PROVE  FALSE
  <2>1. associationTable[i].module = image[space[t]]
    BY <1>1 DEF TableInv, EntriesRight
  <2>2. associationTable[i] \in Associations
    BY DEF TableInv, TypeOK
  <2>3. associationTable[i].module \in Nat
    BY <2>2, RamDsmAssumption DEF Associations
  <2> QED BY <2>1, <2>3 DEF Served, NoImage
<1>2. {i \in DOMAIN associationTable : associationTable[i].thread = t} = {}
  BY <1>1
<1> QED BY <1>2 DEF getModuleId

\* The page that is taken was available.
LEMMA FreePageIsAvailable ==
    ASSUME TypeOK, available # {}
    PROVE  getFreePage \in available /\ getFreePage \in Pages
<1>1. available \in SUBSET Nat
  BY RamDsmAssumption DEF TypeOK
<1>2. getFreePage \in available
  BY <1>1, LeastNumber DEF getFreePage
<1> QED BY <1>2 DEF TypeOK

\* A page is filled with bytes, whatever is read as a program header.
LEMMA FilledType ==
    ASSUME NEW m \in Records, NEW v \in VPages
    PROVE  Filled(Image[m], v) \in [Bytes -> Nat]
<1>1. Image[m] \in Seq(Phdrs) /\ v \in Nat
  BY RamDsmAssumption, ElfPageAssumption DEF PageStarts
<1>2. PICK phdrs \in Seq(Phdrs) : phdrs = Image[m]
  BY <1>1
<1>3. ASSUME NEW b \in Bytes
      PROVE  Filled(phdrs, v)[b] \in Nat
  <2> DEFINE copied == {k \in DOMAIN phdrs : Copies(phdrs[k], v, b)}
  <2>1. Filled(phdrs, v)[b] =
            IF copied = {} THEN 0
            ELSE phdrs[LastOf(copied)].p_offset + s_offset(phdrs[LastOf(copied)], v)
                 + (b - d_offset(phdrs[LastOf(copied)], v)) + 1
    BY DEF Filled
  <2>2. ASSUME copied # {}
        PROVE  LastOf(copied) \in copied
    <3>1. copied \in SUBSET (1 .. Len(phdrs)) /\ Len(phdrs) \in Nat
      OBVIOUS
    <3> HIDE DEF copied
    <3> QED BY <2>2, <3>1, LastOfSet
  <2>3. ASSUME NEW k \in copied
        PROVE  phdrs[k].p_offset + s_offset(phdrs[k], v) + (b - d_offset(phdrs[k], v)) + 1 \in Nat
    <3>1. phdrs[k] \in Phdrs
      OBVIOUS
    <3>2. PICK p \in Phdrs : p = phdrs[k]
      BY <3>1
    <3>3. Copies(p, v, b)
      BY <3>2
    <3>4. p.p_offset \in Nat /\ p.p_vaddr \in Nat
      BY DEF Phdrs
    <3>5. s_offset(p, v) \in Nat /\ d_offset(p, v) \in Nat
      BY <1>1, <3>4 DEF s_offset, d_offset
    <3>6. b \in Int /\ b >= d_offset(p, v)
      BY <3>3, <3>5, ElfPageAssumption DEF Copies, Bytes
    <3> QED BY <3>2, <3>4, <3>5, <3>6
  <2> HIDE DEF copied
  <2> QED BY <2>1, <2>2, <2>3
<1>4. Filled(phdrs, v) \in [Bytes -> Nat]
  BY <1>3 DEF Filled
<1> QED BY <1>2, <1>4

-----------------------------------------------------------------------------
\* What the four ways to start a thread have in common: t becomes a thread of
\* space s.
NewThread(t, s) ==
    /\ space[t] = NilThread
    /\ s = t \/ (s \in Started /\ space[s] = s)
    /\ space' = [space EXCEPT ![t] = s]
    /\ image' \in [Threads -> Ids \cup {NoImage}]
    /\ \A u \in Threads \ {t} : image'[u] = image[u]
    /\ s # t => image' = image
    /\ UNCHANGED <<available, content, bootinfo, mapped, fault, dead, raced>>

\* What associateImage and copyAssociation have in common: the space shows module
\* m, and the thread is put into the table.
Start(t, s, m, after) ==
    /\ NewThread(t, s)
    /\ image'[s] = m
    /\ appendToAssociationTable(t, m, after)
    /\ after = "serving" => m \in Records /\ bootinfo[m] = "module"

\* The others: the loader is not told.
StartUntold(t, s) ==
    /\ NewThread(t, s)
    /\ image[s] = NoImage
    /\ UNCHANGED <<associationTable, status, image>>

LEMMA HeaderIsReason ==
    ASSUME NEW m
    PROVE  Header(m) \in Reasons
BY DEF Header, Reasons

LEMMA AssociateIsStart ==
    ASSUME TableInv, NEW t \in Threads, NEW m \in Ids, associateImage(t, m)
    PROVE  \E after \in Reasons : Start(t, t, m, after)
<1> DEFINE after == IF m \in Records /\ bootinfo[m] \in {"root", "taken"}
                    THEN "sigma0 gave no module memory" ELSE Header(m)
<1>1. after \in Reasons
  BY HeaderIsReason DEF Reasons
<1>2. NewThread(t, t) /\ image'[t] = m
  BY DEF associateImage, Fresh, NewThread, TableInv, TypeOK
<1>3. after = "serving" => m \in Records /\ bootinfo[m] = "module"
  <2> SUFFICES ASSUME after = "serving" PROVE m \in Records /\ bootinfo[m] = "module"
    OBVIOUS
  <2>1. Header(m) = "serving" /\ ~ (m \in Records /\ bootinfo[m] \in {"root", "taken"})
    OBVIOUS
  <2>2. m \in Records
    BY <2>1, RamDsmAssumption DEF Header, Records
  <2>3. bootinfo[m] \in Kinds
    BY <2>2 DEF TableInv, TypeOK
  <2>4. bootinfo[m] # "other"
    BY <2>1 DEF Header
  <2> QED BY <2>1, <2>2, <2>3, <2>4 DEF Kinds
<1>4. appendToAssociationTable(t, m, after)
  BY DEF associateImage
<1> HIDE DEF after
<1> QED BY <1>1, <1>2, <1>3, <1>4 DEF Start

LEMMA CopyIsStart ==
    ASSUME TableInv, Serving, NEW from \in Threads, NEW t \in Threads,
           copyAssociation(from, t)
    PROVE  /\ space[from] \in Threads
           /\ getModuleId(from) \in Ids
           /\ Start(t, space[from], getModuleId(from), "serving")
<1>1. from \in Served
  BY AliveStarted DEF copyAssociation, Served
<1>2. space[from] \in Started /\ space[space[from]] = space[from]
  BY <1>1 DEF TableInv, TypeOK, SpacesNamed, Started, Served
<1>3. /\ getModuleId(from) = image[space[from]] /\ getModuleId(from) \in Ids \cap Records
      /\ bootinfo[getModuleId(from)] = "module"
  BY <1>1, ModuleOfSpace
<1> HIDE DEF getModuleId
<1>4. NewThread(t, space[from])
  <2>1. space[t] = NilThread
    BY DEF copyAssociation, Fresh
  <2>2. image' = image
    BY DEF copyAssociation
  <2> QED BY <1>2, <2>1, <2>2 DEF copyAssociation, NewThread, TableInv, TypeOK
<1> QED BY <1>2, <1>3, <1>4 DEF copyAssociation, Start, Started

LEMMA StartAppIsUntold ==
    ASSUME TableInv, NEW t \in Threads, startTask_App(t)
    PROVE  StartUntold(t, t)
<1>1. image[t] = NoImage
  BY RamDsmAssumption DEF startTask_App, Fresh, TableInv, SpacesNamed
<1> QED BY <1>1 DEF startTask_App, Fresh, StartUntold, NewThread, loader, TableInv, TypeOK

LEMMA CreateAppIsUntold ==
    ASSUME TableInv, NEW from \in Threads, NEW t \in Threads, createThread_App(from, t)
    PROVE  space[from] \in Threads /\ StartUntold(t, space[from])
<1>1. from \in Started
  BY AliveStarted DEF createThread_App
<1>2. space[from] \in Started /\ space[space[from]] = space[from]
  BY <1>1 DEF TableInv, TypeOK, SpacesNamed, Started
<1> QED BY <1>2 DEF createThread_App, Fresh, StartUntold, NewThread, loader, TableInv, TypeOK, Started

\* Who was there stays where he was.
LEMMA NewThreadFacts ==
    ASSUME TableInv, NEW t \in Threads, NEW s \in Threads, NewThread(t, s)
    PROVE  /\ Started' = Started \cup {t} /\ t \notin Started
           /\ space'[t] = s /\ space'[s] = s
           /\ \A u \in Started : /\ u # t /\ space[u] \in Started
                                 /\ space'[u] = space[u]
                                 /\ image'[space[u]] = image[space[u]]
           /\ space' \in [Threads -> Threads \cup {NilThread}]
           /\ \A u \in Threads : fault'[u] # None => Alive(u)'
           /\ FaultsHere'
<1>1. Started' = Started \cup {t} /\ t \notin Started
  BY RamDsmAssumption DEF NewThread, Started, TableInv, TypeOK
<1>2. space' \in [Threads -> Threads \cup {NilThread}]
  BY DEF NewThread, TableInv, TypeOK
<1>3. space'[t] = s /\ space'[s] = s
  BY DEF NewThread, TableInv, TypeOK
<1>4. \A u \in Started : /\ u # t /\ space[u] \in Started
                         /\ space'[u] = space[u]
                         /\ image'[space[u]] = image[space[u]]
  <2> TAKE u \in Started
  <2>1. u # t
    BY <1>1
  <2>2. space[u] \in Threads /\ space[u] # t /\ space[u] \in Started
    BY <1>1 DEF NewThread, Started, TableInv, TypeOK, SpacesNamed
  <2> QED BY <2>1, <2>2 DEF NewThread, TableInv, TypeOK
<1>5. \A u \in Threads : fault'[u] # None => Alive(u)'
  BY DEF NewThread, TableInv, TypeOK, Alive
<1>6. FaultsHere'
  <2> SUFFICES ASSUME NEW u \in Threads, fault'[u] # None
               PROVE  u \in Served' \/ space'[u] # u
    BY DEF FaultsHere
  <2>1. fault[u] # None
    BY DEF NewThread
  <2>2. u \in Started
    BY <2>1, AliveStarted DEF TableInv, TypeOK
  <2>3. u \in Served \/ space[u] # u
    BY <2>1 DEF TableInv, FaultsHere
  <2> QED BY <1>1, <1>4, <2>2, <2>3 DEF Served
<1> QED BY <1>1, <1>2, <1>3, <1>4, <1>5, <1>6

LEMMA StartKeepsTable ==
    ASSUME TableInv, Serving, NEW t \in Threads, NEW s \in Threads, NEW m \in Ids,
           NEW after \in Reasons, Start(t, s, m, after)
    PROVE  TableInv'
<1> DEFINE e == [thread |-> t, module |-> m]
<1>1. e \in Associations
  BY DEF Associations
<1>2. \/ associationTable' = Append(associationTable, e) /\ Len(associationTable) < ASSOC_TABLE_SIZE - 1
         /\ status' = after
      \/ associationTable' = associationTable /\ ~ Serving'
  BY DEF Start, appendToAssociationTable, Serving
<1>3. NewThread(t, s)
  BY DEF Start
<1>4. /\ Started' = Started \cup {t} /\ t \notin Started
      /\ space'[t] = s /\ space'[s] = s
      /\ \A u \in Started : /\ u # t /\ space[u] \in Started
                            /\ space'[u] = space[u]
                            /\ image'[space[u]] = image[space[u]]
      /\ space' \in [Threads -> Threads \cup {NilThread}]
      /\ \A u \in Threads : fault'[u] # None => Alive(u)'
      /\ FaultsHere'
  BY <1>3, NewThreadFacts
<1>5. space'[t] = s /\ image'[s] = m
  BY <1>4 DEF Start
<1>6. TypeOK'
  <2>1. associationTable' \in Seq(Associations) /\ Len(associationTable') <= ASSOC_TABLE_SIZE
    <3>1. associationTable \in Seq(Associations) /\ Len(associationTable) <= ASSOC_TABLE_SIZE
      BY DEF TableInv, TypeOK
    <3>2. /\ Append(associationTable, e) \in Seq(Associations)
          /\ Len(Append(associationTable, e)) = Len(associationTable) + 1
      BY <1>1, <3>1, AppendProperties
    <3>3. Len(associationTable) \in Nat /\ ASSOC_TABLE_SIZE \in Nat
      BY <3>1, RamDsmAssumption
    <3> HIDE DEF e
    <3> QED BY <1>2, <3>1, <3>2, <3>3
  <2>2. status' \in Reasons
    BY DEF Start, appendToAssociationTable, Reasons
  <2> QED BY <1>3, <1>4, <2>1, <2>2 DEF NewThread, TableInv, TypeOK
<1>7. SpacesNamed'
  <2>1. \A u \in Started' : space'[space'[u]] = space'[u]
    <3> TAKE u \in Started'
    <3>1. CASE u \in Started
      BY <3>1, <1>4 DEF TableInv, SpacesNamed
    <3>2. CASE u = t
      BY <3>2, <1>4
    <3> QED BY <1>4, <3>1, <3>2
  <2>2. \A r \in Threads : image'[r] # NoImage => space'[r] = r
    <3> TAKE r \in Threads
    <3>1. CASE r # t
      BY <1>3, <3>1 DEF NewThread, TableInv, TypeOK, SpacesNamed
    <3>2. CASE r = t /\ s = t
      BY <1>4, <3>2
    <3>3. CASE r = t /\ s # t
      BY <1>3, <3>3, RamDsmAssumption DEF NewThread, TableInv, SpacesNamed
    <3> QED BY <3>1, <3>2, <3>3
  <2> QED BY <2>1, <2>2 DEF SpacesNamed
<1>8. EntriesRight'
  <2>1. \A i \in DOMAIN associationTable :
            /\ associationTable[i].thread \in Started'
            /\ associationTable[i].module = image'[space'[associationTable[i].thread]]
    BY <1>4 DEF TableInv, EntriesRight
  <2>2. ASSUME associationTable' = Append(associationTable, e), NEW i \in DOMAIN associationTable'
        PROVE  associationTable'[i] = e \/ (i \in DOMAIN associationTable /\ associationTable'[i] = associationTable[i])
    BY <1>1, <2>2 DEF TableInv, TypeOK
  <2>3. e.thread \in Started' /\ e.module = image'[space'[e.thread]]
    BY <1>4, <1>5
  <2> HIDE DEF e
  <2> QED BY <1>2, <2>1, <2>2, <2>3 DEF EntriesRight
<1>9. EveryoneKnown'
  <2> SUFFICES ASSUME Serving'
               PROVE  /\ \A u \in Served' : \E i \in DOMAIN associationTable' :
                            associationTable'[i].thread = u
                      /\ \A r \in Threads : image'[r] # NoImage =>
                            image'[r] \in Records /\ bootinfo'[image'[r]] = "module"
    BY DEF EveryoneKnown
  <2>1. associationTable' = Append(associationTable, e) /\ after = "serving"
    BY <1>2 DEF Serving
  <2>2. /\ \A i \in DOMAIN associationTable : i \in DOMAIN associationTable' /\ associationTable'[i] = associationTable[i]
        /\ Len(associationTable) + 1 \in DOMAIN associationTable'
        /\ associationTable'[Len(associationTable) + 1] = e
    BY <1>1, <2>1 DEF TableInv, TypeOK
  <2>3. ASSUME NEW u \in Served'
        PROVE  \E i \in DOMAIN associationTable' : associationTable'[i].thread = u
    <3>1. CASE u = t
      BY <2>2, <3>1
    <3>2. CASE u # t
      <4>1. u \in Served
        BY <1>4, <3>2 DEF Served
      <4> QED BY <2>2, <4>1 DEF TableInv, EveryoneKnown
    <3> QED BY <3>1, <3>2
  <2>4. ASSUME NEW r \in Threads, image'[r] # NoImage
        PROVE  image'[r] \in Records /\ bootinfo'[image'[r]] = "module"
    <3>1. bootinfo' = bootinfo
      BY <1>3 DEF NewThread
    <3>2. CASE r = s
      BY <1>5, <2>1, <3>1, <3>2 DEF Start
    <3>3. CASE r # s
      <4>1. image'[r] = image[r]
        BY <1>3, <3>3 DEF NewThread
      <4> QED BY <2>4, <3>1, <4>1 DEF TableInv, EveryoneKnown
    <3> QED BY <3>2, <3>3
  <2> QED BY <2>3, <2>4
<1> QED BY <1>4, <1>6, <1>7, <1>8, <1>9 DEF TableInv

LEMMA UntoldKeepsTable ==
    ASSUME TableInv, NEW t \in Threads, NEW s \in Threads, StartUntold(t, s)
    PROVE  TableInv'
<1>1. NewThread(t, s) /\ image' = image /\ UNCHANGED <<associationTable, status, bootinfo>>
      /\ image[s] = NoImage
  BY DEF StartUntold, NewThread
<1>2. /\ Started' = Started \cup {t} /\ t \notin Started
      /\ space'[t] = s /\ space'[s] = s
      /\ \A u \in Started : /\ u # t /\ space[u] \in Started
                            /\ space'[u] = space[u]
                            /\ image'[space[u]] = image[space[u]]
      /\ space' \in [Threads -> Threads \cup {NilThread}]
      /\ \A u \in Threads : fault'[u] # None => Alive(u)'
      /\ FaultsHere'
  BY <1>1, NewThreadFacts
<1>3. TypeOK'
  BY <1>1, <1>2 DEF NewThread, TableInv, TypeOK
<1>4. SpacesNamed'
  <2>1. \A u \in Started' : space'[space'[u]] = space'[u]
    BY <1>2 DEF TableInv, SpacesNamed
  <2>2. \A r \in Threads : image'[r] # NoImage => space'[r] = r
    <3> SUFFICES ASSUME NEW r \in Threads, image[r] # NoImage PROVE space'[r] = r
      BY <1>1
    <3>1. space[r] = r
      BY DEF TableInv, SpacesNamed
    <3>2. r \in Started
      BY <3>1, RamDsmAssumption DEF Started
    <3> QED BY <1>2, <3>1, <3>2
  <2> QED BY <2>1, <2>2 DEF SpacesNamed
<1>5. EntriesRight'
  BY <1>1, <1>2 DEF TableInv, EntriesRight
<1>6. Served' = Served
  BY <1>1, <1>2 DEF Served
<1>7. EveryoneKnown'
  BY <1>1, <1>6 DEF TableInv, EveryoneKnown, Serving
<1> QED BY <1>2, <1>3, <1>4, <1>5, <1>7 DEF TableInv

\* The thread that waits has been started, and its request names a record.
LEMMA FaultFacts ==
    ASSUME TableInv, Serving, NEW t \in Threads, fault[t] # None
    PROVE  /\ fault[t] \in VPages
           /\ space[t] \in Started /\ space[space[t]] = space[t]
           /\ getModuleId(t) \in Records
           /\ image[space[t]] # NoImage =>
                  getModuleId(t) = image[space[t]] /\ bootinfo[getModuleId(t)] = "module"
           /\ image[space[t]] = NoImage => getModuleId(t) = FirstModule /\ space[t] # t
<1>1. t \in Started
  BY AliveStarted DEF TableInv, TypeOK
<1>2. space[t] \in Started /\ space[space[t]] = space[t]
  BY <1>1 DEF TableInv, TypeOK, SpacesNamed, Started
<1>3. CASE t \in Served
  BY <1>2, <1>3, ModuleOfSpace DEF Served, TableInv, TypeOK
<1>4. CASE t \notin Served
  <2>1. getModuleId(t) = FirstModule /\ FirstModule \in Records
    BY <1>1, <1>4, ModuleOfStranger, RamDsmAssumption DEF Records, FirstModule
  <2>2. space[t] # t
    BY <1>4 DEF TableInv, FaultsHere
  <2> QED BY <1>1, <1>2, <1>4, <2>1, <2>2 DEF Served, TableInv, TypeOK
<1> QED BY <1>3, <1>4

\* A request that ends the loader leaves everything but the pages alone.
GivesUp ==
    /\ status' \in Reasons /\ ~ Serving'
    /\ available' \in SUBSET Pages
    /\ available' \subseteq available
    /\ UNCHANGED <<associationTable, content, bootinfo, kernel, image, raced>>

\* The answer to a fault, in which the names of the page and the place stand
\* for what the loader chose.
Answers(t, page, s, v, m) ==
    /\ s = space[t] /\ v = fault[t] /\ space[s] = s /\ fault[t] # None
    /\ image[s] # NoImage => m = image[s]
    /\ page \in Pages
    /\ available' = available \ {page}
    /\ content' = [content EXCEPT ![page] = Filled(Image[m], v)]
    /\ \/ bootinfo' = bootinfo
       \/ /\ \A r \in Threads : image[r] # m
          /\ bootinfo' = [bootinfo EXCEPT ![m] = "root"]
    /\ mapped' = [mapped EXCEPT ![s][v] = page]
    /\ fault' = [fault EXCEPT ![t] = None]
    /\ UNCHANGED <<associationTable, status, space, dead, image, raced>>

LEMMA PagefaultFacts ==
    ASSUME TableInv, Serving, NEW t \in Threads, pagefault(t)
    PROVE  \/ GivesUp
           \/ \E page \in available, s \in Started, v \in VPages, m \in Records :
                  Answers(t, page, s, v, m)
<1>1. PICK m : m = getModuleId(t)
  OBVIOUS
<1>2. fault[t] # None /\ UNCHANGED <<image, raced>>
  BY DEF pagefault
<1>3. /\ fault[t] \in VPages
      /\ space[t] \in Started /\ space[space[t]] = space[t]
      /\ m \in Records
      /\ image[space[t]] # NoImage => m = image[space[t]]
  BY <1>1, <1>2, FaultFacts
<1>4. CASE NoHeader(m) /\ UNCHANGED kernel
  BY <1>2, <1>4, HeaderIsReason DEF NoHeader, GivesUp, TableInv, TypeOK, Serving
<1>5. CASE OutOfMemory /\ UNCHANGED kernel
  BY <1>2, <1>5 DEF OutOfMemory, GivesUp, TableInv, TypeOK, Serving, Reasons
<1>6. CASE NoImageMemory(m) /\ UNCHANGED kernel
  BY <1>2, <1>6 DEF NoImageMemory, Taken, GivesUp, TableInv, TypeOK, Serving, Reasons
<1>7. CASE Answer(t, m)
  <2>1. available # {} /\ getFreePage \in available /\ getFreePage \in Pages
    BY <1>7, FreePageIsAvailable DEF Answer, TableInv
  <2>2. /\ available' = available \ {getFreePage}
        /\ content' = [content EXCEPT ![getFreePage] = Filled(Image[m], fault[t])]
        /\ bootinfo' = IF \E s \in Threads : image[s] = m THEN bootinfo
                       ELSE [bootinfo EXCEPT ![m] = "root"]
        /\ mapped' = [mapped EXCEPT ![space[t]][fault[t]] = getFreePage]
        /\ fault' = [fault EXCEPT ![t] = None]
        /\ UNCHANGED <<associationTable, status, space, dead>>
    BY <1>7 DEF Answer, Taken, Base
  <2>3. Answers(t, getFreePage, space[t], fault[t], m)
    BY <1>2, <1>3, <2>1, <2>2 DEF Answers
  <2> QED BY <1>3, <2>1, <2>3
<1> QED BY <1>1, <1>4, <1>5, <1>6, <1>7 DEF pagefault

LEMMA GivesUpKeepsTable ==
    ASSUME TableInv, GivesUp
    PROVE  TableInv'
<1>1. TypeOK'
  BY DEF TableInv, TypeOK, GivesUp, kernel, Alive
<1> QED BY <1>1 DEF TableInv, GivesUp, kernel, SpacesNamed, EntriesRight,
                    EveryoneKnown, FaultsHere, Started, Served

LEMMA AnswerKeepsTable ==
    ASSUME TableInv, NEW t \in Threads, NEW page \in available, NEW s \in Started,
           NEW v \in VPages, NEW m \in Records, Answers(t, page, s, v, m)
    PROVE  TableInv'
<1>1. s \in Threads
  BY DEF Started
<1>2. mapped' \in [Threads -> [VPages -> Pages \cup {NilPage}]]
  BY <1>1 DEF Answers, TableInv, TypeOK
<1>3. content' \in [Pages -> [Bytes -> Nat]]
  <2>1. Filled(Image[m], v) \in [Bytes -> Nat]
    BY FilledType
  <2> QED BY <2>1 DEF Answers, TableInv, TypeOK
<1>4. bootinfo' \in [Records -> Kinds]
  BY DEF Answers, TableInv, TypeOK, Kinds
<1>5. \A u \in Threads : fault'[u] # None => Alive(u)'
  BY DEF Answers, TableInv, TypeOK, Alive
<1>6. TypeOK'
  BY <1>2, <1>3, <1>4, <1>5 DEF Answers, TableInv, TypeOK
<1>7. FaultsHere'
  BY DEF Answers, TableInv, TypeOK, FaultsHere, Served, Started
<1>8. EveryoneKnown'
  <2>1. \A r \in Threads : image[r] # NoImage /\ image[r] \in Records
                              => bootinfo'[image[r]] = bootinfo[image[r]]
    BY DEF Answers, TableInv, TypeOK
  <2>2. UNCHANGED <<associationTable, status, space, image>>
    BY DEF Answers
  <2> QED BY <2>1, <2>2 DEF TableInv, EveryoneKnown, Serving, Served, Started
<1> QED BY <1>6, <1>7, <1>8 DEF Answers, TableInv, SpacesNamed, EntriesRight, Started

LEMMA TouchKeepsTable ==
    ASSUME TableInv, NEW t \in Threads, NEW v \in VPages, Touch(t, v)
    PROVE  TableInv'
<1>1. t \in Started /\ space[t] \in Threads
  BY AliveStarted DEF Touch, TableInv, TypeOK, Started
<1>2. raced' \in SUBSET (Threads \X VPages)
  BY <1>1 DEF Touch, TableInv, TypeOK
<1>3. fault' \in [Threads -> VPages \cup {None}]
  BY DEF Touch, TableInv, TypeOK
<1>4. \A u \in Threads : fault'[u] # None => Alive(u)'
  BY DEF Touch, TableInv, TypeOK, Alive
<1>5. TypeOK'
  BY <1>2, <1>3, <1>4 DEF Touch, TableInv, TypeOK, loader
<1>6. FaultsHere'
  BY <1>1 DEF Touch, TableInv, TypeOK, FaultsHere, Served, Started
<1> QED BY <1>5, <1>6 DEF Touch, loader, TableInv, SpacesNamed, EntriesRight, EveryoneKnown,
                          Started, Served, Serving

LEMMA KillKeepsTable ==
    ASSUME TableInv, NEW t \in Threads, Kill(t)
    PROVE  TableInv'
<1>1. mapped' \in [Threads -> [VPages -> Pages \cup {NilPage}]]
  BY DEF Kill, TableInv, TypeOK
<1>2. \A u \in Threads : fault'[u] # None => Alive(u)'
  BY DEF Kill, TableInv, TypeOK, Alive
<1>3. TypeOK'
  BY <1>1, <1>2 DEF Kill, TableInv, TypeOK, loader
<1>4. FaultsHere'
  BY DEF Kill, TableInv, TypeOK, FaultsHere, Served, Started
<1> QED BY <1>3, <1>4 DEF Kill, loader, TableInv, SpacesNamed, EntriesRight, EveryoneKnown,
                          Started, Served, Serving

LEMMA TableInvStep == TableInv /\ [Next]_vars => TableInv'
<1> SUFFICES ASSUME TableInv, [Next]_vars
             PROVE  TableInv'
  OBVIOUS
<1>1. ASSUME Serving, NEW t \in Threads, NEW m \in Ids, associateImage(t, m)
      PROVE  TableInv'
  BY <1>1, AssociateIsStart, StartKeepsTable
<1>2. ASSUME Serving, NEW from \in Threads, NEW t \in Threads, copyAssociation(from, t)
      PROVE  TableInv'
  <2>1. "serving" \in Reasons
    BY DEF Reasons
  <2> QED BY <1>2, <2>1, CopyIsStart, StartKeepsTable
<1>3. ASSUME NEW t \in Threads, startTask_App(t)
      PROVE  TableInv'
  BY <1>3, StartAppIsUntold, UntoldKeepsTable
<1>4. ASSUME NEW from \in Threads, NEW t \in Threads, createThread_App(from, t)
      PROVE  TableInv'
  BY <1>4, CreateAppIsUntold, UntoldKeepsTable
<1>5. ASSUME Serving, NEW t \in Threads, pagefault(t)
      PROVE  TableInv'
  BY <1>5, PagefaultFacts, GivesUpKeepsTable, AnswerKeepsTable
<1>6. ASSUME NEW t \in Threads, NEW v \in VPages, Touch(t, v)
      PROVE  TableInv'
  BY <1>6, TouchKeepsTable
<1>7. ASSUME NEW t \in Threads, Kill(t)
      PROVE  TableInv'
  BY <1>7, KillKeepsTable
<1>8. CASE UNCHANGED vars
  <2>1. TypeOK'
    BY <1>8 DEF vars, loader, kernel, TableInv, TypeOK, Alive
  <2> QED BY <1>8, <2>1 DEF vars, loader, kernel, TableInv, SpacesNamed, EntriesRight,
              EveryoneKnown, FaultsHere, Started, Served, Serving
<1> QED BY <1>1, <1>2, <1>3, <1>4, <1>5, <1>6, <1>7, <1>8 DEF Next

LEMMA TableInvInit == Init => TableInv
<1> SUFFICES ASSUME Init
             PROVE  TableInv
  OBVIOUS
<1>1. Started = {} /\ Served = {}
  BY DEF Init, Started, Served
<1>2. TypeOK
  <2>1. ZeroPage \in [Bytes -> Nat] /\ bootinfo \in [Records -> Kinds]
    BY RamDsmAssumption DEF Init, ZeroPage
  <2> QED BY <2>1, RamDsmAssumption DEF Init, TypeOK, Reasons, Associations, Alive
<1>3. DOMAIN associationTable = {}
  BY DEF Init
<1>4. SpacesNamed /\ FaultsHere
  BY <1>1 DEF Init, SpacesNamed, FaultsHere
<1> QED BY <1>1, <1>2, <1>3, <1>4 DEF Init, TableInv, EntriesRight, EveryoneKnown

\* main.cc and bielfloader.cc: every table and every field of the kernel keeps
\* its type, the association table stays within its 64 entries, and only
\* threads that are alive wait for a page.
THEOREM RamDsmTypeCorrect == Spec => []TypeOK
<1>1. Spec => []TableInv
  BY TableInvInit, TableInvStep, PTL DEF Spec
<1>2. TableInv => TypeOK
  BY DEF TableInv
<1> QED BY <1>1, <1>2, PTL

-----------------------------------------------------------------------------
\* Only spaces that exist have pages, each behind one place and no longer
\* free, and filled for that place: the inductive invariant of the pages.
OnlyInSpaces ==
    \A s \in Threads, v \in VPages : mapped[s][v] # NilPage => space[s] = s
FilledFor ==
    \A s \in Threads, v \in VPages :
        mapped[s][v] # NilPage /\ image[s] # NoImage =>
            content[mapped[s][v]] = Filled(Image[image[s]], v)
PagesInv == OnlyInSpaces /\ PagesOnce /\ FilledFor

LEMMA PagesInvInit == Init => PagesInv
BY DEF Init, PagesInv, OnlyInSpaces, PagesOnce, FilledFor

LEMMA NewThreadKeepsPages ==
    ASSUME TableInv, PagesInv, NEW t \in Threads, NEW s \in Threads, NewThread(t, s)
    PROVE  PagesInv'
<1>1. \A r \in Threads : space[r] = r => /\ r # t
                                        /\ space'[r] = r
                                        /\ image'[r] = image[r]
  BY RamDsmAssumption DEF NewThread, TableInv, TypeOK
<1>2. UNCHANGED <<mapped, content, available>>
  BY DEF NewThread
<1>3. OnlyInSpaces'
  BY <1>1, <1>2 DEF PagesInv, OnlyInSpaces
<1>4. PagesOnce'
  BY <1>2 DEF PagesInv, PagesOnce
<1>5. FilledFor'
  BY <1>1, <1>2 DEF PagesInv, OnlyInSpaces, FilledFor
<1> QED BY <1>3, <1>4, <1>5 DEF PagesInv

LEMMA GivesUpKeepsPages ==
    ASSUME PagesInv, GivesUp
    PROVE  PagesInv'
BY DEF GivesUp, kernel, PagesInv, OnlyInSpaces, PagesOnce, FilledFor

LEMMA AnswerKeepsPages ==
    ASSUME TableInv, PagesInv, NEW t \in Threads, NEW page \in available, NEW s \in Started,
           NEW v \in VPages, NEW m \in Records, Answers(t, page, s, v, m)
    PROVE  PagesInv'
<1>1. /\ image[s] # NoImage => m = image[s]
      /\ space[s] = s /\ page \in Pages
      /\ available' = available \ {page}
      /\ content' = [content EXCEPT ![page] = Filled(Image[m], v)]
      /\ mapped' = [mapped EXCEPT ![s][v] = page]
      /\ UNCHANGED <<space, image>>
  BY DEF Answers
<1>2. s \in Threads
  BY DEF Started
<1>3. page # NilPage
  BY <1>1, RamDsmAssumption
<1>4. mapped'[s][v] = page
  BY <1>1, <1>2 DEF TableInv, TypeOK
<1>5. \A r \in Threads, w \in VPages : <<r, w>> # <<s, v>> => mapped'[r][w] = mapped[r][w]
  BY <1>1, <1>2 DEF TableInv, TypeOK
<1>6. \A r \in Threads, w \in VPages : mapped[r][w] # page
  BY <1>1, <1>3 DEF PagesInv, PagesOnce
<1>7. OnlyInSpaces'
  BY <1>1, <1>4, <1>5 DEF PagesInv, OnlyInSpaces
<1>8. PagesOnce'
  BY <1>1, <1>4, <1>5, <1>6 DEF PagesInv, PagesOnce
<1>9. FilledFor'
  <2> SUFFICES ASSUME NEW r \in Threads, NEW w \in VPages, mapped'[r][w] # NilPage,
                      image[r] # NoImage
               PROVE  content'[mapped'[r][w]] = Filled(Image[image[r]], w)
    BY <1>1 DEF FilledFor
  <2>1. CASE <<r, w>> = <<s, v>>
    BY <2>1, <1>1, <1>4 DEF TableInv, TypeOK
  <2>2. CASE <<r, w>> # <<s, v>>
    <3>1. mapped'[r][w] = mapped[r][w] /\ mapped[r][w] # page /\ mapped[r][w] \in Pages
      BY <2>2, <1>5, <1>6 DEF TableInv, TypeOK
    <3>2. content'[mapped[r][w]] = content[mapped[r][w]]
      BY <3>1, <1>1 DEF TableInv, TypeOK
    <3> QED BY <3>1, <3>2 DEF PagesInv, FilledFor
  <2> QED BY <2>1, <2>2
<1> QED BY <1>7, <1>8, <1>9 DEF PagesInv

LEMMA KillKeepsPages ==
    ASSUME TableInv, PagesInv, NEW t \in Threads, Kill(t)
    PROVE  PagesInv'
<1>1. \A r \in Threads, w \in VPages : mapped'[r][w] # NilPage => mapped'[r][w] = mapped[r][w]
  <2>1. CASE mapped' = mapped
    BY <2>1
  <2>2. CASE mapped' = [mapped EXCEPT ![space[t]] = [v \in VPages |-> NilPage]]
    BY <2>2 DEF TableInv, TypeOK
  <2> QED BY <2>1, <2>2 DEF Kill
<1>2. UNCHANGED <<content, available, space, image>>
  BY DEF Kill, loader
<1>3. OnlyInSpaces'
  BY <1>1, <1>2 DEF PagesInv, OnlyInSpaces
<1>4. PagesOnce'
  BY <1>1, <1>2 DEF PagesInv, PagesOnce
<1>5. FilledFor'
  BY <1>1, <1>2 DEF PagesInv, FilledFor
<1> QED BY <1>3, <1>4, <1>5 DEF PagesInv

LEMMA PagesInvStep == TableInv /\ PagesInv /\ [Next]_vars => PagesInv'
<1> SUFFICES ASSUME TableInv, PagesInv, [Next]_vars
             PROVE  PagesInv'
  OBVIOUS
<1>1. ASSUME Serving, NEW t \in Threads, NEW m \in Ids, associateImage(t, m)
      PROVE  PagesInv'
  BY <1>1, AssociateIsStart, NewThreadKeepsPages DEF Start
<1>2. ASSUME Serving, NEW from \in Threads, NEW t \in Threads, copyAssociation(from, t)
      PROVE  PagesInv'
  BY <1>2, CopyIsStart, NewThreadKeepsPages DEF Start
<1>3. ASSUME NEW t \in Threads, startTask_App(t)
      PROVE  PagesInv'
  BY <1>3, StartAppIsUntold, NewThreadKeepsPages DEF StartUntold
<1>4. ASSUME NEW from \in Threads, NEW t \in Threads, createThread_App(from, t)
      PROVE  PagesInv'
  BY <1>4, CreateAppIsUntold, NewThreadKeepsPages DEF StartUntold
<1>5. ASSUME Serving, NEW t \in Threads, pagefault(t)
      PROVE  PagesInv'
  BY <1>5, PagefaultFacts, GivesUpKeepsPages, AnswerKeepsPages
<1>6. ASSUME NEW t \in Threads, NEW v \in VPages, Touch(t, v)
      PROVE  PagesInv'
  BY <1>6 DEF Touch, loader, PagesInv, OnlyInSpaces, PagesOnce, FilledFor
<1>7. ASSUME NEW t \in Threads, Kill(t)
      PROVE  PagesInv'
  BY <1>7, KillKeepsPages
<1>8. CASE UNCHANGED vars
  BY <1>8 DEF vars, loader, kernel, PagesInv, OnlyInSpaces, PagesOnce, FilledFor
<1> QED BY <1>1, <1>2, <1>3, <1>4, <1>5, <1>6, <1>7, <1>8 DEF Next

\* Both invariants together.
LEMMA RamDsmInv == Spec => [](TableInv /\ PagesInv)
BY TableInvInit, TableInvStep, PagesInvInit, PagesInvStep, PTL DEF Spec

\* bielfloader.cc:55, getFreePage: a page that is mapped is behind one place of
\* one space and is never handed out again, for any number of threads, spaces
\* and pages.
THEOREM PagesHandedOutOnce == Spec => []PagesOnce
<1>1. PagesInv => PagesOnce
  BY DEF PagesInv
<1> QED BY <1>1, RamDsmInv, PTL

\* bielfloader.cc:47, :95 and :217: a page shows, byte for byte, the module its
\* space was started from, whichever thread of the space faulted and however it
\* came about; behind a file part it shows what comes next in the image.
THEOREM PagesFromOwnModule == Spec => []PagesShowOwnImage
<1>1. PagesInv => PagesShowOwnImage
  <2> SUFFICES ASSUME PagesInv, NEW s \in Threads, NEW v \in VPages,
                      mapped[s][v] # NilPage, image[s] \in Modules
               PROVE  content[mapped[s][v]] = AsLoaded(Image[image[s]], v)
    BY DEF PagesShowOwnImage
  <2>1. image[s] # NoImage /\ image[s] \in Records /\ v \in PageStarts
    BY RamDsmAssumption DEF Modules, Records, NoImage
  <2>2. content[mapped[s][v]] = Filled(Image[image[s]], v)
    BY <2>1 DEF PagesInv, FilledFor
  <2>3. Image[image[s]] \in Seq(Phdrs) /\ WellFormed(Image[image[s]])
    BY <2>1, RamDsmAssumption
  <2>4. Filled(Image[image[s]], v) = AsLoaded(Image[image[s]], v)
    BY <2>1, <2>3, FilledAsLoaded
  <2> QED BY <2>2, <2>4
<1> QED BY <1>1, RamDsmInv, PTL

-----------------------------------------------------------------------------
\* Two threads that wait for one page of their space, and a thread that waits
\* for a page that is there by now, are known as a race.
RaceKnown ==
    \A t \in Threads : fault[t] # None =>
        \/ <<space[t], fault[t]>> \in raced
        \/ /\ mapped[space[t]][fault[t]] = NilPage
           /\ \A u \in Threads \ {t} : ~ (space[u] = space[t] /\ fault[u] = fault[t])

LEMMA NewThreadKeepsRaces ==
    ASSUME TableInv, RaceKnown, NEW t \in Threads, NEW s, NewThread(t, s)
    PROVE  RaceKnown'
<1>1. UNCHANGED <<mapped, fault, raced>>
  BY DEF NewThread
<1>2. \A u \in Threads : fault[u] # None => u # t /\ space'[u] = space[u]
  BY DEF NewThread, TableInv, TypeOK, Alive
<1> QED BY <1>1, <1>2 DEF RaceKnown, TableInv, TypeOK

LEMMA AnswerKeepsRaces ==
    ASSUME TableInv, RaceKnown, NEW t \in Threads, NEW page \in available, NEW s \in Started,
           NEW v \in VPages, NEW m \in Records, Answers(t, page, s, v, m)
    PROVE  RaceKnown'
<1>1. /\ s = space[t] /\ v = fault[t] /\ fault[t] # None
      /\ mapped' = [mapped EXCEPT ![s][v] = page]
      /\ fault' = [fault EXCEPT ![t] = None]
      /\ UNCHANGED <<space, raced>>
  BY DEF Answers
<1>2. s \in Threads
  BY DEF Started
<1> SUFFICES ASSUME NEW u \in Threads, fault'[u] # None, <<space[u], fault'[u]>> \notin raced
             PROVE  /\ mapped'[space[u]][fault'[u]] = NilPage
                    /\ \A w \in Threads \ {u} : ~ (space[w] = space[u] /\ fault'[w] = fault'[u])
  BY <1>1 DEF RaceKnown
<1>3. u # t /\ fault'[u] = fault[u]
  BY <1>1 DEF TableInv, TypeOK
<1>4. /\ mapped[space[u]][fault[u]] = NilPage
      /\ \A w \in Threads \ {u} : ~ (space[w] = space[u] /\ fault[w] = fault[u])
  BY <1>3 DEF RaceKnown
<1>5. \A w \in Threads : fault'[w] = fault[w] \/ fault'[w] = None
  BY <1>1 DEF TableInv, TypeOK
<1>6. <<space[u], fault[u]>> # <<s, v>>
  BY <1>1, <1>3, <1>4
<1>7. space[u] \in Threads /\ fault[u] \in VPages
  BY <1>3, AliveStarted DEF TableInv, TypeOK, Started
<1>8. mapped'[space[u]][fault[u]] = mapped[space[u]][fault[u]]
  BY <1>1, <1>2, <1>6, <1>7 DEF TableInv, TypeOK
<1> QED BY <1>3, <1>4, <1>5, <1>8

LEMMA TouchKeepsRaces ==
    ASSUME TableInv, RaceKnown, NEW t \in Threads, NEW v \in VPages, Touch(t, v)
    PROVE  RaceKnown'
<1>1. fault[t] = None /\ v # None /\ fault' = [fault EXCEPT ![t] = v]
  <2>1. v \in 0 .. Word - PageSize
    BY RamDsmAssumption DEF PageStarts
  <2>2. v # None
    BY <2>1, ElfPageAssumption DEF None
  <2> QED BY <2>2 DEF Touch
<1>2. UNCHANGED <<mapped, space>> /\ raced \subseteq raced'
  BY DEF Touch
<1> SUFFICES ASSUME NEW u \in Threads, fault'[u] # None, <<space[u], fault'[u]>> \notin raced'
             PROVE  /\ mapped[space[u]][fault'[u]] = NilPage
                    /\ \A w \in Threads \ {u} : ~ (space[w] = space[u] /\ fault'[w] = fault'[u])
  BY <1>2 DEF RaceKnown
<1>3. fault'[t] = v /\ \A w \in Threads \ {t} : fault'[w] = fault[w]
  BY <1>1 DEF TableInv, TypeOK
<1>4. CASE u = t
  <2>1. \A w \in Threads : ~ (space[w] = space[t] /\ fault[w] = v)
    BY <1>3, <1>4 DEF Touch
  <2> QED BY <1>3, <1>4, <2>1 DEF Touch
<1>5. CASE u # t
  <2>1. /\ mapped[space[u]][fault[u]] = NilPage
        /\ \A w \in Threads \ {u} : ~ (space[w] = space[u] /\ fault[w] = fault[u])
    BY <1>2, <1>3, <1>5 DEF RaceKnown
  <2>2. ~ (space[t] = space[u] /\ v = fault[u])
    BY <1>3, <1>5 DEF Touch
  <2> QED BY <1>3, <1>5, <2>1, <2>2
<1> QED BY <1>4, <1>5

LEMMA KillKeepsRaces ==
    ASSUME TableInv, RaceKnown, NEW t \in Threads, Kill(t)
    PROVE  RaceKnown'
<1>1. UNCHANGED <<space, raced>> /\ fault' = [fault EXCEPT ![t] = None]
  BY DEF Kill
<1>2. \A u \in Threads : fault'[u] # None => u # t /\ fault'[u] = fault[u]
  BY <1>1 DEF TableInv, TypeOK
<1>3. \A r \in Threads, w \in VPages : mapped'[r][w] = mapped[r][w] \/ mapped'[r][w] = NilPage
  BY DEF Kill, TableInv, TypeOK
<1>4. \A u \in Threads : fault[u] # None => space[u] \in Threads /\ fault[u] \in VPages
  BY AliveStarted DEF TableInv, TypeOK, Started
<1> QED BY <1>1, <1>2, <1>3, <1>4 DEF RaceKnown

LEMMA RaceKnownStep == TableInv /\ RaceKnown /\ [Next]_vars => RaceKnown'
<1> SUFFICES ASSUME TableInv, RaceKnown, [Next]_vars
             PROVE  RaceKnown'
  OBVIOUS
<1>1. ASSUME Serving, NEW t \in Threads, NEW m \in Ids, associateImage(t, m)
      PROVE  RaceKnown'
  BY <1>1, AssociateIsStart, NewThreadKeepsRaces DEF Start
<1>2. ASSUME Serving, NEW from \in Threads, NEW t \in Threads, copyAssociation(from, t)
      PROVE  RaceKnown'
  BY <1>2, CopyIsStart, NewThreadKeepsRaces DEF Start
<1>3. ASSUME NEW t \in Threads, startTask_App(t)
      PROVE  RaceKnown'
  BY <1>3, StartAppIsUntold, NewThreadKeepsRaces DEF StartUntold
<1>4. ASSUME NEW from \in Threads, NEW t \in Threads, createThread_App(from, t)
      PROVE  RaceKnown'
  BY <1>4, CreateAppIsUntold, NewThreadKeepsRaces DEF StartUntold
<1>5. ASSUME Serving, NEW t \in Threads, pagefault(t)
      PROVE  RaceKnown'
  <2>1. GivesUp => RaceKnown'
    BY DEF GivesUp, kernel, RaceKnown
  <2> QED BY <1>5, <2>1, PagefaultFacts, AnswerKeepsRaces
<1>6. ASSUME NEW t \in Threads, NEW v \in VPages, Touch(t, v)
      PROVE  RaceKnown'
  BY <1>6, TouchKeepsRaces
<1>7. ASSUME NEW t \in Threads, Kill(t)
      PROVE  RaceKnown'
  BY <1>7, KillKeepsRaces
<1>8. CASE UNCHANGED vars
  BY <1>8 DEF vars, loader, kernel, RaceKnown
<1> QED BY <1>1, <1>2, <1>3, <1>4, <1>5, <1>6, <1>7, <1>8 DEF Next

\* A page of a space is replaced only by a step that answers a race.
LEMMA ReplacedByRace ==
    ASSUME TableInv, RaceKnown, [Next]_vars,
           NEW s \in Threads, NEW v \in VPages,
           mapped[s][v] # NilPage, mapped'[s][v] # mapped[s][v], mapped'[s][v] # NilPage
    PROVE  <<s, v>> \in raced
<1>1. Serving /\ Next
  BY DEF vars, kernel, Next
<1>2. ASSUME NEW t \in Threads, pagefault(t)
      PROVE  <<s, v>> \in raced
  <2>1. ~ GivesUp
    BY DEF GivesUp, kernel
  <2>2. PICK page \in available, r \in Started, w \in VPages, m \in Records :
               Answers(t, page, r, w, m)
    BY <1>1, <1>2, <2>1, PagefaultFacts
  <2>3. r = space[t] /\ w = fault[t] /\ fault[t] # None
        /\ mapped' = [mapped EXCEPT ![r][w] = page]
    BY <2>2 DEF Answers
  <2>4. r = s /\ w = v
    BY <2>3 DEF TableInv, TypeOK
  <2> QED BY <2>3, <2>4 DEF RaceKnown
<1>3. ASSUME NEW t \in Threads, Kill(t)
      PROVE  FALSE
  BY <1>3 DEF Kill, TableInv, TypeOK
<1>4. ASSUME NEW t \in Threads, NEW m \in Ids, associateImage(t, m)
      PROVE  FALSE
  BY <1>4 DEF associateImage
<1>5. ASSUME NEW from \in Threads, NEW t \in Threads, copyAssociation(from, t)
      PROVE  FALSE
  BY <1>5 DEF copyAssociation
<1>6. ASSUME NEW t \in Threads, startTask_App(t)
      PROVE  FALSE
  BY <1>6 DEF startTask_App
<1>7. ASSUME NEW from \in Threads, NEW t \in Threads, createThread_App(from, t)
      PROVE  FALSE
  BY <1>7 DEF createThread_App
<1>8. ASSUME NEW t \in Threads, NEW w \in VPages, Touch(t, w)
      PROVE  FALSE
  BY <1>8 DEF Touch
<1> QED BY <1>1, <1>2, <1>3, <1>4, <1>5, <1>6, <1>7, <1>8 DEF Next

\* bielfloader.cc:115: a page of a space is replaced under its threads only
\* when two of them waited for that page at the same time.
THEOREM ReplacedOnlyByRace == Spec => ReplacedOnlyInRace
<1>1. Init => RaceKnown
  BY DEF Init, RaceKnown
<1>2. Spec => [](TableInv /\ RaceKnown)
  BY <1>1, RaceKnownStep, TableInvInit, TableInvStep, PTL DEF Spec
<1>3. TableInv /\ RaceKnown /\ [Next]_vars =>
        [\A s \in Threads, v \in VPages :
            (/\ mapped[s][v] # NilPage
             /\ mapped'[s][v] # mapped[s][v]
             /\ mapped'[s][v] # NilPage) => <<s, v>> \in raced]_vars
  BY ReplacedByRace
<1> QED BY <1>2, <1>3, PTL DEF Spec, ReplacedOnlyInRace

-----------------------------------------------------------------------------
\* The table has no more entries than threads of boot modules were started.
TableCounted == IsFiniteSet(Served) /\ Len(associationTable) <= Cardinality(Served)

LEMMA StartKeepsCount ==
    ASSUME TableInv, TableCounted, NEW t \in Threads, NEW s \in Threads, NEW m \in Ids,
           NEW after, Start(t, s, m, after)
    PROVE  /\ TableCounted'
           /\ Cardinality(Served') = Cardinality(Served) + 1
<1>1. Served' = Served \cup {t} /\ t \notin Served
  <2>1. /\ Started' = Started \cup {t} /\ t \notin Started
        /\ space'[t] = s
        /\ \A u \in Started : u # t /\ space'[u] = space[u]
                              /\ image'[space[u]] = image[space[u]]
    BY NewThreadFacts DEF Start
  <2>2. image'[s] # NoImage
    BY RamDsmAssumption DEF Start, NoImage
  <2> QED BY <2>1, <2>2 DEF Served
<1>2. /\ IsFiniteSet(Served') /\ Cardinality(Served) \in Nat
      /\ Cardinality(Served') = Cardinality(Served) + 1
  BY <1>1, FS_AddElement, FS_CardinalityType DEF TableCounted
<1>3. Len(associationTable') \in {Len(associationTable), Len(associationTable) + 1}
  <2>1. [thread |-> t, module |-> m] \in Associations /\ associationTable \in Seq(Associations)
    BY DEF Associations, TableInv, TypeOK
  <2>2. Len(Append(associationTable, [thread |-> t, module |-> m])) = Len(associationTable) + 1
    BY <2>1, AppendProperties
  <2>3. associationTable' \in {associationTable, Append(associationTable, [thread |-> t, module |-> m])}
    BY DEF Start, appendToAssociationTable
  <2> QED BY <2>2, <2>3
<1>4. Len(associationTable) \in Nat
  BY DEF TableInv, TypeOK
<1> QED BY <1>2, <1>3, <1>4 DEF TableCounted

LEMMA UntoldKeepsCount ==
    ASSUME TableInv, NEW t \in Threads, NEW s \in Threads, StartUntold(t, s)
    PROVE  UNCHANGED <<Served, associationTable>>
<1>1. /\ Started' = Started \cup {t} /\ t \notin Started
      /\ space'[t] = s
      /\ \A u \in Started : u # t /\ space'[u] = space[u]
  BY NewThreadFacts DEF StartUntold
<1> QED BY <1>1 DEF StartUntold, Served

LEMMA TableCountedStep == TableInv /\ TableCounted /\ [Next]_vars => TableCounted'
<1> SUFFICES ASSUME TableInv, TableCounted, [Next]_vars
             PROVE  TableCounted'
  OBVIOUS
<1>1. ASSUME Serving, NEW t \in Threads, NEW m \in Ids, associateImage(t, m)
      PROVE  TableCounted'
  BY <1>1, AssociateIsStart, StartKeepsCount
<1>2. ASSUME Serving, NEW from \in Threads, NEW t \in Threads, copyAssociation(from, t)
      PROVE  TableCounted'
  BY <1>2, CopyIsStart, StartKeepsCount
<1>3. ASSUME UNCHANGED <<Served, associationTable>>
      PROVE  TableCounted'
  BY <1>3 DEF TableCounted
<1>4. ASSUME UNCHANGED <<space, image, associationTable>>
      PROVE  TableCounted'
  BY <1>3, <1>4 DEF Served, Started
<1>5. ASSUME NEW t \in Threads, startTask_App(t)
      PROVE  TableCounted'
  BY <1>3, <1>5, StartAppIsUntold, UntoldKeepsCount
<1>6. ASSUME NEW from \in Threads, NEW t \in Threads, createThread_App(from, t)
      PROVE  TableCounted'
  BY <1>3, <1>6, CreateAppIsUntold, UntoldKeepsCount
<1>7. ASSUME Serving, NEW t \in Threads, pagefault(t)
      PROVE  TableCounted'
  BY <1>4, <1>7, PagefaultFacts DEF GivesUp, Answers, kernel
<1>8. ASSUME NEW t \in Threads, NEW v \in VPages, Touch(t, v)
      PROVE  TableCounted'
  BY <1>4, <1>8 DEF Touch, loader
<1>9. ASSUME NEW t \in Threads, Kill(t)
      PROVE  TableCounted'
  BY <1>4, <1>9 DEF Kill, loader
<1>10. CASE UNCHANGED vars
  BY <1>4, <1>10 DEF vars, loader, kernel
<1> QED BY <1>1, <1>2, <1>5, <1>6, <1>7, <1>8, <1>9, <1>10 DEF Next

\* A loader that serves gives up only with one of the four reasons.
LEMMA PanicStep ==
    TableInv /\ TableCounted /\ PanicOnlyExhausted /\ [Next]_vars => PanicOnlyExhausted'
<1> SUFFICES ASSUME TableInv, TableCounted, PanicOnlyExhausted, [Next]_vars, ~ Serving'
             PROVE  PanicOnlyExhausted'
  BY DEF PanicOnlyExhausted
<1>1. ASSUME NEW t \in Threads, NEW s \in Threads, NEW m \in Ids, NEW after,
             Start(t, s, m, after), status' # after
      PROVE  PanicOnlyExhausted'
  <2>1. Len(associationTable) >= ASSOC_TABLE_SIZE - 1
    <3>1. Len(associationTable) \in Nat /\ ASSOC_TABLE_SIZE \in Nat
      BY RamDsmAssumption DEF TableInv, TypeOK
    <3>2. ~ (Len(associationTable) < ASSOC_TABLE_SIZE - 1)
      BY <1>1 DEF Start, appendToAssociationTable
    <3> QED BY <3>1, <3>2
  <2>2. Cardinality(Served') = Cardinality(Served) + 1 /\ TableCounted'
    BY <1>1, StartKeepsCount
  <2>3. Cardinality(Served') >= ASSOC_TABLE_SIZE
    <3>1. Len(associationTable) \in Nat /\ ASSOC_TABLE_SIZE \in Nat /\ Cardinality(Served) \in Nat
      BY RamDsmAssumption, FS_CardinalityType DEF TableInv, TypeOK, TableCounted
    <3>2. Len(associationTable) <= Cardinality(Served)
      BY DEF TableCounted
    <3> QED BY <2>1, <2>2, <3>1, <3>2
  <2>4. Served' = {u \in Threads : space'[u] # NilThread /\ image'[space'[u]] # NoImage}
    BY DEF Served, Started
  <2> QED BY <2>3, <2>4 DEF PanicOnlyExhausted
<1>2. ASSUME Serving, NEW t \in Threads, NEW m \in Ids, associateImage(t, m)
      PROVE  PanicOnlyExhausted'
  <2>1. CASE m \in Records /\ bootinfo[m] = "module"
    <3>1. m <= Entries /\ bootinfo[m] \notin {"root", "taken", "other"}
      BY <2>1, RamDsmAssumption DEF Records
    <3>2. Header(m) = "serving"
      BY <2>1, <3>1, RamDsmAssumption DEF Header, Records
    <3>3. Start(t, t, m, "serving")
      <4>1. appendToAssociationTable(t, m, "serving")
        BY <1>2, <3>1, <3>2 DEF associateImage
      <4>2. NewThread(t, t) /\ image'[t] = m
        BY <1>2, AssociateIsStart DEF Start
      <4> QED BY <2>1, <4>1, <4>2 DEF Start
    <3> QED BY <3>3, <1>1 DEF Serving
  <2>2. CASE ~ (m \in Records /\ bootinfo[m] = "module")
    <3>1. image'[t] = m /\ bootinfo' = bootinfo
      BY <1>2 DEF associateImage, TableInv, TypeOK
    <3>2. m # NoImage /\ (m \notin Records => m > Entries)
      BY RamDsmAssumption DEF NoImage, Records
    <3> QED BY <2>2, <3>1, <3>2 DEF PanicOnlyExhausted
  <2> QED BY <2>1, <2>2
<1>3. ASSUME Serving, NEW from \in Threads, NEW t \in Threads, copyAssociation(from, t)
      PROVE  PanicOnlyExhausted'
  BY <1>1, <1>3, CopyIsStart DEF Serving
<1>4. ASSUME Serving, NEW t \in Threads, pagefault(t)
      PROVE  PanicOnlyExhausted'
  <2>1. CASE available' = {}
    BY <2>1 DEF PanicOnlyExhausted
  <2>2. CASE available' # {}
    <3>1. PICK m : m = getModuleId(t)
      OBVIOUS
    <3>2. bootinfo[m] # "module" /\ UNCHANGED <<bootinfo, space, image>>
      <4>1. CASE NoHeader(m) /\ UNCHANGED kernel
        <5>1. m \in Records
          BY <1>4, <3>1, FaultFacts DEF pagefault
        <5>2. bootinfo[m] = "other"
          <6>1. ~ (m > Entries)
            BY <5>1, RamDsmAssumption DEF Records
          <6>2. Header(m) # "serving"
            BY <4>1 DEF NoHeader
          <6> QED BY <6>1, <6>2 DEF Header
        <5> QED BY <1>4, <4>1, <5>2 DEF NoHeader, kernel, pagefault
      <4>2. CASE NoImageMemory(m) /\ UNCHANGED kernel
        BY <1>4, <4>2 DEF NoImageMemory, kernel, pagefault
      <4>3. ~ OutOfMemory
        BY <2>2 DEF OutOfMemory
      <4>4. ~ Answer(t, m)
        BY <1>4 DEF Answer, Serving
      <4> QED BY <1>4, <3>1, <4>1, <4>2, <4>3, <4>4 DEF pagefault
    <3>3. m = FirstModule /\ image[space[t]] = NoImage /\ space[t] # t /\ space[t] \in Started
      BY <1>4, <3>1, <3>2, FaultFacts DEF pagefault
    <3>4. space[t] # NilThread
      BY <3>3, RamDsmAssumption DEF Started
    <3> QED BY <3>2, <3>3, <3>4 DEF PanicOnlyExhausted
  <2> QED BY <2>1, <2>2
<1>5. ASSUME Serving, NEW t \in Threads, NEW v \in VPages, Touch(t, v)
      PROVE  FALSE
  BY <1>5 DEF Touch, loader, Serving
<1>6. ASSUME Serving, NEW t \in Threads, Kill(t)
      PROVE  FALSE
  BY <1>6 DEF Kill, loader, Serving
<1>7. ASSUME Serving, NEW t \in Threads, startTask_App(t)
      PROVE  FALSE
  BY <1>7 DEF startTask_App, loader, Serving
<1>8. ASSUME Serving, NEW from \in Threads, NEW t \in Threads, createThread_App(from, t)
      PROVE  FALSE
  BY <1>8 DEF createThread_App, loader, Serving
<1>9. CASE UNCHANGED vars
  BY <1>9 DEF vars, loader, kernel, PanicOnlyExhausted, Serving
<1> QED BY <1>2, <1>3, <1>4, <1>5, <1>6, <1>7, <1>8, <1>9 DEF Next

\* bielfloader.cc:39, :70, :81, :117, :190: the loader gives up only when more
\* threads of boot modules were started than its table has room for, when there
\* is no page left, for a record that is missing, no module or not to be had, or,
\* if the first record is one of these, for a thread nobody told it of.
THEOREM PanicOnlyWhenExhausted == Spec => []PanicOnlyExhausted
<1>1. Init => TableCounted /\ PanicOnlyExhausted
  <2> SUFFICES ASSUME Init
               PROVE  TableCounted /\ PanicOnlyExhausted
    OBVIOUS
  <2>1. Served = {} /\ associationTable = <<>> /\ Serving
    BY DEF Init, Started, Served, Serving
  <2> QED BY <2>1, FS_EmptySet DEF TableCounted, PanicOnlyExhausted
<1> QED BY <1>1, TableInvInit, TableInvStep, TableCountedStep, PanicStep, PTL DEF Spec
=============================================================================
