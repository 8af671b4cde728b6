--------------------------- MODULE SimpleFSProofs ---------------------------
(***************************************************************************)
(* Files of the file system never share memory, for any number of handles, *)
(* any names and sizes of files, any sizes of pages and words and any      *)
(* memory, up to the request that makes the test for enough memory wrap.   *)
(***************************************************************************)
EXTENDS SimpleFS, NaturalsInduction, WellFoundedInduction, TLAPS

File == [position : Nat, size : Nat, valid : BOOLEAN, name : Names \cup {NoName}]

TypeInv ==
    /\ filehandles \in [Handles -> File]
    /\ filesystemPointer \in Begin .. Limit - 1
    /\ windows \in SUBSET [file : Nat, size : Nat]

\* All memory that was ever handed out lies below the pointer.
BelowPointer ==
    /\ \A i \in Handles : filehandles[i].position + filehandles[i].size <= filesystemPointer
    /\ \A w \in windows : w.file + w.size <= filesystemPointer

\* Two pieces of memory, one before the other.
Apart(p, size, q, length) == p + size <= q \/ q + length <= p

FilesApart ==
    \A i, j \in Handles : filehandles[i].valid /\ filehandles[j].valid /\ i # j =>
        Apart(filehandles[i].position, filehandles[i].size,
              filehandles[j].position, filehandles[j].size)

\* A mapped file keeps its memory for itself, deleted or not.
WindowsApart ==
    \A w \in windows : \A i \in Handles : filehandles[i].valid =>
        \/ filehandles[i].position = w.file
        \/ Apart(filehandles[i].position, filehandles[i].size, w.file, w.size)

\* Two files have one name only if it is the rest of a longer one.
NamesDiffer ==
    \A i, j \in Handles : filehandles[i].valid /\ filehandles[j].valid /\ i # j =>
        (filehandles[i].name = filehandles[j].name => CutName(filehandles[i].name))

MemoryInv == TypeInv /\ BelowPointer /\ FilesApart /\ WindowsApart /\ NamesDiffer

\* The invariant: createFile checks nothing once it has written elsewhere.
Tame    == status # "wild memset"
TameInv == Tame => MemoryInv

-----------------------------------------------------------------------------
\* A set of numbers has a least one.
LEMMA LeastNumber ==
    ASSUME NEW S \in SUBSET Nat, S # {}
    PROVE  \E x \in S : \A y \in S : x <= y
<1> DEFINE R == {x \in Nat \X Nat : x[1] < x[2]}
<1>1. IsWellFoundedOn(R, Nat)
  BY NatLessThanWellFounded DEF OpToRel
<1>2. PICK x \in S : \A y \in S : ~ (<<y, x>> \in R)
  <2> HIDE DEF R
  <2> QED BY <1>1, WFMin
<1>3. \A y \in S : x <= y
  <2> TAKE y \in S
  <2>1. <<y, x>> \in Nat \X Nat /\ ~ (<<y, x>>[1] < <<y, x>>[2])
    BY <1>2
  <2> QED BY <2>1
<1> QED BY <1>3

\* If the search for a name finds nothing, no file has it.
LEMMA NotFound ==
    ASSUME NEW n, locateFilehandle(n) = {}, NEW i \in Handles, filehandles[i].valid
    PROVE  filehandles[i].name # n
<1> DEFINE S == {j \in Handles : filehandles[j].valid /\ filehandles[j].name = n}
<1>1. S \in SUBSET Nat
  BY SimpleFSAssumption DEF Handles
<1>2. FirstOf(S) = {}
  BY DEF locateFilehandle
<1> HIDE DEF S
<1>3. S = {}
  BY <1>1, <1>2, LeastNumber DEF FirstOf
<1> QED BY <1>3 DEF S

-----------------------------------------------------------------------------
(***************************************************************************)
(* Sizes are multiples of four, so that the pointer, which counts words,   *)
(* moves behind the whole file.                                            *)
(***************************************************************************)
LEMMA FourTimes == ASSUME NEW x \in Int PROVE (4 * x) % 4 = 0
OBVIOUS

LEMMA DivMod ==
    ASSUME NEW m \in Nat \ {0}, NEW x \in Int
    PROVE  /\ x = m * (x \div m) + (x % m)
           /\ x \div m \in Int /\ x % m \in 0 .. m - 1
OBVIOUS

LEMMA TimesMultiple ==
    ASSUME NEW x \in Int, x % 4 = 0, NEW y \in Int, NEW z, z = x * y
    PROVE  z % 4 = 0
<1>1. PICK q \in Int : x = 4 * q
  <2>1. x = 4 * (x \div 4)
    OBVIOUS
  <2> QED BY <2>1
<1>2. q * y \in Int
  OBVIOUS
<1>3. x * y = 4 * (q * y)
  BY <1>1
<1> QED BY <1>2, <1>3, FourTimes

LEMMA RestMultiple ==
    ASSUME NEW m \in Nat \ {0}, m % 4 = 0, NEW x \in Int
    PROVE  /\ (x - (x % m)) % 4 = 0
           /\ x % 4 = 0 => (x % m) % 4 = 0
<1>1. PICK q \in Int : x = m * q + (x % m)
  BY DivMod
<1>2. PICK y \in Int : y = m * q
  OBVIOUS
<1>3. y % 4 = 0
  <2>1. m \in Int /\ m % 4 = 0 /\ q \in Int /\ y = m * q
    BY <1>2
  <2> QED BY <2>1, TimesMultiple, Zenon
<1>4. x % m \in Int
  BY DivMod
<1> QED BY <1>1, <1>2, <1>3, <1>4

LEMMA SizeFacts ==
    ASSUME NEW size \in Sizes, NEW s \in mysize(size)
    PROVE  s \in Nat /\ s >= size /\ s >= 1 /\ s % 4 = 0
<1>1. size \in Nat /\ size >= 1 /\ size \in Int
  BY SimpleFSAssumption
<1>2. PICK k \in 0 .. WordBits : s = Doubled(size, k) /\ s >= size
  BY DEF mysize, FirstOf
<1>3. PICK f : f = FullPages(size)
  OBVIOUS
<1>4. f \in Int /\ f % 4 = 0
  <2>1. size % PageSize \in Int
    BY <1>1, SimpleFSAssumption, DivMod
  <2> QED BY <1>1, <1>3, <2>1, SimpleFSAssumption, RestMultiple DEF FullPages
<1>5. PICK p \in Int : p = 2 ^ k
  <2>1. k \in Nat
    BY SimpleFSAssumption
  <2> QED BY <2>1
<1>6. PICK z \in Int : z = f * p
  BY <1>4
<1>7. s = z % Word /\ z % 4 = 0
  BY <1>2, <1>3, <1>4, <1>5, <1>6, TimesMultiple DEF Doubled
<1>8. s % 4 = 0 /\ s \in 0 .. Word - 1
  BY <1>6, <1>7, SimpleFSAssumption, RestMultiple, DivMod
<1> QED BY <1>1, <1>2, <1>8, SimpleFSAssumption

\* Memory that does not wrap around is one interval.
LEMMA BytesWithin ==
    ASSUME NEW p \in Nat, NEW size \in Nat, p + size <= Word, NEW x \in Bytes(p, size)
    PROVE  x \in Nat /\ p <= x /\ x < p + size
<1>1. PICK j \in 0 .. size - 1 : x = (p + j) % Word
  BY DEF Bytes
<1>2. p + j \in Nat /\ p + j < Word /\ Word \in Nat
  BY SimpleFSAssumption
<1>3. (p + j) % Word = p + j
  BY <1>2
<1> QED BY <1>1, <1>3

LEMMA ApartDisjoint ==
    ASSUME NEW p \in Nat, NEW size \in Nat, p + size <= Word,
           NEW q \in Nat, NEW length \in Nat, q + length <= Word,
           Apart(p, size, q, length)
    PROVE  Bytes(p, size) \cap Bytes(q, length) = {}
<1> SUFFICES ASSUME NEW x \in Bytes(p, size), x \in Bytes(q, length) PROVE FALSE
  OBVIOUS
<1>1. x \in Nat /\ p <= x /\ x < p + size
  BY BytesWithin
<1>2. q <= x /\ x < q + length
  BY BytesWithin
<1> QED BY <1>1, <1>2 DEF Apart


-----------------------------------------------------------------------------
(***************************************************************************)
(* Writing a new file: it lies between the old and the new pointer.        *)
(***************************************************************************)
LEMMA NewFile ==
    ASSUME TypeInv, NEW size \in Sizes, NEW s \in mysize(size), ~OutOfMemory(s),
           NEW n \in Names, NEW i \in locateFreeFilehandle, WriteFile(i, n, s), Tame'
    PROVE  /\ i \in Handles /\ ~filehandles[i].valid
           /\ s \in Nat /\ s >= size /\ s >= 1
           /\ filesystemPointer \in Nat /\ filesystemPointer + s < Limit
           /\ filesystemPointer' = filesystemPointer + s
           /\ filehandles'[i].position = filesystemPointer
           /\ filehandles'[i].size = s
           /\ filehandles'[i].name = Stored(n)
           /\ \A j \in Handles : j # i => filehandles'[j] = filehandles[j]
           /\ windows' = windows
           /\ TypeInv'
<1>1. i \in Handles /\ ~filehandles[i].valid
  BY DEF locateFreeFilehandle, FirstOf
<1>2. s \in Nat /\ s >= size /\ s >= 1 /\ s % 4 = 0
  BY SizeFacts
<1>3. /\ filesystemPointer \in Nat /\ filesystemPointer < Limit /\ Begin <= filesystemPointer
      /\ Limit \in Nat /\ Word \in Nat /\ Begin \in Nat
  BY SimpleFSAssumption DEF TypeInv
<1>4. Bytes(filesystemPointer, s) \subseteq Begin .. Limit - 1
  BY DEF WriteFile, Tame
<1>5. PICK e \in Nat : e = filesystemPointer + s
  BY <1>2, <1>3
<1>6. e <= Limit /\ e < Word
  <2>1. SUFFICES ASSUME e > Limit PROVE FALSE
    BY <1>3, <1>5, SimpleFSAssumption
  <2>2. PICK j \in 0 .. s - 1 : filesystemPointer + j = Limit
    <3>1. Limit - filesystemPointer \in 0 .. s - 1
      BY <1>2, <1>3, <1>5, <2>1
    <3>2. filesystemPointer + (Limit - filesystemPointer) = Limit
      BY <1>3
    <3> QED BY <3>1, <3>2
  <2>3. Limit % Word = Limit
    BY <1>3, SimpleFSAssumption
  <2>4. Limit \in Bytes(filesystemPointer, s)
    BY <2>2, <2>3 DEF Bytes
  <2> QED BY <1>3, <1>4, <2>4
<1>7. e % Word = e
  BY <1>3, <1>6
<1>8. e < Limit
  BY <1>3, <1>5, <1>7 DEF OutOfMemory
<1>9. filesystemPointer' = e
  <2>1. (s \div 4) * 4 = s
    BY <1>2
  <2> QED BY <1>5, <1>7, <2>1 DEF WriteFile
<1>11. windows' = windows
  BY DEF WriteFile
<1>12. /\ filehandles'[i] = [position |-> filesystemPointer, size |-> s, valid |-> TRUE,
                             name |-> Stored(n)]
       /\ \A j \in Handles : j # i => filehandles'[j] = filehandles[j]
  BY <1>1 DEF WriteFile, TypeInv
<1>13. TypeInv'
  <2>1. Stored(n) \in Names
    BY SimpleFSAssumption
  <2>2. [position |-> filesystemPointer, size |-> s, valid |-> TRUE, name |-> Stored(n)] \in File
    BY <1>2, <1>3, <2>1 DEF File
  <2>3. filehandles' \in [Handles -> File]
    BY <1>1, <2>2 DEF WriteFile, TypeInv
  <2>4. filesystemPointer' \in Begin .. Limit - 1
    BY <1>2, <1>3, <1>5, <1>8, <1>9
  <2> QED BY <1>11, <2>3, <2>4 DEF TypeInv
<1> QED BY <1>1, <1>2, <1>3, <1>5, <1>8, <1>9, <1>11, <1>12, <1>13

(***************************************************************************)
(* What a step is: a new file, a file less, one more window, or nothing.   *)
(***************************************************************************)
WriteStep(n, size) ==
    /\ locateFilehandle(n) = {}
    /\ \E s \in mysize(size) :
        ~OutOfMemory(s) /\ \E i \in locateFreeFilehandle : WriteFile(i, n, s)
DeleteStep(i) ==
    /\ filehandles' = [filehandles EXCEPT ![i].valid = FALSE]
    /\ UNCHANGED <<filesystemPointer, status, windows>>
MapStep(i) ==
    /\ windows' = windows \cup
            {[file |-> filehandles[i].position, size |-> filehandles[i].size]}
    /\ UNCHANGED <<filehandles, filesystemPointer, status>>
IdleStep == UNCHANGED <<filehandles, filesystemPointer, windows>> /\ status' \in {status, "endless loop"}

LEMMA CreateCases ==
    ASSUME NEW n, NEW size, createFile(n, size)
    PROVE  IdleStep \/ WriteStep(n, size)
BY DEF createFile, IdleStep, WriteStep, vars

LEMMA Found ==
    ASSUME NEW n, NEW i \in locateFilehandle(n)
    PROVE  i \in Handles /\ filehandles[i].valid
BY DEF locateFilehandle, FirstOf

LEMMA StepCases ==
    ASSUME [Next]_vars
    PROVE  \/ IdleStep
           \/ \E n \in Names, size \in Sizes : WriteStep(n, size)
           \/ \E i \in Handles : filehandles[i].valid /\ DeleteStep(i)
           \/ \E i \in Handles : filehandles[i].valid /\ MapStep(i)
<1>1. CASE UNCHANGED vars
  BY <1>1 DEF vars, IdleStep
<1>2. ASSUME NEW n \in Names, NEW size \in Sizes, createFile(n, size)
      PROVE  IdleStep \/ WriteStep(n, size)
  BY <1>2, CreateCases
<1>3. ASSUME NEW n \in Names, deleteFile(n)
      PROVE  IdleStep \/ \E i \in Handles : filehandles[i].valid /\ DeleteStep(i)
  BY <1>3, Found DEF deleteFile, IdleStep, DeleteStep, vars
<1>4. ASSUME NEW n \in Names, mapFile(n)
      PROVE  IdleStep \/ \E i \in Handles : filehandles[i].valid /\ MapStep(i)
  BY <1>4, Found DEF mapFile, IdleStep, MapStep, vars
<1> QED BY <1>1, <1>2, <1>3, <1>4 DEF Next


-----------------------------------------------------------------------------
LEMMA MemoryInit == ASSUME Init PROVE MemoryInv
<1>1. TypeInv
  BY SimpleFSAssumption DEF Init, TypeInv, File
<1>2. BelowPointer /\ FilesApart /\ WindowsApart /\ NamesDiffer
  BY SimpleFSAssumption DEF Init, BelowPointer, FilesApart, WindowsApart, NamesDiffer
<1> QED BY <1>1, <1>2 DEF MemoryInv

LEMMA MemoryWrite ==
    ASSUME MemoryInv, NEW n \in Names, NEW size \in Sizes, WriteStep(n, size), Tame'
    PROVE  MemoryInv'
<1>1. PICK s \in mysize(size) : ~OutOfMemory(s) /\ \E i \in locateFreeFilehandle : WriteFile(i, n, s)
  BY DEF WriteStep
<1>2. PICK i \in locateFreeFilehandle : WriteFile(i, n, s)
  BY <1>1
<1>3. /\ i \in Handles /\ ~filehandles[i].valid
      /\ s \in Nat /\ s >= 1
      /\ filesystemPointer \in Nat
      /\ filesystemPointer' = filesystemPointer + s
      /\ filehandles'[i].position = filesystemPointer /\ filehandles'[i].size = s
      /\ filehandles'[i].name = Stored(n)
      /\ \A j \in Handles : j # i => filehandles'[j] = filehandles[j]
      /\ windows' = windows
      /\ TypeInv'
  BY <1>1, <1>2, NewFile DEF MemoryInv
<1>4. \A j \in Handles : filehandles[j].position \in Nat /\ filehandles[j].size \in Nat
                         /\ filehandles[j].position + filehandles[j].size <= filesystemPointer
  BY DEF MemoryInv, TypeInv, File, BelowPointer
<1>5. \A w \in windows : w.file \in Nat /\ w.size \in Nat /\ w.file + w.size <= filesystemPointer
  BY DEF MemoryInv, TypeInv, BelowPointer
<1>6. BelowPointer'
  <2>1. \A j \in Handles : filehandles'[j].position + filehandles'[j].size <= filesystemPointer'
    BY <1>3, <1>4
  <2>2. \A w \in windows' : w.file + w.size <= filesystemPointer'
    BY <1>3, <1>5
  <2> QED BY <2>1, <2>2 DEF BelowPointer
<1>7. FilesApart'
  <2> SUFFICES ASSUME NEW j \in Handles, NEW k \in Handles, j # k,
                      filehandles'[j].valid, filehandles'[k].valid
               PROVE  Apart(filehandles'[j].position, filehandles'[j].size,
                            filehandles'[k].position, filehandles'[k].size)
    BY DEF FilesApart, Apart
  <2>1. CASE j # i /\ k # i
    BY <1>3, <2>1 DEF MemoryInv, FilesApart
  <2>2. CASE j = i
    BY <1>3, <1>4, <2>2 DEF Apart
  <2>3. CASE k = i
    BY <1>3, <1>4, <2>3 DEF Apart
  <2> QED BY <2>1, <2>2, <2>3
<1>8. WindowsApart'
  <2> SUFFICES ASSUME NEW w \in windows, NEW j \in Handles, filehandles'[j].valid,
                      filehandles'[j].position # w.file
               PROVE  Apart(filehandles'[j].position, filehandles'[j].size, w.file, w.size)
    BY <1>3 DEF WindowsApart, Apart
  <2>1. CASE j # i
    BY <1>3, <2>1 DEF MemoryInv, WindowsApart
  <2>2. CASE j = i
    BY <1>3, <1>5, <2>2 DEF Apart
  <2> QED BY <2>1, <2>2
<1>9. NamesDiffer'
  <2>1. \A j \in Handles : filehandles[j].valid => filehandles[j].name # n
    BY NotFound DEF WriteStep
  <2>2. CASE Stored(n) = n
    BY <1>3, <2>1, <2>2 DEF MemoryInv, NamesDiffer
  <2>3. CASE Stored(n) # n
    <3>1. CutName(Stored(n))
      BY <2>3 DEF CutName
    <3> QED BY <1>3, <3>1 DEF MemoryInv, NamesDiffer
  <2> QED BY <2>2, <2>3
<1> QED BY <1>3, <1>6, <1>7, <1>8, <1>9 DEF MemoryInv

LEMMA MemoryDelete ==
    ASSUME MemoryInv, NEW i \in Handles, DeleteStep(i)
    PROVE  MemoryInv'
<1>1. \A j \in Handles : /\ filehandles'[j].position = filehandles[j].position
                         /\ filehandles'[j].size = filehandles[j].size
                         /\ filehandles'[j].name = filehandles[j].name
                         /\ filehandles'[j].valid => filehandles[j].valid
  BY DEF DeleteStep, MemoryInv, TypeInv, File
<1>2. TypeInv'
  <2>1. [filehandles[i] EXCEPT !.valid = FALSE] \in File
    BY DEF MemoryInv, TypeInv, File
  <2>2. filehandles' \in [Handles -> File]
    BY <2>1 DEF DeleteStep, MemoryInv, TypeInv
  <2> QED BY <2>2 DEF DeleteStep, MemoryInv, TypeInv
<1>3. UNCHANGED <<filesystemPointer, status, windows>>
  BY DEF DeleteStep
<1>4. BelowPointer'
  BY <1>1, <1>3 DEF MemoryInv, BelowPointer
<1>5. FilesApart'
  BY <1>1, <1>3 DEF MemoryInv, FilesApart, Apart
<1>6. WindowsApart'
  BY <1>1, <1>3 DEF MemoryInv, WindowsApart, Apart
<1>7. NamesDiffer'
  BY <1>1 DEF MemoryInv, NamesDiffer
<1> QED BY <1>2, <1>3, <1>4, <1>5, <1>6, <1>7 DEF MemoryInv

LEMMA MemoryMap ==
    ASSUME MemoryInv, NEW i \in Handles, filehandles[i].valid, MapStep(i)
    PROVE  MemoryInv'
<1> DEFINE new == [file |-> filehandles[i].position, size |-> filehandles[i].size]
<1>1. /\ windows' = windows \cup {new}
      /\ UNCHANGED <<filehandles, filesystemPointer, status>>
  BY DEF MapStep
<1>2. new \in [file : Nat, size : Nat]
  BY DEF MemoryInv, TypeInv, File
<1>3. new.file = filehandles[i].position /\ new.size = filehandles[i].size
  OBVIOUS
<1> HIDE DEF new
<1>4. TypeInv'
  BY <1>1, <1>2 DEF MemoryInv, TypeInv
<1>5. BelowPointer'
  BY <1>1, <1>3 DEF MemoryInv, BelowPointer
<1>6. WindowsApart'
  <2> SUFFICES ASSUME NEW w \in windows', NEW j \in Handles, filehandles[j].valid,
                      filehandles[j].position # w.file
               PROVE  Apart(filehandles[j].position, filehandles[j].size, w.file, w.size)
    BY <1>1 DEF WindowsApart, Apart
  <2>1. CASE w \in windows
    BY <2>1 DEF MemoryInv, WindowsApart
  <2>2. CASE w = new
    BY <1>3, <2>2 DEF MemoryInv, FilesApart
  <2> QED BY <1>1, <2>1, <2>2
<1>7. FilesApart' /\ NamesDiffer'
  BY <1>1 DEF MemoryInv, FilesApart, NamesDiffer, Apart
<1> QED BY <1>4, <1>5, <1>6, <1>7 DEF MemoryInv

LEMMA MemoryIdle == ASSUME MemoryInv, IdleStep PROVE MemoryInv'
<1>1. UNCHANGED <<filehandles, filesystemPointer, windows>>
  BY DEF IdleStep
<1>2. TypeInv' /\ BelowPointer'
  BY <1>1 DEF MemoryInv, TypeInv, BelowPointer
<1>3. FilesApart' /\ WindowsApart' /\ NamesDiffer'
  BY <1>1 DEF MemoryInv, FilesApart, WindowsApart, NamesDiffer, Apart
<1> QED BY <1>2, <1>3 DEF MemoryInv

\* The server that has cleared foreign memory answers nobody.
LEMMA StaysWild == ASSUME [Next]_vars, Tame' PROVE Tame
<1>1. Next => status = "up"
  BY DEF Next, createFile, deleteFile, mapFile
<1> QED BY <1>1 DEF Tame, vars

LEMMA TameAlways == Spec => []TameInv
<1>1. Init => TameInv
  BY MemoryInit DEF TameInv
<1>2. TameInv /\ [Next]_vars => TameInv'
  <2> SUFFICES ASSUME TameInv, [Next]_vars, Tame' PROVE MemoryInv'
    BY DEF TameInv
  <2>1. MemoryInv
    BY StaysWild DEF TameInv
  <2> QED BY <2>1, StepCases, MemoryWrite, MemoryDelete, MemoryMap, MemoryIdle
<1> QED BY <1>1, <1>2, PTL DEF Spec


\* Nothing lies beyond the end of the address space.
WithinWord ==
    /\ \A i \in Handles : /\ filehandles[i].position \in Nat /\ filehandles[i].size \in Nat
                          /\ filehandles[i].position + filehandles[i].size <= Word
    /\ \A w \in windows : /\ w.file \in Nat /\ w.size \in Nat
                          /\ w.file + w.size <= Word

LEMMA BelowWord == MemoryInv => WithinWord
<1> SUFFICES ASSUME MemoryInv PROVE WithinWord
  OBVIOUS
<1>1. filesystemPointer \in Nat /\ filesystemPointer <= Word /\ Word \in Nat
  BY SimpleFSAssumption DEF MemoryInv, TypeInv
<1>2. \A i \in Handles : filehandles[i].position \in Nat /\ filehandles[i].size \in Nat
  BY DEF MemoryInv, TypeInv, File
<1>3. \A w \in windows : w.file \in Nat /\ w.size \in Nat
  BY DEF MemoryInv, TypeInv
<1> QED BY <1>1, <1>2, <1>3 DEF MemoryInv, BelowPointer, WithinWord

-----------------------------------------------------------------------------
\* No two files share memory, and two have the same name only if it is the rest
\* of a longer one (filesystem.cc:149, :174), whatever is created and deleted.
THEOREM FilesAlwaysDisjoint == Spec => []FilesDisjoint
<1>1. TameInv => FilesDisjoint
  <2> SUFFICES ASSUME MemoryInv, NEW i \in Valid, NEW j \in Valid, i # j
               PROVE  /\ Extent(i) \cap Extent(j) = {}
                      /\ filehandles[i].name = filehandles[j].name => CutName(filehandles[i].name)
    BY DEF FilesDisjoint, TameInv, Tame
  <2>1. i \in Handles /\ j \in Handles /\ filehandles[i].valid /\ filehandles[j].valid
    BY DEF Valid
  <2>2. Apart(filehandles[i].position, filehandles[i].size,
              filehandles[j].position, filehandles[j].size)
    BY <2>1 DEF MemoryInv, FilesApart
  <2>3. Extent(i) \cap Extent(j) = {}
    BY <2>1, <2>2, BelowWord, ApartDisjoint DEF Extent, WithinWord
  <2> QED BY <2>1, <2>3 DEF MemoryInv, NamesDiffer
<1> QED BY <1>1, TameAlways, PTL

\* A new file is as long as its creator asked for (filesystem.cc:143), and lies
\* in memory that no caller has ever mapped.
THEOREM NewFilesAlwaysUnseen == Spec => NewFilesUnseen
<1> DEFINE Unseen == \A i \in Valid' \ Valid :
                        /\ LongEnough(i)
                        /\ status' = "up" =>
                            \A w \in windows : Bytes(w.file, w.size) \cap Extent(i)' = {}
<1>1. TameInv /\ TameInv' /\ [Next]_vars => [Unseen]_vars
  <2> SUFFICES ASSUME TameInv, TameInv', [Next]_vars, NEW i \in Valid' \ Valid
               PROVE  /\ LongEnough(i)
                      /\ status' = "up" =>
                            \A w \in windows : Bytes(w.file, w.size) \cap Extent(i)' = {}
    OBVIOUS
  <2>1. i \in Handles /\ filehandles'[i].valid /\ ~filehandles[i].valid
    BY DEF Valid
  <2>2. ~IdleStep
    BY <2>1 DEF IdleStep
  <2>0. MemoryInv
    <3>1. ~UNCHANGED vars
      BY <2>1 DEF vars
    <3>2. status = "up"
      BY <3>1 DEF Next, createFile, deleteFile, mapFile
    <3> QED BY <3>2 DEF TameInv, Tame
  <2>3. ASSUME NEW n \in Names, NEW size \in Sizes, WriteStep(n, size)
        PROVE  /\ filehandles'[i].size >= size
               /\ filehandles'[i].position = filesystemPointer
    <3>1. PICK s \in mysize(size) : \E j \in locateFreeFilehandle : WriteFile(j, n, s)
      BY <2>3 DEF WriteStep
    <3>2. PICK j \in locateFreeFilehandle : WriteFile(j, n, s)
      BY <3>1
    <3>3. s >= size
      BY SizeFacts
    <3>4. j \in Handles
      BY DEF locateFreeFilehandle, FirstOf
    <3>5. /\ filehandles'[j].position = filesystemPointer /\ filehandles'[j].size = s
          /\ \A k \in Handles : k # j => filehandles'[k] = filehandles[k]
      BY <2>0, <3>2, <3>4 DEF WriteFile, MemoryInv, TypeInv
    <3>6. i = j
      BY <2>1, <3>5
    <3> QED BY <3>3, <3>5, <3>6
  <2>4. LongEnough(i)
    BY <2>2, <2>3, CreateCases DEF LongEnough
  <2>5. \E n \in Names, size \in Sizes : WriteStep(n, size)
    <3>1. ASSUME NEW j \in Handles, DeleteStep(j) PROVE FALSE
      <4>1. filehandles'[i].valid => filehandles[i].valid
        BY <2>0, <2>1, <3>1 DEF DeleteStep, MemoryInv, TypeInv, File
      <4> QED BY <2>1, <4>1
    <3>2. ASSUME NEW j \in Handles, MapStep(j) PROVE FALSE
      BY <2>1, <3>2 DEF MapStep
    <3> QED BY <2>2, <3>1, <3>2, StepCases
  <2>6. filehandles'[i].position = filesystemPointer
    BY <2>3, <2>5
  <2>7. ASSUME status' = "up", NEW w \in windows
        PROVE  Bytes(w.file, w.size) \cap Extent(i)' = {}
    <3>1. w.file \in Nat /\ w.size \in Nat /\ w.file + w.size <= Word
      BY <2>0, BelowWord DEF WithinWord
    <3>2. w.file + w.size <= filesystemPointer
      BY <2>0 DEF MemoryInv, BelowPointer
    <3>3. Apart(w.file, w.size, filehandles'[i].position, filehandles'[i].size)
      BY <2>6, <3>2 DEF Apart
    <3>4. Extent(i)' = Bytes(filehandles'[i].position, filehandles'[i].size)
      BY DEF Extent, Bytes
    <3>5. MemoryInv'
      BY <2>7 DEF TameInv, Tame
    <3>6. WithinWord'
      BY <3>5, BelowWord, PTL
    <3>7. /\ filehandles'[i].position \in Nat /\ filehandles'[i].size \in Nat
          /\ filehandles'[i].position + filehandles'[i].size <= Word
      BY <2>1, <3>6 DEF WithinWord
    <3> QED BY <3>1, <3>3, <3>4, <3>7, ApartDisjoint
  <2> QED BY <2>4, <2>7
<1> QED BY <1>1, TameAlways, PTL DEF Spec, NewFilesUnseen
=============================================================================
