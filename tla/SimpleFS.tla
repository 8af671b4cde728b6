------------------------------ MODULE SimpleFS ------------------------------
(***************************************************************************)
(* The file system of sdiOS (sdios/src/simplefs/filesystem.cc).            *)
(*                                                                         *)
(* Files lie one behind the other in the server's memory; a table of       *)
(* handles gives position, size and name of each.  createFile takes memory *)
(* at filesystemPointer, which only moves up; deleteFile only invalidates  *)
(* the handle.  mapFile maps one flexpage that is to hold the whole file.  *)
(* Addresses and sizes are machine words: they wrap at 2^WordBits.         *)
(***************************************************************************)
EXTENDS Integers

CONSTANTS
    Names,          \* file names callers use
    Stored(_),      \* the name as strncpy(.., 16) keeps it
    Sizes,          \* sizes callers ask for, never 0 (see FpageSize)
    NumHandles,     \* MAXFILE
    PageSize,       \* 4096
    WordBits,       \* 32
    Begin,          \* beginOfFilesystem, 0x40000000
    Limit           \* 0xc0000000

Word == 2 ^ WordBits

ASSUME SimpleFSAssumption ==
    /\ \A n \in Names : Stored(n) \in Names /\ Stored(Stored(n)) = Stored(n)
    /\ NumHandles \in Nat \ {0}
    /\ PageSize \in Nat \ {0} /\ PageSize % 4 = 0
    /\ WordBits \in Nat /\ Word \in Nat \ {0} /\ Word % 4 = 0
    /\ Sizes \subseteq 1 .. Word - 1
    /\ Begin \in Nat /\ Limit \in Nat /\ Begin < Limit /\ Limit < Word

VARIABLES
    filehandles,        \* position, size, valid and name of each handle
    filesystemPointer,  \* where the next file goes
    status,             \* "up", "endless loop" or "wild memset"
    windows             \* callers: the mappings they got and never lose

vars == <<filehandles, filesystemPointer, status, windows>>

Handles == 0 .. NumHandles - 1
NoName  == "none"

Init ==
    /\ filehandles = [i \in Handles |->
            [position |-> 0, size |-> 0, valid |-> FALSE, name |-> NoName]]
    /\ filesystemPointer = Begin
    /\ status = "up"
    /\ windows = {}

-----------------------------------------------------------------------------
\* The first handle of a set, if there is one.
FirstOf(S) == {i \in S : \A j \in S : i <= j}

locateFilehandle(n) ==
    FirstOf({i \in Handles : filehandles[i].valid /\ filehandles[i].name = n})
locateFreeFilehandle == FirstOf({i \in Handles : ~filehandles[i].valid})

(***************************************************************************)
(* The size of a new file: size cut down to pages, then doubled until it   *)
(* is enough, in machine words.  The set is empty if the loop never ends.  *)
(***************************************************************************)
FullPages(size)  == size - (size % PageSize)
Doubled(size, k) == (FullPages(size) * 2 ^ k) % Word

mysize(size) ==
    {Doubled(size, k) : k \in FirstOf({j \in 0 .. WordBits : Doubled(size, j) >= size})}

\* The bytes of a file; memset runs over them, wrapping at the end of memory.
Bytes(position, size) == {(position + j) % Word : j \in 0 .. size - 1}
Extent(i)             == Bytes(filehandles[i].position, filehandles[i].size)

\* The test for enough memory, in machine words.
OutOfMemory(size) == (filesystemPointer + size) % Word >= Limit

-----------------------------------------------------------------------------
WriteFile_BytesAsWords(i, n, size) ==
    /\ filehandles' = [filehandles EXCEPT ![i] =
            [position |-> filesystemPointer, size |-> size, valid |-> TRUE, name |-> Stored(n)]]
    /\ filesystemPointer' = filesystemPointer + size \div 4
    /\ UNCHANGED <<status, windows>>

\* Step 4 to 6 of createFile: write the handle, move the pointer, clear the file.
WriteFile(i, n, size) ==
    /\ filehandles' = [filehandles EXCEPT ![i] =
            [position |-> filesystemPointer, size |-> size, valid |-> TRUE, name |-> Stored(n)]]
    /\ filesystemPointer' = (filesystemPointer + (size \div 4) * 4) % Word
    /\ status' = IF Bytes(filesystemPointer, size) \subseteq Begin .. Limit - 1
                 THEN "up" ELSE "wild memset"
    /\ UNCHANGED windows

createFile(n, size) ==
    /\ status = "up"
    /\ \/ mysize(size) = {} /\ status' = "endless loop"
          /\ UNCHANGED <<filehandles, filesystemPointer, windows>>
       \/ \E s \in mysize(size) :
            \/ locateFilehandle(n) # {} /\ UNCHANGED vars        \* fileExists
            \/ locateFilehandle(n) = {} /\ OutOfMemory(s) /\ UNCHANGED vars
            \/ /\ locateFilehandle(n) = {} /\ ~OutOfMemory(s)
               /\ locateFreeFilehandle = {} /\ UNCHANGED vars    \* outOfFilehandles
            \/ /\ locateFilehandle(n) = {} /\ ~OutOfMemory(s)
               /\ \E i \in locateFreeFilehandle : WriteFile(i, n, s)

deleteFile_Reclaims(n) ==
    /\ status = "up"
    /\ \E i \in locateFilehandle(n) :
        /\ filehandles' = [filehandles EXCEPT ![i].valid = FALSE]
        /\ filesystemPointer' = IF filehandles[i].position + filehandles[i].size = filesystemPointer
                                THEN filehandles[i].position ELSE filesystemPointer
        /\ UNCHANGED <<status, windows>>

\* The memory of a deleted file is not used again.
deleteFile(n) ==
    /\ status = "up"
    /\ \/ locateFilehandle(n) = {} /\ UNCHANGED vars             \* fileNotFound
       \/ \E i \in locateFilehandle(n) :
            /\ filehandles' = [filehandles EXCEPT ![i].valid = FALSE]
            /\ UNCHANGED <<filesystemPointer, status, windows>>

-----------------------------------------------------------------------------
\* L4_Fpage rounds the size up to a power of two; the page it names begins at
\* a multiple of that.  (Of size 0 the processor's bit scan is undefined; no
\* caller in the repository creates an empty file.)
FpageSize(size)     == CHOOSE p \in {2 ^ k : k \in 0 .. WordBits} :
                            p >= size /\ (p = 1 \/ p \div 2 < size)
FpageBytes(at, size) == LET p == FpageSize(size) IN Bytes(at - (at % p), p)

\* mapFile: the caller sees the memory of the flexpage from now on.
mapFile(n) ==
    /\ status = "up"
    /\ \/ locateFilehandle(n) = {} /\ UNCHANGED vars             \* fileNotFound
       \/ \E i \in locateFilehandle(n) :
            /\ windows' = windows \cup
                    {[file |-> filehandles[i].position, size |-> filehandles[i].size]}
            /\ UNCHANGED <<filehandles, filesystemPointer, status>>

Next ==
    \E n \in Names :
        \/ \E size \in Sizes : createFile(n, size)
        \/ deleteFile(n)
        \/ mapFile(n)

Spec == Init /\ [][Next]_vars

-----------------------------------------------------------------------------
Valid == {i \in Handles : filehandles[i].valid}

\* Some name that callers use does not fit a handle and becomes this one.
CutName(name) == \E n \in Names : n # Stored(n) /\ Stored(n) = name

\* Whatever is created and deleted, in whatever order and size, no two files
\* share memory, up to the request that makes the test for enough memory wrap.
\* Two files have the same name ("ueberpruefen, ob die Datei bereits existiert",
\* filesystem.cc:149) only where the handle holds the rest of a longer name.
FilesDisjoint ==
    status # "wild memset" =>
        \A i, j \in Valid : i # j =>
            /\ Extent(i) \cap Extent(j) = {}
            /\ filehandles[i].name = filehandles[j].name => CutName(filehandles[i].name)

\* Whoever maps a file sees the whole file and nothing of another ("Position und
\* Groesse sollte immer so gewaehlt werden, dass man das ganze in eine Fpage
\* packen kann", filesystem.cc:17).
WindowsShowOneFile ==
    \A w \in windows :
        /\ Bytes(w.file, w.size) \subseteq FpageBytes(w.file, w.size)
        /\ \A i \in Valid : filehandles[i].position # w.file =>
                FpageBytes(w.file, w.size) \cap Extent(i) = {}

\* A caller keeps its mapping when the file is deleted, and nothing that is
\* created later is ever put into the memory of the file it has mapped.  A new
\* file is at least as long as its creator asked for (filesystem.cc:143).
LongEnough(i) ==
    \A n \in Names, size \in Sizes : createFile(n, size) => filehandles'[i].size >= size
NewFilesUnseen ==
    [][\A i \in Valid' \ Valid :
         /\ LongEnough(i)
         /\ status' = "up" =>
                \A w \in windows : Bytes(w.file, w.size) \cap Extent(i)' = {}]_vars
=============================================================================
