------------------------------ MODULE AppPager ------------------------------
(***************************************************************************)
(* The application pager of sdiOS (sdios/src/apppager/apppager.cc and      *)
(* util.cc): it loads programs from the file system and gives them memory. *)
(*                                                                         *)
(* It keeps a Thread object per thread, a Space object per address space   *)
(* with its threads and its pages, and lists of the Space and Page objects *)
(* that are free.  Every list is singly linked and changed at its head, or *)
(* by unlinking one element; here a list is the sequence of its elements.  *)
(* The image of a program is mapped into the file slot of its space, a     *)
(* window in the pager's own memory, and pages are filled from there.      *)
(*                                                                         *)
(* Callers: the task server associates and deletes threads, always under   *)
(* ids it has never used before, and copies an association for a thread    *)
(* that runs; threads that are associated fault.  A thread has run once it *)
(* has faulted, or when it is a further thread of a space: the task server *)
(* names RAM-DSM as the pager of those.                                    *)
(***************************************************************************)
EXTENDS Integers, Sequences, SequencesExt

CONSTANTS
    Threads,        \* thread ids the task server gives out
    Files,          \* file names programs are started by
    StoredFiles,    \* the files that exist in the file system
    MaxPages        \* pages from 0x40000000 up to 0x80000000

None    == "none"
Zeroed  == "zeroed"
NoSpace == 0

ASSUME AppPagerAssumption ==
    /\ StoredFiles \subseteq Files
    /\ Files \cap {None, Zeroed} = {}
    /\ MaxPages \in Nat

VARIABLES
    threads,        \* Thread::globalFirstThread and its globalNextThread list
    space,          \* Thread::space
    spaces,         \* the Space objects: firstThread and firstPage lists, fileSlot
    freeSpaces,     \* Space::globalFirstFreeSpace list
    freePages,      \* Page::globalFirstFreePage list
    lostPages,      \* the list that begins in the nextPage word at address NULL
    numPages,       \* Page objects made so far (nextAllocablePageStart)
    slots,          \* what is mapped into each file slot of the pager
    filledFrom,     \* the image each page was last filled from
    status,         \* "up" or "Out Of Memory"
    file,           \* task server: the file each thread was to be loaded from
    ran,            \* threads that have run
    newest          \* history: the thread whose image was mapped last

lists  == <<threads, space, spaces, freeSpaces>>
memory == <<freePages, lostPages, numPages, slots, filledFrom>>
vars   == <<lists, memory, status, file, ran, newest>>

Pages == 1 .. MaxPages

\* Space::nextAllocableFileSlot; no line of the code moves it on.
nextAllocableFileSlot == 0
Slots == {nextAllocableFileSlot}

Init ==
    /\ threads = <<>>
    /\ space = [t \in Threads |-> NoSpace]
    /\ spaces = <<>>
    /\ freeSpaces = <<>>
    /\ freePages = <<>>
    /\ lostPages = <<>>
    /\ numPages = 0
    /\ slots = [s \in Slots |-> Zeroed]
    /\ filledFrom = [p \in Pages |-> Zeroed]
    /\ status = "up"
    /\ file = [t \in Threads |-> None]
    /\ ran = {}
    /\ newest = None

Known(t) == t \in ToSet(threads)
Fresh(t) == file[t] = None
Without(list, x) == RemoveFirst(list, x)

-----------------------------------------------------------------------------
\* Space::alloc for a first thread: a free Space object keeps its file slot.
Space_alloc_KeepsPages(t) ==
    IF freeSpaces = <<>>
    THEN /\ spaces' = Append(spaces, [firstThread |-> <<t>>, firstPage |-> <<>>,
                                      fileSlot |-> nextAllocableFileSlot])
         /\ space' = [space EXCEPT ![t] = Len(spaces) + 1]
         /\ UNCHANGED freeSpaces
    ELSE /\ spaces' = [spaces EXCEPT ![Head(freeSpaces)].firstThread = <<t>>]
         /\ space' = [space EXCEPT ![t] = Head(freeSpaces)]
         /\ freeSpaces' = Tail(freeSpaces)

Space_alloc(t) ==
    IF freeSpaces = <<>>
    THEN /\ spaces' = Append(spaces, [firstThread |-> <<t>>, firstPage |-> <<>>,
                                      fileSlot |-> nextAllocableFileSlot])
         /\ space' = [space EXCEPT ![t] = Len(spaces) + 1]
         /\ UNCHANGED freeSpaces
    ELSE /\ spaces' = [spaces EXCEPT ![Head(freeSpaces)].firstThread = <<t>>,
                                     ![Head(freeSpaces)].firstPage = <<>>]
         /\ space' = [space EXCEPT ![t] = Head(freeSpaces)]
         /\ freeSpaces' = Tail(freeSpaces)

\* mapFile of the file system replaces what the slot shows.  If there is no
\* such file nothing is mapped; the pager does not look at the exception.
mapFile_FirstOnly(slot, f) ==
    slots' = IF f \in StoredFiles /\ slots[slot] = Zeroed THEN [slots EXCEPT ![slot] = f] ELSE slots
mapFile(slot, f) ==
    slots' = IF f \in StoredFiles THEN [slots EXCEPT ![slot] = f] ELSE slots

\* associateImage: the thread starts at the entry point that the slot shows.
associateImage(t, f) ==
    /\ status = "up" /\ Fresh(t)
    /\ threads' = <<t>> \o threads
    /\ Space_alloc(t)
    /\ mapFile(spaces'[space'[t]].fileSlot, f)
    /\ file' = [file EXCEPT ![t] = f]
    /\ newest' = t
    /\ UNCHANGED <<freePages, lostPages, numPages, filledFrom, status, ran>>

copyAssociation(from, to) ==
    /\ status = "up" /\ Known(from) /\ from \in ran /\ Fresh(to)
    /\ threads' = <<to>> \o threads
    /\ space' = [space EXCEPT ![to] = space[from]]
    /\ spaces' = [spaces EXCEPT ![space[from]].firstThread = <<to>> \o @]
    /\ file' = [file EXCEPT ![to] = file[from]]
    /\ ran' = ran \cup {to}
    /\ UNCHANGED <<freeSpaces, memory, status, newest>>

-----------------------------------------------------------------------------

\* Page::alloc: a freed page, or the next one.
Page_alloc ==
    IF freePages # <<>> THEN {Head(freePages)}
    ELSE IF numPages < MaxPages THEN {numPages + 1}
    ELSE {}

\* pagefault: the new page is cleared and filled from the file slot.
pagefault(t) ==
    /\ status = "up" /\ Known(t)
    /\ \/ /\ Page_alloc = {}
          /\ status' = "Out Of Memory"
          /\ UNCHANGED <<lists, memory, file, ran, newest>>
       \/ \E p \in Page_alloc :
            /\ spaces' = [spaces EXCEPT ![space[t]].firstPage = <<p>> \o @]
            /\ filledFrom' = [filledFrom EXCEPT ![p] = slots[spaces[space[t]].fileSlot]]
            /\ IF freePages # <<>>
               THEN freePages' = Tail(freePages) /\ UNCHANGED numPages
               ELSE numPages' = numPages + 1 /\ UNCHANGED freePages
            /\ ran' = ran \cup {t}
            /\ UNCHANGED <<threads, space, freeSpaces, lostPages, slots, status, file, newest>>

-----------------------------------------------------------------------------
(***************************************************************************)
(* Page::free on the first page of a list puts the whole list in front of  *)
(* the free list.  Called on NULL it works on the zero page that RAM-DSM   *)
(* maps at address 0: the free list goes to the end of the list that       *)
(* begins there, and the free list becomes NULL.                           *)
(***************************************************************************)
Page_free_First(list) ==
    /\ freePages' = (IF list = <<>> THEN <<>> ELSE <<Head(list)>>) \o freePages
    /\ UNCHANGED lostPages
Page_free(list) ==
    IF list = <<>>
    THEN /\ lostPages' = lostPages \o freePages
         /\ freePages' = <<>>
    ELSE /\ freePages' = list \o freePages
         /\ UNCHANGED lostPages

\* ~Thread leaves its space without threads.
LastOf_Creator(t) == Last(spaces[space[t]].firstThread) = t
LastOf_Always(t)  == TRUE
LastOf(t) == Without(spaces[space[t]].firstThread, t) = <<>>

\* deleteAssociation: ~Thread, and Space::free with the last thread.
deleteAssociation(t) ==
    /\ status = "up" /\ Known(t)
    /\ threads' = Without(threads, t)
    /\ spaces' = [spaces EXCEPT ![space[t]].firstThread = Without(@, t)]
    /\ IF LastOf(t)
       THEN /\ Page_free(spaces[space[t]].firstPage)
            /\ freeSpaces' = <<space[t]>> \o freeSpaces
       ELSE UNCHANGED <<freePages, lostPages, freeSpaces>>
    /\ UNCHANGED <<space, numPages, slots, filledFrom, status, file, ran, newest>>

-----------------------------------------------------------------------------
\* Any thread may be killed at any time.
Next ==
    \/ \E t \in Threads : pagefault(t) \/ deleteAssociation(t)
    \/ \E t, u \in Threads : copyAssociation(t, u)
    \/ \E t \in Threads, f \in Files : associateImage(t, f)

Spec == Init /\ [][Next]_vars

-----------------------------------------------------------------------------
SpaceSlots == 1 .. Len(spaces)
Used(s)    == s \notin ToSet(freeSpaces)

\* Each variable has values of its type.
TypeOK ==
    /\ threads \in Seq(Threads)
    /\ space \in [Threads -> {NoSpace} \cup SpaceSlots]
    /\ spaces \in Seq([firstThread : Seq(Threads), firstPage : Seq(Pages), fileSlot : Slots])
    /\ freeSpaces \in Seq(SpaceSlots)
    /\ freePages \in Seq(Pages)
    /\ lostPages \in Seq(Pages)
    /\ numPages \in 0 .. MaxPages
    /\ slots \in [Slots -> Files \cup {Zeroed}]
    /\ filledFrom \in [Pages -> Files \cup {Zeroed}]
    /\ status \in {"up", "Out Of Memory"}
    /\ file \in [Threads -> Files \cup {None}]
    /\ ran \subseteq Threads
    /\ newest \in Threads \cup {None}

\* Programs are isolated: no page belongs to two address spaces, or to one
\* and to the free list, and the next new page belongs to none.
PagesNotShared ==
    LET owned(s) == ToSet(spaces[s].firstPage)
    IN  /\ IsInjective(freePages)
        /\ \A s \in SpaceSlots : Used(s) =>
            /\ IsInjective(spaces[s].firstPage)
            /\ owned(s) \cap ToSet(freePages) = {}
            /\ owned(s) \subseteq 1 .. numPages
            /\ \A r \in SpaceSlots \ {s} : Used(r) => owned(s) \cap owned(r) = {}

\* The lists agree: a space is in use exactly as long as it has threads, its
\* list holds the known threads that point to it, and no free space is listed
\* twice.  So find never returns a thread of a freed space.
ThreadListsAgree ==
    /\ IsInjective(threads) /\ IsInjective(freeSpaces)
    /\ \A s \in SpaceSlots :
        LET own == {t \in Threads : Known(t) /\ space[t] = s}
        IN  /\ ToSet(spaces[s].firstThread) = own
            /\ Used(s) <=> own # {}

\* No page disappears: each page ever made belongs to an address space in use,
\* is on the free list, or was left behind at address 0.
PagesConserved ==
    1 .. numPages = ToSet(freePages) \cup ToSet(lostPages) \cup
        UNION {ToSet(spaces[s].firstPage) : s \in {r \in SpaceSlots : Used(r)}}

\* Free pages are lost only when a thread is killed that has never run; the
\* threads of the repository kill themselves, and lose nothing ("Page::free()
\* takes care of the whole list", util.cc:148).
LostOnlyByEarlyKill ==
    [][lostPages' # lostPages =>
         \E t \in Threads \ ran : Known(t) /\ t \notin ToSet(threads')]_vars

\* The pages of the program that was started last are filled from its own file,
\* however many spaces, pages and file slots have been used before and whatever
\* the threads of older programs do meanwhile ("determine corresponding thread,
\* space and file slot", apppager.cc:30).  An older program that still runs goes
\* on with the newest one's image: all spaces have the same file slot.
NewestFromOwnFile ==
    newest # None => \A t \in Threads :
        (Known(t) /\ space[t] = space[newest] /\ file[newest] \in StoredFiles) =>
            \A p \in ToSet(spaces[space[t]].firstPage) : filledFrom[p] = file[newest]
=============================================================================
