------------------------------- MODULE RamDsm -------------------------------
(***************************************************************************)
(* RAM-DSM of sdiOS, with its BI-ELF loader (sdios/src/ram_dsm/main.cc and *)
(* bielfloader.cc): the pager of the servers that are started from boot    *)
(* modules.                                                                *)
(*                                                                         *)
(* It keeps a bitmap of the pages sigma0 gave it and a table that says     *)
(* which boot module each thread is an instance of; neither pages nor      *)
(* entries of the table are ever given back.  A page fault takes the       *)
(* lowest page, fills it from the image (ElfPage) and maps it.  The loader *)
(* is one thread: it takes one request at a time from those that wait, a   *)
(* fault waits with its thread.  The locator's id, which it also keeps, is *)
(* in Boot.                                                                *)
(*                                                                         *)
(* Around it: the task server starts threads under ids it never uses       *)
(* twice, the first of a space with associateImage, further ones with      *)
(* copyAssociation on behalf of a thread of the space, and kills them      *)
(* without telling RAM-DSM; threads that run touch their memory.  A space  *)
(* is named after its first thread.  Spaces that run a program from the    *)
(* file system belong to the application pager, but RAM-DSM becomes the    *)
(* pager of their further threads and never hears of them before they      *)
(* fault.                                                                  *)
(***************************************************************************)
EXTENDS ElfPage, FiniteSets

CONSTANTS
    Threads,            \* thread ids the task server gives out
    Entries,            \* number of records in the boot info
    BootInfos,          \* what the records can be, see bootinfo
    Image,              \* the program headers of each record's module
    Ids,                \* the numbers startTask is called with: any first character
    VPages,             \* pages of an address space, by their addresses
    Pages,              \* pages RAM-DSM asks sigma0 for, by number
    ASSOC_TABLE_SIZE

None        == -1
NilThread   == 0
NilPage     == 0         \* L4_Nilpage
NoImage     == -1        \* of a space that was not started from a boot module
FirstModule == 0         \* what getModuleId returns for an unknown thread
Modules     == 0 .. Entries - 1
\* find_module accepts one index too many; what lies there is read as a record.
Records     == 0 .. Entries
\* A module whose memory is to be had from sigma0, one of which the root task or
\* another task has a page, and a record of another type.
Kinds       == {"module", "root", "taken", "other"}

ASSUME RamDsmAssumption ==
    /\ Entries \in Nat
    /\ BootInfos \subseteq [Records -> Kinds]
    /\ Image \in [Records -> Seq(Phdrs)]
    /\ \A m \in Modules : WellFormed(Image[m])
    /\ Ids \subseteq Nat
    /\ VPages \subseteq PageStarts
    /\ Pages \subseteq Nat \ {NilPage}
    /\ ASSOC_TABLE_SIZE \in Nat \ {0}
    /\ Threads \subseteq Nat \ {NilThread}

VARIABLES
    associationTable,   \* the entries below associationFreePos
    available,          \* the bits set in available_b
    status,             \* "serving", or the reason of the panic
    content,            \* the bytes of each page
    bootinfo,           \* the kind of each record
    mapped,             \* kernel: the page behind each page of each space
    space,              \* kernel: the space of each thread
    fault,              \* kernel: the page each thread waits for
    dead,               \* kernel: threads that were killed
    image,              \* task server: the number each space was started from
    raced               \* pages for which two threads of a space once waited

loader == <<associationTable, available, status, content, bootinfo>>
kernel == <<mapped, space, fault, dead>>
vars   == <<loader, kernel, image, raced>>

Serving == status = "serving"
Alive(t) == space[t] # NilThread /\ t \notin dead
\* The task server numbers its threads upwards.
Fresh(t) == space[t] = NilThread /\ \A u \in Threads : u < t => space[u] # NilThread

\* main.cc: the bitmap holds what sigma0 gave, which may be any part of it.
Init ==
    /\ associationTable = <<>>
    /\ available \in SUBSET Pages
    /\ status = "serving"
    /\ content = [p \in Pages |-> ZeroPage]
    /\ bootinfo \in BootInfos
    /\ mapped = [s \in Threads |-> [v \in VPages |-> NilPage]]
    /\ space = [t \in Threads |-> NilThread]
    /\ fault = [t \in Threads |-> None]
    /\ dead = {}
    /\ image = [s \in Threads |-> NoImage]
    /\ raced = {}

-----------------------------------------------------------------------------
\* The first entry of the thread; 0, the first boot module, without one.
getModuleId_LastEntry(t) ==
    IF associationTable = <<>> THEN FirstModule
    ELSE associationTable[Len(associationTable)].module
getModuleId(t) ==
    LET found == {i \in DOMAIN associationTable : associationTable[i].thread = t}
    IN  IF found = {} THEN FirstModule
        ELSE associationTable[CHOOSE i \in found : \A j \in found : i <= j].module

\* One more entry, after which the request ends with the given status.
appendToAssociationTable_OneShort(t, m, after) ==
    IF Len(associationTable) < ASSOC_TABLE_SIZE - 2
    THEN /\ associationTable' = Append(associationTable, [thread |-> t, module |-> m])
         /\ status' = after
    ELSE /\ status' = "Association table is full"
         /\ UNCHANGED associationTable
appendToAssociationTable(t, m, after) ==
    IF Len(associationTable) < ASSOC_TABLE_SIZE - 1
    THEN /\ associationTable' = Append(associationTable, [thread |-> t, module |-> m])
         /\ status' = after
    ELSE /\ status' = "Association table is full"
         /\ UNCHANGED associationTable

\* Every scan begins at page 0: lastFreePageBase is never moved on.
getFreePage == CHOOSE p \in available : \A q \in available : p <= q

\* find_module and elfLoadHeader: "serving", or the panic for a number that is
\* too large or a record that is no module.
Header(m) ==
    IF m > Entries THEN "Some modules are missing"
    ELSE IF bootinfo[m] = "other" THEN "Wrong module type"
    ELSE "serving"

\* The task server has made t the first thread of a new space and calls with the
\* first character of the path, whatever it is.  The entry is in the table when
\* the module or its memory turns out to be missing.  (sigma0 may refuse what a
\* record of another type names as its memory, too; it is a panic either way.)
associateImage(t, m) ==
    /\ Fresh(t)
    /\ space' = [space EXCEPT ![t] = t]
    /\ image' = [image EXCEPT ![t] = m]
    /\ appendToAssociationTable(t, m, IF m \in Records /\ bootinfo[m] \in {"root", "taken"}
                                      THEN "sigma0 gave no module memory"
                                      ELSE Header(m))
    /\ UNCHANGED <<available, content, bootinfo, mapped, fault, dead, raced>>

\* The task server has made t one more thread of the space of from.
copyAssociation(from, t) ==
    /\ Alive(from) /\ Fresh(t)
    /\ image[space[from]] # NoImage
    /\ space' = [space EXCEPT ![t] = space[from]]
    /\ appendToAssociationTable(t, getModuleId(from), "serving")
    /\ UNCHANGED <<available, content, bootinfo, mapped, fault, dead, image, raced>>

\* The task server starts a program from the file system, paged by the
\* application pager, ...
startTask_App(t) ==
    /\ Fresh(t)
    /\ space' = [space EXCEPT ![t] = t]
    /\ UNCHANGED <<loader, mapped, fault, dead, image, raced>>

\* ... and makes t one more thread of such a space.  The new thread's pager is
\* RAM-DSM; it is the application pager that is told.
createThread_App(from, t) ==
    /\ Alive(from) /\ Fresh(t)
    /\ image[space[from]] = NoImage
    /\ space' = [space EXCEPT ![t] = space[from]]
    /\ UNCHANGED <<loader, mapped, fault, dead, image, raced>>

\* The page base of the answer: page_end, in the page that was touched.
Base_First(v) == CHOOSE w \in VPages : TRUE
Base(v) == v

NoHeader(m) ==
    /\ Header(m) # "serving"
    /\ status' = Header(m)
    /\ UNCHANGED <<associationTable, available, content, bootinfo>>

OutOfMemory ==
    /\ available = {}
    /\ status' = "Out Of Memory"
    /\ UNCHANGED <<associationTable, available, content, bootinfo>>

\* The bit of the page is cleared, and the page is zeroed and filled.
Taken_StaysAvailable(page) == available
Taken(page) == available \ {page}

\* The image itself is not to be had: the page is taken, and reading the image
\* faults in a loader whose pager gets no answer from sigma0 either.
NoImageMemory(m) ==
    /\ available # {}
    /\ bootinfo[m] = "taken"
    /\ available' = Taken(getFreePage)
    /\ status' = "waits for its pager"
    /\ UNCHANGED <<associationTable, content, bootinfo>>

\* The answer maps the page, whatever is mapped there by now, and the thread
\* goes on.  An image that nobody was started from is brought in by the loader's
\* own pager, the root task, whose it is from then on.
Answer(t, m) ==
    LET page == getFreePage
    IN  /\ available # {}
        /\ bootinfo[m] # "taken"
        /\ available' = Taken(page)
        /\ content' = [content EXCEPT ![page] = Filled(Image[m], fault[t])]
        /\ bootinfo' = IF \E s \in Threads : image[s] = m THEN bootinfo
                       ELSE [bootinfo EXCEPT ![m] = "root"]
        /\ mapped' = [mapped EXCEPT ![space[t]][Base(fault[t])] = page]
        /\ fault' = [fault EXCEPT ![t] = None]
        /\ UNCHANGED <<associationTable, status, space, dead>>

pagefault(t) ==
    LET m == getModuleId(t)
    IN  /\ fault[t] # None
        /\ UNCHANGED <<image, raced>>
        /\ \/ NoHeader(m) /\ UNCHANGED kernel
           \/ Header(m) = "serving" /\ OutOfMemory /\ UNCHANGED kernel
           \/ Header(m) = "serving" /\ NoImageMemory(m) /\ UNCHANGED kernel
           \/ Header(m) = "serving" /\ Answer(t, m)

-----------------------------------------------------------------------------
\* A thread touches a page of its space that is not mapped and waits for
\* RAM-DSM, unless it is the first of a space of the application pager.
Touch(t, v) ==
    /\ Alive(t)
    /\ image[space[t]] # NoImage \/ space[t] # t
    /\ fault[t] = None
    /\ mapped[space[t]][v] = NilPage
    /\ fault' = [fault EXCEPT ![t] = v]
    /\ raced' = IF \E u \in Threads : space[u] = space[t] /\ fault[u] = v
                THEN raced \cup {<<space[t], v>>}
                ELSE raced
    /\ UNCHANGED <<loader, mapped, space, dead, image>>

\* The task server kills t.  Its call ends, if there was one, and with the
\* last thread the space goes; the loader is not told.
Kill(t) ==
    /\ Alive(t)
    /\ dead' = dead \cup {t}
    /\ fault' = [fault EXCEPT ![t] = None]
    /\ mapped' = IF \E u \in Threads \ {t} : Alive(u) /\ space[u] = space[t]
                 THEN mapped
                 ELSE [mapped EXCEPT ![space[t]] = [v \in VPages |-> NilPage]]
    /\ UNCHANGED <<loader, space, image, raced>>

Next ==
    /\ Serving
    /\ \/ \E t \in Threads, m \in Ids : associateImage(t, m)
       \/ \E from, t \in Threads : copyAssociation(from, t)
       \/ \E t \in Threads : startTask_App(t)
       \/ \E from, t \in Threads : createThread_App(from, t)
       \/ \E t \in Threads : pagefault(t)
       \/ \E t \in Threads, v \in VPages : Touch(t, v)
       \/ \E t \in Threads : Kill(t)

Spec == Init /\ [][Next]_vars

-----------------------------------------------------------------------------
Associations == [thread : Threads, module : Ids]
Reasons == {"serving", "Association table is full", "Out Of Memory",
            "sigma0 gave no module memory", "Some modules are missing",
            "Wrong module type", "waits for its pager"}

\* Type invariant: the table never outgrows its 63 usable entries, every thread
\* that waits is alive and in a space.
TypeOK ==
    /\ associationTable \in Seq(Associations)
    /\ Len(associationTable) <= ASSOC_TABLE_SIZE
    /\ available \in SUBSET Pages
    /\ status \in Reasons
    /\ content \in [Pages -> [Bytes -> Nat]]
    /\ bootinfo \in [Records -> Kinds]
    /\ mapped \in [Threads -> [VPages -> Pages \cup {NilPage}]]
    /\ space \in [Threads -> Threads \cup {NilThread}]
    /\ fault \in [Threads -> VPages \cup {None}]
    /\ dead \in SUBSET Threads
    /\ image \in [Threads -> Ids \cup {NoImage}]
    /\ raced \in SUBSET (Threads \X VPages)
    /\ \A t \in Threads : fault[t] # None => Alive(t)

\* bielfloader.cc:55, getFreePage: no page is behind two pages of spaces,
\* and none that is mapped is handed out again, however faults, new threads
\* and kills interleave.
PagesOnce ==
    \A s1, s2 \in Threads, v1, v2 \in VPages :
        mapped[s1][v1] # NilPage =>
            /\ mapped[s1][v1] \notin available
            /\ mapped[s1][v1] = mapped[s2][v2] => <<s1, v1>> = <<s2, v2>>

\* bielfloader.cc:47, :95 and :217: whatever thread of a space faults, also one
\* that was made by a thread that was itself made by another and is dead by now,
\* the page shows byte for byte what load_elfimage would put there, of the module
\* the space was started from; but where a page begins behind the file part of a
\* segment, what comes next in the image (:147).
PagesShowOwnImage ==
    \A s \in Threads, v \in VPages :
        mapped[s][v] # NilPage /\ image[s] \in Modules =>
            content[mapped[s][v]] = AsLoaded(Image[image[s]], v)

\* bielfloader.cc:115: the loader takes a new page for every fault.  What a
\* space has written to a page is lost under a new one only when two of its
\* threads waited for that page at the same time.
ReplacedOnlyInRace ==
    [][\A s \in Threads, v \in VPages :
          (/\ mapped[s][v] # NilPage
           /\ mapped'[s][v] # mapped[s][v]
           /\ mapped'[s][v] # NilPage) => <<s, v>> \in raced]_vars

\* bielfloader.cc:39, :70, :81, :117, :190: the loader gives up, and with it all
\* servers hang, only after ASSOC_TABLE_SIZE - 1 threads of boot modules have been
\* started before the last one, when all pages are gone, when a task was started
\* from a record that is missing, no module or not to be had, or, if the first
\* record is one of these, when a further thread of an application may have
\* faulted.
PanicOnlyExhausted ==
    ~ Serving =>
        \/ Cardinality({t \in Threads : /\ space[t] # NilThread
                                        /\ image[space[t]] # NoImage}) >= ASSOC_TABLE_SIZE
        \/ available = {}
        \/ \E s \in Threads : /\ image[s] # NoImage
                              /\ image[s] > Entries \/ bootinfo[image[s]] # "module"
        \/ /\ bootinfo[FirstModule] # "module"
           /\ \E t \in Threads : /\ space[t] \notin {NilThread, t}
                                 /\ image[space[t]] = NoImage
=============================================================================
