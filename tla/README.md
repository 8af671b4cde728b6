# sdiOS in TLA+

TLA+ modules, TLC runs and TLAPS proofs for sdiOS, a small multi-server operating
system on the L4Ka::Pistachio microkernel. The system's own code is in
`sdios/src/`, the interfaces between its servers in `sdios/if/`, the design of
the task server in `vortrag/vortrag.tex`, that of memory management in
`design/ram-design.txt`. Every definition is translated from the code.

## 1. The system

Each server is one L4 thread in a loop generated by IDL4: it receives a request,
runs the handler to completion, replies (unless the handler said "no response")
and waits for the next request. So a handler is atomic with respect to its own
server's state; what interleaves is the order in which the requests of different
clients arrive, and a client's own steps between two calls. Handlers call other
servers synchronously; a server that calls another one serves nobody meanwhile.

| component | source | state | operations | talks to |
|---|---|---|---|---|
| root task | `root/main.cc` | next thread number | boots everything in a fixed order, then sleeps | locator, RAM-DSM, task server |
| locator | `root/locator.cc` | interface id -> server thread | `Announce` (first one wins), `Locate` (may be nil) | everybody |
| system call server | `root/syscall.cc` | none | `ThreadControl`, `SpaceControl` | kernel |
| boot pager, logger | `root/pager.cc`, `root/logger.cc` | none | page fault of RAM-DSM, log output | sigma0 |
| RAM-DSM / BI-ELF loader | `ram_dsm/bielfloader.cc`, `ram_dsm/main.cc` | association table thread -> boot module, bitmap of free pages, locator id | `pagefault`, `associateImage`, `copyAssociation`, `registerLocator`, `getLocator` | sigma0, new threads |
| task server | `taskserver/taskserver.cc` | tables of spaces, threads and listeners, three scan cursors, next thread number | `startTask`, `kill`, `waitTid`, `createThread`, `getThreadStatus` | system call server, RAM-DSM, application pager, blocked callers |
| application pager | `apppager/apppager.cc`, `apppager/util.cc` | list of threads, spaces with their threads and pages, free lists | `pagefault`, `associateImage`, `copyAssociation`, `deleteAssociation` | file system, new threads |
| file system | `simplefs/filesystem.cc` | file handle table, bump pointer into memory | `createFile`, `deleteFile`, `mapFile`, `listFiles` | application pager, shell |
| keyboard driver | `consoleserver/keyboard.cc`, `keymap.cc` | character buffer, one blocked reader, modifier keys | `read`, `interrupt` | controller, shell |
| console | `consoleserver/console.cc` | screen and cursor | `write`, `delete`, `clear` | shell |
| shell | `shell/main.cc` | command line, download position | line editing, `ls`, `cat`, `start`, `rm`, `touch`, `download` | keyboard, console, file system, task server |
| programs | `hello/main.cc`, `io_dsm/main.cc`, `test/`, `nameserver/` | none | start, use a service, kill themselves | task server |
| RAM disk | `ramdisk/ramdisk.cc` | module mapping | block interface, mostly stubs; not booted | sigma0 |
| run-time library | `lib/sdi/heap.cc` | free list | `malloc`, `free` | - |
| sigma0 | `serv/sigma0/sigma0.cc` | three pools of memory regions, list of free descriptors | start-up from the memory descriptors; page faults, requests at an address and anywhere | root task, RAM-DSM, shell |
| kickstart | `util/kickstart/` | memory descriptors in the kernel interface page | loads kernel, sigma0 and root task, describes memory, places its tables | sigma0 |

sigma0 and kickstart come with L4Ka, but everything above rests on what they
hand out, and they are compiled into the system, so they are modelled too.

### What is hard

* **Order of requests.** A program may kill itself before or after its parent
  waits for it. The shell starts a program and then waits; `io_dsm` starts its
  test thread and then waits. Servers announce themselves in an order nobody
  fixes, and some clients ask the locator only once.
* **State that outlives its owner.** A deleted TCB keeps its id and its listener
  pointer until the slot is used again; a listener slot may be reused while a
  dead TCB still points to it.
* **Limits.** Every table has a fixed size, and the scan for a free slot has an
  edge at both ends of the table.
* **Blocked callers.** `waitTid` and the keyboard's `read` answer later, from
  another handler. Whoever is blocked must be remembered until then, once.
* **Sizes and addresses.** File sizes are rounded, addresses are bumped, lengths
  are subtracted, all in unsigned 32-bit arithmetic.
* **Allocation inside allocation.** sigma0 runs out of descriptors in the middle
  of splitting a region, and allocates a page to itself before it goes on.
* **Two views of one thing.** The shell keeps a command line and a screen, and
  changes them at different moments.

### What makes each component correct

| component | properties |
|---|---|
| task server | tables agree with each other, with the kernel and with the pagers; whoever waits is woken by the right kill; panics only when full |
| application pager | programs never share a page, no page is lost, memory is filled from the program's own file |
| page filling | byte for byte what loading the whole image gives; where it is not, exactly what instead |
| file system | files do not overlap, have their own names, are long enough; a mapping shows one file and all of it |
| keyboard | characters arrive once and in order, the buffer does not overflow, a blocked reader is answered |
| locator, boot | under every schedule the servers find each other and the system comes up |
| RAM-DSM | a page is handed out once; every thread of a space gets the bytes of the space's image; it gives up only for a reason |
| shell, console | the command line stays inside its buffer, what is on the screen is what is executed, a module is copied from its own memory |
| heap | no unit belongs to two blocks, free neighbours are joined, every call returns |
| sigma0, kickstart | every page in one region, given to one thread; nothing in use is free; a refusal means there is nothing and takes nothing |

## 2. Modules

| module | models |
|---|---|
| `TaskServer` | `taskserver/taskserver.cc`: the tables with their pointers, all requests, the callers and the parts of the kernel and the pagers the requests change |
| `TaskService` | what the task server promises, without tables; `TaskServer` is shown to implement it |
| `AppPager` | `apppager/apppager.cc`, `util.cc`: lists of threads, spaces and pages, the file slots |
| `ElfPage` | the loop both pagers fill a page with, and the root task's `load_elfimage`, as operators |
| `SimpleFS` | `simplefs/filesystem.cc` in machine words, and the windows its callers have |
| `Keyboard` | `consoleserver/keyboard.cc` and `keymap.cc`, with the controller and the interrupt line |
| `Boot` | locator, RAM-DSM's `registerLocator` and the main function of every server, composed |
| `RamDsm` | `ram_dsm/bielfloader.cc`, `main.cc`: bitmap, association table and the bytes of pages (`ElfPage`), with the boot info and with threads that fault, start and die |
| `Console` | `consoleserver/console.cc`: screen and cursor, as operators |
| `Shell` | `shell/main.cc`: the loop, line editor, parser and download, composed with `Console` |
| `Heap` | `lib/sdi/heap.cc` |
| `Kickstart` | `util/kickstart`: the memory descriptors as a function of the machine |
| `Sigma0` | `serv/sigma0/sigma0.cc`, started from what `Kickstart` leaves |
| `MC_*` | instances for TLC: constants, symmetry |
| `TaskServerProofs`, `RamDsmProofs`, `AppPagerProofs`, `KeyboardProofs`, `SimpleFSProofs`, `ShellProofs`, `HeapProofs`, `Sigma0Proofs` | theorems about the module of that name, section 4; the one about `ElfPage` is in `RamDsmProofs` |

### How state and actions correspond to the code

**TaskServer.** `spaces`, `threads`, `listeners` are the three arrays, the
cursors the variables of the same name. A pointer is a slot number or `NULL`.
`pager` is what the kernel knows, `biAssoc` and `appAssoc` what the two pagers
know, `waitsFor` what callers are blocked on. The actions are the handlers
`startTask`, `createThread`, `kill`, `waitTid`. A handler that panics, loops for
ever or runs behind its table sets `status`, and the server serves no more.
Reading behind a table is undefined: the slot reads as in use, or as free and
the server overwrites foreign memory (`"overrun"`). A NULL pointer does not
fault in sdiOS, RAM-DSM maps a zero page at address 0; the model follows what
the code then does. `Next` lets every caller send everything; `NextSelfKill` is
the discipline of `vortrag.tex:293` and of all programs in the repository: a
thread kills itself only. Thread numbers do not wrap; `MaxThreadNo` bounds them.

**AppPager.** A singly linked list that is changed at its head is a sequence.
`spaces` are the `Space` objects with their file slot, `slots` what the pager
sees in each slot, `filledFrom` what each page was last filled from. `file` and
`ran` belong to the callers. `lostPages` is the list that hangs off address 0
after `Page::free` was called on NULL. Any thread may be killed at any time.

**ElfPage.** `Filled` is the page after the loop over the program headers, `load_elfimage`
the root task's way. A byte of the image is its offset plus one, so a byte from a wrong
place is a different byte. `AsLoaded` is what the pagers are held to: `load_elfimage`, but
for pages that begin behind the file part of a segment (section 3).

**SimpleFS.** `filehandles` and `filesystemPointer` as in the code, in words of
`WordBits` bits. `Stored` is what a handle keeps of a name. A file for which the memory
check wraps is created like any other, and clearing it ends the model (`"wild memset"`).
`windows` are the mappings callers have got; they keep them when the file is deleted.
The size 0, for which the bit scan in `L4_Fpage` is
undefined, is excluded by assumption; no caller creates an empty file.

**Keyboard.** `buffer` is the text between `buffer` and `buffer_pos`. A turn of
the polling loop is a step, since keys arrive meanwhile. The interrupt line is
edge triggered and masked while the handler runs. A blocked reader that is
killed, the stack frame that `clientBuffer` points to, and the LEDs are not modelled.

**Boot.** Each process runs a script, the calls of its main function in order; the
actions are the operations on locator, RAM-DSM and task server the calls stand
for. A call waits until its server is in its loop. `starting` is the program the
task server has in hand while it waits for the application pager. A pager that has not
found the file system reads an entry point of 0 and the program never begins.
`bootInfoFits` is chosen once: whether the boot info ends on its first 1024 bytes.

**RamDsm.** `associationTable` and `available` are the table and the bitmap, which
holds whatever part of memory sigma0 gave. `content` is the bytes of each page. `bootinfo`
is what each boot record is: a module, one whose memory the root task or somebody else
has, or no module; `find_module` accepts the number behind the last record as well. Tasks
are started from any number. `space`, `fault`, `mapped` and `dead` are the kernel's: a
thread that touches a page without mapping waits in `fault` until the loader takes its
request, and other threads of its space may do the same meanwhile. Spaces of the
application pager are there too (`startTask_App`, `createThread_App`): their further threads
have RAM-DSM as their pager, which takes them for instances of the first record. `Kill`
tells the loader nothing, as in the code. Every panic sets `status`. `raced` is a history
variable.

**Shell and Console.** A console is a record of cells and cursor, and `write`, `delete`
and `clear` map one to the next. A turn of the shell's loop over the characters read is
one step per character, `Scanned` prints what is left of them, and the command is read
out of `cmdChars` as the parser reads it, leftovers included. A store behind the buffer
ends the model (`"overrun"`). `typed`, `line` and `careful` describe the user: `line` is
what the line should be by now, and careful is who corrects only what the shell has
already read and uses no tabs. For `download`, `view` is the shell's window and `owner`
sigma0's record of the boot modules' pages.

**Heap.** The ring of free blocks is the sequence of their addresses from `freep` on;
`size` holds the headers. The model ends as soon as a unit belongs to two blocks, since
callers then overwrite headers.

**Kickstart and Sigma0.** Addresses are counted in pages, those of descriptors in
parts of a page, so that rounding happens. `m` holds the three pools as sequences of
regions and the number of free descriptors; `WithDescriptor` is the allocator of
descriptors with its nested allocation. Start-up takes one descriptor a step, the slow
way of `allocate_page` one page a step. `granted` is what the replies have mapped.

## 3. Runs

All bounds are constants of the configurations. Tables are as small as makes
every edge happen: a first, a last and a middle slot, full and reused.

| run | bounds | shows |
|---|---|---|
| `taskserver_any` | 2 spaces, 3 threads, 2 listeners, 2 UTCBs, 4 thread ids | `TypeOK`, `KernelThreadsHaveTcb`, `SpaceListsAgree`, `UtcbsDistinct`, `AssociationsAgree` for all requests; 4 ids on 3 slots, so slots are reused and tables fill |
| `taskserver_selfkill` | 3 listeners | `ListenersNotShared`, refinement of `TaskService` (`ServiceSpec`) |
| `apppager_any` | 3 threads, 4 pages, 2 files and a missing one | `PagesNotShared`, `ThreadListsAgree`, `PagesConserved`, `NewestFromOwnFile`, `LostOnlyByEarlyKill`; pages run out and spaces are reused |
| `simplefs_files` | 2 handles, 8-bit words, pages of 4 bytes, room for three files, sizes below, at and above full pages and one that wraps; a name, a long one and its rest | `FilesDisjoint`, `NewFilesUnseen` |
| `keyboard_drive` | 2 readers, 4 scancodes, buffer of 7 | `TerminatorFits`, `InOrder`, `BlockedClientServed`; the buffer fills up |
| `boot_up` | none needed | `OneLookupIsEnough`, `ComesUp` |
| `ramdsm_faults` | 4 threads, table of 4, 2 pages of 2 bytes, 2 boot records and what lies behind them, three boot infos; both images have a `.bss` beyond their last page | `PagesOnce`, `PagesShowOwnImage`, `PanicOnlyExhausted`, `ReplacedOnlyInRace`; every panic happens, a thread's creator may be dead |
| `shell_typing` | screen of 3 by 3, buffer of 5, 6 keys in batches of 2, modules of 2, 3 and 1 pages in windows of 2 | `ScreenShowsLine`, `CommandAsTyped`, `OverrunOnlyByLongLine`, `CopyIsModule`; lines wrap, the screen scrolls, the buffer overruns |
| `heap_calls` | 9 units, requests of 1 to 4 units and one whose rounding wraps | `EveryUnitOnce`, `FreeReturns`, `RefusedOnlyWithoutRoom` |
| `sigma0_memory` | 16 pages of 2 parts, three machines, 11 first descriptors and 3 per page, 2 threads, 3 requests of up to 4 pages | `EveryPageOnce`, `GrantsExclusive`, `RefusedOnlyWithoutPages`, `RefusedTakesNothing`, `FreeMemoryUnused`; descriptors run out in the middle of a split and in the slow way |

The three machines of `sigma0_memory` are one with a BIOS map, one whose usable memory
starts in the middle of a page and that has no extra kernel memory, and one without a map
that has so little memory left that sigma0 runs out of it.

Deadlock is checked for `Keyboard` and `Boot`. It is not where the system may stop:
`TaskServer`, `AppPager`, `RamDsm`, `Shell` and `Sigma0` after a panic or when ids, keys or
requests are used up, `Heap` once blocks overlap, and `SimpleFS`, whose `createFile` loops
for ever on less than a page. `MC_RamDsm` also compares `Filled` with `AsLoaded` for all
small images of two segments. The runs list a `TypeOK` only where it says more than types,
for the task server.

**Fairness.** `Keyboard`: weak fairness of the three parts of the interrupt
handler; the kernel delivers a pending interrupt and the handler is a loop
without waits. Nobody has to press keys or read. `Boot`: weak fairness of the
whole; all threads run at the default priority, so one that can go on does.
The other specifications need none.

### Where code and documentation disagree

`taskserver_waitdead` ends in a counterexample: `waitTid` for a thread that has killed
itself finds its old TCB and blocks for ever, where the comment at `taskserver.cc:268`
says that it returns immediately. The shell's `start` is exposed to this.

`simplefs_windows` ends in one too: files lie one behind the other, so a file need not begin
at a multiple of its size, and the flexpage that `mapFile` names (`filesystem.cc:118`) then
begins before the file. The caller sees the file in front and misses the end of its own,
where the comments at `:17` and `:146` say that position and size always make one flexpage.
The sizes of the run are in the proportion of those the shell creates, `touch` and then
`download` (`shell/main.cc:305`, `:237`).

The models follow the code in these points too; no run of their own asks about
them:

* task server: a second kill of a dead thread follows an old listener pointer
  and may wake somebody else's waiter (`taskserver.cc:245`); killing the first
  thread of a space leaves the others alive; further threads of a program from
  the file system get RAM-DSM as their pager (`:314`), which fills their
  pages from the first boot record; the scan for a TCB never looks at the slot before its start (`:59`);
* application pager: all programs share one file slot, so the first goes on with the
  image of the second (`util.cc:135`; `NewestFromOwnFile` is what remains true); it looks
  the file system up once, maybe before that has announced itself (`apppager/main.cc:32`,
  the exception in `OneLookupIsEnough` and `ComesUp`: the program then never runs);
  freeing a space without pages loses the list of free pages
  (`util.cc:149`, bounded by `LostOnlyByEarlyKill`); a missing file starts the
  image of the program before (`apppager.cc:115`);
* file system: names of more than 16 characters are cut and never found again, so they
  can be created twice (`filesystem.cc:174`, the exception in `FilesDisjoint`); the memory
  check wraps for very large sizes, and the new file is cleared over the end of the address
  space (`:157`, up to which `FilesDisjoint` and `NewFilesUnseen` hold); `createFile` of less
  than a page does not return (`:143`);
* page filling: a page wholly behind the file part of a segment gets what follows in
  the image instead of zeros, since a subtraction wraps (`bielfloader.cc:147`,
  `apppager.cc:76`). Every program built here has such pages: `.bss` begins on a new page
  (`sdi.ld:77`) and holds the stack (`ia32-crt0.S:60`). `AsLoaded` says what they show;
* keyboard: with a full buffer a byte stays in the controller, its interrupt is used up
  and no further key is announced (`keyboard.cc:83`; `BlockedClientServed` asks for an
  interrupt on its way); the byte for the LEDs never shows the locks (`:93`, not modelled);
* RAM-DSM: associations of dead threads stay, so the 64th thread ever started ends it
  (`bielfloader.cc:39`, `PanicOnlyExhausted`); `startTask` with a number that is no module's
  ends it too (`:70`, `:81`), and so may a further thread of an application, which is taken
  for the first record (`:52`); two threads that fault on one page
  lose what the first wrote (`:115`, `ReplacedOnlyInRace`); pages are never given back;
* shell: a boot info of more than 1024 bytes is never completed
  (`shell/main.cc:101`; `ComesUp` promises the servers only); a backspace in a batch of several
  characters drops the last ones, and erases on the screen what is not yet printed
  (`:150`); a tab shows four blanks that are not in the command (`:161`); the command
  buffer has no limit (`:165`, `OverrunOnlyByLongLine`); a module whose size is a multiple
  of a page asks sigma0 for the page behind it too, which may be another's (`:279`); a
  module of more than 256 KB is copied over its file's end (`:237`, `:292`);
* heap: a request for exactly the only free block leaves it on the list, and joining the
  only free block from below leaves it there twice (`heap.cc:53`, `:80`; both need the
  start of the heap to be handed out, the hypothesis of `EveryUnitOnce`);
* sigma0: the page-by-page check of a range that ends at the end of memory wraps to 0 and
  always fails (`sigma0.cc:1226`); pages taken before sigma0 took one for itself stay
  with a requester that was refused (`:1222`, `RefusedTakesNothing`); the last
  descriptor of a page lies partly in the next (`:691`, not modelled); conventional memory
  is rounded outwards to pages (`:1034`, the exception in `FreeMemoryUnused`);
* kickstart: `bi->size` is read before `bi` is compared with NULL (`mbi-loader.cc:486`);
  nothing is placed at page 0 only because unset server entries read as 0 .. 0
  (`kipmgr.cc:242`); ELF images are loaded without a check for overlap
  (`mbi-loader.cc:83`).

## 4. Proofs

Every module `XProofs` extends `X`. Its theorems
hold for all values of the constants that satisfy the named
assumption of `X`: tables, memories, buffers and sets of threads of any size, any requests. The runs evaluate the same assumptions on their instances. Most
properties are not inductive; the invariants named below make them so. `A -> B` reads:
theorem A states property B.

**TaskServerProofs** (`ConstantsAssumption`: at least one slot in each table).

* `TypeCorrect` -> `TypeOK`, inductive as it stands. The delicate parts are
  `DeleteTcbType` (the predecessor is chosen from the list of the space) and the cursors,
  which reach one past the end and no further.
* `KernelThreadsHaveTcbAlways` -> `KernelThreadsHaveTcb`. A new TCB with an old id, or a
  second TCB with the same id in a lower slot, would make `find_tcb` return the wrong one.
  `IdInv` adds that ids in TCBs are smaller than `next_thread_no`, that no two slots hold
  the same id, deleted ones included, and that each thread of the kernel has a TCB in use.
* `SpaceListsAlwaysAgree` -> `SpaceListsAgree`. `ThreadListInv` adds that no two threads
  have the same next thread and that none points to the first one. A list is the least set
  that is closed under next; lemmas about closed sets replace induction along the list.
* `UtcbsAlwaysDistinct` -> `UtcbsDistinct`, by `UtcbInv`: the property without its
  restriction to running threads, and no thread without UTCB runs.
* `AssociationsAlwaysAgree` -> `AssociationsAgree`, inductive together with `IdInv` and
  the thread lists; `AssocInv` is the property thread by thread.
* `SelfKillIsSpec`: self-killing threads are a case of `Spec`, so all of this holds there.
* `ListenersNeverShared` -> `ListenersNotShared`, for self-killing threads. `ListenInv`
  says that every entry on a live thread's list belongs to a caller that waits for that
  thread, that lists end and are apart, that every waiter is listed and waits for an id
  already given out. Old pointers of dead TCBs do no harm because ids are never reused.
* `ImplementsTaskService` -> `ServiceSpec`: the refinement, each request of the server a
  step of `TaskService` or a stutter, from the invariants above.

**RamDsmProofs** (`ElfPageAssumption`, `RamDsmAssumption`: the images of boot modules are
what a linker writes, segments with no more bytes in the file than in memory and inside
the address space). `TableInv` says that entries of the table name the number the thread's
space was started from, that spaces are named by their first thread, and that a loader that
still serves knows every thread of a boot module that was started, whose module then
exists; then the first entry found is the right one, and only threads of applications are
unknown.

* `FilledAsLoaded`: `Filled` is `AsLoaded` for well-formed images, headers, pages and words
  of any size. Segment by segment, a byte that the loop copies lies in the file part, or in
  the part read on into when the subtraction wraps; the last such segment decides both.
* `RamDsmTypeCorrect` -> `RamDsm.TypeOK`.
* `PagesHandedOutOnce` -> `PagesOnce`, `PagesFromOwnModule` -> `PagesShowOwnImage`: inductive
  together (`PagesInv`), with the facts that only spaces have pages and that a page of a
  space of a module is `Filled` from that module; `FilledAsLoaded` does the rest.
* `ReplacedOnlyByRace` -> `ReplacedOnlyInRace`: by `RaceKnown`, a thread that waits for a page
  waits alone and the page is missing, unless the pair is recorded as a race.
* `PanicOnlyWhenExhausted` -> `PanicOnlyExhausted`: by `TableCounted`, the table has no more
  entries than threads of boot modules were started; an unknown thread that faults is a
  further thread of an application.

**AppPagerProofs**. `ListInv` adds to the types that no thread is on a space's list twice
and that known threads were started.

* `ThreadListsAlwaysAgree` -> `ThreadListsAgree`; `PagesNeverShared` -> `PagesNotShared`;
  `PagesAlwaysConserved` -> `PagesConserved`.
* `PagesLostOnlyByEarlyKill` -> `LostOnlyByEarlyKill`: by `RanHasPages`, the space of a thread
  that has run has a page.
* `NewestAlwaysFromOwnFile` -> `NewestFromOwnFile`: by `NewestInSlot`, the file slot shows the
  newest program's file, with the invariants above.

**KeyboardProofs**: `TerminatorAlwaysFits` -> `TerminatorFits`, `DeliveredInOrder` ->
`InOrder`, from `BufferInv`.

**SimpleFSProofs**, for any names and sizes. `MemoryInv` says that all files lie below the
pointer, apart from each other and from every mapped file's memory, and that two files have
one name only if it is a cut one. It is inductive up to the wrap (`TameInv`): a file whose
bytes all lie in the memory has not wrapped, so the check has compared the true sum
(`NewFile`), and after the wrap no step follows (`StaysWild`).

* `FilesAlwaysDisjoint` -> `FilesDisjoint`, `NewFilesAlwaysUnseen` -> `NewFilesUnseen`.

**ShellProofs**.

* `CopyAlwaysModule` -> `CopyIsModule`, by `DownloadInv`: the next window lies behind one
  window for each module mapped, and the windows of modules that fit show their own pages.
* `OverrunAlwaysByLongLine` -> `OverrunOnlyByLongLine`, by `BufferInv`: the pointer into the
  command line is at most the characters gone through and the newlines among them.
* `CommandAlwaysAsTyped` -> `CommandAsTyped`, by `LineInv`: while the shell goes through the
  characters read, the buffer holds the line up to the pointer, and what was read is one
  backspace, or letters with or without a newline behind them; before a command is executed
  the buffer holds the whole line, and behind it the newline at which the parser stops.
* `ScreenAlwaysShowsLine` -> `ScreenShowsLine`, by `LineInv` and `ScreenInv`: while characters
  are gone through, the screen shows the prompt and the line without them, and one
  character more while a backspace is at work. The hypothesis `LineFits` says that a full
  command line is shorter than the screen without its last row (200 < 80 * 24 in the code;
  `MC_Shell` assumes it for its instance); of a longer one the start would be scrolled off.
  The lemmas say what each character does to the cells before the cursor, scrolling
  included. What `Console.write` makes of a text is a fold; `FoldExists` shows that its
  recursive function exists, and `WriteSteps` and `StepsStay` go along it, by the least
  length that fails instead of by induction.

**HeapProofs**. The first part is about rings: a ring is in order when no block lies
between a block and the one behind it, going around (`InOrder`), and rotating, unlinking
and linking keep that. `Sound` counts the owners of each unit; `SoundLaid` and `LaidSound`
replace it by a layout in terms of addresses. `HeapInv` says that the ring is in order, that
no block is empty or reaches behind the memory, that no free block ends where another
begins, and that the blocks are laid out as long as the start was not handed out; the last
needs that the first block is then free, so that a block is never joined to the only free
one from below.

* `EveryUnitAlwaysOnce` -> `EveryUnitOnce`.
* `FreeAlwaysReturns` -> `FreeReturns`: the place is behind the greatest free block below bp,
  or behind the greatest of all.
* `RefusedAlwaysWithoutRoom` -> `RefusedOnlyWithoutRoom`: where no free block is long enough, a
  run of free units would contain the end of one free block and the start of the next.

**Sigma0Proofs** (`KickstartAssumption`, `Sigma0Assumption`: machines are well formed and
get as far as sigma0, no requester is called like a kind of owner, sizes are numbers).
`Invariant` states the inductive invariant `Inv`, from which the rest follows:

* `PoolsOK`: regions of a pool are apart and the pools are apart; as long as sigma0 lives
  every page is in one; free regions are maximal and free for anybody. The last two are
  what `allocate` relies on when it looks for one region that holds the whole range.
* `Starting`, `Described`: while descriptors are read nothing is sent, and a page is free
  because the last descriptor read that mentions it says so.
* `Recorded`: a page that was sent is in a region of its receiver or of everybody.
* `Slowly`, `Refused`: in the slow way, the pages passed belong to the requester and the rest
  is to be had unless the list was fed; a request that was refused could not be served.

Under the actions lie lemmas that say, page by page, what `TakeStart`, `insert`, `remove`,
`allocate` and the feeding of the list do to the pools: feeding takes a page from the pool
that is just being changed, so each is stated for a pool that may have lost one.

* `EveryPageOnceAlways` -> `EveryPageOnce`, `GrantsExclusiveAlways` -> `GrantsExclusive`,
  `RefusedOnlyWithoutPagesAlways` -> `RefusedOnlyWithoutPages`, `RefusedTakesNothingAlways` ->
  `RefusedTakesNothing`.
* `FreeMemoryUnusedAlways` -> `FreeMemoryUnused`, from `Described` and the order in which
  kickstart writes its descriptors. The hypothesis `EndsMentioned` says that after a usable
  entry of the BIOS that ends in the middle of a page an entry follows that mentions this
  page, as in a map in the order of addresses that has no gaps; `MC_Sigma0` assumes it for
  its machines. Without it sigma0, which rounds outwards, gives the rest of the page away.

### Only model-checked

* Liveness (`BlockedClientServed`, `ComesUp`): fairness is beyond the proof system.
* `Boot.OneLookupIsEnough`: the system has no parameters, so the run is exhaustive.

Every other property of a passing run is stated by a theorem.

## 5. Plan

What remains are models: `AppPager` composed with `SimpleFS`, so that the windows of a
program are those of the file system; the shell's `start` composed with `TaskServer`.

## 6. Not modelled

The system call server, boot pager and logger keep no state; their effects are in their
callers' actions. The RAM disk and the test programs are not booted, and most of the RAM
disk is stubs. The heap of the root task is a pointer that grows. Of kickstart, the
loading of ELF images, the command line and the records of the boot info are left out,
and so is its amd64 variant; of sigma0, malformed messages, memory attributes and the
dump request. Of the shell, the panics of `download` for a number that is no module's
(`shell/main.cc:253`, `:267`). Of the task server, `createThread` by the root task, which has no
TCB, and requests about the nil id, which nobody in the repository sends; what the server
does after it has read behind a table. Of the console, the second half of the condition at
`console.cc:53`, which is true for every text the shell writes.

Most lines of the repository are none of the system's own behaviour. `include/` (17,000
lines) holds inline accessors of the kernel interface for eight processors and the ELF
definitions; `minix3fs/` (11,000 lines) is the MINIX 3 file server, which no Makefile of the
build enters and nothing calls; `util/piggybacker` (3,000 lines) boots other processors;
`lib/io` and `lib/l4` format output and wrap system calls. They hold no state that the
servers share and nothing of them is modelled beyond what the servers' actions use, so the
share of the repository's lines that the modules stand for stays small although all
servers that are booted are covered.
