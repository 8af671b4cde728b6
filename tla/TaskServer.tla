----------------------------- MODULE TaskServer -----------------------------
(***************************************************************************)
(* The task server of sdiOS (sdios/src/taskserver/taskserver.cc).          *)
(*                                                                         *)
(* The server keeps three fixed tables: spaces[] (one ASCB per address     *)
(* space), threads[] (one TCB per thread) and listeners[] (one entry per   *)
(* blocked waitTid call).  The tables are linked by pointers: an ASCB to   *)
(* the first TCB of its space, a TCB to its ASCB, to the next TCB of the   *)
(* space and to its first listener, a listener to the next one.  A slot is *)
(* free when one field of it is zero.  The server is single threaded and   *)
(* runs one request to completion, so one handler is one action; the calls *)
(* it makes (system call server, RAM-DSM, application pager) are synchro-  *)
(* nous and touch state that no one else changes, so they are part of it.  *)
(*                                                                         *)
(* A pointer is the index of the slot it points to, or NULL.  A thread id  *)
(* is its thread number (the version is always 1).  The callers are the    *)
(* root task, which the task server did not create, and every thread that  *)
(* the kernel knows and that is not blocked in waitTid.                    *)
(***************************************************************************)
EXTENDS Integers, FiniteSets

CONSTANTS
    NumSpaces,      \* MAX_NUM_SPACES
    NumThreads,     \* MAX_NUM_THREADS
    NumListeners,   \* MAX_NUM_LISTENERS
    NumUtcbs,       \* UTCB slots in the UTCB area of one space
    MaxThreadNo     \* bound: startTask and createThread stop at this number

ASSUME ConstantsAssumption ==
    /\ NumSpaces \in Nat \ {0}
    /\ NumThreads \in Nat \ {0}
    /\ NumListeners \in Nat \ {0}
    /\ NumUtcbs \in Nat \ {0}
    /\ MaxThreadNo \in Nat

VARIABLES
    spaces,             \* the ASCBs
    threads,            \* the TCBs
    listeners,          \* the listener table
    next_as_idx,        \* where the next scan of each table starts
    next_thread_idx,
    next_listener_idx,
    next_thread_no,     \* number of the next thread id
    status,             \* "up", or why the server serves no more requests
    pager,              \* kernel: the pager of each existing thread
    biAssoc,            \* RAM-DSM: threads it has an image association for
    appAssoc,           \* application pager: threads it knows
    waitsFor            \* callers: the thread each one is blocked on

tables   == <<spaces, threads, listeners>>
cursors  == <<next_as_idx, next_thread_idx, next_listener_idx, next_thread_no>>
others   == <<pager, biAssoc, appAssoc, waitsFor>>
vars     == <<tables, cursors, status, others>>

-----------------------------------------------------------------------------
NULL      == -1
NilThread == 0
Root      == 1                      \* the root task and the boot modules
FirstNo   == 2                      \* L4_ThreadNo(L4_Myself()) + 1
ThreadIds == FirstNo .. MaxThreadNo
Callers   == {Root} \cup ThreadIds

SpaceSlots    == 0 .. NumSpaces - 1
ThreadSlots   == 0 .. NumThreads - 1
ListenerSlots == 0 .. NumListeners - 1

BiElf == "pagedbyBiElfLoader"
App   == "pagedbyAppPager"

\* A slot after memset(.., 0, ..).
ZeroSpace    == [pagedby |-> BiElf, firstThread |-> NULL]
ZeroThread   == [globalid |-> NilThread, localid |-> NULL, as |-> NULL,
                 nextThread |-> NULL, firstListener |-> NULL]
ZeroListener == [listeningThread |-> NilThread, nextListener |-> NULL]

\* A TCB as get_free_tcb hands it out.
InitTcb_KeepsListeners(t) ==
    [ZeroThread EXCEPT !.firstListener = threads[t].firstListener]
InitTcb(t) == ZeroThread

FreeSpaces    == {s \in SpaceSlots : spaces[s].firstThread = NULL}
FreeThreads_EndOfList == {t \in ThreadSlots : threads[t].nextThread = NULL}
FreeThreads   == {t \in ThreadSlots : threads[t].as = NULL}
FreeListeners == {l \in ListenerSlots : listeners[l].listeningThread = NilThread}

(***************************************************************************)
(* The scan all three get_free_* functions share:                          *)
(*     for (i = next; i != next - 1; i = (i + 1) % n)                      *)
(* The slot before the start is never looked at.  The scan saves i + 1     *)
(* without a modulus, so next may be n: the loop then reads slot n, which  *)
(* is outside the table, and goes on with slot 1.  What lies behind the    *)
(* table is up to the linker: the word reads as in use, or as free and the *)
(* server hands out (and clears) memory outside the table.                 *)
(***************************************************************************)
Considered(next, n) ==
    {i \in 0 .. n - 1 : i # next - 1 /\ (next = n => i # 0)}

FirstFree(next, n, free) ==
    LET candidates  == free \cap Considered(next, n)
        distance(i) == (i + n - next) % n
    IN  {i \in candidates : \A j \in candidates : distance(i) <= distance(j)}

\* The scan may run over the end of the table.
MayOverrun(next, n) == next = n

get_free_ascb     == FirstFree(next_as_idx, NumSpaces, FreeSpaces)
get_free_tcb      == FirstFree(next_thread_idx, NumThreads, FreeThreads)
get_free_listener == FirstFree(next_listener_idx, NumListeners, FreeListeners)

-----------------------------------------------------------------------------
(***************************************************************************)
(* Following a chain of pointers: the smallest set that contains the       *)
(* start and is closed under next.                                         *)
(***************************************************************************)
Chain(start, slots, next) ==
    {x \in slots :
        \A S \in SUBSET slots :
            /\ start \in S
            /\ \A y \in S : next[y] \in S \cup {NULL}
            => x \in S}

nextThreads   == [t \in ThreadSlots |-> threads[t].nextThread]
nextListeners == [l \in ListenerSlots |-> listeners[l].nextListener]

ThreadsOf(s)   == IF spaces[s].firstThread = NULL THEN {}
                  ELSE Chain(spaces[s].firstThread, ThreadSlots, nextThreads)
ListenersOf(t) == IF threads[t].firstListener = NULL THEN {}
                  ELSE Chain(threads[t].firstListener, ListenerSlots, nextListeners)

\* A walk over the listeners of t never meets a NULL pointer.
EndlessListeners(t) ==
    /\ ListenersOf(t) # {}
    /\ \A l \in ListenersOf(t) : listeners[l].nextListener # NULL

\* find_tcb: the first slot with that id, whether or not it is in use.
find_tcb(id) ==
    {t \in ThreadSlots : /\ threads[t].globalid = id
                         /\ \A u \in ThreadSlots :
                                threads[u].globalid = id => t <= u}

get_free_localid_PastEnd(s) ==
    LET used == {threads[t].localid : t \in ThreadsOf(s)}
    IN  {i \in 0 .. NumUtcbs : i \notin used /\ \A j \in 0 .. i - 1 : j \in used}
get_free_localid_Count(s) ==
    IF Cardinality(ThreadsOf(s)) < NumUtcbs THEN {Cardinality(ThreadsOf(s))} ELSE {NULL}

\* get_free_localid: the lowest UTCB slot no thread of the space has, or nil.
get_free_localid(s) ==
    LET used == {threads[t].localid : t \in ThreadsOf(s)}
        free == (0 .. NumUtcbs - 1) \ used
    IN  IF free = {} THEN {NULL} ELSE {i \in free : \A j \in free : i <= j}

Live(t)      == threads[t].as # NULL
Paged(t, by) == Live(t) /\ spaces[threads[t].as].pagedby = by

-----------------------------------------------------------------------------
Init ==
    /\ spaces            = [s \in SpaceSlots |-> ZeroSpace]
    /\ threads           = [t \in ThreadSlots |-> ZeroThread]
    /\ listeners         = [l \in ListenerSlots |-> ZeroListener]
    /\ next_as_idx       = 0
    /\ next_thread_idx   = 0
    /\ next_listener_idx = 0
    /\ next_thread_no    = FirstNo
    /\ status            = "up"
    /\ pager             = [id \in ThreadIds |-> "none"]
    /\ biAssoc           = {}
    /\ appAssoc          = {}
    /\ waitsFor          = [c \in Callers |-> NilThread]

Exists(id) == id \in ThreadIds /\ pager[id] # "none"

\* c is able to call the server, and the server takes the call.
Call(c) ==
    /\ status = "up"
    /\ c = Root \/ Exists(c)
    /\ waitsFor[c] = NilThread

\* The server stops for the given reason; nobody looks at its tables again.
Stop(reason) ==
    /\ status' = reason
    /\ UNCHANGED <<tables, cursors, others>>

\* get_free_threadid, within the bound.
NumberLeft == next_thread_no <= MaxThreadNo

-----------------------------------------------------------------------------
\* The new space and its first thread, started by the pager that loads it.
NewTask(t, s, by) ==
    /\ threads' = [threads EXCEPT ![t] =
            [InitTcb(t) EXCEPT !.globalid = next_thread_no, !.localid = 0, !.as = s]]
    /\ spaces' = [spaces EXCEPT ![s] =
            [pagedby |-> by, firstThread |-> t]]
    /\ next_thread_idx' = t + 1
    /\ next_as_idx' = s + 1
    /\ next_thread_no' = next_thread_no + 1
    /\ pager' = [pager EXCEPT ![next_thread_no] =
            IF by = BiElf THEN "ram_dsm" ELSE "apppager"]
    /\ IF by = BiElf
       THEN biAssoc' = biAssoc \cup {next_thread_no} /\ UNCHANGED appAssoc
       ELSE appAssoc' = appAssoc \cup {next_thread_no} /\ UNCHANGED biAssoc
    /\ UNCHANGED <<listeners, next_listener_idx, status, waitsFor>>

\* startTask: by is the loader the first character of the path selects.
startTask(c, by) ==
    /\ Call(c)
    /\ NumberLeft
    /\ \/ MayOverrun(next_thread_idx, NumThreads) /\ Stop("overrun")
       \/ get_free_tcb = {} /\ Stop("no TCBs")
       \/ \E t \in get_free_tcb :
            \/ MayOverrun(next_as_idx, NumSpaces) /\ Stop("overrun")
            \/ get_free_ascb = {} /\ Stop("no ASCBs")
            \/ \E s \in get_free_ascb : NewTask(t, s, by)

-----------------------------------------------------------------------------
\* The new thread enters the list of its space behind its creator.  The TCB
\* is linked in before its local id is chosen, when its own is still nil.
\* The kernel refuses a thread without a UTCB; nobody looks at the refusal.
NewThread(caller, t, s, id) ==
    \E localid \in get_free_localid(s) :
        /\ threads' = [threads EXCEPT
                ![t] = [InitTcb(t) EXCEPT !.globalid = id, !.localid = localid, !.as = s,
                            !.nextThread = threads[caller].nextThread],
                ![caller].nextThread = t]
        /\ next_thread_idx' = t + 1
        /\ next_thread_no' = next_thread_no + 1
        /\ pager' = IF localid = NULL THEN pager
                    ELSE [pager EXCEPT ![id] = "ram_dsm"]
        /\ IF spaces[s].pagedby = BiElf
           THEN biAssoc' = biAssoc \cup {id} /\ UNCHANGED appAssoc
           ELSE appAssoc' = appAssoc \cup {id} /\ UNCHANGED biAssoc
        /\ UNCHANGED <<spaces, listeners, next_as_idx, next_listener_idx,
                       status, waitsFor>>

\* createThread: c is a thread of the server, so it has a TCB (KernelThreadsHaveTcb).
createThread(c) ==
    /\ Call(c)
    /\ c # Root
    /\ NumberLeft
    /\ \E caller \in find_tcb(c) :
        \/ MayOverrun(next_thread_idx, NumThreads) /\ Stop("overrun")
        \/ get_free_tcb = {} /\ Stop("no TCBs")
        \/ \E t \in get_free_tcb :
               NewThread(caller, t, threads[caller].as, next_thread_no)

-----------------------------------------------------------------------------
Predecessor_First(s, t) == spaces[s].firstThread

\* delete_tcb: the TCB in front of t in the list of its space.
Predecessor(s, t) ==
    CHOOSE u \in ThreadsOf(s) :
        IF \E v \in ThreadsOf(s) : threads[v].nextThread = t
        THEN threads[u].nextThread = t
        ELSE threads[u].nextThread = NULL

\* The id and the listener pointer of a deleted TCB stay.  A TCB that is
\* already deleted has no space: the server reads the zero page that RAM-DSM
\* maps at address 0 and unlinks nothing.
delete_tcb(t) ==
    LET s     == threads[t].as
        clear == [threads EXCEPT ![t].nextThread = NULL, ![t].as = NULL]
    IN  /\ listeners' = [l \in ListenerSlots |->
                IF l \in ListenersOf(t)
                THEN [listeners[l] EXCEPT !.listeningThread = NilThread]
                ELSE listeners[l]]
        /\ IF s = NULL
           THEN threads' = clear /\ UNCHANGED spaces
           ELSE IF spaces[s].firstThread = t
           THEN /\ spaces' = [spaces EXCEPT ![s].firstThread = threads[t].nextThread]
                /\ threads' = clear
           ELSE /\ threads' = [clear EXCEPT ![Predecessor(s, t)].nextThread =
                                    threads[t].nextThread]
                /\ UNCHANGED spaces

WakeListeners_FirstOnly(t, id) ==
    waitsFor' = [c \in Callers |->
        IF \/ c = id
           \/ threads[t].firstListener # NULL
              /\ listeners[threads[t].firstListener].listeningThread = c
        THEN NilThread ELSE waitsFor[c]]

\* Replies go to every listener of t; one to a thread that is gone is lost.
WakeListeners(t, id) ==
    waitsFor' = [c \in Callers |->
        IF c = id \/ \E l \in ListenersOf(t) : listeners[l].listeningThread = c
        THEN NilThread ELSE waitsFor[c]]

\* deleteAssociation is asked of the application pager if it pages the space.
NotifyPager_Never(t, id) == UNCHANGED appAssoc
NotifyPager(t, id) ==
    appAssoc' = IF Paged(t, App) THEN appAssoc \ {id} ELSE appAssoc

kill(c, id) ==
    /\ Call(c)
    /\ \/ find_tcb(id) = {} /\ Stop("unknown thread")
       \/ \E t \in find_tcb(id) :
            /\ pager' = [pager EXCEPT ![id] = "none"]
            /\ NotifyPager(t, id)
            /\ WakeListeners(t, id)
            /\ IF EndlessListeners(t)
               THEN status' = "endless loop" /\ UNCHANGED tables
               ELSE delete_tcb(t) /\ UNCHANGED status
            /\ UNCHANGED <<cursors, biAssoc>>

-----------------------------------------------------------------------------

PushListener(t, l, c) ==
    /\ listeners' = [listeners EXCEPT ![l] =
            [listeningThread |-> c, nextListener |-> threads[t].firstListener]]
    /\ threads' = [threads EXCEPT ![t].firstListener = l]

\* waitTid: an unknown thread is answered at once, otherwise the caller blocks.
waitTid(c, id) ==
    /\ Call(c)
    /\ \/ find_tcb(id) = {} /\ UNCHANGED vars
       \/ \E t \in find_tcb(id) :
            \/ MayOverrun(next_listener_idx, NumListeners) /\ Stop("overrun")
            \/ get_free_listener = {} /\ Stop("no Listeners")
            \/ \E l \in get_free_listener :
                /\ PushListener(t, l, c)
                /\ next_listener_idx' = l + 1
                /\ waitsFor' = [waitsFor EXCEPT ![c] = id]
                /\ UNCHANGED <<spaces, next_as_idx, next_thread_idx, next_thread_no,
                               status, pager, biAssoc, appAssoc>>

-----------------------------------------------------------------------------
\* The requests of the interface, with any argument.
Next ==
    \E c \in Callers :
        \/ \E by \in {BiElf, App} : startTask(c, by)
        \/ createThread(c)
        \/ \E id \in ThreadIds : kill(c, id) \/ waitTid(c, id)

Spec == Init /\ [][Next]_vars

\* The requests of the programs of the repository: a thread kills only itself.
NextSelfKill ==
    \E c \in Callers :
        \/ \E by \in {BiElf, App} : startTask(c, by)
        \/ createThread(c)
        \/ c # Root /\ kill(c, c)
        \/ \E id \in ThreadIds : waitTid(c, id)

SelfKillSpec == Init /\ [][NextSelfKill]_vars
-----------------------------------------------------------------------------
Ascbs == [pagedby : {BiElf, App}, firstThread : ThreadSlots \cup {NULL}]
Tcbs  == [globalid : ThreadIds \cup {NilThread},
          localid : (0 .. NumUtcbs - 1) \cup {NULL},
          as : SpaceSlots \cup {NULL},
          nextThread : ThreadSlots \cup {NULL},
          firstListener : ListenerSlots \cup {NULL}]
Listeners == [listeningThread : Callers \cup {NilThread},
              nextListener : ListenerSlots \cup {NULL}]

TablesOK ==
    /\ spaces \in [SpaceSlots -> Ascbs]
    /\ threads \in [ThreadSlots -> Tcbs]
    /\ listeners \in [ListenerSlots -> Listeners]

CursorsOK ==
    /\ next_as_idx \in 0 .. NumSpaces
    /\ next_thread_idx \in 0 .. NumThreads
    /\ next_listener_idx \in 0 .. NumListeners
    /\ next_thread_no \in Nat /\ next_thread_no >= FirstNo

OthersOK ==
    /\ pager \in [ThreadIds -> {"none", "ram_dsm", "apppager"}]
    /\ biAssoc \subseteq ThreadIds
    /\ appAssoc \subseteq ThreadIds
    /\ waitsFor \in [Callers -> ThreadIds \cup {NilThread}]

\* Each variable has values of its type: every pointer is NULL or points into
\* its table, and every cursor is at most one past the end of its table.
TypeOK ==
    /\ TablesOK
    /\ CursorsOK
    /\ OthersOK
    /\ status \in {"up", "overrun", "no TCBs", "no ASCBs", "no Listeners",
                   "unknown thread", "endless loop"}

\* find_tcb finds, for every thread the kernel knows, a TCB that is in use:
\* createThread and kill of a running thread never work on a deleted TCB or
\* on none at all (both dereference the result unchecked).
KernelThreadsHaveTcb ==
    \A id \in ThreadIds : Exists(id) =>
        /\ find_tcb(id) # {}
        /\ \A t \in find_tcb(id) : Live(t)

\* The list a space keeps of its threads holds exactly the TCBs that point
\* back to it, after any order of insertions in the middle and removals.
SpaceListsAgree ==
    \A s \in SpaceSlots : ThreadsOf(s) = {t \in ThreadSlots : threads[t].as = s}

\* Two threads the kernel runs in one space never share a UTCB.
UtcbsDistinct ==
    \A t, u \in ThreadSlots :
        /\ t # u /\ Live(t) /\ threads[t].as = threads[u].as
        /\ Exists(threads[t].globalid) /\ Exists(threads[u].globalid)
        => threads[t].localid # threads[u].localid

\* The application pager knows exactly the threads of the spaces it pages:
\* createThread never has it copy the association of a thread it does not have
\* (it would follow a NULL pointer), and no thread it has is forgotten.  RAM-DSM knows at least
\* the threads of the spaces it pages.
AssociationsAgree ==
    LET pagedBy(p) == {threads[t].globalid : t \in {u \in ThreadSlots : Paged(u, p)}}
    IN  status = "up" => appAssoc = pagedBy(App) /\ pagedBy(BiElf) \subseteq biAssoc

-----------------------------------------------------------------------------
\* A caller that waits for a living thread is on the listener list that the
\* kill of that thread walks (taskserver.cc:245), so it is going to be woken.
WaitersRegistered ==
    \A c \in Callers : Exists(waitsFor[c]) =>
        \E t \in find_tcb(waitsFor[c]), l \in ListenerSlots :
            l \in ListenersOf(t) /\ listeners[l].listeningThread = c

\* Every waiter is registered, no listener entry is on the lists of two threads,
\* and none on a list is free: waking and freeing the listeners of one thread
\* leaves those of the others alone, and the walk over a list ends.
ListenersNotShared ==
    /\ WaitersRegistered
    /\ \A t \in ThreadSlots : Live(t) =>
        /\ \A l \in ListenersOf(t) : listeners[l].listeningThread # NilThread
        /\ ~EndlessListeners(t)
        /\ \A u \in ThreadSlots \ {t} : Live(u) => ListenersOf(t) \cap ListenersOf(u) = {}

-----------------------------------------------------------------------------
\* The comment in waitTid (taskserver.cc:268) has a wait for a thread that
\* does not exist return immediately: nobody is blocked on such a thread.
NoWaitForTheDead ==
    \A c \in Callers : waitsFor[c] # NilThread => Exists(waitsFor[c])

-----------------------------------------------------------------------------
\* The server with self-killing threads does what TaskService promises.
Service == INSTANCE TaskService WITH
    alive <- {id \in ThreadIds : Exists(id)},
    used  <- FirstNo .. next_thread_no - 1,
    up    <- status = "up"

ServiceSpec == Service!Spec
=============================================================================
