-------------------------- MODULE TaskServerProofs --------------------------
(***************************************************************************)
(* Theorems about the task server, for tables of any size and any bound on *)
(* the thread numbers.                                                     *)
(***************************************************************************)
EXTENDS TaskServer, TLAPS

\* The slot that a scan finds is a slot of the table that was free.
LEMMA FirstFreeIsFree ==
    ASSUME NEW next, NEW n, NEW free, NEW i \in FirstFree(next, n, free)
    PROVE  i \in free
BY DEF FirstFree

\* A stop of the server changes nothing but its status.
LEMMA StopType ==
    ASSUME TypeOK, NEW r \in {"overrun", "no TCBs", "no ASCBs", "no Listeners",
                              "unknown thread", "endless loop"},
           Stop(r)
    PROVE  TypeOK'
BY DEF TypeOK, TablesOK, CursorsOK, OthersOK, Stop, tables, cursors, others

-----------------------------------------------------------------------------
\* The number that a new thread gets is the id of a thread.
LEMMA NewIdType ==
    ASSUME CursorsOK, NumberLeft
    PROVE  next_thread_no \in ThreadIds
BY ConstantsAssumption DEF CursorsOK, NumberLeft, ThreadIds, FirstNo

\* A scan leaves its cursor at most one past the end of the table.
LEMMA NextSlotType ==
    ASSUME NEW n \in Nat, NEW i \in 0 .. n - 1
    PROVE  i + 1 \in 0 .. n
OBVIOUS

LEMMA NewTaskType ==
    ASSUME TypeOK, NumberLeft,
           NEW t \in ThreadSlots, NEW s \in SpaceSlots, NEW by \in {BiElf, App},
           NewTask(t, s, by)
    PROVE  TypeOK'
<1>1. next_thread_no \in ThreadIds
  BY NewIdType DEF TypeOK
<1>2. TablesOK'
  <2>1. [InitTcb(t) EXCEPT !.globalid = next_thread_no, !.localid = 0, !.as = s] \in Tcbs
    <3>1. 0 \in 0 .. NumUtcbs - 1
      BY ConstantsAssumption
    <3> QED BY <1>1, <3>1 DEF InitTcb, ZeroThread, Tcbs
  <2>2. threads' \in [ThreadSlots -> Tcbs]
    BY <2>1 DEF TypeOK, TablesOK, NewTask
  <2>3. spaces' \in [SpaceSlots -> Ascbs]
    BY DEF TypeOK, TablesOK, NewTask, Ascbs
  <2> QED BY <2>2, <2>3 DEF TypeOK, TablesOK, NewTask
<1>3. CursorsOK'
  <2>1. next_thread_idx' \in 0 .. NumThreads /\ next_as_idx' \in 0 .. NumSpaces
    BY ConstantsAssumption, NextSlotType DEF NewTask, ThreadSlots, SpaceSlots
  <2>2. next_thread_no' = next_thread_no + 1 /\ next_listener_idx' = next_listener_idx
    BY DEF NewTask
  <2>3. CursorsOK
    BY DEF TypeOK
  <2>4. next_thread_no' \in Nat /\ next_thread_no' >= FirstNo
    BY <2>2, <2>3 DEF CursorsOK, FirstNo
  <2> QED BY <2>1, <2>2, <2>3, <2>4 DEF CursorsOK
<1>4. OthersOK'
  BY <1>1 DEF TypeOK, OthersOK, NewTask
<1> QED BY <1>2, <1>3, <1>4 DEF TypeOK, NewTask

LEMMA NewThreadType ==
    ASSUME TypeOK, NumberLeft,
           NEW caller \in ThreadSlots, NEW t \in ThreadSlots,
           NewThread(caller, t, threads[caller].as, next_thread_no)
    PROVE  TypeOK'
<1> DEFINE s == threads[caller].as
<1>1. next_thread_no \in ThreadIds
  BY NewIdType DEF TypeOK
<1>2. PICK localid \in get_free_localid(s) : NewThread(caller, t, s, next_thread_no)!(localid)
  BY DEF NewThread
<1>3. localid \in (0 .. NumUtcbs - 1) \cup {NULL}
  BY DEF get_free_localid
<1>4. TablesOK'
  <2> DEFINE new == [InitTcb(t) EXCEPT !.globalid = next_thread_no, !.localid = localid,
                                       !.as = s, !.nextThread = threads[caller].nextThread]
  <2>1. new \in Tcbs
    BY <1>1, <1>3 DEF TypeOK, TablesOK, InitTcb, ZeroThread, Tcbs
  <2>2. [threads EXCEPT ![t] = new] \in [ThreadSlots -> Tcbs]
    BY <2>1 DEF TypeOK, TablesOK
  <2>3. threads' = [[threads EXCEPT ![t] = new] EXCEPT ![caller].nextThread = t]
    BY <1>2
  <2>4. UNCHANGED <<spaces, listeners>>
    BY <1>2
  <2> DEFINE mid == [threads EXCEPT ![t] = new]
  <2>5. [mid EXCEPT ![caller].nextThread = t] \in [ThreadSlots -> Tcbs]
    <3>1. mid \in [ThreadSlots -> Tcbs]
      BY <2>2
    <3> HIDE DEF mid
    <3> QED BY <3>1 DEF Tcbs
  <2> HIDE DEF new
  <2> QED BY <2>3, <2>4, <2>5 DEF TypeOK, TablesOK
<1>5. CursorsOK'
  <2>1. next_thread_idx' \in 0 .. NumThreads
    BY ConstantsAssumption, <1>2, NextSlotType DEF ThreadSlots
  <2>2. /\ next_thread_no' = next_thread_no + 1
        /\ UNCHANGED <<next_as_idx, next_listener_idx>>
    BY <1>2
  <2>3. CursorsOK
    BY DEF TypeOK
  <2>4. next_thread_no' \in Nat /\ next_thread_no' >= FirstNo
    BY <2>2, <2>3 DEF CursorsOK, FirstNo
  <2> QED BY <2>1, <2>2, <2>3, <2>4 DEF CursorsOK
<1>6. OthersOK'
  BY <1>1, <1>2 DEF TypeOK, OthersOK
<1> QED BY <1>2, <1>4, <1>5, <1>6 DEF TypeOK

LEMMA DeleteTcbType ==
    ASSUME TablesOK, NEW t \in ThreadSlots, delete_tcb(t)
    PROVE  TablesOK'
<1> DEFINE clear == [threads EXCEPT ![t].nextThread = NULL, ![t].as = NULL]
           next  == threads[t].nextThread
<1>1. clear \in [ThreadSlots -> Tcbs]
  BY DEF TablesOK, Tcbs
<1>2. next \in ThreadSlots \cup {NULL}
  BY DEF TablesOK, Tcbs
<1>3. threads' = clear \/ \E u : threads' = [clear EXCEPT ![u].nextThread = next]
  BY DEF delete_tcb
<1>4. \A u : [clear EXCEPT ![u].nextThread = next] \in [ThreadSlots -> Tcbs]
  <2> HIDE DEF clear, next
  <2> QED BY <1>1, <1>2 DEF Tcbs
<1>5. threads' \in [ThreadSlots -> Tcbs]
  <2> HIDE DEF clear, next
  <2> QED BY <1>1, <1>3, <1>4
<1>6. spaces' = spaces \/ \E s : spaces' = [spaces EXCEPT ![s].firstThread = next]
  BY DEF delete_tcb
<1>7. spaces' \in [SpaceSlots -> Ascbs]
  <2> HIDE DEF next
  <2> QED BY <1>2, <1>6 DEF TablesOK, Ascbs
<1>8. listeners' \in [ListenerSlots -> Listeners]
  BY DEF TablesOK, Listeners, delete_tcb
<1> QED BY <1>5, <1>7, <1>8 DEF TablesOK

LEMMA KillType ==
    ASSUME TypeOK, NEW c \in Callers, NEW id \in ThreadIds, kill(c, id)
    PROVE  TypeOK'
<1>1. CASE find_tcb(id) = {} /\ Stop("unknown thread")
  BY <1>1, StopType
<1>2. CASE \E t \in find_tcb(id) : kill(c, id)!2!2!(t)
  <2>1. PICK t \in find_tcb(id) : kill(c, id)!2!2!(t)
    BY <1>2
  <2>2. t \in ThreadSlots
    BY DEF find_tcb
  <2>3. TablesOK'
    <3>1. CASE UNCHANGED tables
      BY <3>1 DEF TypeOK, TablesOK, tables
    <3>2. CASE delete_tcb(t)
      BY <2>2, <3>2, DeleteTcbType DEF TypeOK
    <3> QED BY <2>1, <3>1, <3>2
  <2>4. CursorsOK'
    BY <2>1 DEF TypeOK, CursorsOK, cursors
  <2>5. OthersOK'
    BY <2>1 DEF TypeOK, OthersOK, NotifyPager, WakeListeners
  <2>6. status' = "endless loop" \/ status' = status
    BY <2>1
  <2> QED BY <2>3, <2>4, <2>5, <2>6 DEF TypeOK
<1> QED BY <1>1, <1>2 DEF kill

LEMMA WaitType ==
    ASSUME TypeOK, NEW c \in Callers, NEW id \in ThreadIds, waitTid(c, id)
    PROVE  TypeOK'
<1>1. CASE UNCHANGED vars
  BY <1>1 DEF TypeOK, TablesOK, CursorsOK, OthersOK, vars, tables, cursors, others
<1>2. CASE Stop("overrun") \/ Stop("no Listeners")
  BY <1>2, StopType
<1>3. CASE \E t \in find_tcb(id), l \in get_free_listener : waitTid(c, id)!2!2!(t)!3!(l)
  <2>1. PICK t \in find_tcb(id), l \in get_free_listener : waitTid(c, id)!2!2!(t)!3!(l)
    BY <1>3
  <2>2. t \in ThreadSlots /\ l \in ListenerSlots
    BY FirstFreeIsFree DEF find_tcb, get_free_listener, FreeListeners
  <2>3. TablesOK'
    <3>1. [listeningThread |-> c, nextListener |-> threads[t].firstListener] \in Listeners
      BY <2>2 DEF TypeOK, TablesOK, Tcbs, Listeners
    <3>2. listeners' \in [ListenerSlots -> Listeners]
      BY <2>1, <3>1 DEF TypeOK, TablesOK, PushListener
    <3>3. threads' \in [ThreadSlots -> Tcbs]
      BY <2>1, <2>2 DEF TypeOK, TablesOK, Tcbs, PushListener
    <3> QED BY <2>1, <3>2, <3>3 DEF TypeOK, TablesOK
  <2>4. CursorsOK'
    <3>1. next_listener_idx' \in 0 .. NumListeners
      BY ConstantsAssumption, <2>1, <2>2, NextSlotType DEF ListenerSlots
    <3>2. UNCHANGED <<next_as_idx, next_thread_idx, next_thread_no>>
      BY <2>1
    <3> QED BY <3>1, <3>2 DEF TypeOK, CursorsOK
  <2>5. OthersOK'
    BY <2>1 DEF TypeOK, OthersOK
  <2> QED BY <2>1, <2>3, <2>4, <2>5 DEF TypeOK
<1> QED BY <1>1, <1>2, <1>3 DEF waitTid

LEMMA StartTaskType ==
    ASSUME TypeOK, NEW c \in Callers, NEW by \in {BiElf, App}, startTask(c, by)
    PROVE  TypeOK'
<1>1. CASE Stop("overrun") \/ Stop("no TCBs") \/ Stop("no ASCBs")
  BY <1>1, StopType
<1>2. CASE \E t \in get_free_tcb, s \in get_free_ascb : NewTask(t, s, by)
  <2>1. PICK t \in get_free_tcb, s \in get_free_ascb : NewTask(t, s, by)
    BY <1>2
  <2>2. t \in ThreadSlots /\ s \in SpaceSlots
    BY FirstFreeIsFree DEF get_free_tcb, get_free_ascb, FreeThreads, FreeSpaces
  <2> QED BY <2>1, <2>2, NewTaskType DEF startTask
<1> QED BY <1>1, <1>2 DEF startTask

LEMMA CreateThreadType ==
    ASSUME TypeOK, NEW c \in Callers, createThread(c)
    PROVE  TypeOK'
<1>1. CASE Stop("overrun") \/ Stop("no TCBs")
  BY <1>1, StopType
<1>2. CASE \E caller \in find_tcb(c), t \in get_free_tcb :
              NewThread(caller, t, threads[caller].as, next_thread_no)
  <2>1. PICK caller \in find_tcb(c), t \in get_free_tcb :
              NewThread(caller, t, threads[caller].as, next_thread_no)
    BY <1>2
  <2>2. caller \in ThreadSlots /\ t \in ThreadSlots
    BY FirstFreeIsFree DEF find_tcb, get_free_tcb, FreeThreads
  <2> QED BY <2>1, <2>2, NewThreadType DEF createThread
<1> QED BY <1>1, <1>2 DEF createThread

-----------------------------------------------------------------------------
LEMMA InitType == Init => TypeOK
<1> SUFFICES ASSUME Init PROVE TypeOK
  OBVIOUS
<1>1. TablesOK
  BY DEF Init, TablesOK, Ascbs, Tcbs, Listeners, ZeroSpace, ZeroThread, ZeroListener
<1>2. CursorsOK
  BY ConstantsAssumption DEF Init, CursorsOK, FirstNo
<1>3. OthersOK
  BY DEF Init, OthersOK
<1> QED BY <1>1, <1>2, <1>3 DEF Init, TypeOK

LEMMA TypeStep == TypeOK /\ [Next]_vars => TypeOK'
<1> SUFFICES ASSUME TypeOK, [Next]_vars PROVE TypeOK'
  OBVIOUS
<1>1. CASE UNCHANGED vars
  BY <1>1 DEF TypeOK, TablesOK, CursorsOK, OthersOK, vars, tables, cursors, others
<1>2. ASSUME NEW c \in Callers, NEW by \in {BiElf, App}, startTask(c, by)
      PROVE  TypeOK'
  BY <1>2, StartTaskType
<1>3. ASSUME NEW c \in Callers, createThread(c)
      PROVE  TypeOK'
  BY <1>3, CreateThreadType
<1>4. ASSUME NEW c \in Callers, NEW id \in ThreadIds, kill(c, id)
      PROVE  TypeOK'
  BY <1>4, KillType
<1>5. ASSUME NEW c \in Callers, NEW id \in ThreadIds, waitTid(c, id)
      PROVE  TypeOK'
  BY <1>5, WaitType
<1> QED BY <1>1, <1>2, <1>3, <1>4, <1>5 DEF Next

\* Every pointer of the task server stays within its table and every cursor at
\* most one past the end of its table, whatever requests arrive.
THEOREM TypeCorrect == Spec => []TypeOK
BY InitType, TypeStep, PTL DEF Spec

\* Threads that kill only themselves are a special case.
THEOREM SelfKillIsSpec == SelfKillSpec => Spec
<1>1. NextSelfKill => Next
  BY DEF NextSelfKill, Next, Callers
<1> QED BY <1>1, PTL DEF SelfKillSpec, Spec

-----------------------------------------------------------------------------
(***************************************************************************)
(* KernelThreadsHaveTcb is not inductive: a TCB found by its id could be   *)
(* another one with the same id.  It becomes so with the facts that ids in *)
(* the table are below the next id to be given out and that no two TCBs,   *)
(* in use or not, carry the same one.                                      *)
(***************************************************************************)
IdsUsed == \A t \in ThreadSlots : threads[t].globalid < next_thread_no

IdsUnique ==
    \A t, u \in ThreadSlots :
        threads[t].globalid = threads[u].globalid => t = u \/ threads[t].globalid = NilThread

KernelHasTcb ==
    \A id \in ThreadIds : pager[id] # "none" =>
        /\ id < next_thread_no
        /\ \E t \in ThreadSlots : threads[t].globalid = id /\ threads[t].as # NULL

IdInv == TypeOK /\ IdsUsed /\ IdsUnique /\ KernelHasTcb

\* A thread with a new id in a slot that was free keeps the ids unique.
LEMMA NewIdKeeps ==
    ASSUME IdInv, NumberLeft, NEW t \in FreeThreads,
           next_thread_no' = next_thread_no + 1,
           \A u \in ThreadSlots : threads'[u].globalid =
                IF u = t THEN next_thread_no ELSE threads[u].globalid,
           \A u \in ThreadSlots \ {t} : threads'[u].as = threads[u].as,
           threads'[t].as # NULL,
           \A id \in ThreadIds \ {next_thread_no} : pager'[id] = pager[id]
    PROVE  IdsUsed' /\ IdsUnique' /\ KernelHasTcb'
<1>1. t \in ThreadSlots /\ threads[t].as = NULL
  BY DEF FreeThreads
<1>2. next_thread_no \in ThreadIds
  BY NewIdType DEF IdInv, TypeOK
<1>3. next_thread_no \in Nat /\ next_thread_no # NilThread
  <2>1. CursorsOK
    BY DEF IdInv, TypeOK
  <2> QED BY <2>1 DEF CursorsOK, FirstNo, NilThread
<1>4. \A u \in ThreadSlots : threads[u].globalid \in Int /\ threads[u].globalid < next_thread_no
  <2>1. ThreadIds \cup {NilThread} \subseteq Int
    BY ConstantsAssumption DEF ThreadIds, FirstNo, NilThread
  <2>2. \A u \in ThreadSlots : threads[u].globalid \in ThreadIds \cup {NilThread}
    BY DEF IdInv, TypeOK, TablesOK, Tcbs
  <2> QED BY <2>1, <2>2 DEF IdInv, IdsUsed
<1>5. IdsUsed'
  BY <1>3, <1>4 DEF IdsUsed
<1>6. IdsUnique'
  <2> SUFFICES ASSUME NEW u \in ThreadSlots, NEW v \in ThreadSlots,
                      threads'[u].globalid = threads'[v].globalid, u # v
               PROVE  threads'[u].globalid = NilThread
    BY DEF IdsUnique
  <2>1. u # t /\ v # t
    BY <1>3, <1>4
  <2> QED BY <2>1 DEF IdInv, IdsUnique
<1>7. KernelHasTcb'
  <2> SUFFICES ASSUME NEW id \in ThreadIds, pager'[id] # "none"
               PROVE  /\ id < next_thread_no'
                      /\ \E u \in ThreadSlots : threads'[u].globalid = id /\ threads'[u].as # NULL
    BY DEF KernelHasTcb
  <2>1. CASE id = next_thread_no
    BY <1>1, <1>3, <2>1
  <2>2. CASE id # next_thread_no
    <3>1. pager[id] # "none"
      BY <2>2
    <3>2. PICK u \in ThreadSlots : threads[u].globalid = id /\ threads[u].as # NULL
      BY <3>1 DEF IdInv, KernelHasTcb
    <3>3. id < next_thread_no /\ id \in Int
      BY <1>4, <3>2
    <3>4. u # t
      BY <1>1, <3>2
    <3> QED BY <1>3, <3>2, <3>3, <3>4
  <2> QED BY <2>1, <2>2
<1> QED BY <1>5, <1>6, <1>7

\* A step that leaves ids and uses of the TCBs alone, and revives no thread.
LEMMA SameIdsKeep ==
    ASSUME IdInv,
           next_thread_no' = next_thread_no,
           \A u \in ThreadSlots : threads'[u].globalid = threads[u].globalid,
           \A u \in ThreadSlots : threads'[u].as = threads[u].as,
           pager' = pager
    PROVE  IdsUsed' /\ IdsUnique' /\ KernelHasTcb'
BY DEF IdInv, IdsUsed, IdsUnique, KernelHasTcb

\* A kill removes the thread from the kernel and its TCB from use.
LEMMA KillKeeps ==
    ASSUME IdInv, NEW c \in Callers, NEW id \in ThreadIds,
           NEW t \in find_tcb(id), kill(c, id)!2!2!(t)
    PROVE  IdsUsed' /\ IdsUnique' /\ KernelHasTcb'
<1>1. t \in ThreadSlots /\ threads[t].globalid = id
  BY DEF find_tcb
<1>2. \A u \in ThreadSlots : /\ threads'[u].globalid = threads[u].globalid
                             /\ u # t => threads'[u].as = threads[u].as
  <2> DEFINE clear == [threads EXCEPT ![t].nextThread = NULL, ![t].as = NULL]
  <2>1. CASE UNCHANGED tables
    BY <2>1 DEF tables
  <2>2. CASE delete_tcb(t)
    <3>1. clear \in [ThreadSlots -> Tcbs]
      BY <1>1 DEF IdInv, TypeOK, TablesOK, Tcbs
    <3>2. \A u \in ThreadSlots : /\ clear[u].globalid = threads[u].globalid
                                 /\ u # t => clear[u].as = threads[u].as
      BY <1>1 DEF IdInv, TypeOK, TablesOK, Tcbs
    <3>3. threads' = clear
          \/ \E v, n : threads' = [clear EXCEPT ![v].nextThread = n]
      BY <2>2 DEF delete_tcb
    <3> HIDE DEF clear
    <3> QED BY <3>1, <3>2, <3>3 DEF Tcbs
  <2> QED BY <2>1, <2>2
<1>3. next_thread_no' = next_thread_no
  BY DEF cursors
<1>4. \A i \in ThreadIds : pager'[i] # "none" => i # id /\ pager[i] # "none"
  BY DEF IdInv, TypeOK, OthersOK
<1>5. IdsUsed' /\ IdsUnique'
  BY <1>2, <1>3 DEF IdInv, IdsUsed, IdsUnique
<1>6. KernelHasTcb'
  <2> SUFFICES ASSUME NEW i \in ThreadIds, pager'[i] # "none"
               PROVE  /\ i < next_thread_no'
                      /\ \E u \in ThreadSlots : threads'[u].globalid = i /\ threads'[u].as # NULL
    BY DEF KernelHasTcb
  <2>1. i # id /\ pager[i] # "none"
    BY <1>4
  <2>2. PICK u \in ThreadSlots : threads[u].globalid = i /\ threads[u].as # NULL
    BY <2>1 DEF IdInv, KernelHasTcb
  <2>3. i < next_thread_no'
    BY <1>3, <2>1 DEF IdInv, KernelHasTcb
  <2> QED BY <1>1, <1>2, <2>1, <2>2, <2>3
<1> QED BY <1>5, <1>6

\* IdInv is inductive: one case per request.
LEMMA IdInvStep == IdInv /\ [Next]_vars => IdInv'
<1> SUFFICES ASSUME IdInv, [Next]_vars PROVE IdsUsed' /\ IdsUnique' /\ KernelHasTcb'
  BY TypeStep DEF IdInv
<1> DEFINE Keeps == IdsUsed' /\ IdsUnique' /\ KernelHasTcb'
<1> HIDE DEF Keeps
<1>1. ASSUME UNCHANGED <<threads, next_thread_no, pager>> PROVE Keeps
  BY <1>1, SameIdsKeep DEF Keeps
<1>2. ASSUME NEW r, Stop(r) PROVE Keeps
  BY <1>1, <1>2 DEF Stop, tables, cursors, others
<1>3. ASSUME NEW c \in Callers, NEW by \in {BiElf, App}, startTask(c, by) PROVE Keeps
  <2>1. CASE \E t \in get_free_tcb, s \in get_free_ascb : NewTask(t, s, by)
    <3>1. PICK t \in get_free_tcb, s \in get_free_ascb : NewTask(t, s, by)
      BY <2>1
    <3>2. t \in FreeThreads /\ t \in ThreadSlots /\ s \in SpaceSlots
      BY FirstFreeIsFree DEF get_free_tcb, get_free_ascb, FreeThreads, FreeSpaces
    <3>3. s # NULL
      BY <3>2, ConstantsAssumption DEF SpaceSlots, NULL
    <3>4. \A u \in ThreadSlots :
            /\ threads'[u].globalid = IF u = t THEN next_thread_no ELSE threads[u].globalid
            /\ threads'[u].as = IF u = t THEN s ELSE threads[u].as
      BY <3>1, <3>2 DEF NewTask, InitTcb, ZeroThread, IdInv, TypeOK, TablesOK
    <3>5. \A id \in ThreadIds \ {next_thread_no} : pager'[id] = pager[id]
      BY <3>1 DEF NewTask, IdInv, TypeOK, OthersOK
    <3>6. next_thread_no' = next_thread_no + 1 /\ NumberLeft
      BY <1>3, <3>1 DEF NewTask, startTask
    <3> QED BY <3>2, <3>3, <3>4, <3>5, <3>6, NewIdKeeps DEF Keeps
  <2> QED BY <1>2, <1>3, <2>1 DEF startTask
<1>4. ASSUME NEW c \in Callers, createThread(c) PROVE Keeps
  <2>1. CASE \E caller \in find_tcb(c), t \in get_free_tcb :
                NewThread(caller, t, threads[caller].as, next_thread_no)
    <3>1. PICK caller \in find_tcb(c), t \in get_free_tcb :
                NewThread(caller, t, threads[caller].as, next_thread_no)
      BY <2>1
    <3>2. caller \in ThreadSlots /\ t \in FreeThreads /\ t \in ThreadSlots
      BY FirstFreeIsFree DEF find_tcb, get_free_tcb, FreeThreads
    <3> DEFINE s == threads[caller].as
    <3>3. s # NULL
      <4>1. c \in ThreadIds /\ pager[c] # "none"
        BY <1>4 DEF createThread, Call, Exists
      <4>2. PICK u \in ThreadSlots : threads[u].globalid = c /\ threads[u].as # NULL
        BY <4>1 DEF IdInv, KernelHasTcb
      <4>3. threads[caller].globalid = c
        BY DEF find_tcb
      <4>4. c # NilThread
        BY <4>1, ConstantsAssumption DEF ThreadIds, FirstNo, NilThread
      <4> QED BY <3>2, <4>2, <4>3, <4>4 DEF IdInv, IdsUnique
    <3>4. caller # t
      BY <3>2, <3>3 DEF FreeThreads
    <3>5. PICK localid \in get_free_localid(s) : NewThread(caller, t, s, next_thread_no)!(localid)
      BY <3>1 DEF NewThread
    <3> DEFINE new == [InitTcb(t) EXCEPT !.globalid = next_thread_no, !.localid = localid,
                                         !.as = s, !.nextThread = threads[caller].nextThread]
               mid == [threads EXCEPT ![t] = new]
    <3>6. threads' = [mid EXCEPT ![caller].nextThread = t]
      BY <3>5
    <3>7. new.globalid = next_thread_no /\ new.as = s
      BY DEF InitTcb, ZeroThread
    <3>8. mid \in [ThreadSlots -> Tcbs]
      <4>1. localid \in (0 .. NumUtcbs - 1) \cup {NULL}
        BY DEF get_free_localid
      <4>2. next_thread_no \in ThreadIds
        BY <1>4, NewIdType DEF IdInv, TypeOK, createThread
      <4>3. new \in Tcbs
        BY <3>2, <4>1, <4>2 DEF IdInv, TypeOK, TablesOK, InitTcb, ZeroThread, Tcbs
      <4> QED BY <4>3 DEF IdInv, TypeOK, TablesOK
    <3>9. \A u \in ThreadSlots : /\ mid[u].globalid = IF u = t THEN next_thread_no ELSE threads[u].globalid
                                 /\ mid[u].as = IF u = t THEN s ELSE threads[u].as
      <4> HIDE DEF new
      <4> QED BY <3>2, <3>7 DEF IdInv, TypeOK, TablesOK
    <3>10. \A u \in ThreadSlots :
             /\ threads'[u].globalid = IF u = t THEN next_thread_no ELSE threads[u].globalid
             /\ threads'[u].as = IF u = t THEN s ELSE threads[u].as
      <4> HIDE DEF mid, s
      <4> QED BY <3>6, <3>8, <3>9 DEF Tcbs
    <3>11. \A id \in ThreadIds \ {next_thread_no} : pager'[id] = pager[id]
      BY <3>5 DEF IdInv, TypeOK, OthersOK
    <3>12. next_thread_no' = next_thread_no + 1 /\ NumberLeft
      BY <1>4, <3>5 DEF createThread
    <3> QED
      <4> HIDE DEF s
      <4> QED BY <3>2, <3>3, <3>10, <3>11, <3>12, NewIdKeeps DEF Keeps
  <2> QED BY <1>2, <1>4, <2>1 DEF createThread
<1>5. ASSUME NEW c \in Callers, NEW id \in ThreadIds, kill(c, id) PROVE Keeps
  BY <1>2, <1>5, KillKeeps DEF kill, Keeps
<1>6. ASSUME NEW c \in Callers, NEW id \in ThreadIds, waitTid(c, id) PROVE Keeps
  <2>1. CASE UNCHANGED vars
    BY <1>1, <2>1 DEF vars, tables, cursors, others
  <2>2. CASE \E t \in find_tcb(id), l \in get_free_listener : waitTid(c, id)!2!2!(t)!3!(l)
    <3>1. PICK t \in find_tcb(id), l \in get_free_listener : waitTid(c, id)!2!2!(t)!3!(l)
      BY <2>2
    <3>2. \A u \in ThreadSlots : /\ threads'[u].globalid = threads[u].globalid
                                 /\ threads'[u].as = threads[u].as
      BY <3>1 DEF PushListener, IdInv, TypeOK, TablesOK, Tcbs
    <3> QED BY <3>1, <3>2, SameIdsKeep DEF Keeps
  <2> QED BY <1>2, <1>6, <2>1, <2>2 DEF waitTid
<1> QED
  <2>1. CASE UNCHANGED vars
    BY <1>1, <2>1 DEF vars, tables, cursors, others, Keeps
  <2>2. CASE Next
    BY <1>3, <1>4, <1>5, <1>6, <2>2 DEF Next, Keeps
  <2> QED BY <2>1, <2>2

LEMMA IdInvImpliesProperty == IdInv => KernelThreadsHaveTcb
<1> SUFFICES ASSUME IdInv, NEW id \in ThreadIds, pager[id] # "none"
             PROVE  find_tcb(id) # {} /\ \A t \in find_tcb(id) : Live(t)
  BY DEF KernelThreadsHaveTcb, Exists
<1>1. PICK t \in ThreadSlots : threads[t].globalid = id /\ threads[t].as # NULL
  BY DEF IdInv, KernelHasTcb
<1>2. id # NilThread
  BY ConstantsAssumption DEF ThreadIds, FirstNo, NilThread
<1>3. \A u \in ThreadSlots : threads[u].globalid = id => u = t
  BY <1>1, <1>2 DEF IdInv, IdsUnique
<1>4. t <= t
  BY <1>1, ConstantsAssumption DEF ThreadSlots
<1>5. find_tcb(id) = {t}
  BY <1>1, <1>3, <1>4 DEF find_tcb
<1> QED BY <1>1, <1>5 DEF Live

\* Whatever requests arrive, in whatever order: find_tcb finds, for every
\* thread the kernel knows, a TCB that is in use.
THEOREM KernelThreadsHaveTcbAlways == Spec => []KernelThreadsHaveTcb
<1>1. Init => IdInv
  <2> SUFFICES ASSUME Init PROVE IdInv
    OBVIOUS
  <2>1. TypeOK
    BY InitType
  <2>2. IdsUsed /\ IdsUnique
    BY DEF Init, IdsUsed, IdsUnique, ZeroThread, NilThread, FirstNo
  <2>3. KernelHasTcb
    BY DEF Init, KernelHasTcb
  <2> QED BY <2>1, <2>2, <2>3 DEF IdInv
<1> QED BY <1>1, IdInvStep, IdInvImpliesProperty, PTL DEF Spec

-----------------------------------------------------------------------------
(***************************************************************************)
(* Lists.  A chain is the least set that contains its start and is closed  *)
(* under next; what the updates of the code do to it follows from that.    *)
(***************************************************************************)
LEMMA ChainStart ==
    ASSUME NEW slots, NEW start \in slots, NEW next
    PROVE  start \in Chain(start, slots, next) /\ Chain(start, slots, next) \subseteq slots
BY DEF Chain

LEMMA ChainClosed ==
    ASSUME NEW slots, NEW start \in slots, NEW next \in [slots -> slots \cup {NULL}],
           NEW y \in Chain(start, slots, next)
    PROVE  next[y] \in Chain(start, slots, next) \cup {NULL}
<1>1. y \in slots
  BY DEF Chain
<1> SUFFICES ASSUME next[y] # NULL PROVE next[y] \in Chain(start, slots, next)
  OBVIOUS
<1>2. next[y] \in slots
  BY <1>1
<1> SUFFICES ASSUME NEW S \in SUBSET slots, start \in S, \A z \in S : next[z] \in S \cup {NULL}
             PROVE  next[y] \in S
  BY <1>2 DEF Chain
<1>3. y \in S
  BY DEF Chain
<1> QED BY <1>3

LEMMA ChainLeast ==
    ASSUME NEW slots, NEW start \in slots, NEW next, NEW S \in SUBSET slots,
           start \in S, \A z \in S : next[z] \in S \cup {NULL}
    PROVE  Chain(start, slots, next) \subseteq S
BY DEF Chain

\* What happens to entries that are not in a list does not matter to it.
LEMMA ChainSame ==
    ASSUME NEW slots, NEW start \in slots,
           NEW next \in [slots -> slots \cup {NULL}], NEW next2 \in [slots -> slots \cup {NULL}],
           \A y \in Chain(start, slots, next) : next2[y] = next[y]
    PROVE  Chain(start, slots, next2) = Chain(start, slots, next)
<1> DEFINE C == Chain(start, slots, next)
           D == Chain(start, slots, next2)
<1>1. start \in C /\ C \subseteq slots /\ start \in D /\ D \subseteq slots
  BY ChainStart
<1>2. \A y \in C : next[y] \in C \cup {NULL}
  BY ChainClosed
<1>3. \A y \in D : next2[y] \in D \cup {NULL}
  BY ChainClosed
<1>4. D \subseteq C
  <2>1. \A y \in C : next2[y] \in C \cup {NULL}
    BY <1>2
  <2> HIDE DEF C
  <2> QED BY <1>1, <2>1, ChainLeast
<1>5. C \subseteq D
  <2> DEFINE E == C \cap D
  <2>1. E \in SUBSET slots /\ start \in E /\ \A y \in E : next[y] \in E \cup {NULL}
    BY <1>1, <1>2, <1>3
  <2> HIDE DEF D, E
  <2>2. C \subseteq E
    BY <2>1, ChainLeast
  <2> QED BY <2>2 DEF E
<1> QED BY <1>4, <1>5

\* A list of one entry.
LEMMA ChainOne ==
    ASSUME NEW slots, NEW start \in slots, NEW next, next[start] = NULL
    PROVE  Chain(start, slots, next) = {start}
<1> DEFINE S == {start}
<1>1. S \in SUBSET slots /\ start \in S /\ \A z \in S : next[z] \in S \cup {NULL}
  OBVIOUS
<1> HIDE DEF S
<1>2. Chain(start, slots, next) \subseteq S
  BY <1>1, ChainLeast
<1> QED BY <1>2, ChainStart DEF S

\* Insertion behind an entry p of the list (createThread).
LEMMA ChainInsert ==
    ASSUME NEW slots, NEW start \in slots, NULL \notin slots,
           NEW next \in [slots -> slots \cup {NULL}], NEW next2 \in [slots -> slots \cup {NULL}],
           NEW p \in Chain(start, slots, next), NEW t \in slots,
           t \notin Chain(start, slots, next),
           next2[p] = t, next2[t] = next[p],
           \A y \in slots \ {p, t} : next2[y] = next[y]
    PROVE  Chain(start, slots, next2) = Chain(start, slots, next) \cup {t}
<1> DEFINE C == Chain(start, slots, next)
           D == Chain(start, slots, next2)
<1>1. start \in C /\ C \subseteq slots /\ start \in D /\ D \subseteq slots
  BY ChainStart
<1>2. \A y \in C : next[y] \in C \cup {NULL}
  BY ChainClosed
<1>3. \A y \in D : next2[y] \in D \cup {NULL}
  BY ChainClosed
<1> HIDE DEF C, D
<1>4. p \in C /\ t \notin C
  BY DEF C
<1>5. D \subseteq C \cup {t}
  <2> DEFINE E == C \cup {t}
  <2>1. E \in SUBSET slots /\ start \in E
    BY <1>1
  <2>2. \A y \in E : next2[y] \in E \cup {NULL}
    BY <1>1, <1>2, <1>4
  <2> HIDE DEF E
  <2>3. D \subseteq E
    BY <2>1, <2>2, ChainLeast DEF D
  <2> QED BY <2>3 DEF E
<1>6. C \subseteq D
  <2> DEFINE E == D \cap C
  <2>1. E \in SUBSET slots /\ start \in E
    BY <1>1
  <2>2. ASSUME NEW y \in E PROVE next[y] \in E \cup {NULL}
    <3>1. CASE y = p
      <4>1. t \in D
        BY <1>3, <3>1
      <4> QED BY <1>2, <1>3, <1>4, <3>1, <4>1
    <3>2. CASE y # p
      BY <1>1, <1>2, <1>3, <1>4, <3>2
    <3> QED BY <3>1, <3>2
  <2> HIDE DEF E
  <2>3. C \subseteq E
    BY <2>1, <2>2, ChainLeast DEF C
  <2> QED BY <2>3 DEF E
<1>7. t \in D
  BY <1>3, <1>4, <1>6
<1> QED BY <1>5, <1>6, <1>7 DEF C, D

\* A new first entry (waitTid).
LEMMA ChainPush ==
    ASSUME NEW slots, NEW start \in slots, NULL \notin slots,
           NEW next \in [slots -> slots \cup {NULL}], NEW next2 \in [slots -> slots \cup {NULL}],
           NEW t \in slots, t \notin Chain(start, slots, next), next2[t] = start,
           \A y \in slots \ {t} : next2[y] = next[y]
    PROVE  Chain(t, slots, next2) = Chain(start, slots, next) \cup {t}
<1> DEFINE C == Chain(start, slots, next)
           D == Chain(t, slots, next2)
<1>1. start \in C /\ C \subseteq slots /\ t \in D /\ D \subseteq slots
  BY ChainStart
<1>2. \A y \in C : next[y] \in C \cup {NULL}
  BY ChainClosed
<1>3. \A y \in D : next2[y] \in D \cup {NULL}
  BY ChainClosed
<1> HIDE DEF C, D
<1>4. t \notin C
  BY DEF C
<1>5. D \subseteq C \cup {t}
  <2> DEFINE E == C \cup {t}
  <2>1. E \in SUBSET slots /\ t \in E
    BY <1>1
  <2>2. \A y \in E : next2[y] \in E \cup {NULL}
    BY <1>1, <1>2, <1>4
  <2> HIDE DEF E
  <2>3. D \subseteq E
    BY <2>1, <2>2, ChainLeast DEF D
  <2> QED BY <2>3 DEF E
<1>6. C \subseteq D
  <2> DEFINE E == D \cap C
  <2>1. start \in D
    BY <1>1, <1>3
  <2>2. E \in SUBSET slots /\ start \in E
    BY <1>1, <2>1
  <2>3. \A y \in E : next[y] \in E \cup {NULL}
    BY <1>1, <1>2, <1>3, <1>4
  <2> HIDE DEF E
  <2>4. C \subseteq E
    BY <2>2, <2>3, ChainLeast DEF C
  <2> QED BY <2>4 DEF E
<1> QED BY <1>1, <1>5, <1>6 DEF C, D

\* The first entry leaves its list (delete_tcb), and no other entry points to it.
LEMMA ChainDropFirst ==
    ASSUME NEW slots, NEW start \in slots, NULL \notin slots,
           NEW next \in [slots -> slots \cup {NULL}], NEW next2 \in [slots -> slots \cup {NULL}],
           next[start] # NULL, \A y \in Chain(start, slots, next) : next[y] # start,
           \A y \in slots \ {start} : next2[y] = next[y]
    PROVE  Chain(next[start], slots, next2) = Chain(start, slots, next) \ {start}
<1> DEFINE C == Chain(start, slots, next)
           second == next[start]
           D == Chain(second, slots, next2)
<1>0. second \in slots
  OBVIOUS
<1>1. start \in C /\ C \subseteq slots
  BY ChainStart
<1>2. \A y \in C : next[y] \in C \cup {NULL} /\ next[y] # start
  BY ChainClosed
<1> HIDE DEF second
<1>3. second \in D /\ D \subseteq slots /\ \A y \in D : next2[y] \in D \cup {NULL}
  BY <1>0, ChainStart, ChainClosed
<1> HIDE DEF C, D
<1>4. second \in C /\ second # start
  BY <1>0, <1>1, <1>2 DEF second
<1>5. D \subseteq C \ {start}
  <2> DEFINE E == C \ {start}
  <2>1. E \in SUBSET slots /\ second \in E
    BY <1>1, <1>4
  <2>2. \A y \in E : next2[y] \in E \cup {NULL}
    BY <1>1, <1>2
  <2> HIDE DEF E
  <2>3. D \subseteq E
    BY <1>0, <2>1, <2>2, ChainLeast DEF D
  <2> QED BY <2>3 DEF E
<1>6. C \subseteq D \cup {start}
  <2> DEFINE E == D \cup {start}
  <2>1. E \in SUBSET slots /\ start \in E
    BY <1>3
  <2>2. \A y \in E : next[y] \in E \cup {NULL}
    BY <1>3 DEF second
  <2> HIDE DEF E
  <2>3. C \subseteq E
    BY <2>1, <2>2, ChainLeast DEF C
  <2> QED BY <2>3 DEF E
<1>7. Chain(next[start], slots, next2) = D /\ Chain(start, slots, next) = C
  BY DEF C, D, second
<1> QED BY <1>5, <1>6, <1>7

\* An entry that is not the first has one in front of it.
LEMMA ChainPredecessor ==
    ASSUME NEW slots, NEW start \in slots, NULL \notin slots,
           NEW next \in [slots -> slots \cup {NULL}],
           NEW t \in Chain(start, slots, next), t # start
    PROVE  \E p \in Chain(start, slots, next) : p # t /\ next[p] = t
<1> DEFINE C == Chain(start, slots, next)
<1>1. start \in C /\ C \subseteq slots
  BY ChainStart
<1>2. \A y \in C : next[y] \in C \cup {NULL}
  BY ChainClosed
<1> HIDE DEF C
<1> SUFFICES ASSUME \A p \in C : next[p] = t => p = t PROVE FALSE
  BY DEF C
<1> DEFINE E == C \ {t}
<1>3. E \in SUBSET slots /\ start \in E /\ t \notin E
  BY <1>1
<1>4. \A y \in E : next[y] \in E \cup {NULL}
  BY <1>2
<1> HIDE DEF E
<1>5. C \subseteq E
  BY <1>3, <1>4, ChainLeast DEF C
<1> QED BY <1>3, <1>5 DEF C

\* A later entry t leaves its list (delete_tcb): p, in front of it, skips it.
LEMMA ChainDrop ==
    ASSUME NEW slots, NEW start \in slots, NULL \notin slots,
           NEW next \in [slots -> slots \cup {NULL}], NEW next2 \in [slots -> slots \cup {NULL}],
           NEW t \in Chain(start, slots, next), t # start,
           NEW p \in Chain(start, slots, next), p # t, next[p] = t,
           \A y \in Chain(start, slots, next) : next[y] = t => y = p,
           next2[p] = next[t], \A y \in slots \ {p, t} : next2[y] = next[y]
    PROVE  Chain(start, slots, next2) = Chain(start, slots, next) \ {t}
<1> DEFINE C == Chain(start, slots, next)
           D == Chain(start, slots, next2)
<1>1. start \in C /\ C \subseteq slots /\ start \in D /\ D \subseteq slots
  BY ChainStart
<1>2. \A y \in C : next[y] \in C \cup {NULL} /\ (next[y] = t => y = p)
  BY ChainClosed
<1>3. \A y \in D : next2[y] \in D \cup {NULL}
  BY ChainClosed
<1> HIDE DEF C, D
<1>4. p \in C /\ t \in C
  BY DEF C
<1>5. D \subseteq C \ {t}
  <2> DEFINE E == C \ {t}
  <2>1. E \in SUBSET slots /\ start \in E
    BY <1>1
  <2>2. ASSUME NEW y \in E PROVE next2[y] \in E \cup {NULL}
    <3>1. CASE y = p
      <4>1. next[t] \in C \cup {NULL} /\ next[t] # t
        BY <1>2, <1>4
      <4> QED BY <3>1, <4>1
    <3>2. CASE y # p
      BY <1>1, <1>2, <3>2
    <3> QED BY <3>1, <3>2
  <2> HIDE DEF E
  <2>3. D \subseteq E
    BY <2>1, <2>2, ChainLeast DEF D
  <2> QED BY <2>3 DEF E
<1>6. C \subseteq D \cup {t}
  <2>1. CASE p \in D
    <3> DEFINE E == D \cup {t}
    <3>1. E \in SUBSET slots /\ start \in E
      BY <1>1, <1>4
    <3>2. \A y \in E : next[y] \in E \cup {NULL}
      BY <1>1, <1>3, <2>1
    <3> HIDE DEF E
    <3>3. C \subseteq E
      BY <3>1, <3>2, ChainLeast DEF C
    <3> QED BY <3>3 DEF E
  <2>2. CASE p \notin D
    <3> DEFINE E == D \cap (C \ {t})
    <3>1. E \in SUBSET slots /\ start \in E
      BY <1>1
    <3>2. \A y \in E : next[y] \in E \cup {NULL}
      BY <1>1, <1>2, <1>3, <2>2
    <3> HIDE DEF E
    <3>3. C \subseteq E
      BY <3>1, <3>2, ChainLeast DEF C
    <3> QED BY <3>3 DEF E
  <2> QED BY <2>1, <2>2
<1>7. Chain(start, slots, next2) = D /\ Chain(start, slots, next) = C
  BY DEF C, D
<1> QED BY <1>5, <1>6, <1>7

-----------------------------------------------------------------------------
(***************************************************************************)
(* What the handlers do to the fields of the tables.                       *)
(***************************************************************************)
LEMMA NewTaskEffect ==
    ASSUME TypeOK, NEW t \in ThreadSlots, NEW s \in SpaceSlots, NEW by \in {BiElf, App},
           NewTask(t, s, by)
    PROVE  /\ threads'[t].globalid = next_thread_no
           /\ threads'[t].localid = 0
           /\ threads'[t].as = s
           /\ threads'[t].nextThread = NULL
           /\ threads'[t].firstListener = NULL
           /\ \A u \in ThreadSlots \ {t} : threads'[u] = threads[u]
           /\ spaces'[s].pagedby = by
           /\ spaces'[s].firstThread = t
           /\ \A x \in SpaceSlots \ {s} : spaces'[x] = spaces[x]
BY DEF TypeOK, TablesOK, NewTask, InitTcb, ZeroThread

LEMMA NewTcb ==
    ASSUME NEW t, NEW id, NEW localid, NEW s, NEW n
    PROVE  LET new == [InitTcb(t) EXCEPT !.globalid = id, !.localid = localid, !.as = s,
                                         !.nextThread = n]
           IN  /\ new.globalid = id
               /\ new.localid = localid
               /\ new.as = s
               /\ new.nextThread = n
               /\ new.firstListener = NULL
BY DEF InitTcb, ZeroThread

LEMMA ClearedTcb ==
    ASSUME TypeOK, NEW t \in ThreadSlots
    PROVE  LET clear == [threads EXCEPT ![t].nextThread = NULL, ![t].as = NULL]
           IN  /\ clear \in [ThreadSlots -> Tcbs]
               /\ \A u \in ThreadSlots :
                    /\ clear[u].globalid = threads[u].globalid
                    /\ clear[u].localid = threads[u].localid
                    /\ clear[u].firstListener = threads[u].firstListener
                    /\ clear[u].as = IF u = t THEN NULL ELSE threads[u].as
                    /\ clear[u].nextThread = IF u = t THEN NULL ELSE threads[u].nextThread
BY DEF TypeOK, TablesOK, Tcbs

\* All fields but the next pointers.
LEMMA DeleteEffect ==
    ASSUME TypeOK, NEW t \in ThreadSlots, delete_tcb(t)
    PROVE  /\ \A u \in ThreadSlots :
                /\ threads'[u].globalid = threads[u].globalid
                /\ threads'[u].localid = threads[u].localid
                /\ threads'[u].firstListener = threads[u].firstListener
                /\ threads'[u].as = IF u = t THEN NULL ELSE threads[u].as
           /\ \A x \in SpaceSlots : spaces'[x].pagedby = spaces[x].pagedby
<1> DEFINE clear == [threads EXCEPT ![t].nextThread = NULL, ![t].as = NULL]
<1>1. clear \in [ThreadSlots -> Tcbs]
  BY ClearedTcb
<1>2. \A u \in ThreadSlots :
            /\ clear[u].globalid = threads[u].globalid
            /\ clear[u].localid = threads[u].localid
            /\ clear[u].firstListener = threads[u].firstListener
            /\ clear[u].as = IF u = t THEN NULL ELSE threads[u].as
  BY ClearedTcb
<1>3. threads' = clear \/ \E v, n : threads' = [clear EXCEPT ![v].nextThread = n]
  BY DEF delete_tcb
<1>4. \A u \in ThreadSlots :
            /\ threads'[u].globalid = clear[u].globalid
            /\ threads'[u].localid = clear[u].localid
            /\ threads'[u].firstListener = clear[u].firstListener
            /\ threads'[u].as = clear[u].as
  <2> HIDE DEF clear
  <2> QED BY <1>1, <1>3 DEF Tcbs
<1>5. spaces' = spaces \/ \E x, n : spaces' = [spaces EXCEPT ![x].firstThread = n]
  BY DEF delete_tcb
<1>6. \A x \in SpaceSlots : spaces'[x].pagedby = spaces[x].pagedby
  BY <1>5 DEF TypeOK, TablesOK, Ascbs
<1> QED BY <1>2, <1>4, <1>6

\* The next pointers, when the space is known and t is its first thread.
LEMMA DeleteFirstEffect ==
    ASSUME TypeOK, NEW t \in ThreadSlots, delete_tcb(t), NEW s \in SpaceSlots,
           threads[t].as = s, spaces[s].firstThread = t
    PROVE  /\ \A u \in ThreadSlots : threads'[u].nextThread =
                IF u = t THEN NULL ELSE threads[u].nextThread
           /\ \A x \in SpaceSlots : spaces'[x].firstThread =
                IF x = s THEN threads[t].nextThread ELSE spaces[x].firstThread
<1>1. s # NULL
  BY ConstantsAssumption DEF SpaceSlots, NULL
<1>2. /\ spaces' = [spaces EXCEPT ![s].firstThread = threads[t].nextThread]
      /\ threads' = [threads EXCEPT ![t].nextThread = NULL, ![t].as = NULL]
  BY <1>1 DEF delete_tcb
<1> QED BY <1>2 DEF TypeOK, TablesOK, Tcbs, Ascbs

\* When it is not the first thread of its space, and u points to it.
LEMMA DeleteLaterEffect ==
    ASSUME TypeOK, NEW t \in ThreadSlots, delete_tcb(t), NEW s \in SpaceSlots,
           threads[t].as = s, spaces[s].firstThread # t,
           NEW p \in ThreadSlots, p # t, p \in ThreadsOf(s), threads[p].nextThread = t,
           \A v \in ThreadsOf(s) : threads[v].nextThread = t => v = p
    PROVE  /\ \A u \in ThreadSlots : threads'[u].nextThread =
                IF u = t THEN NULL
                ELSE IF u = p THEN threads[t].nextThread ELSE threads[u].nextThread
           /\ \A x \in SpaceSlots : spaces'[x].firstThread = spaces[x].firstThread
<1>1. s # NULL
  BY ConstantsAssumption DEF SpaceSlots, NULL
<1>2. Predecessor(s, t) = p
  BY DEF Predecessor
<1> DEFINE clear == [threads EXCEPT ![t].nextThread = NULL, ![t].as = NULL]
<1>3. /\ spaces' = spaces
      /\ threads' = [clear EXCEPT ![p].nextThread = threads[t].nextThread]
  BY <1>1, <1>2 DEF delete_tcb
<1>4. clear \in [ThreadSlots -> Tcbs]
  BY ClearedTcb
<1>5. \A u \in ThreadSlots :
        clear[u].nextThread = IF u = t THEN NULL ELSE threads[u].nextThread
  BY ClearedTcb
<1>6. \A u \in ThreadSlots : threads'[u].nextThread =
        IF u = p THEN threads[t].nextThread ELSE clear[u].nextThread
  <2> HIDE DEF clear
  <2> QED BY <1>3, <1>4 DEF Tcbs
<1> HIDE DEF clear
<1> QED BY <1>3, <1>5, <1>6

\* When its TCB is free already.
LEMMA DeleteFreeEffect ==
    ASSUME TypeOK, NEW t \in ThreadSlots, delete_tcb(t), threads[t].as = NULL
    PROVE  /\ \A u \in ThreadSlots : threads'[u].nextThread =
                IF u = t THEN NULL ELSE threads[u].nextThread
           /\ spaces' = spaces
<1>1. spaces' = spaces /\ threads' = [threads EXCEPT ![t].nextThread = NULL, ![t].as = NULL]
  BY DEF delete_tcb
<1> QED BY <1>1 DEF TypeOK, TablesOK, Tcbs

LEMMA WaitEffect ==
    ASSUME TypeOK, NEW t \in ThreadSlots, NEW l \in ListenerSlots, NEW c \in Callers,
           PushListener(t, l, c)
    PROVE  /\ \A u \in ThreadSlots :
                /\ threads'[u].globalid = threads[u].globalid
                /\ threads'[u].localid = threads[u].localid
                /\ threads'[u].as = threads[u].as
                /\ threads'[u].nextThread = threads[u].nextThread
                /\ threads'[u].firstListener = IF u = t THEN l ELSE threads[u].firstListener
           /\ listeners'[l].listeningThread = c
           /\ listeners'[l].nextListener = threads[t].firstListener
           /\ \A m \in ListenerSlots \ {l} : listeners'[m] = listeners[m]
BY DEF TypeOK, TablesOK, Tcbs, Listeners, PushListener

-----------------------------------------------------------------------------
(***************************************************************************)
(* SpaceListsAgree is not inductive: unlinking a TCB from a list leaves    *)
(* the rest of the list alone only if nothing but its predecessor points   *)
(* to it.                                                                  *)
(***************************************************************************)
NextsDistinct ==
    \A t, u \in ThreadSlots :
        /\ threads[t].as # NULL /\ threads[u].as # NULL
        /\ threads[t].nextThread = threads[u].nextThread
        => t = u \/ threads[t].nextThread = NULL

NoneBeforeFirst ==
    \A s \in SpaceSlots, t \in ThreadSlots :
        threads[t].as # NULL /\ threads[t].nextThread = spaces[s].firstThread
        => threads[t].nextThread = NULL

ThreadListInv == SpaceListsAgree /\ NextsDistinct /\ NoneBeforeFirst

LEMMA NullOutside ==
    NULL \notin ThreadSlots /\ NULL \notin SpaceSlots /\ NULL \notin ListenerSlots
BY ConstantsAssumption DEF NULL, ThreadSlots, SpaceSlots, ListenerSlots

LEMMA NextsType ==
    ASSUME TypeOK
    PROVE  /\ nextThreads \in [ThreadSlots -> ThreadSlots \cup {NULL}]
           /\ \A t \in ThreadSlots : nextThreads[t] = threads[t].nextThread
           /\ \A t \in ThreadSlots : threads[t].as \in SpaceSlots \cup {NULL}
           /\ \A s \in SpaceSlots : spaces[s].firstThread \in ThreadSlots \cup {NULL}
BY DEF TypeOK, TablesOK, Tcbs, Ascbs, nextThreads

\* The first thread of a space and the next thread of a thread are in use in
\* the same space.
LEMMA ListsStayInSpace ==
    ASSUME TypeOK, SpaceListsAgree
    PROVE  /\ \A s \in SpaceSlots : spaces[s].firstThread # NULL =>
                threads[spaces[s].firstThread].as = s
           /\ \A t \in ThreadSlots : threads[t].as # NULL /\ threads[t].nextThread # NULL =>
                /\ threads[t].nextThread \in ThreadSlots
                /\ threads[threads[t].nextThread].as = threads[t].as
<1>1. ASSUME NEW s \in SpaceSlots, spaces[s].firstThread # NULL
      PROVE  /\ spaces[s].firstThread \in ThreadSlots
             /\ ThreadsOf(s) = Chain(spaces[s].firstThread, ThreadSlots, nextThreads)
  BY <1>1, NextsType DEF ThreadsOf
<1>2. ASSUME NEW s \in SpaceSlots, spaces[s].firstThread # NULL
      PROVE  threads[spaces[s].firstThread].as = s
  <2>1. spaces[s].firstThread \in ThreadsOf(s)
    BY <1>1, <1>2, ChainStart
  <2> QED BY <2>1 DEF SpaceListsAgree
<1>3. ASSUME NEW t \in ThreadSlots, threads[t].as # NULL, threads[t].nextThread # NULL
      PROVE  threads[t].nextThread \in ThreadSlots
             /\ threads[threads[t].nextThread].as = threads[t].as
  <2> DEFINE s == threads[t].as
  <2>1. s \in SpaceSlots
    BY <1>3, NextsType
  <2> HIDE DEF s
  <2>2. t \in ThreadsOf(s)
    BY <2>1 DEF SpaceListsAgree, s
  <2>3. spaces[s].firstThread # NULL
    BY <2>2 DEF ThreadsOf
  <2>4. nextThreads[t] \in ThreadsOf(s) \cup {NULL}
    BY <1>1, <2>1, <2>2, <2>3, ChainClosed, NextsType
  <2>5. threads[t].nextThread \in ThreadsOf(s)
    BY <1>3, <2>4, NextsType
  <2>6. ThreadsOf(s) = {u \in ThreadSlots : threads[u].as = s}
    BY <2>1 DEF SpaceListsAgree
  <2> QED BY <2>5, <2>6 DEF s
<1> QED BY <1>2, <1>3

\* The list of a space no thread of which, and no first thread, changed.
LEMMA OtherListsStay ==
    ASSUME TypeOK, TypeOK', SpaceListsAgree, NEW s \in SpaceSlots,
           spaces'[s].firstThread = spaces[s].firstThread,
           \A u \in ThreadSlots : threads[u].as = s =>
                threads'[u].nextThread = threads[u].nextThread
    PROVE  ThreadsOf(s)' = ThreadsOf(s)
<1>1. CASE spaces[s].firstThread = NULL
  BY <1>1 DEF ThreadsOf
<1>2. CASE spaces[s].firstThread # NULL
  <2> DEFINE first == spaces[s].firstThread
  <2>1. first \in ThreadSlots
    BY <1>2, NextsType
  <2>2. nextThreads \in [ThreadSlots -> ThreadSlots \cup {NULL}]
        /\ nextThreads' \in [ThreadSlots -> ThreadSlots \cup {NULL}]
        /\ \A u \in ThreadSlots : /\ nextThreads[u] = threads[u].nextThread
                                  /\ nextThreads'[u] = threads'[u].nextThread
    <3>1. nextThreads' \in [ThreadSlots -> ThreadSlots \cup {NULL}]
          /\ \A u \in ThreadSlots : nextThreads'[u] = threads'[u].nextThread
      BY DEF TypeOK, TablesOK, Tcbs, nextThreads
    <3> QED BY <3>1, NextsType
  <2>3. Chain(first, ThreadSlots, nextThreads) = ThreadsOf(s)
    BY <1>2 DEF ThreadsOf
  <2>4. \A y \in Chain(first, ThreadSlots, nextThreads) : nextThreads'[y] = nextThreads[y]
    <3>1. ThreadsOf(s) = {u \in ThreadSlots : threads[u].as = s}
      BY DEF SpaceListsAgree
    <3> HIDE DEF first
    <3> QED BY <2>2, <2>3, <3>1
  <2>5. Chain(first, ThreadSlots, nextThreads') = Chain(first, ThreadSlots, nextThreads)
    <3> HIDE DEF first
    <3> QED BY <2>1, <2>2, <2>4, ChainSame
  <2>6. ThreadsOf(s)' = Chain(first, ThreadSlots, nextThreads')
    BY <1>2 DEF ThreadsOf
  <2> QED BY <2>3, <2>5, <2>6
<1> QED BY <1>1, <1>2

\* startTask: a list of one thread in a space that had none.
LEMMA ListsNewTask ==
    ASSUME TypeOK, TypeOK', ThreadListInv,
           NEW t \in ThreadSlots, threads[t].as = NULL,
           NEW s \in SpaceSlots, spaces[s].firstThread = NULL,
           threads'[t].as = s, threads'[t].nextThread = NULL,
           \A u \in ThreadSlots \ {t} : threads'[u] = threads[u],
           spaces'[s].firstThread = t,
           \A x \in SpaceSlots \ {s} : spaces'[x] = spaces[x]
    PROVE  ThreadListInv'
<1>1. s # NULL /\ t # NULL
  BY NullOutside
<1>2. \A u \in ThreadSlots : threads[u].as # s
  BY DEF ThreadListInv, SpaceListsAgree, ThreadsOf
<1>3. SpaceListsAgree'
  <2> SUFFICES ASSUME NEW x \in SpaceSlots
               PROVE  ThreadsOf(x)' = {u \in ThreadSlots : threads'[u].as = x}
    BY DEF SpaceListsAgree
  <2>1. CASE x = s
    <3>1. ThreadsOf(s)' = Chain(t, ThreadSlots, nextThreads')
      BY <1>1 DEF ThreadsOf
    <3>2. nextThreads'[t] = NULL
      BY DEF nextThreads
    <3>3. ThreadsOf(s)' = {t}
      BY <3>1, <3>2, ChainOne
    <3>4. \A u \in ThreadSlots : threads'[u].as = s => u = t
      BY <1>2
    <3> QED BY <2>1, <3>3, <3>4
  <2>2. CASE x # s
    <3>1. ThreadsOf(x)' = ThreadsOf(x)
      <4>1. \A u \in ThreadSlots : threads[u].as = x => u # t
        BY NullOutside
      <4> QED BY <2>2, <4>1, OtherListsStay DEF ThreadListInv
    <3>2. ThreadsOf(x) = {u \in ThreadSlots : threads[u].as = x}
      BY DEF ThreadListInv, SpaceListsAgree
    <3>3. \A u \in ThreadSlots : threads'[u].as = x <=> threads[u].as = x
      BY <2>2, NullOutside
    <3> QED BY <3>1, <3>2, <3>3
  <2> QED BY <2>1, <2>2
<1>4. \A u \in ThreadSlots : threads[u].as # NULL => threads[u].nextThread # t
  BY <1>1, ListsStayInSpace DEF ThreadListInv
<1>5. NextsDistinct'
  BY <1>1, <1>4 DEF ThreadListInv, NextsDistinct
<1>6. NoneBeforeFirst'
  BY <1>1, <1>4 DEF ThreadListInv, NoneBeforeFirst
<1> QED BY <1>3, <1>5, <1>6 DEF ThreadListInv

\* createThread: the new thread follows its creator.
LEMMA ListsNewThread ==
    ASSUME TypeOK, TypeOK', ThreadListInv,
           NEW t \in ThreadSlots, threads[t].as = NULL,
           NEW caller \in ThreadSlots, threads[caller].as # NULL,
           threads'[t].as = threads[caller].as,
           threads'[t].nextThread = threads[caller].nextThread,
           threads'[caller].as = threads[caller].as, threads'[caller].nextThread = t,
           \A u \in ThreadSlots \ {caller, t} : threads'[u] = threads[u],
           spaces' = spaces
    PROVE  ThreadListInv'
<1>0. PICK s : s = threads[caller].as
  OBVIOUS
<1>1. s \in SpaceSlots /\ t # NULL /\ caller # t
  BY <1>0, NullOutside, NextsType
<1>2. ThreadsOf(s) = {u \in ThreadSlots : threads[u].as = s}
  BY <1>1 DEF ThreadListInv, SpaceListsAgree
<1>3. caller \in ThreadsOf(s) /\ t \notin ThreadsOf(s)
  BY <1>0, <1>1, <1>2, NullOutside
<1>4. SpaceListsAgree'
  <2> SUFFICES ASSUME NEW x \in SpaceSlots
               PROVE  ThreadsOf(x)' = {u \in ThreadSlots : threads'[u].as = x}
    BY DEF SpaceListsAgree
  <2>1. CASE x = s
    <3> DEFINE first == spaces[s].firstThread
    <3>1. first # NULL /\ first \in ThreadSlots
      BY <1>1, <1>3, NextsType DEF ThreadsOf
    <3>2. ThreadsOf(s) = Chain(first, ThreadSlots, nextThreads)
          /\ ThreadsOf(s)' = Chain(first, ThreadSlots, nextThreads')
      BY <3>1 DEF ThreadsOf
    <3>3. nextThreads \in [ThreadSlots -> ThreadSlots \cup {NULL}]
          /\ nextThreads' \in [ThreadSlots -> ThreadSlots \cup {NULL}]
      BY DEF TypeOK, TablesOK, Tcbs, nextThreads
    <3>4. /\ nextThreads'[caller] = t
          /\ nextThreads'[t] = nextThreads[caller]
          /\ \A y \in ThreadSlots \ {caller, t} : nextThreads'[y] = nextThreads[y]
      BY DEF nextThreads
    <3> HIDE DEF first
    <3>5. ThreadsOf(s)' = ThreadsOf(s) \cup {t}
      BY <1>3, <3>1, <3>2, <3>3, <3>4, NullOutside, ChainInsert
    <3>6. \A u \in ThreadSlots : threads'[u].as = s <=> threads[u].as = s \/ u = t
      BY <1>0, <1>1
    <3> QED BY <1>2, <2>1, <3>5, <3>6
  <2>2. CASE x # s
    <3>1. ThreadsOf(x)' = ThreadsOf(x)
      <4>1. \A u \in ThreadSlots : threads[u].as = x => u # t /\ u # caller
        BY <1>0, <2>2, NullOutside
      <4> QED BY <2>2, <4>1, OtherListsStay DEF ThreadListInv
    <3>2. ThreadsOf(x) = {u \in ThreadSlots : threads[u].as = x}
      BY DEF ThreadListInv, SpaceListsAgree
    <3>3. \A u \in ThreadSlots : threads'[u].as = x <=> threads[u].as = x
      BY <1>0, <2>2, NullOutside
    <3> QED BY <3>1, <3>2, <3>3
  <2> QED BY <2>1, <2>2
<1>5. /\ \A u \in ThreadSlots : threads[u].as # NULL => threads[u].nextThread # t
      /\ \A x \in SpaceSlots : spaces[x].firstThread # t
  BY <1>1, NullOutside, ListsStayInSpace DEF ThreadListInv
<1>6. NextsDistinct'
  BY <1>1, <1>5 DEF ThreadListInv, NextsDistinct
<1>7. NoneBeforeFirst'
  BY <1>1, <1>5 DEF ThreadListInv, NoneBeforeFirst
<1> QED BY <1>4, <1>6, <1>7 DEF ThreadListInv

\* delete_tcb: the thread leaves the list of its space, the first or a later one.
LEMMA ListsDelete ==
    ASSUME TypeOK, TypeOK', ThreadListInv, NEW t \in ThreadSlots, delete_tcb(t)
    PROVE  ThreadListInv'
<1>0. \A u \in ThreadSlots : threads'[u].as = IF u = t THEN NULL ELSE threads[u].as
  BY DeleteEffect
<1>n. nextThreads \in [ThreadSlots -> ThreadSlots \cup {NULL}]
      /\ nextThreads' \in [ThreadSlots -> ThreadSlots \cup {NULL}]
      /\ \A u \in ThreadSlots : /\ nextThreads[u] = threads[u].nextThread
                                /\ nextThreads'[u] = threads'[u].nextThread
  BY DEF TypeOK, TablesOK, Tcbs, nextThreads
<1>a. \A x \in SpaceSlots : ThreadsOf(x) = {u \in ThreadSlots : threads[u].as = x}
  BY DEF ThreadListInv, SpaceListsAgree
<1>1. CASE threads[t].as = NULL
  <2>1. /\ \A u \in ThreadSlots : threads'[u].nextThread =
                IF u = t THEN NULL ELSE threads[u].nextThread
        /\ spaces' = spaces
    BY <1>1, DeleteFreeEffect
  <2>2. \A u \in ThreadSlots : threads'[u].as = threads[u].as
    BY <1>0, <1>1
  <2>3. SpaceListsAgree'
    <3> SUFFICES ASSUME NEW x \in SpaceSlots
                 PROVE  ThreadsOf(x)' = {u \in ThreadSlots : threads'[u].as = x}
      BY DEF SpaceListsAgree
    <3>1. \A u \in ThreadSlots : threads[u].as = x => u # t
      BY <1>1, NullOutside
    <3>2. ThreadsOf(x)' = ThreadsOf(x)
      BY <2>1, <3>1, OtherListsStay DEF ThreadListInv
    <3> QED BY <1>a, <2>2, <3>2
  <2>4. NextsDistinct' /\ NoneBeforeFirst'
    BY <1>1, <2>1, <2>2 DEF ThreadListInv, NextsDistinct, NoneBeforeFirst
  <2> QED BY <2>3, <2>4 DEF ThreadListInv
<1>2. CASE threads[t].as # NULL
  <2>0. PICK s \in SpaceSlots : s = threads[t].as
    BY <1>2, NextsType
  <2>1. t \in ThreadsOf(s) /\ s # NULL
    BY <1>a, <2>0, NullOutside
  <2>2. PICK first \in ThreadSlots : first = spaces[s].firstThread
    BY <2>1, NextsType DEF ThreadsOf
  <2>3. ThreadsOf(s) = Chain(first, ThreadSlots, nextThreads)
    BY <2>2, NullOutside DEF ThreadsOf
  <2>4. \A x \in SpaceSlots \ {s} : \A u \in ThreadSlots :
            threads'[u].as = x <=> threads[u].as = x
    BY <1>0, <2>0, NullOutside
  <2>5. \A u \in ThreadSlots : threads'[u].as = s <=> threads[u].as = s /\ u # t
    BY <1>0, <2>1
  <2>6. \A u \in ThreadSlots : threads[u].as # NULL /\ threads[u].nextThread # NULL =>
                /\ threads[u].nextThread \in ThreadSlots
                /\ threads[threads[u].nextThread].as = threads[u].as
    BY ListsStayInSpace DEF ThreadListInv
  <2>7. CASE first = t
    <3>1. /\ \A u \in ThreadSlots : threads'[u].nextThread =
                IF u = t THEN NULL ELSE threads[u].nextThread
          /\ \A x \in SpaceSlots : spaces'[x].firstThread =
                IF x = s THEN threads[t].nextThread ELSE spaces[x].firstThread
      <4>1. threads[t].as = s /\ spaces[s].firstThread = t
        BY <2>0, <2>2, <2>7
      <4> QED BY <4>1, DeleteFirstEffect
    <3>2. \A y \in ThreadsOf(s) : nextThreads[y] # t
      <4>1. \A y \in ThreadsOf(s) : threads[y].as = s /\ y \in ThreadSlots
        BY <1>a
      <4>2. \A y \in ThreadSlots : threads[y].as = s => threads[y].nextThread # t
        BY <2>1, <2>2, <2>7, NullOutside DEF ThreadListInv, NoneBeforeFirst
      <4> QED BY <1>n, <4>1, <4>2
    <3>3. ThreadsOf(s)' = ThreadsOf(s) \ {t}
      <4>1. CASE threads[t].nextThread = NULL
        <5>1. ThreadsOf(s) = {t}
          BY <1>n, <2>3, <2>7, <4>1, ChainOne
        <5>2. ThreadsOf(s)' = {}
          BY <3>1, <4>1 DEF ThreadsOf
        <5> QED BY <5>1, <5>2
      <4>2. CASE threads[t].nextThread # NULL
        <5>1. ThreadsOf(s)' = Chain(nextThreads[t], ThreadSlots, nextThreads')
          BY <1>n, <3>1, <4>2 DEF ThreadsOf
        <5>2. Chain(nextThreads[t], ThreadSlots, nextThreads') =
                Chain(t, ThreadSlots, nextThreads) \ {t}
          BY <1>n, <2>3, <2>7, <3>1, <3>2, <4>2, NullOutside, ChainDropFirst
        <5> QED BY <2>3, <2>7, <5>1, <5>2
      <4> QED BY <4>1, <4>2
    <3>4. SpaceListsAgree'
      <4> SUFFICES ASSUME NEW x \in SpaceSlots
                   PROVE  ThreadsOf(x)' = {u \in ThreadSlots : threads'[u].as = x}
        BY DEF SpaceListsAgree
      <4>1. CASE x = s
        BY <1>a, <2>5, <3>3, <4>1
      <4>2. CASE x # s
        <5>1. \A u \in ThreadSlots : threads[u].as = x => u # t
          BY <2>0, <4>2
        <5>2. ThreadsOf(x)' = ThreadsOf(x)
          BY <3>1, <4>2, <5>1, OtherListsStay DEF ThreadListInv
        <5> QED BY <1>a, <2>4, <4>2, <5>2
      <4> QED BY <4>1, <4>2
    <3>5. NextsDistinct'
      BY <1>0, <3>1 DEF ThreadListInv, NextsDistinct
    <3>6. NoneBeforeFirst'
      <4> SUFFICES ASSUME NEW x \in SpaceSlots, NEW u \in ThreadSlots, threads'[u].as # NULL,
                          threads'[u].nextThread = spaces'[x].firstThread
                   PROVE  threads'[u].nextThread = NULL
        BY DEF NoneBeforeFirst
      <4>1. u # t /\ threads[u].as # NULL /\ threads'[u].nextThread = threads[u].nextThread
        BY <1>0, <3>1
      <4>2. CASE x = s
        BY <1>2, <3>1, <4>1, <4>2 DEF ThreadListInv, NextsDistinct
      <4>3. CASE x # s
        BY <3>1, <4>1, <4>3 DEF ThreadListInv, NoneBeforeFirst
      <4> QED BY <4>2, <4>3
    <3> QED BY <3>4, <3>5, <3>6 DEF ThreadListInv
  <2>8. CASE first # t
    <3>1. PICK p \in ThreadsOf(s) : p # t /\ nextThreads[p] = t
      BY <1>n, <2>1, <2>3, <2>8, NullOutside, ChainPredecessor
    <3>2. p \in ThreadSlots /\ threads[p].as = s /\ threads[p].nextThread = t
      BY <1>a, <1>n, <3>1
    <3>3. \A v \in ThreadSlots : threads[v].as # NULL /\ threads[v].nextThread = t => v = p
      BY <2>1, <3>2, NullOutside DEF ThreadListInv, NextsDistinct
    <3>4. \A v \in ThreadsOf(s) : v \in ThreadSlots /\ threads[v].as # NULL
      BY <1>a, <2>1
    <3>5. /\ \A u \in ThreadSlots : threads'[u].nextThread =
                IF u = t THEN NULL
                ELSE IF u = p THEN threads[t].nextThread ELSE threads[u].nextThread
          /\ \A x \in SpaceSlots : spaces'[x].firstThread = spaces[x].firstThread
      BY <2>0, <2>2, <2>8, <3>1, <3>2, <3>3, <3>4, DeleteLaterEffect
    <3>6. ThreadsOf(s)' = ThreadsOf(s) \ {t}
      <4>1. ThreadsOf(s)' = Chain(first, ThreadSlots, nextThreads')
        BY <2>2, <3>5, NullOutside DEF ThreadsOf
      <4>2. /\ nextThreads'[p] = nextThreads[t]
            /\ \A y \in ThreadSlots \ {p, t} : nextThreads'[y] = nextThreads[y]
        BY <1>n, <3>1, <3>2, <3>5
      <4>3. \A y \in ThreadsOf(s) : nextThreads[y] = t => y = p
        BY <1>n, <3>3, <3>4
      <4> QED BY <1>n, <2>1, <2>3, <2>8, <3>1, <4>1, <4>2, <4>3, NullOutside, ChainDrop
    <3>7. SpaceListsAgree'
      <4> SUFFICES ASSUME NEW x \in SpaceSlots
                   PROVE  ThreadsOf(x)' = {u \in ThreadSlots : threads'[u].as = x}
        BY DEF SpaceListsAgree
      <4>1. CASE x = s
        BY <1>a, <2>5, <3>6, <4>1
      <4>2. CASE x # s
        <5>1. \A u \in ThreadSlots : threads[u].as = x => u # t /\ u # p
          BY <2>0, <3>2, <4>2
        <5>2. ThreadsOf(x)' = ThreadsOf(x)
          BY <3>5, <5>1, OtherListsStay DEF ThreadListInv
        <5> QED BY <1>a, <2>4, <4>2, <5>2
      <4> QED BY <4>1, <4>2
    <3>8. NextsDistinct'
      BY <1>0, <1>2, <3>2, <3>5 DEF ThreadListInv, NextsDistinct
    <3>9. NoneBeforeFirst'
      BY <1>0, <1>2, <3>2, <3>5 DEF ThreadListInv, NoneBeforeFirst
    <3> QED BY <3>7, <3>8, <3>9 DEF ThreadListInv
  <2> QED BY <2>7, <2>8
<1> QED BY <1>1, <1>2

LEMMA ListsSame ==
    ASSUME TypeOK, TypeOK', ThreadListInv,
           \A u \in ThreadSlots : /\ threads'[u].as = threads[u].as
                                  /\ threads'[u].nextThread = threads[u].nextThread,
           spaces' = spaces
    PROVE  ThreadListInv'
<1>1. \A x \in SpaceSlots : ThreadsOf(x)' = ThreadsOf(x)
  BY OtherListsStay DEF ThreadListInv
<1>2. SpaceListsAgree'
  BY <1>1 DEF ThreadListInv, SpaceListsAgree
<1> QED BY <1>2 DEF ThreadListInv, NextsDistinct, NoneBeforeFirst

-----------------------------------------------------------------------------
(***************************************************************************)
(* The steps of the server: a request that is refused, at most for good,   *)
(* and each of the four that are served.                                   *)
(***************************************************************************)
RefusedStep ==
    /\ UNCHANGED <<tables, cursors, others>>
    /\ status' = status \/ (status = "up" /\ status' # "up")

TaskStep(t, s, by) ==
    /\ status = "up" /\ NumberLeft
    /\ threads[t].as = NULL
    /\ spaces[s].firstThread = NULL
    /\ NewTask(t, s, by)

ThreadStep(caller, t, localid) ==
    /\ status = "up" /\ NumberLeft
    /\ threads[caller].as # NULL
    /\ threads[t].as = NULL
    /\ localid \in get_free_localid(threads[caller].as)
    /\ NewThread(caller, t, threads[caller].as, next_thread_no)!(localid)

KillStep(id, t) ==
    /\ status = "up"
    /\ threads[t].globalid = id
    /\ pager' = [pager EXCEPT ![id] = "none"]
    /\ NotifyPager(t, id)
    /\ WakeListeners(t, id)
    /\ \/ EndlessListeners(t) /\ status' = "endless loop" /\ UNCHANGED tables
       \/ ~EndlessListeners(t) /\ delete_tcb(t) /\ UNCHANGED status
    /\ UNCHANGED <<cursors, biAssoc>>

WaitStep(c, id, t, l) ==
    /\ status = "up"
    /\ waitsFor[c] = NilThread
    /\ threads[t].globalid = id
    /\ listeners[l].listeningThread = NilThread
    /\ PushListener(t, l, c)
    /\ waitsFor' = [waitsFor EXCEPT ![c] = id]
    /\ UNCHANGED <<spaces, next_thread_no, status, pager, biAssoc, appAssoc>>

LEMMA StopRefuses ==
    ASSUME status = "up",
           NEW r \in {"overrun", "no TCBs", "no ASCBs", "no Listeners", "unknown thread"},
           Stop(r)
    PROVE  RefusedStep
BY DEF Stop, RefusedStep

LEMMA StartTaskCases ==
    ASSUME IdInv, NEW c \in Callers, NEW by \in {BiElf, App}, startTask(c, by)
    PROVE  RefusedStep \/ \E t \in ThreadSlots, s \in SpaceSlots : TaskStep(t, s, by)
<1>1. status = "up" /\ NumberLeft
  BY DEF startTask, Call
<1>2. CASE Stop("overrun") \/ Stop("no TCBs") \/ Stop("no ASCBs")
  BY <1>1, <1>2, StopRefuses
<1>3. CASE \E t \in get_free_tcb, s \in get_free_ascb : NewTask(t, s, by)
  <2>1. PICK t \in get_free_tcb, s \in get_free_ascb : NewTask(t, s, by)
    BY <1>3
  <2>2. t \in FreeThreads /\ s \in FreeSpaces
    BY FirstFreeIsFree DEF get_free_tcb, get_free_ascb
  <2> QED BY <1>1, <2>1, <2>2 DEF FreeThreads, FreeSpaces, TaskStep
<1> QED BY <1>2, <1>3 DEF startTask

\* The TCB of a thread the kernel knows is the only one with its id, and in use.
LEMMA CallerInUse ==
    ASSUME IdInv, NEW id \in ThreadIds, pager[id] # "none",
           NEW t \in ThreadSlots, threads[t].globalid = id
    PROVE  threads[t].as # NULL
<1>1. PICK u \in ThreadSlots : threads[u].globalid = id /\ threads[u].as # NULL
  BY DEF IdInv, KernelHasTcb
<1>2. id # NilThread
  BY ConstantsAssumption DEF ThreadIds, FirstNo, NilThread
<1> QED BY <1>1, <1>2 DEF IdInv, IdsUnique

LEMMA CreateThreadCases ==
    ASSUME IdInv, NEW c \in Callers, createThread(c)
    PROVE  RefusedStep \/ \E caller, t \in ThreadSlots : \E localid : ThreadStep(caller, t, localid)
<1>1. status = "up" /\ NumberLeft /\ c \in ThreadIds /\ pager[c] # "none"
  BY DEF createThread, Call, Exists
<1>2. CASE Stop("overrun") \/ Stop("no TCBs")
  BY <1>1, <1>2, StopRefuses
<1>3. CASE \E caller \in find_tcb(c), t \in get_free_tcb :
              NewThread(caller, t, threads[caller].as, next_thread_no)
  <2>1. PICK caller \in find_tcb(c), t \in get_free_tcb :
              NewThread(caller, t, threads[caller].as, next_thread_no)
    BY <1>3
  <2>2. t \in FreeThreads /\ caller \in ThreadSlots /\ threads[caller].globalid = c
    BY FirstFreeIsFree DEF get_free_tcb, find_tcb
  <2>3. threads[caller].as # NULL
    BY <1>1, <2>2, CallerInUse
  <2>4. PICK localid \in get_free_localid(threads[caller].as) :
            NewThread(caller, t, threads[caller].as, next_thread_no)!(localid)
    BY <2>1 DEF NewThread
  <2>5. t \in ThreadSlots /\ threads[t].as = NULL
    BY <2>2 DEF FreeThreads
  <2>6. ThreadStep(caller, t, localid)
    BY <1>1, <2>3, <2>4, <2>5 DEF ThreadStep
  <2> QED BY <2>2, <2>5, <2>6
<1> QED BY <1>2, <1>3 DEF createThread

LEMMA KillCases ==
    ASSUME NEW c \in Callers, NEW id \in ThreadIds, kill(c, id)
    PROVE  RefusedStep \/ \E t \in ThreadSlots : KillStep(id, t)
<1>1. status = "up"
  BY DEF kill, Call
<1>2. CASE Stop("unknown thread")
  BY <1>1, <1>2, StopRefuses
<1>3. CASE \E t \in find_tcb(id) : kill(c, id)!2!2!(t)
  <2>1. PICK t \in find_tcb(id) : kill(c, id)!2!2!(t)
    BY <1>3
  <2>2. t \in ThreadSlots /\ threads[t].globalid = id
    BY DEF find_tcb
  <2>3. KillStep(id, t)
    BY <1>1, <2>1, <2>2 DEF KillStep
  <2> QED BY <2>2, <2>3
<1> QED BY <1>2, <1>3 DEF kill

LEMMA WaitCases ==
    ASSUME NEW c \in Callers, NEW id \in ThreadIds, waitTid(c, id)
    PROVE  RefusedStep \/ \E t \in ThreadSlots, l \in ListenerSlots : WaitStep(c, id, t, l)
<1>1. status = "up" /\ waitsFor[c] = NilThread
  BY DEF waitTid, Call
<1>2. CASE Stop("overrun") \/ Stop("no Listeners")
  BY <1>1, <1>2, StopRefuses
<1>3. CASE UNCHANGED vars
  BY <1>3 DEF vars, RefusedStep
<1>4. CASE \E t \in find_tcb(id), l \in get_free_listener : waitTid(c, id)!2!2!(t)!3!(l)
  <2>1. PICK t \in find_tcb(id), l \in get_free_listener : waitTid(c, id)!2!2!(t)!3!(l)
    BY <1>4
  <2>2. t \in ThreadSlots /\ threads[t].globalid = id /\ l \in FreeListeners
    BY FirstFreeIsFree DEF find_tcb, get_free_listener
  <2>3. l \in ListenerSlots /\ listeners[l].listeningThread = NilThread
    BY <2>2 DEF FreeListeners
  <2>4. WaitStep(c, id, t, l)
    BY <1>1, <2>1, <2>2, <2>3 DEF WaitStep
  <2> QED BY <2>2, <2>3, <2>4
<1> QED BY <1>2, <1>3, <1>4 DEF waitTid

LEMMA StepCases ==
    ASSUME IdInv, [Next]_vars
    PROVE  \/ RefusedStep
           \/ \E by \in {BiElf, App}, t \in ThreadSlots, s \in SpaceSlots : TaskStep(t, s, by)
           \/ \E caller, t \in ThreadSlots : \E localid : ThreadStep(caller, t, localid)
           \/ \E id \in ThreadIds, t \in ThreadSlots : KillStep(id, t)
           \/ \E c \in Callers, id \in ThreadIds, t \in ThreadSlots, l \in ListenerSlots :
                WaitStep(c, id, t, l)
<1>1. CASE UNCHANGED vars
  BY <1>1 DEF vars, RefusedStep
<1>2. CASE \E c \in Callers : \E by \in {BiElf, App} : startTask(c, by)
  BY <1>2, StartTaskCases
<1>3. CASE \E c \in Callers : createThread(c)
  BY <1>3, CreateThreadCases
<1>4. CASE \E c \in Callers : \E id \in ThreadIds : kill(c, id)
  BY <1>4, KillCases
<1>5. CASE \E c \in Callers : \E id \in ThreadIds : waitTid(c, id)
  BY <1>5, WaitCases
<1> QED BY <1>1, <1>2, <1>3, <1>4, <1>5 DEF Next

LEMMA ThreadStepEffect ==
    ASSUME TypeOK, NEW caller \in ThreadSlots, NEW t \in ThreadSlots, NEW localid,
           ThreadStep(caller, t, localid)
    PROVE  /\ caller # t
           /\ threads'[t].globalid = next_thread_no
           /\ threads'[t].localid = localid
           /\ threads'[t].as = threads[caller].as
           /\ threads'[t].nextThread = threads[caller].nextThread
           /\ threads'[t].firstListener = NULL
           /\ threads'[caller].globalid = threads[caller].globalid
           /\ threads'[caller].localid = threads[caller].localid
           /\ threads'[caller].as = threads[caller].as
           /\ threads'[caller].nextThread = t
           /\ threads'[caller].firstListener = threads[caller].firstListener
           /\ \A u \in ThreadSlots \ {caller, t} : threads'[u] = threads[u]
           /\ next_thread_no' = next_thread_no + 1
           /\ pager' = IF localid = NULL THEN pager
                       ELSE [pager EXCEPT ![next_thread_no] = "ram_dsm"]
           /\ UNCHANGED <<spaces, listeners, status, waitsFor>>
<1> DEFINE new == [InitTcb(t) EXCEPT !.globalid = next_thread_no, !.localid = localid,
                                     !.as = threads[caller].as,
                                     !.nextThread = threads[caller].nextThread]
           mid == [threads EXCEPT ![t] = new]
<1>1. caller # t
  BY DEF ThreadStep
<1>2. threads' = [mid EXCEPT ![caller].nextThread = t]
  BY DEF ThreadStep
<1>3. /\ new.globalid = next_thread_no
      /\ new.localid = localid
      /\ new.as = threads[caller].as
      /\ new.nextThread = threads[caller].nextThread
      /\ new.firstListener = NULL
  BY NewTcb
<1>4. threads \in [ThreadSlots -> Tcbs]
  BY DEF TypeOK, TablesOK
<1> HIDE DEF new
<1>5. DOMAIN mid = ThreadSlots /\ mid[t] = new /\ mid[caller] = threads[caller]
      /\ \A u \in ThreadSlots \ {t} : mid[u] = threads[u]
  BY <1>1, <1>4
<1> HIDE DEF mid
<1>6. /\ threads'[t] = new
      /\ threads'[caller] = [threads[caller] EXCEPT !.nextThread = t]
      /\ \A u \in ThreadSlots \ {caller, t} : threads'[u] = threads[u]
  BY <1>1, <1>2, <1>5
<1>7. /\ threads'[caller].globalid = threads[caller].globalid
      /\ threads'[caller].localid = threads[caller].localid
      /\ threads'[caller].as = threads[caller].as
      /\ threads'[caller].nextThread = t
      /\ threads'[caller].firstListener = threads[caller].firstListener
  BY <1>4, <1>6 DEF Tcbs
<1>8. /\ next_thread_no' = next_thread_no + 1
      /\ pager' = IF localid = NULL THEN pager
                  ELSE [pager EXCEPT ![next_thread_no] = "ram_dsm"]
      /\ UNCHANGED <<spaces, listeners, status, waitsFor>>
  BY DEF ThreadStep
<1> QED BY <1>1, <1>3, <1>6, <1>7, <1>8

-----------------------------------------------------------------------------
LEMMA IdInvInit == Init => IdInv
<1> SUFFICES ASSUME Init PROVE IdInv
  OBVIOUS
<1>1. TypeOK
  BY InitType
<1>2. IdsUsed /\ IdsUnique
  BY DEF Init, IdsUsed, IdsUnique, ZeroThread, NilThread, FirstNo
<1>3. KernelHasTcb
  BY DEF Init, KernelHasTcb
<1> QED BY <1>1, <1>2, <1>3 DEF IdInv

LEMMA ThreadListInit == Init => ThreadListInv
BY NullOutside DEF Init, ThreadListInv, SpaceListsAgree, NextsDistinct, NoneBeforeFirst,
   ZeroSpace, ZeroThread, ThreadsOf

LEMMA ThreadListStep == IdInv /\ ThreadListInv /\ [Next]_vars => ThreadListInv'
<1> SUFFICES ASSUME IdInv, ThreadListInv, [Next]_vars PROVE ThreadListInv'
  OBVIOUS
<1>0. TypeOK /\ TypeOK'
  BY TypeStep DEF IdInv
<1>1. CASE RefusedStep
  BY <1>0, <1>1, ListsSame DEF RefusedStep, tables
<1>2. ASSUME NEW by \in {BiElf, App}, NEW t \in ThreadSlots, NEW s \in SpaceSlots,
             TaskStep(t, s, by)
      PROVE  ThreadListInv'
  <2>1. threads[t].as = NULL /\ spaces[s].firstThread = NULL /\ NewTask(t, s, by)
    BY <1>2 DEF TaskStep
  <2>2. /\ threads'[t].as = s /\ threads'[t].nextThread = NULL
        /\ \A u \in ThreadSlots \ {t} : threads'[u] = threads[u]
        /\ spaces'[s].firstThread = t
        /\ \A x \in SpaceSlots \ {s} : spaces'[x] = spaces[x]
    BY <1>0, <2>1, NewTaskEffect
  <2> QED BY <1>0, <2>1, <2>2, ListsNewTask
<1>3. ASSUME NEW caller \in ThreadSlots, NEW t \in ThreadSlots, NEW localid,
             ThreadStep(caller, t, localid)
      PROVE  ThreadListInv'
  <2>1. threads[caller].as # NULL /\ threads[t].as = NULL
    BY <1>3 DEF ThreadStep
  <2>2. /\ threads'[t].as = threads[caller].as
        /\ threads'[t].nextThread = threads[caller].nextThread
        /\ threads'[caller].as = threads[caller].as
        /\ threads'[caller].nextThread = t
        /\ \A u \in ThreadSlots \ {caller, t} : threads'[u] = threads[u]
        /\ spaces' = spaces
    BY <1>0, <1>3, ThreadStepEffect
  <2> QED BY <1>0, <2>1, <2>2, ListsNewThread
<1>4. ASSUME NEW id \in ThreadIds, NEW t \in ThreadSlots, KillStep(id, t)
      PROVE  ThreadListInv'
  <2>1. CASE UNCHANGED tables
    BY <1>0, <2>1, ListsSame DEF tables
  <2>2. CASE delete_tcb(t)
    BY <1>0, <2>2, ListsDelete
  <2> QED BY <1>4, <2>1, <2>2 DEF KillStep
<1>5. ASSUME NEW c \in Callers, NEW id \in ThreadIds, NEW t \in ThreadSlots,
             NEW l \in ListenerSlots, WaitStep(c, id, t, l)
      PROVE  ThreadListInv'
  <2>1. PushListener(t, l, c) /\ spaces' = spaces
    BY <1>5 DEF WaitStep
  <2> QED BY <1>0, <2>1, WaitEffect, ListsSame
<1> QED BY <1>1, <1>2, <1>3, <1>4, <1>5, StepCases

\* After any order of insertions in the middle and removals, the list a space
\* keeps of its threads holds exactly the TCBs that point back to it.
THEOREM SpaceListsAlwaysAgree == Spec => []SpaceListsAgree
<1>1. IdInv /\ ThreadListInv /\ [Next]_vars => (IdInv /\ ThreadListInv)'
  BY IdInvStep, ThreadListStep
<1>2. ThreadListInv => SpaceListsAgree
  BY DEF ThreadListInv
<1> QED BY IdInvInit, ThreadListInit, <1>1, <1>2, PTL DEF Spec

-----------------------------------------------------------------------------
(***************************************************************************)
(* UTCBs: UtcbsDistinct speaks of running threads; a thread that found no  *)
(* UTCB left has the nil local id and must not run.                        *)
(***************************************************************************)
LocalIdsDistinct ==
    \A t, u \in ThreadSlots :
        t # u /\ threads[t].as # NULL /\ threads[t].as = threads[u].as
        => threads[t].localid # threads[u].localid \/ threads[t].localid = NULL

NoUtcbNoRun ==
    \A t \in ThreadSlots :
        threads[t].as # NULL /\ threads[t].localid = NULL => ~Exists(threads[t].globalid)

UtcbInv == LocalIdsDistinct /\ NoUtcbNoRun

\* No thread runs under an id that was not given out yet.
LEMMA NextNotRunning ==
    ASSUME IdInv
    PROVE  /\ ~Exists(next_thread_no)
           /\ \A t \in ThreadSlots : threads[t].globalid # next_thread_no
<1>1. next_thread_no \in Nat
  BY DEF IdInv, TypeOK, CursorsOK
<1>2. ~(next_thread_no < next_thread_no)
  BY <1>1
<1>3. ~Exists(next_thread_no)
  BY <1>2 DEF IdInv, KernelHasTcb, Exists
<1>4. \A t \in ThreadSlots : threads[t].globalid # next_thread_no
  BY <1>2 DEF IdInv, IdsUsed
<1> QED BY <1>3, <1>4

\* A step that starts no thread, and changes neither ids nor brings a TCB to use.
LEMMA UtcbsSame ==
    ASSUME TypeOK, UtcbInv,
           \A u \in ThreadSlots :
                /\ threads'[u].globalid = threads[u].globalid
                /\ threads'[u].localid = threads[u].localid
                /\ threads'[u].as = threads[u].as \/ threads'[u].as = NULL,
           \A id \in ThreadIds : pager'[id] = pager[id] \/ pager'[id] = "none"
    PROVE  UtcbInv'
<1>1. LocalIdsDistinct'
  BY DEF UtcbInv, LocalIdsDistinct
<1>2. NoUtcbNoRun'
  BY DEF UtcbInv, NoUtcbNoRun, Exists
<1> QED BY <1>1, <1>2 DEF UtcbInv

LEMMA UtcbStep == IdInv /\ ThreadListInv /\ UtcbInv /\ [Next]_vars => UtcbInv'
<1> SUFFICES ASSUME IdInv, ThreadListInv, UtcbInv, [Next]_vars PROVE UtcbInv'
  OBVIOUS
<1>0. TypeOK /\ TypeOK'
  BY TypeStep DEF IdInv
<1>p. pager \in [ThreadIds -> {"none", "ram_dsm", "apppager"}]
  BY <1>0 DEF TypeOK, OthersOK
<1>a. \A x \in SpaceSlots : ThreadsOf(x) = {u \in ThreadSlots : threads[u].as = x}
  BY DEF ThreadListInv, SpaceListsAgree
<1>1. CASE RefusedStep
  BY <1>0, <1>1, UtcbsSame DEF RefusedStep, tables, others
<1>2. ASSUME NEW by \in {BiElf, App}, NEW t \in ThreadSlots, NEW s \in SpaceSlots,
             TaskStep(t, s, by)
      PROVE  UtcbInv'
  <2>1. /\ threads[t].as = NULL /\ spaces[s].firstThread = NULL
        /\ NewTask(t, s, by)
        /\ \A id \in ThreadIds \ {next_thread_no} : pager'[id] = pager[id]
    BY <1>2, <1>p DEF TaskStep, NewTask
  <2>2. /\ threads'[t].globalid = next_thread_no
        /\ threads'[t].localid = 0
        /\ threads'[t].as = s
        /\ \A u \in ThreadSlots \ {t} : threads'[u] = threads[u]
    BY <1>0, <2>1, NewTaskEffect
  <2>3. \A u \in ThreadSlots : threads[u].as # s
    BY <1>a, <2>1 DEF ThreadsOf
  <2>4. LocalIdsDistinct'
    BY <2>2, <2>3 DEF UtcbInv, LocalIdsDistinct
  <2>5. NoUtcbNoRun'
    <3>1. 0 # NULL
      BY DEF NULL
    <3> QED BY <2>1, <2>2, <3>1, NextNotRunning DEF UtcbInv, NoUtcbNoRun, Exists
  <2> QED BY <2>4, <2>5 DEF UtcbInv
<1>3. ASSUME NEW caller \in ThreadSlots, NEW t \in ThreadSlots, NEW localid,
             ThreadStep(caller, t, localid)
      PROVE  UtcbInv'
  <2>0. PICK s \in SpaceSlots : s = threads[caller].as
    BY <1>0, <1>3, NextsType DEF ThreadStep
  <2>1. localid \in get_free_localid(s) /\ threads[t].as = NULL
    BY <1>3, <2>0 DEF ThreadStep
  <2>2. localid = NULL \/ \A u \in ThreadSlots : threads[u].as = s => threads[u].localid # localid
    BY <1>a, <2>1 DEF get_free_localid
  <2>3. \A u \in ThreadSlots \ {t} :
            /\ threads'[u].globalid = threads[u].globalid
            /\ threads'[u].localid = threads[u].localid
            /\ threads'[u].as = threads[u].as
    BY <1>0, <1>3, ThreadStepEffect
  <2>4. /\ threads'[t].globalid = next_thread_no
        /\ threads'[t].localid = localid
        /\ threads'[t].as = s
        /\ pager' = IF localid = NULL THEN pager
                    ELSE [pager EXCEPT ![next_thread_no] = "ram_dsm"]
    BY <1>0, <1>3, <2>0, ThreadStepEffect
  <2>5. LocalIdsDistinct'
    BY <2>2, <2>3, <2>4 DEF UtcbInv, LocalIdsDistinct
  <2>6. NoUtcbNoRun'
    <3> SUFFICES ASSUME NEW u \in ThreadSlots, threads'[u].as # NULL, threads'[u].localid = NULL
                 PROVE  ~Exists(threads[u].globalid)'
      BY DEF NoUtcbNoRun
    <3>1. CASE u = t
      BY <2>4, <3>1, NextNotRunning DEF Exists
    <3>2. CASE u # t
      <4>1. ~Exists(threads[u].globalid) /\ threads[u].globalid # next_thread_no
        BY <2>3, <3>2, NextNotRunning DEF UtcbInv, NoUtcbNoRun
      <4> QED BY <1>p, <2>3, <2>4, <3>2, <4>1 DEF Exists
    <3> QED BY <3>1, <3>2
  <2> QED BY <2>5, <2>6 DEF UtcbInv
<1>4. ASSUME NEW id \in ThreadIds, NEW t \in ThreadSlots, KillStep(id, t)
      PROVE  UtcbInv'
  <2>1. \A i \in ThreadIds : pager'[i] = pager[i] \/ pager'[i] = "none"
    BY <1>4, <1>p DEF KillStep
  <2>2. CASE UNCHANGED tables
    BY <1>0, <2>1, <2>2, UtcbsSame DEF tables
  <2>3. CASE delete_tcb(t)
    BY <1>0, <2>1, <2>3, DeleteEffect, UtcbsSame
  <2> QED BY <1>4, <2>2, <2>3 DEF KillStep
<1>5. ASSUME NEW c \in Callers, NEW id \in ThreadIds, NEW t \in ThreadSlots,
             NEW l \in ListenerSlots, WaitStep(c, id, t, l)
      PROVE  UtcbInv'
  <2>1. PushListener(t, l, c) /\ pager' = pager
    BY <1>5 DEF WaitStep
  <2> QED BY <1>0, <2>1, WaitEffect, UtcbsSame
<1> QED BY <1>1, <1>2, <1>3, <1>4, <1>5, StepCases

\* Two threads the kernel runs in one space never share a UTCB, also when the
\* UTCB area of the space is full.
THEOREM UtcbsAlwaysDistinct == Spec => []UtcbsDistinct
<1>1. Init => UtcbInv
  BY DEF Init, UtcbInv, LocalIdsDistinct, NoUtcbNoRun, ZeroThread
<1>2. IdInv /\ ThreadListInv /\ UtcbInv /\ [Next]_vars => (IdInv /\ ThreadListInv /\ UtcbInv)'
  BY IdInvStep, ThreadListStep, UtcbStep
<1>3. UtcbInv => UtcbsDistinct
  BY DEF UtcbInv, LocalIdsDistinct, NoUtcbNoRun, UtcbsDistinct, Live
<1> QED BY IdInvInit, ThreadListInit, <1>1, <1>2, <1>3, PTL DEF Spec

-----------------------------------------------------------------------------
(***************************************************************************)
(* The pagers and the task server agree.  AssocInv is AssociationsAgree,   *)
(* thread by thread.                                                       *)
(***************************************************************************)
AssocInv ==
    status = "up" =>
        /\ \A id : id \in appAssoc <=>
                \E t \in ThreadSlots : Paged(t, App) /\ threads[t].globalid = id
        /\ \A t \in ThreadSlots : Paged(t, BiElf) => threads[t].globalid \in biAssoc

LEMMA AssocInvIsProperty == AssocInv <=> AssociationsAgree
<1> DEFINE pagedBy(p) == {threads[t].globalid : t \in {u \in ThreadSlots : Paged(u, p)}}
<1>1. (appAssoc = pagedBy(App)) <=>
        \A id : id \in appAssoc <=>
                \E t \in ThreadSlots : Paged(t, App) /\ threads[t].globalid = id
  OBVIOUS
<1>2. (pagedBy(BiElf) \subseteq biAssoc) <=>
        \A t \in ThreadSlots : Paged(t, BiElf) => threads[t].globalid \in biAssoc
  OBVIOUS
<1>3. AssociationsAgree <=>
        (status = "up" => appAssoc = pagedBy(App) /\ pagedBy(BiElf) \subseteq biAssoc)
  BY DEF AssociationsAgree
<1> HIDE DEF pagedBy
<1> QED BY <1>1, <1>2, <1>3 DEF AssocInv

\* A new thread in a space that is paged by p is made known to p.
LEMMA AssocNew ==
    ASSUME AssocInv, status = "up", NEW t \in ThreadSlots, threads[t].as = NULL,
           NEW p \in {BiElf, App}, NEW id,
           Paged(t, p)', \A q \in {BiElf, App} \ {p} : ~Paged(t, q)',
           threads'[t].globalid = id,
           \A u \in ThreadSlots \ {t} : threads'[u].globalid = threads[u].globalid,
           \A u \in ThreadSlots \ {t} : \A q \in {BiElf, App} : Paged(u, q)' <=> Paged(u, q),
           appAssoc' = IF p = App THEN appAssoc \cup {id} ELSE appAssoc,
           biAssoc' = IF p = BiElf THEN biAssoc \cup {id} ELSE biAssoc
    PROVE  AssocInv'
<1>1. BiElf # App
  BY DEF BiElf, App
<1>2. ~Paged(t, App) /\ ~Paged(t, BiElf)
  BY DEF Paged, Live
<1>3. ASSUME NEW i
      PROVE  i \in appAssoc' <=> \E u \in ThreadSlots : Paged(u, App)' /\ threads'[u].globalid = i
  <2>1. i \in appAssoc <=> \E u \in ThreadSlots : Paged(u, App) /\ threads[u].globalid = i
    BY DEF AssocInv
  <2>2. i \in appAssoc <=> \E u \in ThreadSlots \ {t} : Paged(u, App)' /\ threads'[u].globalid = i
    BY <1>2, <2>1
  <2>3. CASE p = App
    BY <2>2, <2>3
  <2>4. CASE p # App
    <3>1. ~Paged(t, App)'
      BY <2>4
    <3> QED BY <2>2, <2>4, <3>1
  <2> QED BY <2>3, <2>4
<1>4. ASSUME NEW u \in ThreadSlots, Paged(u, BiElf)' PROVE threads'[u].globalid \in biAssoc'
  <2>1. CASE u = t
    BY <1>1, <1>4, <2>1
  <2>2. CASE u # t
    BY <1>4, <2>2 DEF AssocInv
  <2> QED BY <2>1, <2>2
<1> QED BY <1>3, <1>4 DEF AssocInv

LEMMA AssocSame ==
    ASSUME AssocInv, status' = "up" => status = "up",
           \A u \in ThreadSlots : threads'[u].globalid = threads[u].globalid,
           \A u \in ThreadSlots : threads'[u].as = threads[u].as,
           spaces' = spaces, UNCHANGED <<appAssoc, biAssoc>>
    PROVE  AssocInv'
<1>1. \A u \in ThreadSlots : /\ Paged(u, App)' <=> Paged(u, App)
                             /\ Paged(u, BiElf)' <=> Paged(u, BiElf)
  BY DEF Paged, Live
<1> QED BY <1>1 DEF AssocInv

LEMMA AssocStep == IdInv /\ ThreadListInv /\ AssocInv /\ [Next]_vars => AssocInv'
<1> SUFFICES ASSUME IdInv, ThreadListInv, AssocInv, [Next]_vars PROVE AssocInv'
  OBVIOUS
<1>0. TypeOK /\ TypeOK'
  BY TypeStep DEF IdInv
<1>a. \A x \in SpaceSlots : ThreadsOf(x) = {u \in ThreadSlots : threads[u].as = x}
  BY DEF ThreadListInv, SpaceListsAgree
<1>1. CASE RefusedStep
  BY <1>1, AssocSame DEF RefusedStep, tables, others
<1>2. ASSUME NEW by \in {BiElf, App}, NEW t \in ThreadSlots, NEW s \in SpaceSlots,
             TaskStep(t, s, by)
      PROVE  AssocInv'
  <2>1. /\ threads[t].as = NULL /\ spaces[s].firstThread = NULL /\ status = "up"
        /\ NewTask(t, s, by)
        /\ appAssoc' = IF by = App THEN appAssoc \cup {next_thread_no} ELSE appAssoc
        /\ biAssoc' = IF by = BiElf THEN biAssoc \cup {next_thread_no} ELSE biAssoc
    BY <1>2 DEF TaskStep, NewTask, BiElf, App
  <2>2. /\ threads'[t].globalid = next_thread_no
        /\ threads'[t].as = s
        /\ \A u \in ThreadSlots \ {t} : threads'[u] = threads[u]
        /\ spaces'[s].pagedby = by
        /\ \A x \in SpaceSlots \ {s} : spaces'[x] = spaces[x]
    BY <1>0, <2>1, NewTaskEffect
  <2>3. \A u \in ThreadSlots : threads[u].as # s
    BY <1>a, <2>1 DEF ThreadsOf
  <2>4. Paged(t, by)' /\ \A q \in {BiElf, App} \ {by} : ~Paged(t, q)'
    BY <2>2, NullOutside DEF Paged, Live
  <2>5. \A u \in ThreadSlots \ {t} : \A q \in {BiElf, App} : Paged(u, q)' <=> Paged(u, q)
    <3>1. \A u \in ThreadSlots : threads[u].as \in SpaceSlots \cup {NULL}
      BY <1>0, NextsType
    <3> QED BY <2>2, <2>3, <3>1 DEF Paged, Live
  <2>6. \A u \in ThreadSlots \ {t} : threads'[u].globalid = threads[u].globalid
    BY <2>2
  <2> QED BY <2>1, <2>2, <2>4, <2>5, <2>6, AssocNew
<1>3. ASSUME NEW caller \in ThreadSlots, NEW t \in ThreadSlots, NEW localid,
             ThreadStep(caller, t, localid)
      PROVE  AssocInv'
  <2>0. PICK s \in SpaceSlots : s = threads[caller].as
    BY <1>0, <1>3, NextsType DEF ThreadStep
  <2>1. PICK by \in {BiElf, App} : by = spaces[s].pagedby
    BY <1>0 DEF TypeOK, TablesOK, Ascbs
  <2>2. /\ threads[t].as = NULL /\ status = "up"
        /\ appAssoc' = IF by = App THEN appAssoc \cup {next_thread_no} ELSE appAssoc
        /\ biAssoc' = IF by = BiElf THEN biAssoc \cup {next_thread_no} ELSE biAssoc
    BY <1>3, <2>0, <2>1 DEF ThreadStep, BiElf, App
  <2>3. /\ \A u \in ThreadSlots \ {t} : /\ threads'[u].globalid = threads[u].globalid
                                        /\ threads'[u].as = threads[u].as
        /\ threads'[t].globalid = next_thread_no
        /\ threads'[t].as = s
        /\ spaces' = spaces
    BY <1>0, <1>3, <2>0, ThreadStepEffect
  <2>4. Paged(t, by)' /\ \A q \in {BiElf, App} \ {by} : ~Paged(t, q)'
    BY <2>1, <2>3, NullOutside DEF Paged, Live
  <2>5. \A u \in ThreadSlots \ {t} : \A q \in {BiElf, App} : Paged(u, q)' <=> Paged(u, q)
    BY <2>3 DEF Paged, Live
  <2> QED BY <2>2, <2>3, <2>4, <2>5, AssocNew
<1>4. ASSUME NEW id \in ThreadIds, NEW t \in ThreadSlots, KillStep(id, t)
      PROVE  AssocInv'
  <2>0. threads[t].globalid = id /\ NotifyPager(t, id) /\ status = "up" /\ biAssoc' = biAssoc
    BY <1>4 DEF KillStep
  <2>1. CASE status' = "endless loop"
    BY <2>1 DEF AssocInv
  <2>2. CASE delete_tcb(t)
    <3>1. \A u \in ThreadSlots : /\ threads'[u].globalid = threads[u].globalid
                                 /\ threads'[u].as = IF u = t THEN NULL ELSE threads[u].as
      BY <1>0, <2>2, DeleteEffect
    <3>2. \A x \in SpaceSlots : spaces'[x].pagedby = spaces[x].pagedby
      BY <1>0, <2>2, DeleteEffect
    <3>3. \A u \in ThreadSlots : threads[u].as \in SpaceSlots \cup {NULL}
      BY <1>0, NextsType
    <3>4. \A u \in ThreadSlots : \A q \in {BiElf, App} : Paged(u, q)' <=> u # t /\ Paged(u, q)
      BY <3>1, <3>2, <3>3 DEF Paged, Live
    <3>5. \A u \in ThreadSlots : threads[u].globalid = id => u = t
      <4>1. id # NilThread
        BY ConstantsAssumption DEF ThreadIds, FirstNo, NilThread
      <4> QED BY <2>0, <4>1 DEF IdInv, IdsUnique
    <3>6. appAssoc' = appAssoc \ {id}
      <4>1. CASE Paged(t, App)
        BY <2>0, <4>1 DEF NotifyPager
      <4>2. CASE ~Paged(t, App)
        <5>1. id \notin appAssoc
          BY <2>0, <3>5, <4>2 DEF AssocInv
        <5> QED BY <2>0, <4>2, <5>1 DEF NotifyPager
      <4> QED BY <4>1, <4>2
    <3>7. ASSUME NEW i
          PROVE  i \in appAssoc' <=>
                    \E u \in ThreadSlots : Paged(u, App)' /\ threads'[u].globalid = i
      <4>1. i \in appAssoc <=> \E u \in ThreadSlots : Paged(u, App) /\ threads[u].globalid = i
        BY <2>0 DEF AssocInv
      <4> QED BY <2>0, <3>1, <3>4, <3>5, <3>6, <4>1
    <3>8. \A u \in ThreadSlots : Paged(u, BiElf)' => threads'[u].globalid \in biAssoc'
      BY <2>0, <3>1, <3>4 DEF AssocInv
    <3> QED BY <3>7, <3>8 DEF AssocInv
  <2> QED BY <1>4, <2>1, <2>2 DEF KillStep
<1>5. ASSUME NEW c \in Callers, NEW id \in ThreadIds, NEW t \in ThreadSlots,
             NEW l \in ListenerSlots, WaitStep(c, id, t, l)
      PROVE  AssocInv'
  <2>1. PushListener(t, l, c) /\ UNCHANGED <<spaces, status, biAssoc, appAssoc>>
    BY <1>5 DEF WaitStep
  <2> QED BY <1>0, <2>1, WaitEffect, AssocSame
<1> QED BY <1>1, <1>2, <1>3, <1>4, <1>5, StepCases

\* As long as the server serves requests, the application pager knows exactly
\* the threads of the spaces it pages, and RAM-DSM at least those it pages.
THEOREM AssociationsAlwaysAgree == Spec => []AssociationsAgree
<1>1. Init => AssocInv
  BY DEF Init, AssocInv, Paged, Live, ZeroThread
<1>2. IdInv /\ ThreadListInv /\ AssocInv /\ [Next]_vars => (IdInv /\ ThreadListInv /\ AssocInv)'
  BY IdInvStep, ThreadListStep, AssocStep
<1> QED BY IdInvInit, ThreadListInit, <1>1, <1>2, AssocInvIsProperty, PTL DEF Spec

-----------------------------------------------------------------------------
(***************************************************************************)
(* Listeners, when threads kill only themselves.  A blocked caller is then *)
(* never killed, and a deleted TCB never again: the entries on the list of *)
(* a living thread belong to exactly the callers that wait for it.  (The   *)
(* lists of deleted TCBs stay behind and may run into a living one.)       *)
(***************************************************************************)
SelfKillStep(id, t) ==
    /\ KillStep(id, t)
    /\ waitsFor[id] = NilThread
    /\ threads[t].as # NULL
    /\ pager[id] # "none"

LEMMA SelfKillStepCases ==
    ASSUME IdInv, [NextSelfKill]_vars
    PROVE  \/ RefusedStep
           \/ \E by \in {BiElf, App}, t \in ThreadSlots, s \in SpaceSlots : TaskStep(t, s, by)
           \/ \E caller, t \in ThreadSlots : \E localid : ThreadStep(caller, t, localid)
           \/ \E id \in ThreadIds, t \in ThreadSlots : SelfKillStep(id, t)
           \/ \E c \in Callers, id \in ThreadIds, t \in ThreadSlots, l \in ListenerSlots :
                WaitStep(c, id, t, l)
<1>1. CASE UNCHANGED vars
  BY <1>1 DEF vars, RefusedStep
<1>2. CASE \E c \in Callers : \E by \in {BiElf, App} : startTask(c, by)
  BY <1>2, StartTaskCases
<1>3. CASE \E c \in Callers : createThread(c)
  BY <1>3, CreateThreadCases
<1>4. ASSUME NEW c \in Callers, c # Root, kill(c, c)
      PROVE  RefusedStep \/ \E id \in ThreadIds, t \in ThreadSlots : SelfKillStep(id, t)
  <2>1. c \in ThreadIds /\ pager[c] # "none" /\ waitsFor[c] = NilThread
    BY <1>4 DEF kill, Call, Exists
  <2>2. RefusedStep \/ \E t \in ThreadSlots : KillStep(c, t)
    BY <1>4, <2>1, KillCases
  <2>3. ASSUME NEW t \in ThreadSlots, KillStep(c, t) PROVE SelfKillStep(c, t)
    BY <2>1, <2>3, CallerInUse DEF SelfKillStep, KillStep
  <2> QED BY <2>1, <2>2, <2>3
<1>5. CASE \E c \in Callers : \E id \in ThreadIds : waitTid(c, id)
  BY <1>5, WaitCases
<1> QED BY <1>1, <1>2, <1>3, <1>4, <1>5 DEF NextSelfKill

EntriesWait ==
    \A t \in ThreadSlots : threads[t].as # NULL =>
        \A l \in ListenersOf(t) :
            /\ listeners[l].listeningThread # NilThread
            /\ threads[t].globalid # NilThread
            /\ waitsFor[listeners[l].listeningThread] = threads[t].globalid

ListsEnd ==
    \A t \in ThreadSlots : threads[t].as # NULL => ~EndlessListeners(t)

ListsApart ==
    \A t, u \in ThreadSlots : threads[t].as # NULL /\ threads[u].as # NULL /\ t # u =>
        ListenersOf(t) \cap ListenersOf(u) = {}

WaitersListed ==
    \A t \in ThreadSlots, c \in Callers :
        /\ threads[t].as # NULL
        /\ threads[t].globalid # NilThread
        /\ waitsFor[c] = threads[t].globalid
        => \E l \in ListenersOf(t) : listeners[l].listeningThread = c

WaitedForUsed == \A c \in Callers : waitsFor[c] < next_thread_no

ListenInv == EntriesWait /\ ListsEnd /\ ListsApart /\ WaitersListed /\ WaitedForUsed

LEMMA NextListenersType ==
    ASSUME TypeOK
    PROVE  /\ nextListeners \in [ListenerSlots -> ListenerSlots \cup {NULL}]
           /\ \A l \in ListenerSlots : nextListeners[l] = listeners[l].nextListener
           /\ \A t \in ThreadSlots : threads[t].firstListener \in ListenerSlots \cup {NULL}
           /\ \A t \in ThreadSlots : ListenersOf(t) \subseteq ListenerSlots
BY DEF TypeOK, TablesOK, Tcbs, Listeners, nextListeners, ListenersOf, Chain

\* The list of a thread whose entries keep their next pointers.
LEMMA OtherListenersStay ==
    ASSUME TypeOK, TypeOK', NEW t \in ThreadSlots,
           threads'[t].firstListener = threads[t].firstListener,
           \A l \in ListenersOf(t) : listeners'[l].nextListener = listeners[l].nextListener
    PROVE  ListenersOf(t)' = ListenersOf(t)
<1>1. CASE threads[t].firstListener = NULL
  BY <1>1 DEF ListenersOf
<1>2. CASE threads[t].firstListener # NULL
  <2>0. PICK first \in ListenerSlots : first = threads[t].firstListener
    BY <1>2, NextListenersType
  <2>1. /\ ListenersOf(t) = Chain(first, ListenerSlots, nextListeners)
        /\ ListenersOf(t)' = Chain(first, ListenerSlots, nextListeners')
    BY <1>2, <2>0 DEF ListenersOf
  <2>2. nextListeners \in [ListenerSlots -> ListenerSlots \cup {NULL}]
        /\ nextListeners' \in [ListenerSlots -> ListenerSlots \cup {NULL}]
    BY DEF TypeOK, TablesOK, Listeners, nextListeners
  <2>3. \A l \in Chain(first, ListenerSlots, nextListeners) : nextListeners'[l] = nextListeners[l]
    BY <2>1, NextListenersType DEF nextListeners
  <2> QED BY <2>1, <2>2, <2>3, ChainSame
<1> QED BY <1>1, <1>2

\* A step that leaves the listeners alone, and brings at most thread t to use.
LEMMA ListenersNewThread ==
    ASSUME IdInv, TypeOK', ListenInv, NEW t \in ThreadSlots, threads[t].as = NULL,
           threads'[t].firstListener = NULL, threads'[t].globalid = next_thread_no,
           \A u \in ThreadSlots \ {t} :
                /\ threads'[u].globalid = threads[u].globalid
                /\ threads'[u].as = threads[u].as
                /\ threads'[u].firstListener = threads[u].firstListener,
           next_thread_no' = next_thread_no + 1,
           UNCHANGED <<listeners, waitsFor>>
    PROVE  ListenInv'
<1>0. TypeOK /\ next_thread_no \in Nat
  BY DEF IdInv, TypeOK, CursorsOK
<1>1. \A u \in ThreadSlots \ {t} : ListenersOf(u)' = ListenersOf(u)
  BY <1>0, OtherListenersStay
<1>2. ListenersOf(t)' = {}
  BY DEF ListenersOf
<1>3. EntriesWait'
  BY <1>1, <1>2 DEF ListenInv, EntriesWait
<1>4. ListsEnd'
  BY <1>1, <1>2 DEF ListenInv, ListsEnd, EndlessListeners
<1>5. ListsApart'
  BY <1>1, <1>2 DEF ListenInv, ListsApart
<1>6. \A c \in Callers : waitsFor[c] # next_thread_no
  BY <1>0 DEF ListenInv, WaitedForUsed
<1>7. WaitersListed'
  BY <1>1, <1>6 DEF ListenInv, WaitersListed
<1>8. WaitedForUsed'
  <2>1. \A c \in Callers : waitsFor[c] \in Nat
    <3>1. ThreadIds \cup {NilThread} \subseteq Nat
      BY ConstantsAssumption DEF ThreadIds, FirstNo, NilThread
    <3>2. waitsFor \in [Callers -> ThreadIds \cup {NilThread}]
      BY <1>0 DEF TypeOK, OthersOK
    <3> QED BY <3>1, <3>2
  <2> QED BY <1>0, <2>1 DEF ListenInv, WaitedForUsed
<1> QED BY <1>3, <1>4, <1>5, <1>7, <1>8 DEF ListenInv

LEMMA ListenersRefused ==
    ASSUME TypeOK, TypeOK', ListenInv, UNCHANGED <<threads, listeners, waitsFor, next_thread_no>>
    PROVE  ListenInv'
<1>1. \A u \in ThreadSlots : ListenersOf(u)' = ListenersOf(u)
  BY OtherListenersStay
<1>2. EntriesWait' /\ ListsApart' /\ WaitersListed' /\ WaitedForUsed'
  BY <1>1 DEF ListenInv, EntriesWait, ListsApart, WaitersListed, WaitedForUsed
<1>3. ListsEnd'
  BY <1>1 DEF ListenInv, ListsEnd, EndlessListeners
<1> QED BY <1>2, <1>3 DEF ListenInv

\* kill: the killed thread's listeners are woken and freed, nobody else's.
LEMMA ListenersKill ==
    ASSUME IdInv, TypeOK', ListenInv, NEW id \in ThreadIds, NEW t \in ThreadSlots,
           SelfKillStep(id, t)
    PROVE  ListenInv' /\ status' = status
<1>0. /\ TypeOK /\ threads[t].as # NULL /\ threads[t].globalid = id
      /\ waitsFor[id] = NilThread /\ WakeListeners(t, id) /\ next_thread_no' = next_thread_no
  BY DEF IdInv, SelfKillStep, KillStep, cursors
<1>1. id # NilThread /\ id \in Callers
  BY ConstantsAssumption DEF ThreadIds, FirstNo, NilThread, Callers
<1>2. ~EndlessListeners(t)
  BY <1>0 DEF ListenInv, ListsEnd
<1>3. delete_tcb(t) /\ status' = status
  BY <1>2 DEF SelfKillStep, KillStep
<1>4. \A u \in ThreadSlots :
        /\ threads'[u].globalid = threads[u].globalid
        /\ threads'[u].firstListener = threads[u].firstListener
        /\ threads'[u].as = IF u = t THEN NULL ELSE threads[u].as
  BY <1>0, <1>3, DeleteEffect
<1>5. \A l \in ListenerSlots :
        /\ listeners'[l].nextListener = listeners[l].nextListener
        /\ listeners'[l].listeningThread =
             IF l \in ListenersOf(t) THEN NilThread ELSE listeners[l].listeningThread
  BY <1>0, <1>3 DEF delete_tcb, TypeOK, TablesOK, Listeners
<1>6. \A u \in ThreadSlots : ListenersOf(u)' = ListenersOf(u) /\ ListenersOf(u) \subseteq ListenerSlots
  BY <1>0, <1>4, <1>5, OtherListenersStay, NextListenersType
<1>7. \A u \in ThreadSlots : u # t /\ threads[u].as # NULL =>
            /\ ListenersOf(u) \cap ListenersOf(t) = {}
            /\ threads[u].globalid # id
  BY <1>0, <1>1 DEF ListenInv, ListsApart, IdInv, IdsUnique
<1>8. \A c \in Callers : waitsFor'[c] =
        IF c = id \/ \E l \in ListenersOf(t) : listeners[l].listeningThread = c
        THEN NilThread ELSE waitsFor[c]
  BY <1>0 DEF WakeListeners
<1>9. EntriesWait'
  <2> SUFFICES ASSUME NEW u \in ThreadSlots, threads'[u].as # NULL, NEW l \in ListenersOf(u)'
               PROVE  /\ listeners'[l].listeningThread # NilThread
                      /\ threads'[u].globalid # NilThread
                      /\ waitsFor'[listeners'[l].listeningThread] = threads'[u].globalid
    BY DEF EntriesWait
  <2>1. /\ u # t /\ threads[u].as # NULL /\ threads'[u].globalid = threads[u].globalid
        /\ l \in ListenersOf(u) /\ l \in ListenerSlots
    BY <1>4, <1>6
  <2>2. listeners'[l].listeningThread = listeners[l].listeningThread
    BY <1>5, <1>7, <2>1
  <2>3. PICK c : c = listeners[l].listeningThread
    OBVIOUS
  <2>4. c # NilThread /\ threads[u].globalid # NilThread /\ waitsFor[c] = threads[u].globalid
    BY <2>1, <2>3 DEF ListenInv, EntriesWait
  <2>5. c \in Callers
    BY <1>0, <2>1, <2>3, <2>4 DEF TypeOK, TablesOK, Listeners
  <2>6. c # id
    BY <1>0, <2>4
  <2>7. ~\E m \in ListenersOf(t) : listeners[m].listeningThread = c
    BY <1>0, <1>7, <2>1, <2>4 DEF ListenInv, EntriesWait
  <2> QED BY <1>8, <2>1, <2>2, <2>3, <2>4, <2>5, <2>6, <2>7
<1>10. ListsEnd'
  <2> SUFFICES ASSUME NEW u \in ThreadSlots, threads'[u].as # NULL
               PROVE  ~EndlessListeners(u)'
    BY DEF ListsEnd
  <2>1. ~EndlessListeners(u)
    BY <1>4 DEF ListenInv, ListsEnd
  <2> QED BY <1>5, <1>6, <2>1 DEF EndlessListeners
<1>11. ListsApart'
  BY <1>4, <1>6 DEF ListenInv, ListsApart
<1>12. WaitersListed'
  <2> SUFFICES ASSUME NEW u \in ThreadSlots, NEW c \in Callers, threads'[u].as # NULL,
                      threads'[u].globalid # NilThread, waitsFor'[c] = threads'[u].globalid
               PROVE  \E l \in ListenersOf(u)' : listeners'[l].listeningThread = c
    BY DEF WaitersListed
  <2>1. u # t /\ threads[u].as # NULL /\ threads'[u].globalid = threads[u].globalid
    BY <1>4
  <2>2. waitsFor[c] = threads[u].globalid
    BY <1>8, <2>1
  <2>3. PICK l \in ListenersOf(u) : listeners[l].listeningThread = c
    BY <2>1, <2>2 DEF ListenInv, WaitersListed
  <2>4. l \notin ListenersOf(t) /\ l \in ListenerSlots
    BY <1>6, <1>7, <2>1
  <2> QED BY <1>5, <1>6, <2>3, <2>4
<1>13. WaitedForUsed'
  <2>1. CursorsOK
    BY <1>0 DEF TypeOK
  <2>2. NilThread < next_thread_no
    BY <2>1 DEF CursorsOK, FirstNo, NilThread
  <2> QED BY <1>0, <1>8, <2>2 DEF ListenInv, WaitedForUsed
<1> QED BY <1>3, <1>9, <1>10, <1>11, <1>12, <1>13 DEF ListenInv

\* waitTid: a free entry is on no living thread's list, and becomes the first
\* one of the list of t, living or not.
LEMMA ListenersWait ==
    ASSUME IdInv, TypeOK', ListenInv, NEW c \in Callers, NEW id \in ThreadIds,
           NEW t \in ThreadSlots, NEW l \in ListenerSlots, WaitStep(c, id, t, l)
    PROVE  ListenInv'
<1>0. /\ TypeOK /\ waitsFor[c] = NilThread /\ threads[t].globalid = id
      /\ listeners[l].listeningThread = NilThread
      /\ next_thread_no' = next_thread_no
      /\ PushListener(t, l, c)
  BY DEF IdInv, WaitStep
<1>1. id # NilThread /\ c # NilThread
  BY ConstantsAssumption DEF ThreadIds, FirstNo, NilThread, Callers, Root
<1>2. /\ waitsFor'[c] = id
      /\ \A d \in Callers \ {c} : waitsFor'[d] = waitsFor[d]
  BY <1>0 DEF WaitStep, TypeOK, OthersOK
<1>3. \A u \in ThreadSlots :
        /\ threads'[u].globalid = threads[u].globalid
        /\ threads'[u].as = threads[u].as
        /\ threads'[u].firstListener = IF u = t THEN l ELSE threads[u].firstListener
  BY <1>0, WaitEffect
<1>4. /\ listeners'[l].listeningThread = c
      /\ listeners'[l].nextListener = threads[t].firstListener
      /\ \A m \in ListenerSlots \ {l} : listeners'[m] = listeners[m]
  BY <1>0, WaitEffect
<1>5. \A u \in ThreadSlots : threads[u].as # NULL => l \notin ListenersOf(u)
  BY <1>0 DEF ListenInv, EntriesWait
<1>6. \A u \in ThreadSlots : ListenersOf(u) \subseteq ListenerSlots
  BY <1>0, NextListenersType
<1>7. ASSUME NEW u \in ThreadSlots, u # t, threads[u].as # NULL
      PROVE  ListenersOf(u)' = ListenersOf(u)
  <2>1. \A m \in ListenersOf(u) : listeners'[m].nextListener = listeners[m].nextListener
    BY <1>4, <1>5, <1>6, <1>7
  <2> QED BY <1>0, <1>3, <1>7, <2>1, OtherListenersStay
<1>8. ASSUME threads[t].as # NULL PROVE ListenersOf(t)' = ListenersOf(t) \cup {l}
  <2>0. l # NULL
    BY NullOutside
  <2>1. ListenersOf(t)' = Chain(l, ListenerSlots, nextListeners')
    BY <1>3, <2>0 DEF ListenersOf
  <2>2. nextListeners \in [ListenerSlots -> ListenerSlots \cup {NULL}]
        /\ nextListeners' \in [ListenerSlots -> ListenerSlots \cup {NULL}]
    BY <1>0 DEF TypeOK, TablesOK, Listeners, nextListeners
  <2>3. /\ nextListeners'[l] = threads[t].firstListener
        /\ \A m \in ListenerSlots \ {l} : nextListeners'[m] = nextListeners[m]
    BY <1>4 DEF nextListeners
  <2>4. CASE threads[t].firstListener = NULL
    <3>1. ListenersOf(t) = {}
      BY <2>4 DEF ListenersOf
    <3>2. Chain(l, ListenerSlots, nextListeners') = {l}
      BY <2>3, <2>4, ChainOne
    <3> QED BY <2>1, <3>1, <3>2
  <2>5. CASE threads[t].firstListener # NULL
    <3>0. PICK first \in ListenerSlots : first = threads[t].firstListener
      BY <1>0, <2>5, NextListenersType
    <3>1. ListenersOf(t) = Chain(first, ListenerSlots, nextListeners)
      BY <2>5, <3>0 DEF ListenersOf
    <3>2. l \notin Chain(first, ListenerSlots, nextListeners)
      BY <1>5, <1>8, <3>1
    <3> QED BY <2>1, <2>2, <2>3, <3>0, <3>1, <3>2, NullOutside, ChainPush
  <2> QED BY <2>4, <2>5
<1>9. EntriesWait'
  <2> SUFFICES ASSUME NEW u \in ThreadSlots, threads'[u].as # NULL, NEW m \in ListenersOf(u)'
               PROVE  /\ listeners'[m].listeningThread # NilThread
                      /\ threads'[u].globalid # NilThread
                      /\ waitsFor'[listeners'[m].listeningThread] = threads'[u].globalid
    BY DEF EntriesWait
  <2>1. threads[u].as # NULL /\ threads'[u].globalid = threads[u].globalid
    BY <1>3
  <2>2. CASE m = l
    <3>1. u = t
      BY <1>5, <1>7, <2>1, <2>2
    <3> QED BY <1>0, <1>1, <1>2, <1>4, <2>1, <2>2, <3>1
  <2>3. CASE m # l
    <3>1. m \in ListenersOf(u) /\ m \in ListenerSlots
      BY <1>6, <1>7, <1>8, <2>1, <2>3
    <3>2. listeners'[m] = listeners[m]
      BY <1>4, <2>3, <3>1
    <3>3. PICK d : d = listeners[m].listeningThread
      OBVIOUS
    <3>4. d # NilThread /\ threads[u].globalid # NilThread /\ waitsFor[d] = threads[u].globalid
      BY <2>1, <3>1, <3>3 DEF ListenInv, EntriesWait
    <3>5. d \in Callers
      BY <1>0, <3>1, <3>3, <3>4 DEF TypeOK, TablesOK, Listeners
    <3>6. d # c
      BY <1>0, <3>4
    <3> QED BY <1>2, <2>1, <3>2, <3>3, <3>4, <3>5, <3>6
  <2> QED BY <2>2, <2>3
<1>10. ListsEnd'
  <2> SUFFICES ASSUME NEW u \in ThreadSlots, threads'[u].as # NULL
               PROVE  \/ ListenersOf(u)' = {}
                      \/ \E m \in ListenersOf(u)' : listeners'[m].nextListener = NULL
    BY DEF ListsEnd, EndlessListeners
  <2>1. threads[u].as # NULL
    BY <1>3
  <2>2. ListenersOf(u) = {} \/ \E m \in ListenersOf(u) : listeners[m].nextListener = NULL
    BY <2>1 DEF ListenInv, ListsEnd, EndlessListeners
  <2>3. \A m \in ListenersOf(u) : listeners'[m] = listeners[m]
    BY <1>4, <1>5, <1>6, <2>1
  <2>4. CASE u # t
    BY <1>7, <2>1, <2>2, <2>3, <2>4
  <2>5. CASE u = t /\ ListenersOf(t) # {}
    BY <1>8, <2>1, <2>2, <2>3, <2>5
  <2>6. CASE u = t /\ ListenersOf(t) = {}
    <3>1. threads[t].firstListener = NULL
      <4> SUFFICES ASSUME threads[t].firstListener # NULL PROVE FALSE
        OBVIOUS
      <4>0. PICK first \in ListenerSlots : first = threads[t].firstListener
        BY <1>0, NextListenersType
      <4>1. ListenersOf(t) = Chain(first, ListenerSlots, nextListeners)
        BY <4>0, NullOutside DEF ListenersOf
      <4> QED BY <2>6, <4>1, ChainStart
    <3> QED BY <1>4, <1>8, <2>1, <2>6, <3>1
  <2> QED BY <2>4, <2>5, <2>6
<1>11. ListsApart'
  <2> SUFFICES ASSUME NEW u \in ThreadSlots, NEW v \in ThreadSlots, u # v,
                      threads'[u].as # NULL, threads'[v].as # NULL
               PROVE  ListenersOf(u)' \cap ListenersOf(v)' = {}
    BY DEF ListsApart
  <2>1. threads[u].as # NULL /\ threads[v].as # NULL
    BY <1>3
  <2>2. ListenersOf(u) \cap ListenersOf(v) = {}
    BY <2>1 DEF ListenInv, ListsApart
  <2> QED BY <1>5, <1>7, <1>8, <2>1, <2>2
<1>12. WaitersListed'
  <2> SUFFICES ASSUME NEW u \in ThreadSlots, NEW d \in Callers, threads'[u].as # NULL,
                      threads'[u].globalid # NilThread, waitsFor'[d] = threads'[u].globalid
               PROVE  \E m \in ListenersOf(u)' : listeners'[m].listeningThread = d
    BY DEF WaitersListed
  <2>1. threads[u].as # NULL /\ threads'[u].globalid = threads[u].globalid
    BY <1>3
  <2>2. CASE d = c
    <3>1. u = t
      BY <1>0, <1>1, <1>2, <2>1, <2>2 DEF IdInv, IdsUnique
    <3> QED BY <1>4, <1>8, <2>1, <2>2, <3>1
  <2>3. CASE d # c
    <3>1. PICK m \in ListenersOf(u) : listeners[m].listeningThread = d
      BY <1>2, <2>1, <2>3 DEF ListenInv, WaitersListed
    <3>2. listeners'[m] = listeners[m]
      BY <1>4, <1>5, <1>6, <2>1
    <3>3. m \in ListenersOf(u)'
      BY <1>7, <1>8, <2>1
    <3> QED BY <3>1, <3>2, <3>3
  <2> QED BY <2>2, <2>3
<1>13. WaitedForUsed'
  <2>1. id < next_thread_no
    BY <1>0 DEF IdInv, IdsUsed
  <2> QED BY <1>0, <1>2, <2>1 DEF ListenInv, WaitedForUsed
<1> QED BY <1>9, <1>10, <1>11, <1>12, <1>13 DEF ListenInv

LEMMA ListenStep == IdInv /\ ListenInv /\ [NextSelfKill]_vars => ListenInv'
<1> SUFFICES ASSUME IdInv, ListenInv, [NextSelfKill]_vars PROVE ListenInv'
  OBVIOUS
<1>0. TypeOK /\ TypeOK'
  <2>1. [Next]_vars
    BY DEF NextSelfKill, Next, Callers
  <2> QED BY <2>1, TypeStep DEF IdInv
<1>1. CASE RefusedStep
  BY <1>0, <1>1, ListenersRefused DEF RefusedStep, tables, cursors, others
<1>2. ASSUME NEW by \in {BiElf, App}, NEW t \in ThreadSlots, NEW s \in SpaceSlots,
             TaskStep(t, s, by)
      PROVE  ListenInv'
  <2>1. threads[t].as = NULL /\ NewTask(t, s, by)
    BY <1>2 DEF TaskStep
  <2>2. /\ threads'[t].firstListener = NULL /\ threads'[t].globalid = next_thread_no
        /\ \A u \in ThreadSlots \ {t} : threads'[u] = threads[u]
    BY <1>0, <2>1, NewTaskEffect
  <2>3. next_thread_no' = next_thread_no + 1 /\ UNCHANGED <<listeners, waitsFor>>
    BY <2>1 DEF NewTask
  <2> QED BY <1>0, <2>1, <2>2, <2>3, ListenersNewThread
<1>3. ASSUME NEW caller \in ThreadSlots, NEW t \in ThreadSlots, NEW localid,
             ThreadStep(caller, t, localid)
      PROVE  ListenInv'
  <2>1. threads[t].as = NULL
    BY <1>3 DEF ThreadStep
  <2>2. /\ threads'[t].firstListener = NULL /\ threads'[t].globalid = next_thread_no
        /\ \A u \in ThreadSlots \ {t} :
                /\ threads'[u].globalid = threads[u].globalid
                /\ threads'[u].as = threads[u].as
                /\ threads'[u].firstListener = threads[u].firstListener
        /\ next_thread_no' = next_thread_no + 1 /\ UNCHANGED <<listeners, waitsFor>>
    BY <1>0, <1>3, ThreadStepEffect
  <2> QED BY <1>0, <2>1, <2>2, ListenersNewThread
<1>4. ASSUME NEW id \in ThreadIds, NEW t \in ThreadSlots, SelfKillStep(id, t)
      PROVE  ListenInv'
  BY <1>0, <1>4, ListenersKill
<1>5. ASSUME NEW c \in Callers, NEW id \in ThreadIds, NEW t \in ThreadSlots,
             NEW l \in ListenerSlots, WaitStep(c, id, t, l)
      PROVE  ListenInv'
  BY <1>0, <1>5, ListenersWait
<1> QED BY <1>1, <1>2, <1>3, <1>4, <1>5, SelfKillStepCases

\* IdInv and ListenInv hold together.
LEMMA ListenInvInvariant == SelfKillSpec => [](IdInv /\ ListenInv)
<1>1. Init => ListenInv
  <2> SUFFICES ASSUME Init PROVE ListenInv
    OBVIOUS
  <2>1. EntriesWait /\ ListsEnd /\ ListsApart /\ WaitersListed
    BY DEF Init, EntriesWait, ListsEnd, ListsApart, WaitersListed, ZeroThread
  <2>2. WaitedForUsed
    BY DEF Init, WaitedForUsed, FirstNo, NilThread
  <2> QED BY <2>1, <2>2 DEF ListenInv
<1>2. [NextSelfKill]_vars => [Next]_vars
  BY DEF NextSelfKill, Next, Callers
<1>3. IdInv /\ ListenInv /\ [NextSelfKill]_vars => (IdInv /\ ListenInv)'
  BY <1>2, IdInvStep, ListenStep
<1> QED BY IdInvInit, <1>1, <1>3, PTL DEF SelfKillSpec

\* With threads that kill only themselves, every caller that waits for a living
\* thread is on its list, and the lists of living threads are apart, end, and
\* hold no free entry.
THEOREM ListenersNeverShared == SelfKillSpec => []ListenersNotShared
<1>1. IdInv /\ ListenInv => ListenersNotShared
  <2> SUFFICES ASSUME IdInv, ListenInv PROVE ListenersNotShared
    OBVIOUS
  <2>1. WaitersRegistered
    <3> SUFFICES ASSUME NEW c \in Callers, Exists(waitsFor[c])
                 PROVE  \E t \in find_tcb(waitsFor[c]), l \in ListenerSlots :
                            l \in ListenersOf(t) /\ listeners[l].listeningThread = c
      BY DEF WaitersRegistered
    <3>0. PICK id \in ThreadIds : id = waitsFor[c] /\ pager[id] # "none"
      BY DEF Exists
    <3>1. PICK t \in find_tcb(id) : Live(t)
      BY <3>0, IdInvImpliesProperty DEF KernelThreadsHaveTcb, Exists
    <3>2. t \in ThreadSlots /\ threads[t].globalid = id /\ threads[t].as # NULL
      BY <3>1 DEF find_tcb, Live
    <3>3. id # NilThread
      BY ConstantsAssumption DEF ThreadIds, FirstNo, NilThread
    <3>4. PICK l \in ListenersOf(t) : listeners[l].listeningThread = c
      BY <3>0, <3>2, <3>3 DEF ListenInv, WaitersListed
    <3>5. l \in ListenerSlots
      BY <3>2, NextListenersType DEF IdInv
    <3> QED BY <3>0, <3>4, <3>5
  <2>2. \A t \in ThreadSlots : Live(t) =>
            /\ \A l \in ListenersOf(t) : listeners[l].listeningThread # NilThread
            /\ ~EndlessListeners(t)
            /\ \A u \in ThreadSlots \ {t} : Live(u) => ListenersOf(t) \cap ListenersOf(u) = {}
    BY DEF ListenInv, EntriesWait, ListsEnd, ListsApart, Live
  <2> QED BY <2>1, <2>2 DEF ListenersNotShared
<1> QED BY <1>1, ListenInvInvariant, PTL

-----------------------------------------------------------------------------
(***************************************************************************)
(* The server implements TaskService: a request that is refused is a Stop  *)
(* or no step at all, the others are a Create, a Kill or a Wait.           *)
(***************************************************************************)
alive == {id \in ThreadIds : Exists(id)}
used  == FirstNo .. next_thread_no - 1

LEMMA RefusedImplements ==
    ASSUME RefusedStep
    PROVE  [Service!Next]_Service!vars
<1>1. UNCHANGED <<pager, next_thread_no, waitsFor>>
  BY DEF RefusedStep, cursors, others
<1>2. UNCHANGED <<alive, used, waitsFor>>
  BY <1>1 DEF alive, used, Exists
<1>3. CASE status' = status
  BY <1>2, <1>3 DEF Service!vars, alive, used
<1>4. CASE status = "up" /\ status' # "up"
  <2>1. Service!Stop
    BY <1>2, <1>4 DEF Service!Stop, alive, used
  <2> QED BY <2>1 DEF Service!Next
<1> QED BY <1>3, <1>4 DEF RefusedStep

\* A step that starts at most the thread with the next id.
LEMMA CreateImplements ==
    ASSUME TypeOK, NumberLeft, status = "up", UNCHANGED <<waitsFor, status>>,
           next_thread_no' = next_thread_no + 1,
           NEW p \in {"ram_dsm", "apppager"},
           pager' = pager \/ pager' = [pager EXCEPT ![next_thread_no] = p]
    PROVE  [Service!Next]_Service!vars
<1>0. CursorsOK /\ pager \in [ThreadIds -> {"none", "ram_dsm", "apppager"}]
  BY DEF TypeOK, OthersOK
<1>1. next_thread_no \in ThreadIds
  BY <1>0, NewIdType
<1>2. next_thread_no \notin used /\ used' = used \cup {next_thread_no}
  BY <1>0 DEF used, CursorsOK, FirstNo
<1>3. alive' = alive \/ alive' = alive \cup {next_thread_no}
  <2>1. CASE pager' = pager
    BY <2>1 DEF alive, Exists
  <2>2. CASE pager' = [pager EXCEPT ![next_thread_no] = p]
    BY <1>0, <1>1, <2>2 DEF alive, Exists
  <2> QED BY <2>1, <2>2
<1>4. Service!Create
  BY <1>1, <1>2, <1>3 DEF Service!Create, alive, used
<1> QED BY <1>4 DEF Service!Next

LEMMA KillImplements ==
    ASSUME IdInv, ListenInv, TypeOK', NEW id \in ThreadIds, NEW t \in ThreadSlots,
           SelfKillStep(id, t)
    PROVE  [Service!Next]_Service!vars
<1>0. /\ threads[t].globalid = id /\ threads[t].as # NULL /\ pager[id] # "none"
      /\ WakeListeners(t, id) /\ next_thread_no' = next_thread_no /\ status = "up"
      /\ pager' = [pager EXCEPT ![id] = "none"]
  BY DEF SelfKillStep, KillStep, cursors
<1>1. status' = status
  BY ListenersKill
<1>2. pager \in [ThreadIds -> {"none", "ram_dsm", "apppager"}]
  BY DEF IdInv, TypeOK, OthersOK
<1>3. id \in alive /\ alive' = alive \ {id}
  BY <1>0, <1>2 DEF alive, Exists
<1>4. \A c \in Callers :
        (\E l \in ListenersOf(t) : listeners[l].listeningThread = c) <=> waitsFor[c] = id
  <2>1. id # NilThread
    BY ConstantsAssumption DEF ThreadIds, FirstNo, NilThread
  <2> QED BY <1>0, <2>1 DEF ListenInv, EntriesWait, WaitersListed
<1>5. waitsFor' = [c \in Callers |->
            IF c = id \/ waitsFor[c] = id THEN NilThread ELSE waitsFor[c]]
  BY <1>0, <1>4 DEF WakeListeners
<1>6. used' = used
  BY <1>0 DEF used
<1>7. Service!Kill(id)
  BY <1>0, <1>1, <1>3, <1>5, <1>6 DEF Service!Kill, alive, used
<1> QED BY <1>7 DEF Service!Next

LEMMA WaitImplements ==
    ASSUME IdInv, NEW c \in Callers, NEW id \in ThreadIds, NEW t \in ThreadSlots,
           NEW l \in ListenerSlots, WaitStep(c, id, t, l)
    PROVE  [Service!Next]_Service!vars
<1>0. /\ threads[t].globalid = id /\ waitsFor[c] = NilThread /\ status = "up"
      /\ waitsFor' = [waitsFor EXCEPT ![c] = id]
      /\ UNCHANGED <<next_thread_no, pager, status>>
  BY DEF WaitStep
<1>1. id < next_thread_no
  BY <1>0 DEF IdInv, IdsUsed
<1>2. id \in used
  <2>1. CursorsOK
    BY DEF IdInv, TypeOK
  <2> QED BY <1>1, <2>1, ConstantsAssumption DEF used, CursorsOK, ThreadIds, FirstNo
<1>3. UNCHANGED <<alive, used>>
  BY <1>0 DEF alive, used, Exists
<1>4. Service!Wait(c, id)
  BY <1>0, <1>2, <1>3 DEF Service!Wait, alive, used
<1> QED BY <1>4 DEF Service!Next

\* With threads that kill only themselves the task server does what TaskService
\* promises: fresh ids, a kill that wakes exactly the callers that wait for the
\* thread, and no other effects.
THEOREM ImplementsTaskService == SelfKillSpec => ServiceSpec
<1>1. Init => Service!Init
  <2> SUFFICES ASSUME Init PROVE Service!Init
    OBVIOUS
  <2>1. alive = {}
    BY DEF Init, alive, Exists
  <2>2. used = {}
    BY DEF Init, used, FirstNo
  <2> QED BY <2>1, <2>2 DEF Init, Service!Init, alive, used
<1>2. ASSUME IdInv, ListenInv, [NextSelfKill]_vars
      PROVE  [Service!Next]_Service!vars
  <2>0. TypeOK /\ TypeOK'
    <3>1. [Next]_vars
      BY <1>2 DEF NextSelfKill, Next, Callers
    <3> QED BY <1>2, <3>1, TypeStep DEF IdInv
  <2>1. CASE RefusedStep
    BY <2>1, RefusedImplements
  <2>2. ASSUME NEW by \in {BiElf, App}, NEW t \in ThreadSlots, NEW s \in SpaceSlots,
               TaskStep(t, s, by)
        PROVE  [Service!Next]_Service!vars
    <3>1. PICK p \in {"ram_dsm", "apppager"} : p = IF by = BiElf THEN "ram_dsm" ELSE "apppager"
      OBVIOUS
    <3>2. /\ NumberLeft /\ status = "up" /\ UNCHANGED <<waitsFor, status>>
          /\ next_thread_no' = next_thread_no + 1
          /\ pager' = [pager EXCEPT ![next_thread_no] = p]
      BY <2>2, <3>1 DEF TaskStep, NewTask
    <3> QED BY <2>0, <3>2, CreateImplements
  <2>3. ASSUME NEW caller \in ThreadSlots, NEW t \in ThreadSlots, NEW localid,
               ThreadStep(caller, t, localid)
        PROVE  [Service!Next]_Service!vars
    <3>1. /\ NumberLeft /\ status = "up"
      BY <2>3 DEF ThreadStep
    <3>2. /\ next_thread_no' = next_thread_no + 1 /\ UNCHANGED <<waitsFor, status>>
          /\ pager' = pager \/ pager' = [pager EXCEPT ![next_thread_no] = "ram_dsm"]
      BY <2>0, <2>3, ThreadStepEffect
    <3> QED BY <2>0, <3>1, <3>2, CreateImplements
  <2>4. ASSUME NEW id \in ThreadIds, NEW t \in ThreadSlots, SelfKillStep(id, t)
        PROVE  [Service!Next]_Service!vars
    BY <1>2, <2>0, <2>4, KillImplements
  <2>5. ASSUME NEW c \in Callers, NEW id \in ThreadIds, NEW t \in ThreadSlots,
               NEW l \in ListenerSlots, WaitStep(c, id, t, l)
        PROVE  [Service!Next]_Service!vars
    BY <1>2, <2>5, WaitImplements
  <2> QED BY <1>2, <2>1, <2>2, <2>3, <2>4, <2>5, SelfKillStepCases
<1>3. IdInv /\ ListenInv /\ [NextSelfKill]_vars => [Service!Next]_Service!vars
  BY <1>2
<1> QED BY <1>1, <1>3, ListenInvInvariant, PTL DEF SelfKillSpec, ServiceSpec, Service!Spec
=============================================================================
