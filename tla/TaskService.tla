---------------------------- MODULE TaskService ----------------------------
(***************************************************************************)
(* What the task server promises its callers, without its tables: threads  *)
(* are created under ids that were never used before, a thread that is     *)
(* killed is gone for good, a caller that waits for a living thread is     *)
(* woken by exactly the kill of that thread.  A wait for a thread that is  *)
(* gone returns at once or never (the server cannot tell a thread it has   *)
(* forgotten from one whose TCB is still lying around).  A server out of   *)
(* slots stops for good.                                                   *)
(***************************************************************************)
EXTENDS Integers

CONSTANTS ThreadIds, Callers, NilThread

VARIABLES alive, used, waitsFor, up
vars == <<alive, used, waitsFor, up>>

Init ==
    /\ alive = {}
    /\ used = {}
    /\ waitsFor = [c \in Callers |-> NilThread]
    /\ up = TRUE

\* startTask, createThread: a fresh id; the kernel may refuse the thread.
Create ==
    /\ up
    /\ \E id \in ThreadIds \ used :
        /\ used' = used \cup {id}
        /\ alive' \in {alive, alive \cup {id}}
    /\ UNCHANGED <<waitsFor, up>>

\* kill: exactly the callers that wait for id are woken (and id waits no more).
Kill(id) ==
    /\ up
    /\ id \in alive
    /\ alive' = alive \ {id}
    /\ waitsFor' = [c \in Callers |->
            IF c = id \/ waitsFor[c] = id THEN NilThread ELSE waitsFor[c]]
    /\ UNCHANGED <<used, up>>

\* waitTid: a caller blocks on any thread that was created.
Wait(c, id) ==
    /\ up
    /\ waitsFor[c] = NilThread
    /\ id \in used
    /\ waitsFor' = [waitsFor EXCEPT ![c] = id]
    /\ UNCHANGED <<alive, used, up>>

Stop == up /\ up' = FALSE /\ UNCHANGED <<alive, used, waitsFor>>

Next ==
    \/ Create
    \/ Stop
    \/ \E id \in ThreadIds : Kill(id) \/ \E c \in Callers : Wait(c, id)

Spec == Init /\ [][Next]_vars
=============================================================================
