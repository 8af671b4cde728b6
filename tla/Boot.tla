-------------------------------- MODULE Boot --------------------------------
(***************************************************************************)
(* How sdiOS comes up: the root task starts the servers one after the      *)
(* other, and they find each other through the locator (root/main.cc,      *)
(* root/locator.cc, ram_dsm/bielfloader.cc and the main function of each   *)
(* server).                                                                *)
(*                                                                         *)
(* A process is the main thread of a server.  What it does until it enters *)
(* its server loop is a script, a sequence of calls; all processes run     *)
(* concurrently.  A call to another server waits until that server is in   *)
(* its loop, and a call to the nil thread returns at once and does         *)
(* nothing.  A process that starts another one goes on as soon as the new  *)
(* process has its start message, long before that has done anything.      *)
(* The locator, RAM-DSM and the system call server always answer.          *)
(***************************************************************************)
EXTENDS Integers, Sequences

Nil        == "nil"
Interfaces == {"SYSCALL", "TASK", "CONSOLE", "KEYBOARD", "FILESYSTEM", "APPPAGER"}

\* The thread that is announced for each interface.
Server == [SYSCALL |-> "syscall", TASK |-> "taskserver", CONSOLE |-> "console",
           KEYBOARD |-> "keyboard", FILESYSTEM |-> "simplefs", APPPAGER |-> "apppager"]

-----------------------------------------------------------------------------
(***************************************************************************)
(* The scripts.  A step is an operation and its argument.                  *)
(***************************************************************************)
RootScript_AnnouncesLate ==
    << <<"register", "locator">>, <<"activate", "taskserver">>, <<"announce", "SYSCALL">>,
       <<"startTask", "nameserver">>, <<"startTask", "consoleserver">>,
       <<"startTask", "simplefs">>, <<"startTask", "apppager">>, <<"startTask", "shell">> >>

RootScript ==
    << <<"announce", "SYSCALL">>, <<"register", "locator">>, <<"activate", "taskserver">>,
       <<"startTask", "nameserver">>, <<"startTask", "consoleserver">>,
       <<"startTask", "simplefs">>, <<"startTask", "apppager">>, <<"startTask", "shell">> >>

TaskServerScript ==
    << <<"getLocator", "ram_dsm">>, <<"locate", "SYSCALL">>, <<"announce", "TASK">> >>

ConsoleServerScript ==
    << <<"getLocator", "ram_dsm">>, <<"locate", "TASK">>, <<"locate", "SYSCALL">>,
       <<"createThread", "console">>, <<"announce", "CONSOLE">>,
       <<"createThread", "keyboard">>, <<"interrupt", "keyboard">>,
       <<"announce", "KEYBOARD">> >>

SimpleFSScript == << <<"getLocator", "ram_dsm">>, <<"announce", "FILESYSTEM">> >>

AppPagerScript_Silent == << <<"getLocator", "ram_dsm">>, <<"locate", "FILESYSTEM">> >>
AppPagerScript ==
    << <<"getLocator", "ram_dsm">>, <<"locate", "FILESYSTEM">>, <<"announce", "APPPAGER">> >>

\* The shell clears the screen and takes the command to start a program.
ShellScript ==
    << <<"getLocator", "ram_dsm">>, <<"poll", "KEYBOARD">>, <<"poll", "CONSOLE">>,
       <<"poll", "FILESYSTEM">>, <<"poll", "TASK">>, <<"bootinfo", "root">>,
       <<"call", "CONSOLE">>, <<"startProgram", "hello">> >>

\* A program, up to its first output.
HelloScript ==
    << <<"getLocator", "apppager">>, <<"locate", "TASK">>, <<"locate", "CONSOLE">>,
       <<"call", "CONSOLE">> >>

Script == [root |-> RootScript, taskserver |-> TaskServerScript, nameserver |-> <<>>,
           consoleserver |-> ConsoleServerScript, simplefs |-> SimpleFSScript,
           apppager |-> AppPagerScript, shell |-> ShellScript, hello |-> HelloScript]

Procs == DOMAIN Script

-----------------------------------------------------------------------------
VARIABLES
    pc,             \* the step each process is at; 0 before it exists
    services,       \* locator: the thread announced for each interface
    locator_id,     \* RAM-DSM: the locator
    locator,        \* the locator id each process has
    ids,            \* the server ids each process has
    threads,        \* threads of the console server
    starting,       \* the program the task server is waiting to hand over
    bootInfoFits    \* the boot info is no larger than 1024 bytes

vars == <<pc, services, locator_id, locator, ids, threads, starting, bootInfoFits>>

Init ==
    /\ pc = [p \in Procs |-> IF p = "root" THEN 1 ELSE 0]
    /\ services = [i \in Interfaces |-> Nil]
    /\ locator_id = Nil
    /\ locator = [p \in Procs |-> IF p = "root" THEN "locator" ELSE Nil]
    /\ ids = [p \in Procs |-> [i \in Interfaces |-> Nil]]
    /\ threads = {}
    /\ starting = Nil
    /\ bootInfoFits \in BOOLEAN

\* p is about to do operation op with argument a.
At(p, op, a) == pc[p] \in 1 .. Len(Script[p]) /\ Script[p][pc[p]] = <<op, a>>
InLoop(p)    == pc[p] = Len(Script[p]) + 1
Serves(t)    ==
    CASE t \in {"console", "keyboard"} -> t \in threads
      [] t = "syscall"    -> TRUE
      [] t = "taskserver" -> InLoop("taskserver") /\ starting = Nil
      [] OTHER            -> InLoop(t)

Advance(p)       == pc' = [pc EXCEPT ![p] = @ + 1]
AdvanceAs(p, q)  == pc' = [pc EXCEPT ![p] = @ + 1, ![q] = 1]

-----------------------------------------------------------------------------
\* Announce: the first thread that announces an interface keeps it.
Announce(p, i) ==
    /\ At(p, "announce", i)
    /\ services' = IF locator[p] # Nil /\ services[i] = Nil
                   THEN [services EXCEPT ![i] = Server[i]] ELSE services
    /\ Advance(p)
    /\ UNCHANGED <<locator_id, locator, ids, threads, starting, bootInfoFits>>

\* Locate as it is used by most programs: asked once, answer not looked at.
Locate(p, i) ==
    /\ At(p, "locate", i)
    /\ ids' = IF locator[p] # Nil THEN [ids EXCEPT ![p][i] = services[i]] ELSE ids
    /\ Advance(p)
    /\ UNCHANGED <<services, locator_id, locator, threads, starting, bootInfoFits>>

\* Locate as the shell uses it: asked until there is an answer.
Poll(p, i) ==
    /\ At(p, "poll", i)
    /\ \/ (locator[p] = Nil \/ services[i] = Nil) /\ UNCHANGED vars
       \/ /\ locator[p] # Nil /\ services[i] # Nil
          /\ ids' = [ids EXCEPT ![p][i] = services[i]]
          /\ Advance(p)
          /\ UNCHANGED <<services, locator_id, locator, threads, starting, bootInfoFits>>

\* registerLocator: written once.
RegisterLocator ==
    /\ At("root", "register", "locator")
    /\ locator_id' = IF locator_id = Nil THEN "locator" ELSE locator_id
    /\ Advance("root")
    /\ UNCHANGED <<services, locator, ids, threads, starting, bootInfoFits>>

\* getLocator, asked of the process's pager.
GetLocator(p) ==
    /\ \/ At(p, "getLocator", "ram_dsm") /\ locator' = [locator EXCEPT ![p] = locator_id]
       \/ /\ At(p, "getLocator", "apppager") /\ Serves("apppager")
          /\ locator' = [locator EXCEPT ![p] = locator["apppager"]]
    /\ Advance(p)
    /\ UNCHANGED <<services, locator_id, ids, threads, starting, bootInfoFits>>

\* activate_module: the root task starts the task server itself.
Activate ==
    /\ At("root", "activate", "taskserver")
    /\ AdvanceAs("root", "taskserver")
    /\ ids' = [ids EXCEPT !["root"]["TASK"] = "taskserver"]
    /\ UNCHANGED <<services, locator_id, locator, threads, starting, bootInfoFits>>

\* startTask of a boot module; without a system call server no thread begins.
StartTask(q) ==
    /\ At("root", "startTask", q)
    /\ Serves("taskserver")
    /\ IF ids["taskserver"]["SYSCALL"] # Nil THEN AdvanceAs("root", q) ELSE Advance("root")
    /\ UNCHANGED <<services, locator_id, locator, ids, threads, starting, bootInfoFits>>

\* createThread and L4_Start.
CreateThread(p, t) ==
    /\ At(p, "createThread", t)
    /\ ids[p]["TASK"] # Nil => Serves("taskserver")
    /\ threads' = IF ids[p]["TASK"] # Nil THEN threads \cup {t} ELSE threads
    /\ Advance(p)
    /\ UNCHANGED <<services, locator_id, locator, ids, starting, bootInfoFits>>

\* ThreadControl makes the keyboard thread the handler of its interrupt.
AttachInterrupt(p) ==
    /\ At(p, "interrupt", "keyboard")
    /\ Advance(p)
    /\ UNCHANGED <<services, locator_id, locator, ids, threads, starting, bootInfoFits>>

\* A call to the console, which returns nothing.
CallConsole(p) ==
    /\ At(p, "call", "CONSOLE")
    /\ ids[p]["CONSOLE"] # Nil => Serves(ids[p]["CONSOLE"])
    /\ Advance(p)
    /\ UNCHANGED <<services, locator_id, locator, ids, threads, starting, bootInfoFits>>

\* The shell asks the root task for the boot info; the loop for the pages
\* behind the first 1024 bytes asks for the same page again and again.
MapBootInfo ==
    /\ At("shell", "bootinfo", "root")
    /\ \/ ~bootInfoFits /\ UNCHANGED vars
       \/ /\ bootInfoFits
          /\ Advance("shell")
          /\ UNCHANGED <<services, locator_id, locator, ids, threads, starting, bootInfoFits>>

-----------------------------------------------------------------------------
\* startTask of a program from the file system: the task server asks for the
\* application pager until it has announced itself, and serves nobody then.
StartProgram(q) ==
    /\ At("shell", "startProgram", q)
    /\ Serves("taskserver")
    /\ starting' = q
    /\ UNCHANGED <<pc, services, locator_id, locator, ids, threads, bootInfoFits>>

get_apppager ==
    /\ starting # Nil
    /\ ids["taskserver"]["APPPAGER"] = Nil
    /\ ids' = [ids EXCEPT !["taskserver"]["APPPAGER"] = services["APPPAGER"]]
    /\ UNCHANGED <<pc, services, locator_id, locator, threads, starting, bootInfoFits>>

\* associateImage: the application pager calls the file system and sends the
\* new thread its start message; startTask returns to the shell.  A pager that
\* has not found the file system gets no image: the entry point it reads is 0,
\* and the new thread runs over cleared pages instead of the program.
HasFilesystem == ids["apppager"]["FILESYSTEM"] # Nil
AssociateImage ==
    /\ starting # Nil
    /\ ids["taskserver"]["APPPAGER"] # Nil
    /\ Serves("apppager")
    /\ starting' = Nil
    /\ \/ HasFilesystem /\ Serves("simplefs") /\ AdvanceAs("shell", starting)
       \/ ~HasFilesystem /\ Advance("shell")
    /\ UNCHANGED <<services, locator_id, locator, ids, threads, bootInfoFits>>

\* Nobody has anything left to do; a program without an image never begins.
Done == \A p \in Procs : InLoop(p) \/ (p = "hello" /\ ~HasFilesystem /\ InLoop("shell"))

Next ==
    \/ \E p \in Procs, i \in Interfaces : Announce(p, i) \/ Locate(p, i) \/ Poll(p, i)
    \/ \E p \in Procs : GetLocator(p) \/ AttachInterrupt(p) \/ CallConsole(p)
    \/ \E p \in Procs, t \in {"console", "keyboard"} : CreateThread(p, t)
    \/ \E q \in Procs : StartTask(q) \/ StartProgram(q)
    \/ RegisterLocator \/ Activate \/ MapBootInfo
    \/ get_apppager \/ AssociateImage
    \/ Done /\ UNCHANGED vars

\* All threads have the same priority, so each one gets the processor again
\* and again: a process whose step is possible takes it.
Fairness == WF_vars(Next)

Spec == Init /\ [][Next]_vars /\ Fairness

-----------------------------------------------------------------------------
Past(p, op, a) ==
    \E k \in 1 .. Len(Script[p]) : k < pc[p] /\ Script[p][k] = <<op, a>>

\* The programs that ask only once get an answer, whatever the order in which
\* the processes run.  Whoever asks its pager for the locator gets one: the root
\* task registers it before it starts anybody who asks.  Whoever asks the
\* locator for a server finds it announced.  Only the file system may be
\* asked for before it has announced itself ("Get Filesystem id",
\* apppager/main.cc:31), and the application pager does not ask again.
LocatorKnown == \A p \in Procs : pc[p] > 1 => locator[p] # Nil
OneLookupIsEnough ==
    /\ LocatorKnown
    /\ \A p \in Procs, i \in Interfaces \ {"FILESYSTEM"} :
           Past(p, "locate", i) => ids[p][i] # Nil

\* The system comes up, in whatever order the processes run.  Every server
\* reaches its loop, also beside a shell that asks for its boot info for ever
\* (shell/main.cc:101).  Otherwise the shell reaches its loop too, past the task
\* server's busy wait for the application pager, and the program it has started
\* gets to its output, unless the application pager has looked for the file
\* system too early (apppager/main.cc:32).
ComesUp ==
    /\ \A p \in Procs \ {"shell", "hello"} : <>InLoop(p)
    /\ bootInfoFits =>
        /\ <>InLoop("shell")
        /\ <>(InLoop("hello") \/ (InLoop("apppager") /\ ~HasFilesystem))
=============================================================================
