-------------------------------- MODULE Garbd --------------------------------
(***************************************************************************)
(* Start-up of the arbitrator, src/garb/garb_main.cpp: main() and         *)
(* become_daemon().  In daemon mode garbd forks twice: the original       *)
(* process and the first child each exit(0) once their child exists, the *)
(* first child becomes a session leader in between, and the grandchild   *)
(* rebinds descriptors 0-2 to /dev/null before it runs the receive loop.  *)
(*                                                                         *)
(* A process is one of Procs; one not yet forked has pc "none".  fds is  *)
(* what each process's descriptors 0-2 refer to; the launcher may start  *)
(* garbd with any of them closed.  open() returns the                     *)
(* lowest closed descriptor, as POSIX requires.  Any system call in       *)
(* Faults may fail; the exception it raises reaches ::main()'s catch,     *)
(* which returns 1.                                                        *)
(***************************************************************************)
EXTENDS Integers

CONSTANTS
    Faults  \* subset of {"chdir", "fork", "setsid", "open"}

Procs == {"garbd", "child", "daemon"}
StdFds == 0..2
Running == -1  \* status of a process that has not exited

VARIABLES
    pc,      \* [Procs -> where each process is]
    status,  \* [Procs -> exit status, or Running]
    leader,  \* [Procs -> is a session leader]
    ctty,    \* [Procs -> has a controlling terminal]
    fds,     \* [Procs -> [StdFds -> "tty", "null" or "closed"]]
    opened,  \* iterations of the /dev/null loop the daemon has done
    daemon   \* config.daemon()

vars == <<pc, status, leader, ctty, fds, opened, daemon>>

\* The process forked by p, and the one p was forked from.
ChildOf == [garbd |-> "child", child |-> "daemon"]
-----------------------------------------------------------------------------
\* ::main() returns 1 for an exception from garb::main(); become_daemon()
\* is called outside garb::main()'s try block.
ThrowStatusAbort == 134
ThrowStatus == 1
Throw(p) ==
    /\ pc' = [pc EXCEPT ![p] = "exited"]
    /\ status' = [status EXCEPT ![p] = ThrowStatus]

Exit(p, s) ==
    /\ pc' = [pc EXCEPT ![p] = "exited"]
    /\ status' = [status EXCEPT ![p] = s]

\* open() gives the lowest descriptor that is not open.
LowestClosed(f) == CHOOSE d \in {x \in StdFds : f[x] = "closed"} :
                       \A x \in StdFds : f[x] = "closed" => d <= x
-----------------------------------------------------------------------------
Init ==
    /\ pc = [p \in Procs |-> IF p = "garbd" THEN "config" ELSE "none"]
    /\ status = [p \in Procs |-> Running]
    /\ leader = [p \in Procs |-> FALSE]
    /\ ctty = [p \in Procs |-> p = "garbd"]
    /\ \E launched \in [StdFds -> {"tty", "closed"}] :
          fds = [p \in Procs |-> IF p = "garbd" THEN launched
                                 ELSE [f \in StdFds |-> "closed"]]
    /\ opened = 0
    /\ daemon \in BOOLEAN

\* garb::main(): Config parses the command line; config.exit() (help or
\* version) returns 0, an exception from Config returns 1; then
\* become_daemon() in daemon mode, else the receive loop.
Start ==
    /\ pc["garbd"] = "config"
    /\ \/ Exit("garbd", 0)
       \/ Throw("garbd")
       \/ /\ pc' = [pc EXCEPT !["garbd"] = IF daemon THEN "chdir" ELSE "loop"]
          /\ UNCHANGED status
    /\ UNCHANGED <<leader, ctty, fds, opened, daemon>>

\* chdir("/"), then chdir(workdir) when one is configured.
Chdir ==
    /\ pc["garbd"] = "chdir"
    /\ \/ /\ pc' = [pc EXCEPT !["garbd"] = "fork"]
          /\ UNCHANGED status
       \/ "chdir" \in Faults /\ Throw("garbd")
    /\ UNCHANGED <<leader, ctty, fds, opened, daemon>>

\* fork() in the original process (line 30) or in the first child (line
\* 56): the child starts after the fork with a copy of the descriptors and
\* the session, as a member, not a leader; the parent goes on to exit(0).
\* A failed fork throws in the parent.
Fork(p) ==
    /\ pc[p] = "fork"
    /\ LET c == ChildOf[p]
       IN \/ /\ pc' = [pc EXCEPT ![p] = "exit", ![c] =
                          IF p = "garbd" THEN "setsid" ELSE "close"]
             /\ fds' = [fds EXCEPT ![c] = fds[p]]
             /\ ctty' = [ctty EXCEPT ![c] = ctty[p]]
             /\ UNCHANGED status
          \/ "fork" \in Faults /\ Throw(p) /\ UNCHANGED <<fds, ctty>>
    /\ UNCHANGED <<leader, opened, daemon>>

\* The parent of a fork: exit(0).
ParentExit(p) ==
    /\ pc[p] = "exit"
    /\ Exit(p, 0)
    /\ UNCHANGED <<leader, ctty, fds, opened, daemon>>

\* setsid() in the first child: a new session, with this process as its
\* leader and no controlling terminal.
Setsid ==
    /\ pc["child"] = "setsid"
    /\ \/ /\ pc' = [pc EXCEPT !["child"] = "fork"]
          /\ leader' = [leader EXCEPT !["child"] = TRUE]
          /\ ctty' = [ctty EXCEPT !["child"] = FALSE]
          /\ UNCHANGED status
       \/ "setsid" \in Faults /\ Throw("child") /\ UNCHANGED <<leader, ctty>>
    /\ UNCHANGED <<fds, opened, daemon>>

\* close(0); close(1); close(2) in the daemon.
CloseStdTwo ==
    /\ pc["daemon"] = "close"
    /\ fds' = [fds EXCEPT !["daemon"][0] = "closed", !["daemon"][1] = "closed"]
    /\ pc' = [pc EXCEPT !["daemon"] = "open"]
    /\ UNCHANGED <<status, leader, ctty, opened, daemon>>
CloseStd ==
    /\ pc["daemon"] = "close"
    /\ fds' = [fds EXCEPT !["daemon"] = [f \in StdFds |-> "closed"]]
    /\ pc' = [pc EXCEPT !["daemon"] = "open"]
    /\ UNCHANGED <<status, leader, ctty, opened, daemon>>

\* One iteration of 'for (fd = 0; fd < 3; ++fd) open("/dev/null")': the
\* descriptor open() returns is not the loop's fd but the lowest closed
\* one.  After the loop the working directory is logged and become_daemon()
\* returns into the receive loop.
OpenNull ==
    /\ pc["daemon"] = "open"
    /\ \/ /\ opened' = opened + 1
          /\ fds' = IF \E f \in StdFds : fds["daemon"][f] = "closed"
                    THEN [fds EXCEPT !["daemon"][LowestClosed(fds["daemon"])] = "null"]
                    ELSE fds
          /\ pc' = IF opened' = 3 THEN [pc EXCEPT !["daemon"] = "loop"] ELSE pc
          /\ UNCHANGED status
       \/ "open" \in Faults /\ Throw("daemon") /\ UNCHANGED <<opened, fds>>
    /\ UNCHANGED <<leader, ctty, daemon>>

\* RecvLoop: returns its returnCode(), or throws, which garb::main()
\* catches and returns EXIT_FAILURE.
RecvLoopEnd(p) ==
    /\ pc[p] = "loop"
    /\ \E s \in {0, 1} : Exit(p, s)
    /\ UNCHANGED <<leader, ctty, fds, opened, daemon>>

\* Every process has exited or was never forked.
Done ==
    /\ \A p \in Procs : pc[p] \in {"none", "exited"}
    /\ UNCHANGED vars

Next ==
    \/ Start \/ Chdir \/ Setsid \/ CloseStd \/ OpenNull
    \/ \E p \in {"garbd", "child"} : Fork(p) \/ ParentExit(p)
    \/ \E p \in Procs : RecvLoopEnd(p)
    \/ Done

Spec == Init /\ [][Next]_vars
-----------------------------------------------------------------------------
TypeOK ==
    /\ pc \in [Procs -> {"none", "config", "chdir", "fork", "exit", "setsid",
                         "close", "open", "loop", "exited"}]
    /\ status \in [Procs -> {Running, 0, 1}]
    /\ leader \in [Procs -> BOOLEAN] /\ ctty \in [Procs -> BOOLEAN]
    /\ fds \in [Procs -> [StdFds -> {"tty", "null", "closed"}]]
    /\ opened \in 0..3 /\ daemon \in BOOLEAN

\* In daemon mode exactly one process runs the receive loop, and it is
\* detached: it is the second fork's child, in a session of its own but
\* not its leader (so it cannot acquire a controlling terminal), and
\* descriptors 0-2 refer to /dev/null, the three open() calls having
\* taken the three descriptors close() freed.
DaemonDetached ==
    \A p \in Procs :
        daemon /\ pc[p] = "loop"
            => /\ p = "daemon"
               /\ ~leader[p] /\ ~ctty[p]
               /\ \A f \in StdFds : fds[p][f] = "null"
=============================================================================
