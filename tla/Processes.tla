------------------------------- MODULE Processes -------------------------------
(***************************************************************************)
(* The life of the two processes of sharedanced: the end of main() in      *)
(* src/src/sharedanced.c, which forks the cleanup process, installs the    *)
(* signal events and enters the event loop; the sigchld and sigterm        *)
(* callbacks; and expire() of src/src/expire.c as far as it decides when   *)
(* the cleanup process ends.                                               *)
(*                                                                         *)
(* Signals are asynchronous: one that finds its libevent handler installed *)
(* is noted, and its callback runs in a later turn of the event loop; any  *)
(* other has its default action at once.                                   *)
(*                                                                         *)
(* Three things differ from one system to the next: the number the server  *)
(* has, which is 1 in a container of its own; the process that becomes the *)
(* parent of orphans; and whether the kernel drops a waiting connection    *)
(* that its peer has reset.                                                *)
(***************************************************************************)
EXTENDS Integers

CONSTANTS
  MaxConnections,  \* bound: connections made to the listening socket
  MaxTerms         \* bound: SIGTERMs sent to the server

ASSUME ProcessesAssumption ==
  MaxConnections \in Nat /\ MaxTerms \in Nat

VARIABLES
  server,      \* how far main() has got
  handlers,    \* the signals with a libevent handler
  pending,     \* the signals caught and not yet given to their callbacks
  listening,   \* the listen event is registered
  backlog,     \* connections the kernel has completed, not yet accepted
  made,        \* connections made so far, bounded by MaxConnections
  terms,       \* SIGTERMs sent so far, bounded by MaxTerms
  cleaner,     \* the cleanup process
  killed,      \* a SIGTERM has been sent to the cleanup process
  lost,        \* history: the SIGCHLD of its death found no handler
  accepting,   \* new_client has been called back, and is in accept()
  system       \* the system that the processes run on

vars == <<server, handlers, pending, listening, backlog, made, terms, cleaner,
          killed, lost, accepting, system>>
cleanerVars == <<cleaner, killed>>
signalVars == <<handlers, pending, lost>>
networkVars == <<listening, backlog, made, accepting>>

(* The parent of orphans is 0 if it is outside the container, 1, or        *)
(* another process that has asked to be it; kill() finds it or may not.    *)
Systems ==
  [server_pid : {1, 2}, reaper : {0, 1, 3}, signallable : BOOLEAN, drops : BOOLEAN]

Alive == server # "dead"
(* The event loop is free to call back.                                    *)
InLoop == server = "loop" /\ ~ accepting
(* It waits in accept() for a connection that nobody has announced.        *)
Blocked == accepting /\ backlog = 0

-----------------------------------------------------------------------------
(* Start-up.  The kernel queues connections from listen() on.              *)

Fork ==
  /\ server = "start"
  /\ \/ server' = "forked" /\ cleaner' = "running"
     \/ server' = "dead" /\ UNCHANGED cleaner
  /\ UNCHANGED <<signalVars, networkVars, terms, killed, system>>

(* signal_add(&sigchld_ev, NULL)                                           *)
SignalChld ==
  /\ server = "forked"
  /\ server' = "sigchld"
  /\ handlers' = handlers \cup {"CHLD"}
  /\ UNCHANGED <<pending, lost, networkVars, terms, cleanerVars, system>>

(* signal_add(&sigterm_ev, NULL)                                           *)
SignalTerm ==
  /\ server = "sigchld"
  /\ server' = "sigterm"
  /\ handlers' = handlers \cup {"TERM"}
  /\ UNCHANGED <<pending, lost, networkVars, terms, cleanerVars, system>>

(* event_add(&ev, NULL) and event_dispatch().                              *)
Listen ==
  /\ server = "sigterm"
  /\ server' = "loop"
  /\ listening' = TRUE
  /\ UNCHANGED <<signalVars, backlog, made, accepting, terms, cleanerVars, system>>

-----------------------------------------------------------------------------
(* Callbacks of the event loop.                                            *)

(* The listen event is active: new_client is called back.                  *)
ListenActive ==
  /\ InLoop /\ listening /\ backlog > 0
  /\ accepting' = TRUE
  /\ UNCHANGED <<server, signalVars, listening, backlog, made, terms, cleanerVars, system>>

(* accept() for every connection that waits, until it says there is none.  *)
AcceptAll ==
  /\ accepting /\ backlog > 0
  /\ backlog' = backlog - 1
  /\ UNCHANGED <<server, signalVars, listening, made, accepting, terms, cleanerVars, system>>

(* accept() on a descriptor that would not wait.                           *)
AcceptAtOnce ==
  /\ accepting
  /\ backlog' = backlog - 1
  /\ accepting' = FALSE
  /\ UNCHANGED <<server, signalVars, listening, made, terms, cleanerVars, system>>

(* A listen event without EV_PERSIST is gone after one connection.         *)
AcceptOnce ==
  /\ accepting /\ backlog > 0
  /\ backlog' = backlog - 1
  /\ accepting' = FALSE /\ listening' = FALSE
  /\ UNCHANGED <<server, signalVars, made, terms, cleanerVars, system>>

(* accept(): the socket is a blocking one, and libevent has its signal     *)
(* handlers restart the call.                                              *)
Accept ==
  /\ accepting /\ backlog > 0
  /\ backlog' = backlog - 1
  /\ accepting' = FALSE
  /\ UNCHANGED <<server, signalVars, listening, made, terms, cleanerVars, system>>

(* accept() fails, for want of a descriptor or of memory: new_client       *)
(* returns, and the connection waits on.                                   *)
AcceptFails ==
  /\ accepting
  /\ accepting' = FALSE
  /\ UNCHANGED <<server, signalVars, listening, backlog, made, terms, cleanerVars,
                 system>>

(* With a connection for it, accept() returns, one way or the other.       *)
AcceptReturns == Accept \/ (backlog > 0 /\ AcceptFails)

(* A sigchld callback that takes the death of the cleanup process for      *)
(* granted.                                                                *)
SigchldIgnored ==
  /\ InLoop /\ "CHLD" \in pending
  /\ pending' = pending \ {"CHLD"}
  /\ UNCHANGED <<server, handlers, lost, networkVars, terms, cleanerVars, system>>

(* sigchld: the server exits at once.  The event passed to signal_del() is *)
(* the listen event, which no longer matters.                              *)
Sigchld ==
  /\ InLoop /\ "CHLD" \in pending
  /\ server' = "dead"
  /\ pending' = {} /\ handlers' = {} /\ listening' = FALSE /\ backlog' = 0
  /\ UNCHANGED <<lost, made, accepting, terms, cleanerVars, system>>

(* A sigterm callback that stops listening and forgets the other process.  *)
SigtermWithoutKill ==
  /\ InLoop /\ "TERM" \in pending
  /\ pending' = pending \ {"TERM"}
  /\ listening' = FALSE
  /\ UNCHANGED <<server, handlers, lost, backlog, made, accepting, terms, cleanerVars,
                 system>>

(* sigterm: SIGTERM is passed on to the cleanup process, and signal_del()  *)
(* is given the listen event, not the signal's: the server stops accepting *)
(* and leaves it to SIGCHLD to end it.                                     *)
Sigterm ==
  /\ InLoop /\ "TERM" \in pending
  /\ pending' = pending \ {"TERM"}
  /\ listening' = FALSE
  /\ killed' = (killed \/ cleaner \in {"running", "stopped"})
  /\ UNCHANGED <<server, handlers, lost, backlog, made, accepting, terms, cleaner, system>>

-----------------------------------------------------------------------------
(* The cleanup process.                                                    *)

(* SIGCHLD is sent when the child stops or goes on as well as when it      *)
(* ends.  Without a handler it is discarded.                               *)
NotifyServer ==
  /\ pending' = IF "CHLD" \in handlers THEN pending \cup {"CHLD"} ELSE pending
  /\ lost' = (lost \/ (cleaner' = "dead" /\ Alive /\ "CHLD" \notin handlers))
  /\ UNCHANGED handlers

(* getppid().                                                              *)
Ppid == IF Alive THEN system.server_pid ELSE system.reaper

(* A check that trusts the number alone.                                   *)
ParentIsInit == Ppid = 1

(* check_parent: a parent numbered below 2, or one that kill() does not    *)
(* reach, is taken for the end of the server.                              *)
ParentGone == Ppid < 2 \/ (~ Alive /\ ~ system.signallable)

CheckParent ==
  /\ cleaner = "running" /\ ParentGone
  /\ cleaner' = "dead"
  /\ NotifyServer
  /\ UNCHANGED <<server, networkVars, terms, killed, system>>

(* The default action of the SIGTERM that sigterm sent.                    *)
CleanerTerminated ==
  /\ cleaner = "running" /\ killed
  /\ cleaner' = "dead"
  /\ NotifyServer
  /\ UNCHANGED <<server, networkVars, terms, killed, system>>

(* It ends for a reason of its own: a signal, no memory.                   *)
CleanerDies ==
  /\ cleaner \in {"running", "stopped"}
  /\ cleaner' = "dead"
  /\ NotifyServer
  /\ UNCHANGED <<server, networkVars, terms, killed, system>>

(* SIGSTOP and SIGCONT.                                                    *)
CleanerStopped ==
  /\ cleaner = "running"
  /\ cleaner' = "stopped"
  /\ NotifyServer
  /\ UNCHANGED <<server, networkVars, terms, killed, system>>

CleanerContinued ==
  /\ cleaner = "stopped"
  /\ cleaner' = "running"
  /\ NotifyServer
  /\ UNCHANGED <<server, networkVars, terms, killed, system>>

(* With the process numbered 1 of a container end all others.              *)
ContainerEnds ==
  /\ ~ Alive /\ system.server_pid = 1 /\ cleaner \in {"running", "stopped"}
  /\ cleaner' = "dead"
  /\ NotifyServer
  /\ UNCHANGED <<server, networkVars, terms, killed, system>>

-----------------------------------------------------------------------------
(* The outside world.                                                      *)

ServerEnds ==
  /\ server' = "dead"
  /\ pending' = {} /\ handlers' = {} /\ listening' = FALSE /\ backlog' = 0
  /\ accepting' = FALSE
  /\ UNCHANGED <<lost, made, cleanerVars, system>>

(* Without a handler SIGTERM ends any process but that numbered 1.         *)
SendTerm ==
  /\ Alive /\ terms < MaxTerms
  /\ terms' = terms + 1
  /\ IF "TERM" \in handlers \/ system.server_pid = 1
     THEN /\ pending' = IF "TERM" \in handlers THEN pending \cup {"TERM"} ELSE pending
          /\ UNCHANGED <<server, handlers, lost, networkVars, cleanerVars, system>>
     ELSE ServerEnds

(* The server is killed, or dies of an error.                              *)
ServerDies ==
  /\ Alive
  /\ ServerEnds
  /\ UNCHANGED terms

Connect ==
  /\ Alive /\ made < MaxConnections
  /\ made' = made + 1
  /\ backlog' = backlog + 1
  /\ UNCHANGED <<server, signalVars, listening, accepting, terms, cleanerVars, system>>

(* A connection that waits to be accepted is reset, on a system that takes *)
(* it from the queue then.                                                 *)
Reset ==
  /\ system.drops /\ backlog > 0
  /\ backlog' = backlog - 1
  /\ UNCHANGED <<server, signalVars, listening, made, accepting, terms, cleanerVars, system>>

Init ==
  /\ server = "start"
  /\ handlers = {} /\ pending = {} /\ lost = FALSE
  /\ listening = FALSE /\ backlog = 0 /\ made = 0
  /\ terms = 0
  /\ cleaner = "none" /\ killed = FALSE
  /\ accepting = FALSE
  /\ system \in Systems

(* What the two processes do, and their clients.                           *)
Running ==
  \/ Fork \/ SignalChld \/ SignalTerm \/ Listen
  \/ ListenActive \/ Accept \/ AcceptFails \/ Sigchld \/ Sigterm
  \/ CheckParent \/ CleanerTerminated \/ ContainerEnds
  \/ Connect

(* What is done to them.                                                   *)
Disturbance ==
  \/ CleanerDies \/ CleanerStopped \/ CleanerContinued
  \/ SendTerm \/ ServerDies \/ Reset

Next == Running \/ Disturbance

(* main() runs on, the event loop calls back what is due, the cleanup      *)
(* process runs unless it is stopped.  A turn of the event loop calls back *)
(* everything that is due: a signal does not wait for ever because each    *)
(* turn finds a connection to accept as well, and fails to.                *)
Fairness ==
  /\ WF_vars(Fork \/ SignalChld \/ SignalTerm \/ Listen)
  /\ WF_vars(ListenActive) /\ WF_vars(AcceptReturns)
  /\ SF_vars(Sigchld) /\ SF_vars(Sigterm)
  /\ WF_vars(CheckParent) /\ WF_vars(CleanerTerminated) /\ WF_vars(ContainerEnds)

Spec == Init /\ [][Next]_vars /\ Fairness

(* Nobody sends a signal or kills, stops or resets anything.               *)
UndisturbedSpec == Init /\ [][Running]_vars /\ Fairness

-----------------------------------------------------------------------------
(* Properties.                                                             *)

TypeOK ==
  /\ server \in {"start", "forked", "sigchld", "sigterm", "loop", "dead"}
  /\ handlers \subseteq {"CHLD", "TERM"} /\ pending \subseteq handlers
  /\ listening \in BOOLEAN /\ killed \in BOOLEAN /\ lost \in BOOLEAN
  /\ backlog \in Nat /\ made \in Nat /\ terms \in Nat
  /\ cleaner \in {"none", "running", "stopped", "dead"}
  /\ accepting \in BOOLEAN /\ system \in Systems

(* Between the SIGTERM and the end, a server that has stopped listening    *)
(* has its end coming: the cleanup process has been told to go, or its     *)
(* SIGCHLD has been caught.  The end of the server hangs on that signal    *)
(* alone, for the sigterm callback does not end it itself.                 *)
DeafOnlyWhileDying ==
  server = "loop" /\ ~ listening /\ ~ lost => killed \/ "CHLD" \in pending

(* The listening socket is a blocking one, and yet the event loop waits in *)
(* accept() only where a connection can go away between select and         *)
(* accept(): with each callback there is a connection left for it.         *)
NeverBlocked == Blocked => server = "loop" /\ system.drops

(* A cleanup process whose death is noted takes the server with it: no     *)
(* server goes on filling a directory that nobody purges, unless it waits  *)
(* in accept().                                                            *)
CleanerDeathEndsServer == (cleaner = "dead" /\ ~ lost) ~> (~ Alive \/ Blocked)

(* A SIGTERM caught by the server ends it, unless its cleanup process is   *)
(* kept stopped or it waits in accept().                                   *)
TermEndsServer ==
  ("TERM" \in pending /\ ~ lost) ~> (~ Alive \/ cleaner = "stopped" \/ Blocked)

(* No cleanup process outlives its server, unless it is kept stopped, or   *)
(* the parent of orphans looks to check_parent like a server: it is not    *)
(* process 1 and may be sent signals.                                      *)
NoOrphan ==
  (~ Alive /\ ~ (system.reaper > 1 /\ system.signallable)) ~> cleaner # "running"

(* Connections are accepted as long as the server lives and accept() does  *)
(* not fail for ever, unless the server waits, after a SIGTERM, for a      *)
(* SIGCHLD: of a cleanup process that is kept stopped, or of one whose     *)
(* death it has missed.                                                    *)
ConnectionsAccepted ==
  SF_vars(Accept) =>
    (backlog > 0 ~> (backlog = 0 \/ ~ Alive \/ cleaner = "stopped" \/ lost))

(* "Two processes should run" (README:51): the server does not go on       *)
(* without its cleanup process.                                            *)
TwoProcesses == (cleaner = "dead") ~> ~ Alive
===============================================================================
