---------------------------- MODULE ProcessesProofs ----------------------------
(***************************************************************************)
(* Proofs about Processes, for any number of connections and of SIGTERMs.  *)
(***************************************************************************)
EXTENDS Processes, TLAPS

(* The signals that main() has installed a handler for, at each stage.     *)
Handled ==
  /\ server \in {"start", "forked", "dead"} => handlers = {}
  /\ server = "sigchld" => handlers = {"CHLD"}
  /\ server \in {"sigterm", "loop"} => handlers = {"CHLD", "TERM"}

(* There is a cleanup process from the fork() to the end of the server.    *)
Forked ==
  /\ server = "start" => cleaner = "none"
  /\ server \in {"forked", "sigchld", "sigterm", "loop"} => cleaner # "none"

(* The death of the cleanup process is known to a living server, or has    *)
(* been missed for ever.                                                   *)
DeathNoted == Alive /\ cleaner = "dead" => lost \/ "CHLD" \in pending

(* accept() is called from the event loop.                                 *)
AcceptsInLoop == accepting => server = "loop"

PInv ==
  /\ TypeOK
  /\ Handled
  /\ Forked
  /\ DeathNoted
  /\ AcceptsInLoop
  /\ DeafOnlyWhileDying
  /\ NeverBlocked

LEMMA InitPInv == Init => PInv
<1> SUFFICES ASSUME Init PROVE PInv
  OBVIOUS
<1>1. TypeOK
  BY DEF Init, TypeOK
<1>2. Handled /\ Forked /\ DeathNoted /\ AcceptsInLoop
  BY DEF Init, Handled, Forked, DeathNoted, AcceptsInLoop, Alive
<1>3. DeafOnlyWhileDying /\ NeverBlocked
  BY DEF Init, DeafOnlyWhileDying, NeverBlocked, Blocked
<1> QED BY <1>1, <1>2, <1>3 DEF PInv

(* main() up to the event loop.                                            *)
LEMMA StartupStep ==
  ASSUME PInv, Fork \/ SignalChld \/ SignalTerm \/ Listen
  PROVE  PInv'
<1> USE DEF PInv, TypeOK, Handled, Forked, DeathNoted, AcceptsInLoop,
            DeafOnlyWhileDying, NeverBlocked, Blocked, Alive,
            cleanerVars, signalVars, networkVars
<1>1. CASE Fork
  BY <1>1 DEF Fork
<1>2. CASE SignalChld
  BY <1>2 DEF SignalChld
<1>3. CASE SignalTerm
  BY <1>3 DEF SignalTerm
<1>4. CASE Listen
  <2>1. handlers = {"CHLD", "TERM"}
    BY <1>4 DEF Listen
  <2> QED BY <1>4, <2>1 DEF Listen
<1> QED BY <1>1, <1>2, <1>3, <1>4

(* The callbacks.  The one that matters is sigterm, which stops listening: *)
(* a cleanup process it cannot kill any more is dead, and has left its     *)
(* SIGCHLD behind.                                                         *)
LEMMA CallbackStep ==
  ASSUME PInv, ListenActive \/ Accept \/ AcceptFails \/ Sigchld \/ Sigterm
  PROVE  PInv'
<1> USE DEF PInv, TypeOK, Handled, Forked, DeathNoted, AcceptsInLoop,
            DeafOnlyWhileDying, NeverBlocked, Blocked, Alive,
            cleanerVars, signalVars, networkVars
<1>1. CASE ListenActive
  BY <1>1 DEF ListenActive, InLoop
<1>2. CASE Accept
  <2>1. backlog' \in Nat
    BY <1>2 DEF Accept
  <2> QED BY <1>2, <2>1 DEF Accept
<1>3. CASE Sigchld
  BY <1>3 DEF Sigchld, InLoop
<1>4. CASE Sigterm
  <2>1. cleaner \in {"running", "stopped"} \/ lost \/ "CHLD" \in pending
    BY <1>4 DEF Sigterm, InLoop
  <2> QED BY <1>4, <2>1 DEF Sigterm, InLoop
<1>5. CASE AcceptFails
  BY <1>5 DEF AcceptFails
<1> QED BY <1>1, <1>2, <1>3, <1>4, <1>5

(* The cleanup process ends, stops or goes on.                             *)
LEMMA CleanerStep ==
  ASSUME PInv,
         CheckParent \/ CleanerTerminated \/ CleanerDies
         \/ CleanerStopped \/ CleanerContinued \/ ContainerEnds
  PROVE  PInv'
<1>1. /\ UNCHANGED <<server, networkVars, terms, killed, system>>
      /\ cleaner \in {"running", "stopped"}
      /\ cleaner' \in {"running", "stopped", "dead"}
      /\ NotifyServer
  BY DEF CheckParent, CleanerTerminated, CleanerDies, CleanerStopped,
         CleanerContinued, ContainerEnds
<1>2. /\ handlers' = handlers
      /\ pending' = IF "CHLD" \in handlers THEN pending \cup {"CHLD"} ELSE pending
      /\ lost' = (lost \/ (cleaner' = "dead" /\ Alive /\ "CHLD" \notin handlers))
  BY <1>1 DEF NotifyServer
<1> USE DEF PInv, TypeOK, Handled, Forked, DeathNoted, AcceptsInLoop,
            DeafOnlyWhileDying, NeverBlocked, Blocked, Alive, networkVars
<1>3. TypeOK'
  BY <1>1, <1>2
<1>4. Handled' /\ Forked' /\ DeathNoted'
  BY <1>1, <1>2
<1>5. AcceptsInLoop' /\ DeafOnlyWhileDying' /\ NeverBlocked'
  BY <1>1, <1>2
<1> QED BY <1>3, <1>4, <1>5

(* Signals and connections from outside.                                   *)
LEMMA OutsideStep ==
  ASSUME PInv, SendTerm \/ ServerDies \/ Connect \/ Reset
  PROVE  PInv'
<1> USE DEF PInv, TypeOK, Handled, Forked, DeathNoted, AcceptsInLoop,
            DeafOnlyWhileDying, NeverBlocked, Blocked, Alive,
            cleanerVars, signalVars, networkVars
(* The end of the server clears what it had.                               *)
<1>0. ASSUME ServerEnds, UNCHANGED terms \/ terms' = terms + 1
      PROVE  PInv'
  <2>1. /\ server' = "dead" /\ pending' = {} /\ handlers' = {}
        /\ listening' = FALSE /\ backlog' = 0 /\ accepting' = FALSE
        /\ UNCHANGED <<lost, made, cleaner, killed, system>>
    BY <1>0 DEF ServerEnds
  <2>2. /\ cleaner \in {"none", "running", "stopped", "dead"}
        /\ killed \in BOOLEAN /\ lost \in BOOLEAN
        /\ made \in Nat /\ terms \in Nat
    OBVIOUS
  <2>3. terms' \in Nat /\ backlog' \in Nat
    BY <1>0, <2>1, <2>2
  <2>4. /\ handlers' \subseteq {"CHLD", "TERM"} /\ pending' \subseteq handlers'
        /\ listening' \in BOOLEAN /\ accepting' \in BOOLEAN /\ system' \in Systems
    BY <2>1
  <2>5. TypeOK'
    BY <2>1, <2>2, <2>3, <2>4
  <2> QED BY <2>1, <2>5
<1>1. CASE SendTerm
  <2>1. CASE "TERM" \in handlers
    <3>1. /\ pending' = pending \cup {"TERM"} /\ terms' = terms + 1
          /\ UNCHANGED <<server, handlers, lost, networkVars, cleanerVars, system>>
      BY <1>1, <2>1 DEF SendTerm
    <3>2. TypeOK'
      BY <2>1, <3>1
    <3> QED BY <3>1, <3>2
  <2>2. CASE "TERM" \notin handlers /\ system.server_pid = 1
    <3>1. /\ terms' = terms + 1
          /\ UNCHANGED <<server, handlers, pending, lost, networkVars, cleanerVars,
                         system>>
      BY <1>1, <2>2 DEF SendTerm
    <3> QED BY <3>1
  <2>3. CASE "TERM" \notin handlers /\ system.server_pid # 1
    BY <1>0, <1>1, <2>3 DEF SendTerm
  <2> QED BY <2>1, <2>2, <2>3
<1>2. CASE ServerDies
  BY <1>0, <1>2 DEF ServerDies
<1>3. CASE Connect
  BY <1>3 DEF Connect
<1>4. CASE Reset
  <2>1. backlog' \in Nat
    BY <1>4 DEF Reset
  <2> QED BY <1>4, <2>1 DEF Reset
<1> QED BY <1>1, <1>2, <1>3, <1>4

LEMMA NextPInv == PInv /\ [Next]_vars => PInv'
<1> SUFFICES ASSUME PInv, [Next]_vars PROVE PInv'
  OBVIOUS
<1>1. CASE UNCHANGED vars
  BY <1>1 DEF vars, PInv, TypeOK, Handled, Forked, DeathNoted, AcceptsInLoop,
              DeafOnlyWhileDying, NeverBlocked, Blocked, Alive
<1> QED BY <1>1, StartupStep, CallbackStep, CleanerStep, OutsideStep
       DEF Next, Running, Disturbance

THEOREM Invariance == Spec => []PInv
BY InitPInv, NextPInv, PTL DEF Spec

(* The variables keep their types.                                         *)
THEOREM TypeCorrect == Spec => []TypeOK
<1>1. PInv => TypeOK
  BY DEF PInv
<1> QED BY <1>1, Invariance, PTL

(* A server that has stopped listening has its end coming, whichever of    *)
(* the two processes was told to go first.                                 *)
THEOREM EndIsComing == Spec => []DeafOnlyWhileDying
<1>1. PInv => DeafOnlyWhileDying
  BY DEF PInv
<1> QED BY <1>1, Invariance, PTL

(* The event loop waits in accept() on no system but one that drops a      *)
(* waiting connection.                                                     *)
THEOREM WaitsForDropsOnly == Spec => []NeverBlocked
<1>1. PInv => NeverBlocked
  BY DEF PInv
<1> QED BY <1>1, Invariance, PTL

(* The death of the cleanup process is never forgotten by a living server  *)
(* that had its handler: the signal stays caught until the sigchld         *)
(* callback has ended the server.                                          *)
THEOREM DeathsNoted == Spec => []DeathNoted
<1>1. PInv => DeathNoted
  BY DEF PInv
<1> QED BY <1>1, Invariance, PTL
===============================================================================
