----------------------------- MODULE StartupProofs -----------------------------
(***************************************************************************)
(* Proofs about Startup, for any number of descriptors and any command     *)
(* line.                                                                   *)
(***************************************************************************)
EXTENDS Startup, CommandScanProofs

(* Where the program is when it looks its storage directory up.            *)
Whence == IF detached THEN Top ELSE Start

Placed ==
  /\ pc \in {"options", "socket", "daemonize"} =>
       ~ detached /\ cwd = Start /\ root = Top
  /\ pc = "chroot" => cwd = Whence /\ root = Top
  /\ pc \in {"identity", "fork", "running"} =>
       cwd = root /\ root = Resolved(opts.directory, Whence)

Listening ==
  /\ pc = "daemonize" => fds[listen_fd] = "listen"
  /\ StillListening

Identified ==
  /\ pc = "identity" => ids.uid = 0
  /\ NoHalfIdentity

SInv == StartTypeOK /\ Placed /\ Listening /\ NoTerminal /\ Identified

LEMMA InitInv == Init => SInv
<1> SUFFICES ASSUME Init
             PROVE  SInv
  OBVIOUS
<1>1. StartTypeOK
  BY StartupAssumption DEF Init, StartTypeOK, Opened, Identities, Fds
<1> QED BY <1>1 DEF Init, SInv, Placed, Listening, StillListening, NoTerminal,
                    Identified, NoHalfIdentity, Whence

(* Giving up disturbs nothing.                                             *)
LEMMA FailStep ==
  ASSUME SInv, Fail, opts' = opts
  PROVE  SInv'
BY DEF SInv, Fail, StartTypeOK, Placed, Listening, StillListening, NoTerminal,
       Identified, NoHalfIdentity, Whence

(* Reading the options, whatever they are.                                 *)
LEMMA ParseOptionsStep ==
  ASSUME SInv, ParseOptions
  PROVE  SInv'
<1>1. /\ pc = "options" /\ pc' \in {"options", "socket", "failed"}
      /\ UNCHANGED <<fds, listen_fd, detached, cwd, root, ids>>
  BY DEF ParseOptions
<1> QED BY <1>1 DEF SInv, StartTypeOK, Placed, Listening, StillListening,
              NoTerminal, Identified, NoHalfIdentity, Whence

(* --uid and --gid are numbers, whatever was given for them.               *)
LEMMA OptsFacts == opts.uid \in {0, 1} /\ opts.gid \in {0, 1}
BY DEF opts, Numbered

LEMMA SocketStep ==
  ASSUME SInv, Socket, opts' = opts
  PROVE  SInv'
<1>1. CASE Fail
  BY <1>1, FailStep
<1>2. ASSUME NEW fd \in Fds, listen_fd' = fd,
             fds' = [fds EXCEPT ![fd] = "listen"], pc' = "daemonize",
             UNCHANGED <<detached, cwd, root, ids>>
      PROVE  SInv'
  <2>1. StartTypeOK'
    BY <1>2 DEF SInv, StartTypeOK, Opened
  <2>2. Placed'
    BY <1>2 DEF Socket, SInv, Placed
  <2>3. fds'[listen_fd'] = "listen"
    BY <1>2 DEF SInv, StartTypeOK
  <2>4. Listening' /\ NoTerminal' /\ Identified'
    BY <1>2, <2>2, <2>3 DEF Listening, StillListening, NoTerminal, Placed,
                            Identified, NoHalfIdentity
  <2> QED BY <2>1, <2>2, <2>4 DEF SInv
<1> QED BY <1>1, <1>2 DEF Socket

LEMMA DaemonizeStep ==
  ASSUME SInv, Daemonize, opts' = opts
  PROVE  SInv'
<1>1. /\ pc = "daemonize" /\ ~ detached /\ cwd = Start /\ root = Top
      /\ listen_fd \in Fds /\ fds[listen_fd] = "listen" /\ StartTypeOK
  BY DEF Daemonize, SInv, StartTypeOK, Placed, Listening
<1>2. CASE Fail
  BY <1>2, FailStep
<1>3. CASE /\ pc' = "chroot"
           /\ UNCHANGED <<fds, listen_fd, detached, cwd, root, ids>>
  <2>1. StartTypeOK'
    BY <1>1, <1>3 DEF StartTypeOK
  <2> QED BY <1>1, <1>3, <2>1 DEF SInv, Placed, Listening, StillListening,
                 NoTerminal, Identified, NoHalfIdentity, Whence
<1>4. CASE /\ detached' = TRUE /\ cwd' = Top
           /\ fds' = StandardNull(WithoutTerminals(fds))
           /\ pc' = "chroot"
           /\ UNCHANGED <<listen_fd, root, ids>>
  <2>1. \A fd \in Fds :
          fds'[fd] = IF fd \in Standard THEN "null"
                     ELSE IF fds[fd] = "tty" THEN "closed" ELSE fds[fd]
    <3>1. \A fd \in Fds : fd \notin Standard => fd \in 3 .. MaxFd
      BY StartupAssumption DEF Fds, Standard
    <3> QED BY <1>4, <3>1 DEF StandardNull, WithoutTerminals, Terminals
  <2>2. fds' \in [Fds -> Opened]
    <3>1. fds' = [fd \in Fds |-> fds'[fd]]
      BY <1>4 DEF StandardNull
    <3>2. \A fd \in Fds : fds'[fd] \in Opened
      BY <1>1, <2>1 DEF StartTypeOK, Opened
    <3> QED BY <3>1, <3>2
  <2>3. StartTypeOK'
    BY <1>1, <1>4, <2>2 DEF StartTypeOK
  <2>4. NoTerminal'
    BY <2>1 DEF NoTerminal
  <2>5. Listening'
    BY <1>1, <1>4, <2>1 DEF Listening, StillListening
  <2>6. Placed' /\ Identified'
    BY <1>1, <1>4 DEF Placed, Whence, Identified, NoHalfIdentity
  <2> QED BY <2>3, <2>4, <2>5, <2>6 DEF SInv
<1> QED BY <1>2, <1>3, <1>4 DEF Daemonize

LEMMA ChrootStep ==
  ASSUME SInv, Chroot, opts' = opts
  PROVE  SInv'
<1>1. CASE Fail
  BY <1>1, FailStep
<1>2. CASE /\ ids.uid = 0
           /\ root' = Resolved(opts.directory, cwd) /\ cwd' = root'
           /\ pc' = "identity"
           /\ UNCHANGED <<fds, listen_fd, detached, ids>>
  <2>1. StartTypeOK'
    BY <1>2 DEF Chroot, SInv, StartTypeOK
  <2>2. Placed'
    BY <1>2 DEF Chroot, SInv, Placed, Whence
  <2>3. Listening' /\ NoTerminal' /\ Identified'
    BY <1>2 DEF Chroot, SInv, Listening, StillListening, NoTerminal,
                Identified, NoHalfIdentity
  <2> QED BY <2>1, <2>2, <2>3 DEF SInv
<1> QED BY <1>1, <1>2 DEF Chroot

(* The series of calls changes the user last.                              *)
LEMMA ChangeUidGidStep ==
  ASSUME SInv, ChangeUidGid, opts' = opts
  PROVE  SInv'
<1>1. /\ pc = "identity" /\ pc' = "fork" /\ cwd = root
      /\ UNCHANGED <<fds, listen_fd, detached, root>>
      /\ opts' = opts /\ ids \in Identities /\ ids.uid = 0
  BY DEF ChangeUidGid, SInv, StartTypeOK, Placed, Identified
<1>2. /\ ids' \in Identities /\ cwd' = cwd
      /\ ids'.uid # 0 /\ opts.uid # 0 =>
           ids'.gid = opts.gid /\ ids'.groups = {opts.gid}
  <2>1. CASE opts.uid = 0
    BY <1>1, <2>1 DEF ChangeUidGid
  <2>2. CASE opts.uid # 0
    <3>1. PICK done \in Succeeded :
            /\ ids' = [uid    |-> IF "uid" \in done THEN opts.uid ELSE ids.uid,
                       gid    |-> IF "gid" \in done THEN opts.gid ELSE ids.gid,
                       groups |-> IF "groups" \in done THEN {opts.gid}
                                  ELSE ids.groups]
            /\ cwd' = IF "uid" \in done THEN root ELSE cwd
      BY <2>2 DEF ChangeUidGid
    <3>2. /\ opts.uid \in {0, 1} /\ opts.gid \in {0, 1}
          /\ ids.gid \in {0, 1} /\ ids.groups \in {{0}, {1}}
      BY <1>1, OptsFacts DEF Identities
    <3>3. "uid" \in done => "gid" \in done /\ "groups" \in done
      BY DEF Succeeded
    <3>4. {opts.gid} \in {{0}, {1}}
      BY <3>2
    <3>5. ids' \in Identities
      BY <1>1, <3>1, <3>2, <3>4 DEF Identities
    <3>6. ids'.uid # 0 => "uid" \in done
      BY <1>1, <3>1
    <3> QED BY <1>1, <3>1, <3>3, <3>5, <3>6
  <2> QED BY <2>1, <2>2
<1>3. StartTypeOK'
  BY <1>1, <1>2 DEF SInv, StartTypeOK
<1>4. Placed' /\ Listening' /\ NoTerminal'
  BY <1>1, <1>2 DEF SInv, Placed, Listening, StillListening, NoTerminal, Whence
<1>5. Identified'
  BY <1>1, <1>2 DEF Identified, NoHalfIdentity
<1> QED BY <1>3, <1>4, <1>5 DEF SInv

LEMMA ForkStep ==
  ASSUME SInv, Fork, opts' = opts
  PROVE  SInv'
<1>1. CASE Fail
  BY <1>1, FailStep
<1>2. CASE /\ pc' = "running"
           /\ UNCHANGED <<fds, listen_fd, detached, cwd, root, ids>>
  BY <1>2 DEF Fork, SInv, StartTypeOK, Placed, Listening, StillListening, NoTerminal,
              Identified, NoHalfIdentity, Whence
<1> QED BY <1>1, <1>2 DEF Fork

(* What the start preserves at every step.                                 *)
THEOREM Invariance == Spec => []SInv
<1>1. SInv /\ [Next]_vars => SInv'
  <2> SUFFICES ASSUME SInv, [Next]_vars
               PROVE  SInv'
    OBVIOUS
  <2>1. UNCHANGED lineVars => opts' = opts
    BY DEF lineVars, opts
  <2>2. CASE UNCHANGED vars
    BY <2>1, <2>2 DEF vars, SInv, StartTypeOK, Placed, Listening, StillListening,
                NoTerminal, Identified, NoHalfIdentity, Whence
  <2>3. CASE ParseOptions
    BY <2>3, ParseOptionsStep
  <2>4. CASE Prepare /\ UNCHANGED lineVars
    BY <2>1, <2>4, SocketStep, DaemonizeStep, ChrootStep, ChangeUidGidStep, ForkStep
       DEF Prepare
  <2> QED BY <2>2, <2>3, <2>4 DEF Next
<1> QED BY <1>1, InitInv, PTL DEF Spec

(* The start is a scan of its command line: what is proved of every scan   *)
(* holds of it.                                                            *)
THEOREM StartScans == Spec => LineSpec
<1>1. Init => line \in Seq(Seq(STRING)) /\ posix \in BOOLEAN /\ LineInit
  BY StartupAssumption DEF Init
<1>2. [Next]_vars => [LineNext]_lineVars
  BY DEF Next, ParseOptions, vars
<1> QED BY <1>1, <1>2, PTL DEF Spec, LineSpec

(* The variables of the start keep their types.                            *)
THEOREM TypeCorrect == Spec => []TypeOK
<1>1. SInv /\ LineInv => TypeOK
  BY DEF SInv, LineInv, TypeOK
<1> QED BY <1>1, Invariance, StartScans, LineInvariance, PTL

(* pure_permute_args loses no word of the command line and doubles none.   *)
THEOREM WordsOnce == Spec => []EachWordOnce
BY StartScans, WordsKept, PTL

(* The start takes the options its command line asks for, each with the    *)
(* value given last, and stops for the lines it cannot accept.             *)
THEOREM OptionsRead == Spec => []OptionsTaken
BY StartScans, OptionsAsMeant, PTL

(* The operands of its command line end up behind the options, in order.   *)
THEOREM OperandsLast == Spec => []Arranged
BY StartScans, OperandsArranged, PTL

(* The server is in its root, and that is the directory that was named     *)
(* where it was started, unless the name was not absolute and was looked   *)
(* up in the background.                                                   *)
THEOREM InTheNamedDirectory == Spec => []OwnDirectory
<1>1. SInv => OwnDirectory
  BY DEF SInv, StartTypeOK, Placed, OwnDirectory, Whence, Resolved, Absolute
<1> QED BY <1>1, Invariance, PTL

(* Going to the background spares the listening socket exactly if it is    *)
(* not one of the standard descriptors.                                    *)
THEOREM SocketSpared == Spec => []StillListening
<1>1. SInv => StillListening
  BY DEF SInv, Listening
<1> QED BY <1>1, Invariance, PTL

(* No terminal stays open in the background.                               *)
THEOREM TerminalsClosed == Spec => []NoTerminal
<1>1. SInv => NoTerminal
  BY DEF SInv
<1> QED BY <1>1, Invariance, PTL

(* Whichever calls of changeuidgid fail, who was to give up both the user  *)
(* and the group root, and has given up the user, has given up its groups. *)
THEOREM Identity == Spec => []NoHalfIdentity
<1>1. SInv => NoHalfIdentity
  BY DEF SInv, Identified
<1> QED BY <1>1, Invariance, PTL


-----------------------------------------------------------------------------
(* The start ends.  What is left of it: the steps of main, and while the   *)
(* options are read what is left of their scan.                            *)

StepsLeft ==
  CASE pc = "options"   -> 6
    [] pc = "socket"    -> 5
    [] pc = "daemonize" -> 4
    [] pc = "chroot"    -> 3
    [] pc = "identity"  -> 2
    [] pc = "fork"      -> 1
    [] OTHER            -> 0

Remaining == <<StepsLeft, Left>>
Sooner == LexPairOrdering(Below, Shorter, Nat, [1 .. 5 -> Nat])

(* No start gets shorter for ever.                                         *)
THEOREM SoonerEnds == IsWellFoundedOn(Sooner, Nat \X [1 .. 5 -> Nat])
<1>1. IsWellFoundedOn(Below, Nat)
  BY NatLessThanWellFounded DEF OpToRel, Below
<1> QED BY <1>1, ShorterEnds, WFLexPairOrdering DEF Sooner

LEMMA StartStepShortens ==
  ASSUME LineInv, LineInv', Next
  PROVE  <<Remaining', Remaining>> \in Sooner
<1> DEFINE f == Left'
           g == Left
<1>1. f \in [1 .. 5 -> Nat] /\ g \in [1 .. 5 -> Nat]
  <2>1. LineInv' => (Left \in [1 .. 5 -> Nat] /\ optind \in Int)'
    BY LeftType, PTL
  <2> QED BY <2>1, LeftType
<1>2. StepsLeft \in Nat /\ StepsLeft' \in Nat
  BY DEF StepsLeft
<1>3. Remaining' = <<StepsLeft', f>> /\ Remaining = <<StepsLeft, g>>
  BY DEF Remaining
<1> HIDE DEF f, g
<1>4. ASSUME StepsLeft' < StepsLeft
      PROVE  <<Remaining', Remaining>> \in Sooner
  <2>1. <<StepsLeft', StepsLeft>> \in Below
    BY <1>2, <1>4 DEF Below
  <2> QED BY <1>1, <1>2, <1>3, <2>1 DEF Sooner, LexPairOrdering
<1>5. CASE ParseOptions /\ pc' = "options"
  <2>1. StepsLeft' = StepsLeft
    BY <1>5 DEF ParseOptions, StepsLeft
  <2>2. <<f, g>> \in Shorter
    BY <1>5, StepShortens DEF ParseOptions, f, g
  <2> QED BY <1>1, <1>2, <1>3, <2>1, <2>2 DEF Sooner, LexPairOrdering
<1>6. CASE ParseOptions /\ pc' # "options"
  <2>1. pc = "options" /\ pc' \in {"socket", "failed"}
    BY <1>6 DEF ParseOptions
  <2>2. StepsLeft' < StepsLeft
    BY <2>1 DEF StepsLeft
  <2> QED BY <1>4, <2>2
<1>7. CASE Prepare
  <2>1. \/ pc = "socket" /\ pc' \in {"daemonize", "failed"}
        \/ pc = "daemonize" /\ pc' \in {"chroot", "failed"}
        \/ pc = "chroot" /\ pc' \in {"identity", "failed"}
        \/ pc = "identity" /\ pc' = "fork"
        \/ pc = "fork" /\ pc' \in {"running", "failed"}
    BY <1>7 DEF Prepare, Socket, Daemonize, Chroot, ChangeUidGid, Fork, Fail
  <2>2. StepsLeft' < StepsLeft
    BY <2>1 DEF StepsLeft
  <2> QED BY <1>4, <2>2
<1> QED BY <1>5, <1>6, <1>7 DEF Next

(* However the line is written, every step of main and of the scan brings  *)
(* the start nearer to its end, so that it cannot go on for ever.          *)
THEOREM StartShortens == Spec => [][(<<Remaining', Remaining>> \in Sooner)]_vars
<1>1. LineInv /\ LineInv' /\ [Next]_vars => [(<<Remaining', Remaining>> \in Sooner)]_vars
  BY StartStepShortens
<1> QED BY <1>1, StartScans, LineInvariance, PTL DEF Spec
===============================================================================
