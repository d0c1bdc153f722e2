-------------------------------- MODULE Startup --------------------------------
(***************************************************************************)
(* The start of sharedanced: main() of src/src/sharedanced.c up to the     *)
(* fork of the cleanup process, where Processes begins, and dodaemonize()  *)
(* of src/src/daemonize.c.  Any call may fail.  The options are read by    *)
(* the scan of CommandLine, whose steps are those of main meanwhile.  The  *)
(* state is what the calls change: the descriptor table, the working and   *)
(* root directories, the identity.                                         *)
(***************************************************************************)
EXTENDS CommandLine

CONSTANTS
  MaxFd,   \* bound: the highest descriptor, _SC_OPEN_MAX
  Home,    \* the directory the program is started in
  Starts   \* how it may be started

VARIABLES
  pc,         \* the next step of main
  fds,        \* what each descriptor is open on
  listen_fd,
  detached,   \* dodaemonize has put the program in the background
  cwd, root,  \* working directory, root directory
  ids         \* user, group and supplementary groups of the process

vars == <<lineVars, pc, fds, listen_fd, detached, cwd, root, ids>>

Fds == 0 .. MaxFd
Standard == 0 .. 2

(* What a descriptor may be open on.                                       *)
Opened == {"closed", "tty", "other", "listen", "null"}

(* Identities: 0 is root, 1 any other user or group.                       *)
Identities == [uid : {0, 1}, gid : {0, 1}, groups : {{0}, {1}}]

(* By anybody, with any words, any descriptors, on a terminal or not.      *)
ASSUME StartupAssumption ==
  /\ MaxFd \in Nat /\ MaxFd >= 4 /\ Home \in STRING
  /\ Starts \subseteq [line : Seq(Seq(STRING)), posix : BOOLEAN,
                       fds : [Fds -> {"closed", "tty", "other"}], ids : Identities]

(* The variables of main, once the options are read: --uid and --gid are 0 *)
(* unless given, and the directory has an absolute default, which "/data"  *)
(* stands for.                                                             *)
DefaultDirectory == <<"/data">>
Numbered(value) == IF value = NotGiven \/ NumberOf(value) = 0 THEN 0 ELSE 1
opts ==
  [daemonize |-> given["B"] # NotGiven,
   directory |-> IF given["d"] = NotGiven THEN DefaultDirectory ELSE given["d"],
   uid |-> Numbered(given["u"]), gid |-> Numbered(given["g"])]

(* Directories are the words on the way to them.  Resolved is the one that *)
(* a name stands for in the working directory `from': "/", an absolute     *)
(* name, ".", "..", or the name of something in `from'.                    *)
Top == <<>>
Start == << <<Home>> >>
Parent(directory) == SubSeq(directory, 1, Len(directory) - 1)
Absolute(name) == name \in {<<"/">>, <<"/data">>}
Resolved(name, from) ==
  CASE name = <<"/">>     -> Top
    [] name = <<"/data">> -> << name >>
    [] name = <<".">>     -> from
    [] name = <<"..">>    -> Parent(from)
    [] OTHER              -> Append(from, name)

(* The program gives up: return 1, or _exit.                               *)
Fail == pc' = "failed" /\ UNCHANGED <<fds, listen_fd, detached, cwd, root, ids>>

(* The descriptor that open() or socket() returns.                         *)
Lowest(fd) == fds[fd] = "closed" /\ \A lower \in 0 .. fd - 1 : fds[lower] # "closed"

-----------------------------------------------------------------------------
(* main().                                                                 *)

(* getopt_long and the switch, until the scan is over or the program.      *)
ParseOptions ==
  /\ pc = "options"
  /\ LineNext
  /\ pc' = CASE phase' = "parsed" -> "socket"
             [] phase' \in {"refused", "no memory"} -> "failed"
             [] OTHER -> "options"
  /\ UNCHANGED <<fds, listen_fd, detached, cwd, root, ids>>

(* socket() whose failure goes unnoticed.                                  *)
SocketUnchecked ==
  /\ pc = "socket"
  /\ pc' = "daemonize"
  /\ UNCHANGED <<fds, listen_fd, detached, cwd, root, ids>>

(* getaddrinfo, socket, setsockopt, bind, listen.  All descriptors may be  *)
(* in use.                                                                 *)
Socket ==
  /\ pc = "socket"
  /\ \/ \E fd \in Fds :
          /\ Lowest(fd)
          /\ listen_fd' = fd
          /\ fds' = [fds EXCEPT ![fd] = "listen"]
          /\ pc' = "daemonize"
          /\ UNCHANGED <<detached, cwd, root, ids>>
     \/ Fail

-----------------------------------------------------------------------------
(* dodaemonize().                                                          *)

(* Every descriptor above 2, as programs that become daemons often close.  *)
TerminalsAndOthers(t) == 3 .. MaxFd

(* The terminals above 3, as a loop that stops one descriptor early leaves *)
(* one open.                                                               *)
TerminalsAboveThree(t) == {fd \in 4 .. MaxFd : t[fd] = "tty"}

(* The loop from open_max() down to 3.                                     *)
Terminals(t) == {fd \in 3 .. MaxFd : t[fd] = "tty"}

WithoutTerminals(t) == [fd \in Fds |-> IF fd \in Terminals(t) THEN "closed" ELSE t[fd]]

(* closedesc_all: each of 0, 1 and 2 is made /dev/null, whatever it was.   *)
(* The descriptor opened for that is closed again if it is above 2.        *)
StandardNull(t) == [fd \in Fds |-> IF fd \in Standard THEN "null" ELSE t[fd]]

(* The working directory is left before the fork, which may fail.          *)
DaemonizeLater ==
  /\ pc = "daemonize" /\ opts.daemonize
  /\ cwd' = Top
  /\ pc' = "chroot"
  /\ UNCHANGED <<fds, listen_fd, detached, root, ids>>

(* The parent exits; the child goes on without a terminal.  If fork()      *)
(* fails, nothing is done and the program goes on in the foreground.       *)
Daemonize ==
  /\ pc = "daemonize"
  /\ \/ /\ opts.daemonize
        /\ detached' = TRUE
        /\ cwd' = Top
        /\ fds' = StandardNull(WithoutTerminals(fds))
        /\ pc' = "chroot"
        /\ UNCHANGED <<listen_fd, root, ids>>
     \/ opts.daemonize /\ Fail
     \/ pc' = "chroot" /\ UNCHANGED <<fds, listen_fd, detached, cwd, root, ids>>

-----------------------------------------------------------------------------

(* chroot(storage_dir), which only root may, and chdir("/").  Whatever the *)
(* directory is: with --directory=/ the root stays the top.                *)
Chroot ==
  /\ pc = "chroot"
  /\ \/ /\ ids.uid = 0
        /\ given["d"] # <<>>
        /\ root' = Resolved(opts.directory, cwd)
        /\ cwd' = root'
        /\ pc' = "identity"
        /\ UNCHANGED <<fds, listen_fd, detached, ids>>
     \/ Fail

(* setuid before the others, which the new user may not call.              *)
SucceededUserFirst ==
  {{}, {"uid"}}

(* setgroups, setgid, setuid, in this order: the ones that succeeded.  The *)
(* effective and the real identity never differ here.                      *)
Succeeded == {{}, {"groups"}, {"groups", "gid"}, {"groups", "gid", "uid"}}

(* changeuidgid(), whose result is ignored: a call that fails ends the     *)
(* series, the last of which is chdir("/"), and the program goes on.       *)
(* Without --uid nothing is changed, --gid notwithstanding.                *)
ChangeUidGid ==
  /\ pc = "identity"
  /\ IF opts.uid = 0 THEN UNCHANGED <<ids, cwd>>
     ELSE \E done \in Succeeded :
            /\ ids' = [uid    |-> IF "uid" \in done THEN opts.uid ELSE ids.uid,
                       gid    |-> IF "gid" \in done THEN opts.gid ELSE ids.gid,
                       groups |-> IF "groups" \in done THEN {opts.gid}
                                  ELSE ids.groups]
            /\ cwd' = IF "uid" \in done THEN root ELSE cwd
  /\ pc' = "fork"
  /\ UNCHANGED <<fds, listen_fd, detached, root>>

(* fork(): from here on there are two processes.                           *)
Fork ==
  /\ pc = "fork"
  /\ \/ pc' = "running" /\ UNCHANGED <<fds, listen_fd, detached, cwd, root, ids>>
     \/ Fail

Init ==
  /\ \E start \in Starts : line = start.line /\ posix = start.posix
                           /\ fds = start.fds /\ ids = start.ids
  /\ LineInit
  /\ pc = "options"
  /\ listen_fd = -1 /\ detached = FALSE
  /\ cwd = Start /\ root = Top

(* The words have been read when the rest begins.                          *)
Prepare == Socket \/ Daemonize \/ Chroot \/ ChangeUidGid \/ Fork

Next == ParseOptions \/ (Prepare /\ UNCHANGED lineVars)

(* The program is never suspended for good.                                *)
Spec == Init /\ [][Next]_vars /\ WF_vars(Next)

-----------------------------------------------------------------------------
(* Properties.                                                             *)

StartTypeOK ==
  /\ pc \in {"options", "socket", "daemonize", "chroot", "identity", "fork",
             "running", "failed"}
  /\ fds \in [Fds -> Opened]
  /\ listen_fd \in Fds \cup (IF pc \in {"options", "socket", "failed"}
                             THEN {-1} ELSE {})
  /\ detached \in BOOLEAN
  /\ ids \in Identities

TypeOK == LineTypeOK /\ StartTypeOK

(* The root of the server is the directory that was named where it was     *)
(* started, unless it went to the background first and the name was not    *)
(* absolute.                                                               *)
OwnDirectory ==
  pc = "running" /\ ~ (detached /\ ~ Absolute(opts.directory))
    => root = Resolved(opts.directory, Start) /\ cwd = root

(* The server listens: the descriptor it waits on is its socket, unless    *)
(* the program went to the background and had been started without all of  *)
(* the standard descriptors, so that the socket was one of them.           *)
StillListening ==
  pc \in {"chroot", "identity", "fork", "running"} =>
    (fds[listen_fd] = "listen" <=> ~ detached \/ listen_fd \notin Standard)

(* A program in the background holds no terminal.                          *)
NoTerminal == detached => \A fd \in Fds : fds[fd] # "tty"

(* A process started with --uid and --gid that is no longer the user root  *)
(* has the group asked for and no other, although nobody looks at the      *)
(* result of the calls.                                                    *)
NoHalfIdentity ==
  pc \in {"fork", "running"} /\ opts.uid # 0 /\ opts.gid # 0 /\ ids.uid # 0
    => ids.gid = opts.gid /\ ids.groups = {opts.gid}

(* "privileges are revoked after the listening socket has been created"    *)
(* (README:135): a server that has given up the user root has none of      *)
(* root's groups.  With --uid and without --gid it has nothing else.       *)
PrivilegesRevoked ==
  pc = "running" /\ ids.uid # 0 => ids.gid # 0 /\ 0 \notin ids.groups

(* However the line is written, its scan does not go round in circles: the *)
(* start comes to an end.                                                  *)
StartEnds == <>(pc \in {"running", "failed"})
===============================================================================
