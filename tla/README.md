# Sharedance: specifications and proofs

Sharedance is a small network cache: a server (`sharedanced`) keeps key/data
pairs as files of one directory, PHP clients store, fetch and delete them over
TCP, and a second process purges what has expired.  The modules here describe
the program as it is written, at the grain of the system call and of the
libevent callback, TLC checks them on small instances, and TLAPS proves
their safety properties for every value of the constants.  Paths such as
`process.c:187` are relative to `src/src/`.

## 1. Inventory

| Component | Code | State | Operations | Interacts with |
|---|---|---|---|---|
| Request reading | `process.c` `new_client`, `client_read` | one `Client` for each connection (buffer, lengths, command), its read event, the process-wide `errno` | accept, read and decode, dispatch, drop, time out | the peer (TCP stream), libevent, the other connections (through `errno`) |
| Storage handlers | `process.c` `client_process_store`, `_fetch`, `_delete`, `safe_write`, `validate_key` | the storage directory, `write_fd`, `read_fd`, the mapping | create and fill a temporary file, rename it; open, stat and map a file; unlink it | called by `client_read`; share the directory with the cleanup process |
| Cleanup process | `expire.c` | the clock of the pass, the directory stream | check the parent, list, stat, unlink, sleep | the directory, without any lock |
| Process life cycle | `main` from `fork()` on, `sigchld`, `sigterm`, `check_parent`, `accept()` in `new_client` | signal handlers, pending signals, the listen event, `expire_pid` | fork, register events, accept, pass SIGTERM on, exit | signals and `getppid` between the two processes; how the system numbers processes |
| Reply and connection resources | `returncode_bufferev_*`, `client_disconnect` | bufferevent, socket, file descriptors, mapping | write, written, error, release | libevent, the peer |
| Start-up | `main` up to `fork()`, `sharedanced_p.h`, `bsd-getopt_long.c`, `daemonize.c` | `nargv` and the place of the scan, options, descriptor table, root and current directory, identity | scan and rearrange the words, take an option, bind, daemonize, chroot, change identity | the operating system |
| PHP client, session handler | `php/sharedance.php`, `php/session_handler.php` | a socket, the session's data | store, fetch, delete; open, read, write, destroy | the server, over one connection for each operation |
| Logging, other vendored replacements, examples | `log.c`, `fakesnprintf.c`, `mysnprintf.c`, `gettext.h`, `php/test_*.php` | none | | |

The server runs one callback at a time, so handlers never interleave with each
other.  What is concurrent: the server and the cleanup process on the
directory, system call by system call; the segmentation and the end of each TCP
stream; signals and deaths of either process; a death of the server between any
two calls of a handler, and the restart of a new server next to the cleanup
process of the old one.  The locks, the syncs and the acknowledgements that
would make these easy are absent: the design relies on `rename()` being atomic,
on names nobody else uses, and on signals that arrive.

What makes each component correct:

- *reading*: whatever TCP does, a request is dispatched exactly as declared and
  complete, or the connection is dropped; memory is bounded; no connection is
  forgotten or called back after its end;
- *handlers*: a client sees an atomic map from which entries may vanish: whole
  values, the last one stored or none, also across disk errors and deaths;
- *cleanup*: everything expired goes, including what dead servers and failed
  stores left; nothing younger goes;
- *life cycle*: neither process goes on without the other, and the event loop
  waits for nothing but events;
- *connections*: each descriptor, mapping and structure is released once, and a
  peer that stays reads the whole of its one answer;
- *start-up*: the options are those the command line asks for, however it is
  written; the program ends up in the directory, with the identity and with the
  socket it was asked for;
- *PHP sessions*: a read never returns a part of a value, concurrent requests
  of a session do not lose updates.

The hazards this leads to, with their lines, are listed in `PROJECT.json`.

## 2. Plan

Written, in this order:

1. `RequestFraming` (abstract) and `ClientRead` (detailed);
2. `EphemeralMap` (abstract) and `Storage` (detailed), which composes the
   handlers and any number of cleanup processes on one directory;
3. `Processes`;
4. `Conversations` (abstract) and `Connections` (detailed);
5. `Sessions`, which composes the PHP client and session handler with the
   server as `EphemeralMap` describes it;
6. `CommandMeaning` (what a command line means, looked at as a whole) and
   `CommandLine` (the scan that finds it out);
7. `Startup`, which extends `CommandLine` and ends where `Processes` begins;
8. `ClientReadProofs`, `StorageProofs`, `ProcessesProofs`, `ConnectionsProofs`,
   `CommandLineProofs`, `CommandScanProofs` (which extends the former),
   `StartupProofs`, `SessionsProofs`.

To come: an abstract specification of the life cycle, which `Processes` would
implement with the exceptions that its liveness properties name.

## 3. The modules and the code

### ClientRead, RequestFraming

One connection from `accept()` to its dispatch or its end.  `client` is the
`Client` structure (the fields that `client_read` uses, under their names),
`armed` says whether `ev_client_read` is registered, `errno` is the global one.
The bytes are abstracted to what the code tells apart: the command named by the
first byte, the two declared lengths, and how many bytes the peer ever sends
(`peer`).  TCP's segmentation is the choice of how many bytes each `read`
returns.

`ReadBytes` is one whole callback: `Grown` (the realloc), the read,
`DecodeHeader`, then `Decide`, whose disjuncts are the tests of
`process.c:411-461` in their order.  The other callbacks are the other outcomes
of `read` and the timeout.  `Decoded` gives a length whose bytes have not all
arrived an arbitrary value: it would be read from uninitialised memory.  The
branch that closed a connection is kept in `why`, a history variable.
`OtherCallback` is the effect of the other connections on `errno`.

`RequestFraming` promises: refused, or accepted as declared and completely
received.  `ImplementsFraming` maps `phase` and `client` to its `outcome`.

### Storage, EphemeralMap

`dir` maps each name (`StoreFile(k)`, `TmpFile(k)`) to a file: the value it is
meant to hold, how many bytes of it are there, its modification time.  Each
system call that reads or changes the directory is an action:

| Code | Actions |
|---|---|
| dispatch in `client_read` | `Begin` |
| `client_process_store` | `StoreCreate`, `StoreWrite` (one `write()` of `safe_write`), `StoreWriteFails`, `StoreRename`, `StoreRenameFails`, `StoreDiscard`, `StoreDiscardFails`, `Reply` |
| `client_process_fetch` | `FetchOpen`, `FetchReply` |
| `client_process_delete` | `DeleteUnlink`, `Reply` |
| early `return -1` of the three | `RefuseRequest` |
| `expire`, `check_parent`, `cleanup_dir` | `CheckParent`, `OpenDir`, `Examine` (`readdir`, `stat`, the test), `UnlinkExpired`, `CloseDir` |
| the same calls failing (`CleanerFails`) | `OpenDirFails`, `StatFails`, `UnlinkFails`, `ReadDirFails` |
| death and restart of the server, death of the cleanup process | `Crash`, `Restart`, `CleanerDies` |

- `open`, `fstat` and `mmap` of a fetch are two steps, the open and the reply:
  the file behind the descriptor is kept in `opened`.  That it cannot change
  between them is what `PublishedNeverRewritten` establishes.
- `Examine` may return any name, an over-approximation of what `readdir` may
  return of entries that come and go; the pass ends when every entry present
  from its start (`todo`) has been returned or removed, or earlier, when
  `readdir` fails (`ReadDirFails`), which `cleanup_dir` cannot tell apart.
- Nobody looks at the results of `stat`, `unlink` and `readdir` in
  `cleanup_dir`, nor of the `unlink` after a failed `rename` (`process.c:190`).
  So a failed store may leave its temporary file without any death
  (`StoreDiscardFails`), and an expired file survives the passes that fail on it.
  `StatFails` is for files that have expired: any other entry that `stat` fails
  for is passed over as if it were young.
- EINTR and EAGAIN in `safe_write` repeat the call and are stuttering steps.
- An answer is what the server queues.  How it is written belongs to
  `Connections`.  `Refused` also stands for no answer at all.
- A server that starts again finds the directory as it was left, next to the
  cleanup process of its predecessor until that process notices.
- `crashes` and the field `touched` are history.

`EphemeralMap` is the promise to the clients: each request takes effect at one
moment between its beginning and its answer, entries may vanish, a refused
store may or may not have taken effect, an empty value reads as an absent one.
A value that the disk may lack room for (`TooLarge`) may be kept cut short
(`CutShort`): finding 2.
In the refinement a store takes effect at its `rename()`, a delete at its
`unlink()`, a fetch at its `open()`; a purge and a death are `Evict` and
`Refuse`.

### Processes

`server` is the progress of `main` from `fork()`; `handlers` the signals with a
libevent handler; `pending` the signals caught whose callback has not run.  A
signal without a handler has its default action: SIGTERM ends the process,
SIGCHLD is discarded (then `lost` records it).  Both callbacks are given the
listen event, and call `signal_del` on that: `sigterm` therefore makes the
server stop accepting (`listening`), and leaves its end to the SIGCHLD of the
cleanup process.

| Code | Actions |
|---|---|
| `main` from `fork()` | `Fork`, `SignalChld`, `SignalTerm`, `Listen` |
| `new_client` up to `accept()` | `ListenActive` (called back, `accepting`), then `Accept`, or `AcceptFails`, which leaves the connection in the queue |
| `sigchld`, `sigterm` | `Sigchld`, `Sigterm`, from the event loop only (`InLoop`) |
| `expire`, `check_parent` | `CheckParent`, with `ParentGone` |
| the system | `CleanerTerminated`, `CleanerDies`, `CleanerStopped`, `CleanerContinued`, `ContainerEnds`, `ServerDies`, `SendTerm`, `Connect`, `Reset` |

The listening socket blocks, and libevent installs its handlers so that calls
are restarted.  If the kernel takes a connection out of the queue between
`select` and `accept()` (`Reset`), `accept()` waits for the next one, and no
signal callback runs meanwhile: `Blocked`.  `system` is fixed by `Init`: whether
the kernel does that (`drops`), the number of the server (1 in a container of
its own), the parent of orphans (`reaper`: 0 outside the container, 1, or a
process that has asked to be it) and whether `kill()` may reach it.
`check_parent` takes a parent below 2, or one `kill()` does not reach, for the
end of the server; so the cleanup process of a server numbered 1 leaves at once
(finding 4), and one adopted by a reaper that may be signalled never does (the
exception in `NoOrphan`).

`Next` is what the two processes and their clients do (`Running`) and what is
done to them from outside (`Disturbance`).  `UndisturbedSpec` has no
disturbance: finding 4 needs none.

### Connections, Conversations

All connections of a server, from the backlog of the listening socket to the
end of the reply.  `client[c]` is the `Client` of the connection of peer `c`,
reduced to what it holds and waits for: `client_fd`, `read_fd`, whether there is
a mapping, whether the read event is registered (`armed`), how many bytes its
bufferevent has to write (`outbuf`), and whether `bufferevent_write` failed
(`unsent`; the code does not look).  `table` is the process's descriptor table
beyond its fixed entries, `zones` its mappings, `sent` what lies in each
socket's send buffer, `heard` how much of it the peer has read.  `close()` leaves
the peer what the kernel has taken (`CloseSocket`): such a peer is "over", reads
the rest, and is away after the last byte.  A peer has one connection at a
time: two connections of one host are two peers.

| Code | Actions |
|---|---|
| `new_client` | `NewClient`; it is not enabled while `accept()` would fail |
| `client_read` without a complete request | `ReadEnds`, `Timeout`; a read that re-arms the event is a stuttering step |
| `client_read` with one, and the handler | `HandleUpdate` (store, delete), `HandleFetch` |
| `client_disconnect` | `ClientDisconnect`, `CloseSocket`, part of the action that calls it |
| bufferevent callbacks | `Write` (with `returncode_bufferev_write_cb` when the last byte is taken), `WriteFails` |
| no handler for SIGPIPE | `Sigpipe` |
| the other side | `Connect`, `PeerReads`, `PeerCloses` |

A handler is one step here: the server runs one callback at a time, and what a
handler does to the directory is `Storage`'s subject.  `HandleFetch` hands
`client_disconnect` either the structure without a file (every failure before
or up to `mmap`, after which the code has closed the file itself) or with file
and mapping (`bufferevent_new` failed).

`Conversations` is what a peer is promised, without descriptors or buffers: its
turn, in the order of arrival; one question; one answer, which a peer that
stays hears to the last byte.  The service ends by a peer that leaves while it
is told its answer (finding 5), and by nothing else.  `ImplementsConversations`
maps a connection to `Stage(c)` and to `Due(c)`, the bytes its peer has still to
hear: those in the bufferevent and those in the kernel.  A `Write` that moves
bytes from one to the other is a stuttering step, and so is the close after the
last; `Hear` is `PeerReads`.  "mute" is an answer `bufferevent_write` did not
queue.

### Sessions

Any number of PHP processes (`php`), each running one script at a time in the
order PHP calls the session handler: `open`, `read`, the script, `write` or
`destroy`, `close`.  `php[p].fp` is `$GLOBAL_SHAREDANCE_FP`.  The script is the
one of `php/test_session.php`, or one that destroys the session; what it keeps
in the session is its counter.

| Code | Actions and operators |
|---|---|
| `sharedance_open`, `_reopen`, `_close` | `SharedanceOpen`, `Send`, `SharedanceClose`, `CannotReopen` |
| `open` | `Open`; if it fails nothing changes: a stuttering step |
| `sharedance_fetch`, `read` | `Fetch`, then `FetchReturns`, `FetchCut` or `TimesOut` |
| `sharedance_store`, `write` | `Store`, then `UpdateReturns` or `TimesOut` |
| `sharedance_delete`, `destroy` | `Destroy`, then the same |
| the server | `Serve`, `TakeEffect`, `Return`, `Refuse`, `Drop`, `Evict`: the actions of `EphemeralMap` and what they do to the connection served |

A connection (`conn[c]`) outlives `fclose()`: a script that has given up leaves
a request which the server may still carry out, after a later one.  That is why
connections are objects of their own and why the server chooses any of those
waiting.  A reply cut short is undecodable to PHP, which then destroys the
session (`FetchCut`); this and `default_socket_timeout` are PHP's, not this
repository's.  `reloads` counts what the scripts were told was stored; `quiet`
becomes false at the first failure, eviction, timeout or overlap of two scripts
on one session.

### CommandLine, CommandMeaning

`CommandLine` is `pure_getopt_long`, built in where the C library has none, as
`main` calls it, with the switch of `main`.  A word is a sequence of pieces: a
dash, "=", the letters of a cluster, a value, and in a long option the name, or
a beginning of one.  `argv[n]` is the position at which the word now at `n` was
typed: the array is one of pointers, and only their order changes.

| Code | Actions and operators |
|---|---|
| `pure_getopt_internal`, at the beginning of a word | `EndOfVector`, `Operand`, `DoubleDash`, `OptionWord` |
| in a word | `ShortOption`, `LongOption` (`pure_parse_long_options`), `TakeNext` |
| `pure_permute_args`, `pure_gcd` | `Permute` (the call), `Gcd` (one division), `Swap` (one exchange of two pointers), `Permuted` (the return, in each of the callers) |
| the switch of `main` | `Take` (`strdup` may fail), `Refuse` (`usage`, `return 1`), `Accepts` |
| `POSIXLY_CORRECT` | `posix` |

`CommandMeaning` has the table of options and the limits of the switch, and a
reference definition that knows no scan: which words are arguments of the word
before (`Arguments`), where the options end (`LastWord`), which word is refused
(`Unacceptable`), and the value each option is given last (`Meaning`).  That the
scan agrees with it on every line is `OptionsTaken`; that it leaves the options
in front and the operands behind, each in the order typed, is `Arranged`.

A numeric value is 0, 1, 20 or no number; these tell apart what the limits of
the switch do.

### Startup

`main` up to `fork()`: `ParseOptions` (a step of `CommandLine`), `Socket`,
`Daemonize` (`dodaemonize`), `Chroot`, `ChangeUidGid`, `Fork`.  `pc` is the step;
any call may fail.  The program starts as any user, with any of its descriptors
open on a terminal, on something else, or closed.  `fds` is the descriptor
table; `WithoutTerminals` and `StandardNull` are the two loops of `daemonize.c`.
A directory is the sequence of the words on the way to it, and `Resolved` looks a
name up: "/", an absolute name, ".", ".." or another.  Nothing in the code
excludes the first: with `--directory=/`, or with `.` or `..` and `--daemonize`
(the working directory is `/` by then), `chroot` leaves the root where it was,
and the server serves from `/`.

The properties name their exceptions, which are in the code:

- `OwnDirectory`: `dodaemonize` changes to `/` before `chroot()` resolves the
  storage directory, so a relative `--directory` (hazard at `daemonize.c:64`)
  means another directory with `--daemonize` than without;
- `StillListening`: a server started without its standard descriptors, and
  daemonized, has its listening socket replaced by `/dev/null`;
- `NoHalfIdentity`: it is about a start with both `--uid` and `--gid`.  The
  result of `changeuidgid` is ignored, and any of its calls may fail; but none
  that gives up the user root keeps its group or its groups.  With `--uid` alone
  the group "asked for" is 0, root's: finding 6.  A server whose `setgroups`
  fails goes on as root, and so does one that is given `--gid` alone.

## 4. Runs

| Run | Question | Result |
|---|---|---|
| `client_read` | Every stream of up to 17 bytes cut in every way: bounded buffer, event registered exactly while reading, nothing whole refused, framing, every connection ends | holds |
| `client_read_eof` | Is the end of the stream noticed? | **no**, finding 1 |
| `storage` | One key, values of no, one and two bytes, failures of any call, one death of the server, two cleanup processes that may die: an atomic map that forgets; is a published file what its store wrote, and never rewritten; does everything expired go, and only that? | holds |
| `storage_torn` | Are files filled atomically when the disk is full? | **no**, finding 2 |
| `storage_early_expiry` | Is only expired data removed? | **no**, finding 3 |
| `processes` | Signals and deaths in every order, in or out of a container: does each process end with the other, is every connection accepted although `accept()` may fail, and when does the event loop block? | holds, with the exceptions named by the properties |
| `processes_two` | Nobody kills or signals anything: does the server never run alone? | **no**, finding 4 |
| `connections` | Four peers, three descriptors: does anything leak, wait for nothing, or wait for ever to be accepted; does every peer have the conversation it is promised? | holds |
| `sessions` | Two PHP processes on one session: is each reply the script's own, each socket closed, each load of an undisturbed session counted, and does each script end? | holds |
| `startup` | Every short command line, every descriptor table and every failing call: are the options those the line asks for, is the server in its directory, does it listen, whose identity has it, does the start end? | holds, with the exceptions named by the properties |
| `startup_privileges` | Has a server that gives up the user root none of root's groups? | **no**, finding 6 |
| `connections_sigpipe` | Does a reply that cannot be written end one connection only? | **no**, finding 5 |

Each property of a run that holds is paired in `PROJECT.json` with a mutant: a
plausible bug in a definition (an operator such as `ExpiredAtOrPast` or
`WorkFileInPlace`, kept next to the definition it replaces) under which TLC
finds the property violated.

**Findings.**  They are behaviours of the code; the quotations are in
`PROJECT.json`.

1. `process.c:364`: `errno` is tested before the return value of `read` is
   compared with 0.  After an interrupted read, of any connection, a closed
   connection is re-armed at once, and again.
2. `process.c:178`: a failed `safe_write` is logged, and the incomplete file is
   published and acknowledged.
3. `expire.c:29`: `cleanup_dir` unlinks a name, which may stand for a new file
   since the `stat`: a value stored and acknowledged meanwhile is lost.
4. `expire.c:41`, `sharedanced.c:337`: as process 1 of a container the server is
   left by its cleanup process, which takes it for a parent that has died; and
   if that is before the handler for its death is registered, the server goes on
   alone.  On other systems it does so if the cleanup process is killed then.
5. `process.c:279` (and 207, 329): SIGPIPE is handled nowhere, so a peer that
   closes before its reply is written ends the server.
6. `sharedanced.c:55`: `--uid` without `--gid` leaves the group 0, because `gid`
   is 0 unless given and `setgroups` and `setgid` are called with it.

**Bounds.**

- `client_read`: `ChunkSize` 4 and `MaxReadSize` 12 are such that a store
  header (9 bytes) takes three reads, a header with one more byte (10) is below
  the limit, requests of 11, 12 and 13 bytes lie on each side of it and 16, 17
  on each side of `MaxReadSize + ChunkSize`; every comparison of the code is
  met at equality and on both sides.  One interrupted read is enough for
  `errno` to stay at EAGAIN.
- `storage`: a value of two bytes is the shortest that two `write()`s may fill,
  or that may be cut short with a byte in it; it is the one the disk may lack
  room for.  The empty one is the special case of fetch, and a third, of one
  byte, may follow in the temporary file that a longer one has left.  One key,
  because the names of different keys are disjoint (proved:
  `NameFacts`) and the server handles one request at a time; two slots for
  cleanup processes, the old one and the new; `Expiration` 1 and a clock up to
  2 give files at, below and beyond their age.  The theorems of `StorageProofs`,
  `MapImplemented` among them, are for any number of each.
- `processes`: two connections and two SIGTERMs, so that one is pending when
  the other comes, and one connection can be dropped and another end the wait;
  all 24 systems.
- `connections`: three descriptors hold three sockets, or one socket and a
  connection with its file; either fills the table while a fourth peer waits,
  and a fetch then meets a full table.  A reply of two bytes over a send buffer
  of one needs two writes, with the peer's reading in between.
- `sessions`: two scripts are what it takes to overlap, on one session; two
  connections let a request that was given up meet a later one, and run out
  when both are taken; counts up to 2 tell the first load (no session), the
  second (a counter of 0, which is false in PHP) and a third apart.
- `startup`: descriptors 0 to 4, the three standard ones and two more, one of
  which the socket may take; the loop of `dodaemonize` has two turns.  The lines
  (`MCLines`) are all those of up to three of 22 words, which have every form of
  option, argument, abbreviation and error; all of four and five of fewer words
  and of six of three, so that blocks of 1 to 5 words are exchanged in one, two
  and three cycles; and `PlainLines`, each combination of the options that
  matter later (`--directory` with a name, "/", "." and ".."), with every
  identity or every descriptor table.

Deadlock is checked in `sessions`, which goes on for ever.  It is not in the
others, which really stop: a connection ends, the processes end, the start is
over, a dead server has no steps, and in `Storage` the clock, the crashes and
the slots for cleanup processes are used up.

**Fairness.**

- `ClientRead`: libevent runs the callback of a registered event whose
  descriptor is readable or whose timeout has passed (`WF` of `ReadBytes \/
  ReadTimeout` and of `ReadEof`).  The peer owes nothing.  `ReadingEnds` has a
  premise: the peer does not close, or `errno` settles; finding 1 is the case it
  leaves out.
- `Storage`: the system schedules the cleanup processes (`WF` of
  `CleanerStep`); a step may be the failure of a call.  `ExpiredPurged` has a
  premise instead: from some moment on no call of a cleanup process fails
  (`<>[][NoCallFails]_vars`), for while `unlink`, `stat` or `readdir` fails in
  each pass, expired files stay.
  The server and the clock are not fair: the property needs neither, only
  that the server and its cleanup process stay up (`Attended`).
- `Processes`: `main` runs on to the event loop, libevent calls back a listening
  socket with a connection, `accept()` returns when there is one, with it or with
  an error (`WF` of `AcceptReturns`), a cleanup process that is not stopped is
  scheduled, and the end of process 1 ends its container.  The signal callbacks
  have `SF`: they are not enabled inside `new_client`, and an `accept()` that
  fails again and again must not keep them waiting; libevent looks for caught
  signals in each turn of its loop, whatever else is ready.  `ConnectionsAccepted`
  has the premise that `accept()` does not fail for ever (`SF_vars(Accept)`): a
  full descriptor table is the subject of `BacklogServed`, in `Connections`, which
  says when it empties.  Nothing obliges a process to die or to be continued, or
  a peer to connect: hence the exceptions (`cleaner = "stopped"`, `Blocked`) in
  the liveness properties.
- `Connections`: libevent calls back a ready listening socket, a read timeout,
  a writable or broken socket.  A peer cannot put the timeout off for ever: each
  byte counts towards `max_read_size`.  Once it has closed, finding 1 may keep
  the connection; peers owe nothing.  `BacklogServed` therefore names what it
  needs: replies were queued, closed peers are noticed, and peers go on reading
  their replies, because writing has no timeout (`process.c:207`).  Without the
  last premise it fails, which is what "`--timeout`: disconnect after xxx seconds
  without data" (`README:113`) does not tell.
- `Startup`: the program is scheduled (`WF` of `Next`); each call returns.
- `Sessions`: PHP runs its scripts, and its sockets time out (`WF` of `Sends(p)`
  and `Receives(p)`).  The server owes nothing: `ScriptsEnd` holds whatever it
  does.

## 5. Proofs

Every safety property of a passing run, action properties and refinements
included, is a theorem here; what is left to TLC is liveness.  All theorems hold
for every value of the constants that satisfies the named assumptions:
`SizesAssumption` (the option limits of `sharedanced.c:217-232`),
`StorageAssumption` (lengths and times are natural numbers),
`ProcessesAssumption`, `ConnectionsAssumption` (descriptors and sizes are
natural numbers), `SessionsAssumption` (`MaxCount` is one, and there is a
"no connection" and a "no session"), and `StartupAssumption` (there is a descriptor 4, and
command lines are sequences of words).

**ClientReadProofs.**  `TypeCorrect`, `BufferIsBounded`, `EventRegistration`,
`NoWholeRequestRefused`, and `FramingImplemented` (the refinement).  The
inductive invariant adds three things: the bytes read and unread add up to what
the peer sent, and a connection still read is below the limit (`BufferInv`); the
structure is either undecoded, with no more bytes than a header, or holds
exactly what the peer declared, with fewer bytes than the request while it is
read and just as many when it is dispatched (`HeaderInv`); and what each reason
for closing says of the peer (`RefusalInv`).  The last is what makes
`WholeRequestNotRefused` inductive: the property speaks of a connection after
its buffer is gone.  Three theorems say what follows for the rest of the server.
`RequestsHandedOver`: a handler is given the command and the lengths that the
peer declared, and a buffer with all of its bytes and no others.
`RefusedForCause`: a peer that is refused for its contents has sent something
wrong, missing, in excess or too long.  `OutcomesFinal`, an action property: no
callback reads into a `Client` that was handed over or freed.

**StorageProofs.**  The invariant `SInv` relates the temporary file to the
handler: in the middle of a store, if the temporary file is still there, it
holds the request's value and exactly `written` bytes, and `written` is the
whole size when `rename()` is reached unless the value is in `TooLarge`
(`StoreInv`); each handler has its request (`HandlerInv`); the clock of a pass is never ahead
and a doomed name is a name (`CleanerInv`).  From it:

- `TypeCorrect`, `PurgeOnlyExpired`: the invariants of `storage`;
- `PublishedImmutable` and `PublishesItsOwn`: the two action properties, because
  `rename` is the only step that gives a file the name of a key (`RenameOnly`),
  and the file it gives it to is this store's own, whatever an earlier one may
  have left under that name: `O_TRUNC` (`CreatedFile`) is what it rests on;
- `FilledWhenRoom`: a value the disk has room for is under its key whole or not
  at all; where there is room for all, files are filled atomically
  (`FilledAtomicallyWithRoom`), and this and finding 2 together say exactly when;
- `MapImplemented`: `Storage` implements `EphemeralMap`, for any number of keys,
  cleanup processes and deaths, and whichever calls fail;
- `AnswersAreWhole`: no client is answered a part of a value that the disk has
  room for.  It is proved of `EphemeralMap` alone, with an
  invariant of the map (`MapWhole`), and carried over by the refinement;
- `PassesOverlookNothing` and `NothingExpiredLeft`: `readdir` need not return a
  file created during the pass, and the handlers create, rename and unlink files
  all the time; yet, as long as the calls of the cleanup processes succeed, each
  file that had expired when the pass began is removed by it or still listed, so
  that none is left when `readdir` ends.

The last two have two premises.  `[][NoCallFails]_vars`: a `stat`, `unlink` or
`readdir` that fails is ignored (`expire.c:23-29`), and leaves a file the pass
should have removed.
`[]PromptStores`: no store takes so long that its temporary file expires before
it is renamed; otherwise the rename gives a key an expired file under a name that the pass need
not see, and the file waits for the next pass.  `ExpiredPurged` needs the first
from some moment on only, and the second not at all, because there is a next
pass.  The proof follows each file through the
steps of others: one lemma (`PassFrame`) for all steps that leave a pass where
it is, and one case for each way in which a name gets another file.

**ProcessesProofs.**  `TypeCorrect`, `EndIsComing` (`DeafOnlyWhileDying`),
`WaitsForDropsOnly` (`NeverBlocked`) and `DeathsNoted`, on every system.  `DeafOnlyWhileDying`
is not inductive: that a SIGTERM to a cleanup process already dead does not
leave the server deaf for ever needs `DeathNoted`, the death of the cleanup
process is pending at a living server or was missed.  This is also what
`CleanerDeathEndsServer` needs besides fairness (`DeathsNoted`).  `NeverBlocked` holds
because only `Accept` and `Reset` take from the queue, and `new_client` is
called from the loop (`AcceptsInLoop`) and once for each connection.

**ConnectionsProofs.**  `TypeCorrect`, `NoLeak` (`ResourcesOwned`), `OneEvent`
(`OneEventEach`) and `ConversationsImplemented` (the refinement), for any number
of peers and descriptors.
`ResourcesOwned` alone is not inductive.  A fetch overwrites `read_fd`, which
would lose a descriptor were one open already: `NothingFetched`, nothing is open
for a connection still read, excludes it.  `NewClient` overwrites the structure
of the peer it accepts: `BacklogInv`, a peer waits at most once and not while it
is served, excludes that.  The argument turns on one lemma, `DisconnectStep`:
`client_disconnect`, given a structure and the descriptors and mappings as they
are at that point of a handler (`Handed`), releases all the connection has and
nothing of any other.  The refinement needs `ReplyInv` besides: bytes lie in the
kernel, or have been read, only for a peer whose reply is being written or which
is "over", so that a new connection starts with nothing heard.  Each action is
shown to change what `Conversations` sees of its own peer only (`Shown`), and as
one of the abstract actions or not at all.  From the refinement follows the
action property `AnswersReachTheirPeers`: while a peer stays and the server is
up, the bytes read and the bytes due add up to the same at each step, and the
answer ends with its last byte.  `DescriptorsInHands` is what `BacklogServed`
needs besides fairness: a full descriptor table means a connection that is read
with a timeout, is written to, or has a reply that could not be queued.

**CommandLineProofs.**  `WordsKept` (`EachWordOnce`) and `ExchangesInBlocks`,
for every command line.  The invariant `LineInv` says where the two blocks are
(`Blocks`), that neither is empty while they are exchanged and that `pure_gcd`
never leaves more cycles than the second has words (`Cycles`), that a cycle
stays in the blocks (`InBlocks`), and that what is ahead of the scan has not
moved (`Ahead`).  From these, no division is by 0, no exchange reaches outside
the two blocks, and since each one swaps two different places or none, no word
is lost.

**CommandScanProofs.**  `OptionsAsMeant` (`OptionsTaken`) and `OperandsArranged`
(`Arranged`), for every command line, and that the scan ends.  The invariant
`ScanInv` compares the scan with the meaning of the line at every step:

- `ReadSoFar` and `InAWord`: before a word no option was refused and the options
  have the values that the words before it give last; in a word, the same with
  the letters read so far;
- `Finished`: at the end the whole line has been read, or refused;
- `GoesOn`: what the callers of `pure_permute_args` rely on after its return;
- `Sorting`: the operands passed over are one block, in the order typed, and so
  are the options around them;
- `Dividing` and `Moving`: what `pure_gcd` has still to find, and how far the
  exchanges have come.

`Arguments`, which words belong to the word before, is a recursive function.
That it is the alternation its definition says (`ArgumentsAre`) is shown without
the induction theorems of the library: were there a word for which it fails,
there would be a first one (`LeastOf`, from the well-foundedness of `<`).

The exchange of two blocks is arithmetic.  `CyclesNumbered`: two blocks of `nn`
and `no` words fall into as many cycles as the greatest common divisor of the
lengths, each of the same length.  The number of a word's cycle is its distance
from the second block modulo the divisor, and its place in the cycle is counted
with the coefficients of Bezout's identity, which the divisions of `pure_gcd`
yield backwards (`CommonAtFirst`, `CommonAfterStep`, `CommonAtLast`).  With this
numbering `HalfMoved` says which words have moved already: those of earlier
cycles, and those earlier in this one, while the word the cycle began with
travels on at its first position.  `BlocksExchanged`: when all cycles are done,
the blocks have changed places and each has kept its order.

`ScanShortens`: every step lessens `Left`, five numbers compared as in a
dictionary: the stage, the words ahead, the work on this word, its letters or
divisions or cycles, and the exchanges left in the cycle.  `ShorterEnds`: that
order is well-founded, so every scan ends, however the line is written.

**StartupProofs.**  `TypeCorrect`, `WordsOnce`, `OptionsRead` (`OptionsTaken`),
`OperandsLast` (`Arranged`),
`InTheNamedDirectory` (`OwnDirectory`), `SocketSpared` (`StillListening`),
`TerminalsClosed` (`NoTerminal`) and `Identity` (`NoHalfIdentity`), for any
command line and number of descriptors.  `StartScans` shows that a start does to
the command line what `CommandLine` does and nothing else, which brings its
theorems here.  The invariant records for each step what the earlier ones have
settled.  `StartShortens` and `SoonerEnds` extend the measure of the scan to the
steps of `main`: no start goes on for ever, which is what `StartEnds` needs
besides fairness.

**SessionsProofs.**  `TypeCorrect`, `OwnReply` (`WaitsForOwnReply`),
`SocketsClosed` (`NoSocketLeft`), `LoadsCounted` (`EveryLoadCounted`) and
`ServerIsMap`, for any number of scripts, sessions and connections.  The invariant has two parts.
`BaseInv` holds always: what a process at each step holds and waits for
(`ProcInv`), and that the one request the server has is the one its connection
carries (`ServingInv`), whether or not PHP is still there.  `QuietInv` speaks of
quiet states only: it says of each active script what the map holds while its
request is sent, served, in effect or answered (`Undisturbed`), that no other
script has its session, and that no request has been given up; this is what
`EveryLoadCounted`, which speaks of idle sessions, leaves out.  Each step
changes one process or one connection; `ClientStep` and `DoneStep` say once
what that leaves of the others.  `ServerIsMap` closes the gap between the two
ends: the server that the scripts share takes steps of `EphemeralMap` and no
others, and `MapImplemented` says that the system calls of `Storage` provide them.

**Only model-checked:** the liveness properties, which rest on fairness and
`ENABLED` and are beyond the prover.  Of five of them the part that is safety is
proved: `StartEnds` (`StartShortens`), `ExpiredPurged` (`NothingExpiredLeft`),
`CleanerDeathEndsServer` (`DeathsNoted`), `BacklogServed` (`DescriptorsInHands`)
and `ReadingEnds` (`EventRegistration`: a connection still read has its event).
`TermEndsServer`, `NoOrphan`, `ConnectionsAccepted` and `ScriptsEnd` rest on TLC
alone.  So do the six runs that end in a violation:
each is one behaviour, which TLC shows.

## 6. Not modelled

- The `getopt_long` of a C library that has one: where it is built in instead of
  `bsd-getopt_long.c` the scan is the library's.  Of the latter, what `main`
  does not use: optional arguments, `-W`, flags, `pure_getopt_long_only`.
- The text of option values: `strtoul` wraps negative and very large numbers,
  and the names that `getaddrinfo` resolves are its own affair.
- The process title, the locale, the umask, the descriptor of `syslog`.
- Other PHP programs than the two scripts of `Sessions`, and concurrent use of
  the client functions without the session handler (`php/test_sharedance.php`).
- Lost updates of a session, and a `read()` that cannot tell an absent session
  from a server that did not answer (`session_handler.php:23-30`): nothing in
  the code prevents either, and `EveryLoadCounted` leaves them out.
- Power failure: nothing is synced before the rename (`process.c:187`), and
  what survives depends on the file system.  `Crash` is a death of the process.
- The clock is monotonic, and both processes share it; `time_t` does not wrap.
- `size_t` has 64 bits: the sum of two 32-bit lengths and 9 does not wrap.
- Files in the directory that the server did not create.
- Logging; the replacements of `snprintf`, used for log messages only, and
  `gettext.h`; the PHP examples.
