------------------------------ MODULE ClientRead ------------------------------
(***************************************************************************)
(* One connection of the server, from accept() to the moment its request   *)
(* is handed to a store, fetch or delete handler or the connection is      *)
(* dropped: new_client() and client_read() of src/src/process.c.           *)
(*                                                                         *)
(* A request on the wire is a header (command byte, 4-byte key length and, *)
(* for a store, 4-byte data length), the key and the data.  The bytes are  *)
(* abstracted to what client_read tells apart: which command the first     *)
(* byte names, the two lengths the header declares, and how many bytes the *)
(* peer ever sends.  TCP cuts that stream into reads wherever it likes.    *)
(***************************************************************************)
EXTENDS Integers

CONSTANTS
  ChunkSize,    \* read_chunk_size, option --readsize
  MaxReadSize,  \* max_read_size, option --maxreadsize
  Lengths,      \* the key and data lengths a peer may declare
  MaxStream,    \* bound: the most bytes one peer sends
  MaxWakeups,   \* bound: interrupted reads of one connection
  OthersActive  \* other connections are served too and leave their errno

(* --readsize must be at least 1 and --maxreadsize at least 10             *)
(* (sharedanced.c:217-232).                                                *)
ASSUME SizesAssumption ==
  /\ ChunkSize \in Nat \ {0}
  /\ MaxReadSize \in Nat /\ MaxReadSize >= 10
  /\ Lengths \subseteq Nat
  /\ MaxStream \in Nat
  /\ MaxWakeups \in Nat
  /\ OthersActive \in BOOLEAN

VARIABLES
  peer,      \* what the peer sends: [first, key, data, bytes], fixed
  unread,    \* bytes of the peer's stream that read() has not returned yet
  eof,       \* the peer has closed its side and the server can see it
  errno,     \* the process-wide errno: "again" (EAGAIN, EINTR) or "other"
  phase,     \* "queued", "reading", "dispatched" or "closed"
  armed,     \* ev_client_read is registered with libevent
  client,    \* the Client structure
  why,       \* history: the branch that closed the connection
  wakeups    \* interrupted reads so far, bounded by MaxWakeups

vars == <<peer, unread, eof, errno, phase, armed, client, why, wakeups>>
environment == <<peer, eof>>

Commands == {"store", "fetch", "delete"}

Peers == [first : Commands \cup {"unknown"}, key : Lengths, data : Lengths,
          bytes : 0 .. MaxStream]

(* Bytes in front of the key.                                              *)
Header(command) == IF command = "store" THEN 9 ELSE 5

(* The length of the request the peer's header declares.                   *)
Declared(p) ==
  Header(p.first) + p.key + (IF p.first = "store" THEN p.data ELSE 0)

(* The structure as malloc() returns it, client_command not initialised.   *)
NewClientStructUninitialised ==
  [sizeof_read_buf |-> 0, offset_read_buf |-> 0, client_command |-> "unknown",
   key_len |-> 0, data_len |-> 0, total_len |-> 0]

Client ==
  [sizeof_read_buf : Nat, offset_read_buf : Nat,
   client_command : Commands \cup {"undef"},
   key_len : Nat, data_len : Nat, total_len : Nat]

NewClientStruct ==
  [sizeof_read_buf |-> 0, offset_read_buf |-> 0, client_command |-> "undef",
   key_len |-> 0, data_len |-> 0, total_len |-> 0]

-----------------------------------------------------------------------------
(* new_client: the connection is accepted and its read event armed, or     *)
(* dropped for want of memory.                                             *)
NewClient ==
  /\ phase = "queued"
  /\ \/ phase' = "reading" /\ armed' = TRUE /\ UNCHANGED why
     \/ phase' = "closed" /\ why' = "memory" /\ UNCHANGED armed
  /\ client' = NewClientStruct
  /\ UNCHANGED <<environment, unread, errno, wakeups>>

(* client_disconnect: the structure is freed; the read event, not          *)
(* persistent, is no longer registered when its callback runs.             *)
ClientDisconnect(reason) ==
  /\ phase' = "closed"
  /\ armed' = FALSE
  /\ why' = reason

(* A return without the event_add() that waits for more bytes.             *)
RearmForgotten ==
  /\ armed' = FALSE
  /\ UNCHANGED <<phase, why>>

(* event_add(&client->ev_client_read, &timeout): wait for more bytes.      *)
Rearm ==
  /\ armed' = TRUE
  /\ UNCHANGED <<phase, why>>

(* Handing over with the read event still registered (EV_PERSIST).         *)
DispatchStillArmed ==
  /\ phase' = "dispatched"
  /\ UNCHANGED <<armed, why>>

(* client_process_store, _delete or _fetch takes the request over.  The    *)
(* read event is not registered again.                                     *)
Dispatch ==
  /\ phase' = "dispatched"
  /\ armed' = FALSE
  /\ UNCHANGED why

-----------------------------------------------------------------------------
(* The buffer after the realloc at the top of client_read: room for at     *)
(* least one more chunk behind the bytes already there.                    *)
Grown(c) ==
  LET needed_size == c.offset_read_buf + ChunkSize
  IN  IF c.sizeof_read_buf < needed_size
      THEN [c EXCEPT !.sizeof_read_buf = needed_size]
      ELSE c

(* Two wrong tests: one that looks at the lengths before they are there,   *)
(* one that asks a fetch or delete for the longer header of a store.       *)
HeaderArrivedEarly(c) == c.offset_read_buf >= 4
HeaderArrivedLate(c) == c.offset_read_buf > 9

(* Enough bytes have arrived to decode the header of the command.          *)
HeaderArrived(c) == c.offset_read_buf > Header(peer.first)

(* The values a 4-byte length field ending before byte `end' can decode    *)
(* to: what the peer declared once it has been received, and anything as   *)
(* long as a part of it is still uninitialised heap.                       *)
Decoded(c, end, declared) ==
  IF c.offset_read_buf >= end THEN {declared} ELSE Lengths

(* The header-decoding part of client_read, on a structure that counts the *)
(* bytes just read.                                                        *)
Decodable(c) ==
  /\ c.client_command = "undef"
  /\ peer.first \in Commands
  /\ HeaderArrived(c)

DecodeHeader(c) ==
  IF Decodable(c)
  THEN \E k \in Decoded(c, 5, peer.key),
          d \in IF peer.first = "store" THEN Decoded(c, 9, peer.data) ELSE {0} :
         client' = [c EXCEPT !.client_command = peer.first,
                             !.key_len = k,
                             !.data_len = d,
                             !.total_len = Header(peer.first) + k + d]
  ELSE client' = c

UnknownCommand(c) ==
  /\ c.client_command = "undef"
  /\ peer.first \notin Commands

(* What client_read does with a buffer that holds c.offset_read_buf bytes, *)
(* its tests in the order of the source.                                   *)
Complete(c) == c.total_len > 0 /\ c.offset_read_buf = c.total_len
TooMany(c)  == c.total_len > 0 /\ c.offset_read_buf > c.total_len
AtLimitOffByOne(c) == c.offset_read_buf > MaxReadSize
AtLimit(c)  == c.offset_read_buf >= MaxReadSize

Decide(c) ==
  \/ UnknownCommand(c) /\ ClientDisconnect("unknown")
  \/ ~ UnknownCommand(c) /\ Complete(c) /\ Dispatch
  \/ ~ UnknownCommand(c) /\ TooMany(c) /\ ClientDisconnect("too many")
  \/ /\ ~ (UnknownCommand(c) \/ Complete(c) \/ TooMany(c))
     /\ IF AtLimit(c) THEN ClientDisconnect("limit") ELSE Rearm

-----------------------------------------------------------------------------
(* The ways one call of client_read for EV_READ can go.                    *)

Readable == phase = "reading" /\ armed

(* read() returned n bytes, at most the room left in the buffer.           *)
ReadBytes ==
  /\ Readable
  /\ LET c == Grown(client)
     IN  \E n \in 1 .. unread :
           /\ n <= c.sizeof_read_buf - c.offset_read_buf
           /\ unread' = unread - n
           /\ DecodeHeader([c EXCEPT !.offset_read_buf = @ + n])
           /\ Decide(client')
  /\ UNCHANGED <<environment, errno, wakeups>>

(* read() failed with EINTR or EAGAIN: try again later.                    *)
ReadInterrupted ==
  /\ Readable
  /\ wakeups < MaxWakeups
  /\ wakeups' = wakeups + 1
  /\ errno' = "again"
  /\ client' = Grown(client)
  /\ Rearm
  /\ UNCHANGED <<environment, unread>>

(* read() returned 0.  The test on errno comes first, and read() does not  *)
(* set errno when it succeeds: the value is the one an earlier call left.  *)
ReadEof ==
  /\ Readable
  /\ eof /\ unread = 0
  /\ client' = Grown(client)
  /\ IF errno = "again" THEN Rearm ELSE ClientDisconnect("eof")
  /\ UNCHANGED <<environment, unread, errno, wakeups>>

(* read() failed, the connection was reset.                                *)
ReadError ==
  /\ Readable
  /\ errno' = "other"
  /\ client' = Grown(client)
  /\ ClientDisconnect("error")
  /\ UNCHANGED <<environment, unread, wakeups>>

(* realloc() failed.                                                       *)
OutOfMemory ==
  /\ Readable
  /\ client.sizeof_read_buf < client.offset_read_buf + ChunkSize
  /\ ClientDisconnect("memory")
  /\ UNCHANGED <<environment, unread, errno, client, wakeups>>

(* EV_TIMEOUT: no event for --timeout seconds.  Bytes that arrive together *)
(* with the deadline do not save the connection.  Once the peer's close is *)
(* visible the descriptor stays readable and every event_add starts a new  *)
(* timeout, so that the deadline is never reached.                         *)
ReadTimeout ==
  /\ Readable
  /\ ~ eof
  /\ ClientDisconnect("timeout")
  /\ UNCHANGED <<environment, unread, errno, client, wakeups>>

ClientReadCallback ==
  \/ ReadBytes
  \/ ReadInterrupted
  \/ ReadEof
  \/ ReadError
  \/ OutOfMemory
  \/ ReadTimeout

-----------------------------------------------------------------------------
(* The peer closes its side after the last byte it sends.                  *)
PeerClose ==
  /\ ~ eof /\ unread = 0
  /\ eof' = TRUE
  /\ UNCHANGED <<peer, unread, errno, phase, armed, client, why, wakeups>>

(* The callbacks of other connections leave any errno behind.              *)
OtherCallback ==
  /\ OthersActive
  /\ phase = "reading"
  /\ errno' \in {"again", "other"}
  /\ UNCHANGED <<environment, unread, phase, armed, client, why, wakeups>>

Init ==
  /\ peer \in Peers
  /\ unread = peer.bytes
  /\ eof = FALSE
  /\ errno = "other"
  /\ phase = "queued"
  /\ armed = FALSE
  /\ client = NewClientStruct
  /\ why = "open"
  /\ wakeups = 0

Next ==
  \/ NewClient
  \/ ClientReadCallback
  \/ PeerClose
  \/ OtherCallback

(* libevent runs the callback of a registered event when the descriptor is *)
(* readable (more bytes, or the end of the stream) and otherwise when its  *)
(* timeout has passed.  Nothing obliges the peer to send, or the system to *)
(* fail.                                                                   *)
Fairness ==
  /\ WF_vars(ReadBytes \/ ReadTimeout)
  /\ WF_vars(ReadEof)

Spec == Init /\ [][Next]_vars /\ Fairness

-----------------------------------------------------------------------------
(* Properties.                                                             *)

TypeOK ==
  /\ peer \in Peers
  /\ unread \in Nat
  /\ eof \in BOOLEAN /\ armed \in BOOLEAN
  /\ errno \in {"again", "other"}
  /\ phase \in {"queued", "reading", "dispatched", "closed"}
  /\ client \in Client
  /\ why \in {"open", "memory", "unknown", "too many", "limit", "eof",
              "error", "timeout"}
  /\ wakeups \in Nat

(* The bytes read always lie inside the read buffer, and the buffer of one *)
(* connection never reaches the maximum request size plus one chunk: the   *)
(* realloc at the top of client_read and the two "too long" exits at its   *)
(* end together bound the memory a peer can make the server hold.          *)
BufferBounded ==
  /\ client.offset_read_buf <= client.sizeof_read_buf
  /\ client.sizeof_read_buf < MaxReadSize + ChunkSize

(* Exactly the connections still being read have their read event          *)
(* registered.  A path of client_read that forgets event_add() leaks the   *)
(* connection for ever; one that leaves the event registered lets libevent *)
(* call back with a freed Client.                                          *)
ArmedWhileReading == armed <=> phase = "reading"

(* A peer that sends one request, whole and nothing more, no longer than   *)
(* --maxreadsize, is refused only for a cause outside the request: no      *)
(* memory, a broken connection, or too slow a peer.  However TCP cuts the  *)
(* request up, none of the protocol checks of client_read drops it.        *)
OneWholeRequest ==
  /\ peer.first \in Commands
  /\ Declared(peer) > Header(peer.first)
  /\ peer.bytes = Declared(peer)
  /\ peer.bytes <= MaxReadSize

WholeRequestNotRefused ==
  OneWholeRequest /\ phase = "closed" => why \in {"memory", "error", "timeout"}

(* Reading implements its abstract specification: what is dispatched is    *)
(* what the peer declared, completely received.                            *)
outcome ==
  IF phase = "dispatched"
  THEN [status |-> "accepted", command |-> client.client_command,
        key |-> client.key_len, data |-> client.data_len]
  ELSE IF phase = "closed" THEN [status |-> "refused"]
                           ELSE [status |-> "pending"]

Framing == INSTANCE RequestFraming WITH SizeLimit <- MaxReadSize + ChunkSize

ImplementsFraming == Framing!Spec

(* Every accepted connection leaves the reading phase, if the peer stays   *)
(* silent instead of closing or if errno does not stay at EAGAIN or EINTR  *)
(* for ever: the timeout of event_add() or the end of the stream ends it.  *)
ReadingEnds ==
  ([]~eof \/ <>[](errno = "other")) => (phase = "reading" ~> phase # "reading")

(* "Descriptor has disconnected" (process.c:371): a connection whose peer  *)
(* has closed is closed by the server.                                     *)
PeerCloseNoticed == (phase = "reading" /\ eof) ~> (phase = "closed")
===============================================================================
