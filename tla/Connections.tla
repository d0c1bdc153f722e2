------------------------------ MODULE Connections ------------------------------
(***************************************************************************)
(* The connections of the server, all at once, from accept() to the end of *)
(* the reply, and what each holds meanwhile: its descriptors, the mapping  *)
(* of a fetched file, its bufferevent and its registered event.  Each      *)
(* action is one callback of the event loop (new_client, client_read, the  *)
(* returncode_bufferev callbacks of src/src/process.c).  How a request is  *)
(* read byte by byte is the subject of ClientRead, what its handler does   *)
(* to the directory that of Storage; here a handler is one step, for       *)
(* handlers never interleave.                                              *)
(***************************************************************************)
EXTENDS Integers, Sequences

CONSTANTS
  Clients,     \* peers, each with at most one connection at a time
  Fds,         \* descriptors the process may have besides its fixed ones
  MaxReply,    \* bound: bytes of the longest reply
  SendBuffer   \* bytes the kernel takes before the peer has read any

ASSUME ConnectionsAssumption ==
  /\ Fds \subseteq Nat
  /\ MaxReply \in Nat \ {0} /\ SendBuffer \in Nat \ {0}

VARIABLES
  server,   \* "up" or "dead"
  backlog,  \* completed connections that wait for accept(), oldest first
  peer,     \* each peer: "away", "here", "closed" (shut down or reset) or
            \* "over", where it can read what is left of its reply
  sent,     \* bytes of the reply in the kernel, not yet read by the peer
  heard,    \* bytes of the reply that the peer has read
  client,   \* the Client structure of each connection
  table,    \* the descriptor table: what each descriptor is open on
  zones     \* the clients for which a mapping exists

vars == <<server, backlog, peer, sent, heard, client, table, zones>>
peerVars == <<peer, sent, heard>>

Unused == <<"unused">>
Socket(c) == <<"socket", c>>
File(c) == <<"file", c>>

UnusedFds == {fd \in Fds : table[fd] = Unused}

(* No Client structure, or one that has been freed.                        *)
NoClient == [phase |-> "none"]

(* A Client structure.  `armed': ev_client_read is registered; `outbuf':   *)
(* bytes in the output buffer of returncode_bufev, whose write event is    *)
(* registered as long as there are any.                                    *)
ClientStruct ==
  [phase : {"client"}, client_fd : Fds, read_fd : Fds \cup {-1},
   read_mapped_zone : BOOLEAN, returncode_bufev : BOOLEAN,
   armed : BOOLEAN, outbuf : Nat, unsent : BOOLEAN]

Live(c) == client[c] # NoClient

-----------------------------------------------------------------------------
(* client_disconnect, called for a structure r while the descriptor table  *)
(* is t, the mappings are z, and s bytes are in the kernel.                *)

(* Without the close(read_fd) of client_disconnect.                        *)
ClosedSocketOnly(r) == {r.client_fd}

Closed(r) == {r.client_fd, r.read_fd}

(* Nothing is left of the connection.                                      *)
Away(c) ==
  /\ peer' = [peer EXCEPT ![c] = "away"]
  /\ sent' = [sent EXCEPT ![c] = 0]
  /\ heard' = [heard EXCEPT ![c] = 0]

(* close() leaves to the peer what the kernel has taken for it.            *)
CloseSocket(c, s) ==
  IF peer[c] = "here" /\ s > 0
  THEN /\ peer' = [peer EXCEPT ![c] = "over"]
       /\ sent' = [sent EXCEPT ![c] = s]
       /\ UNCHANGED heard
  ELSE Away(c)

ClientDisconnect(c, r, t, z, s) ==
  /\ table' = [fd \in Fds |-> IF fd \in Closed(r) THEN Unused ELSE t[fd]]
  /\ zones' = IF r.read_mapped_zone THEN z \ {c} ELSE z
  /\ client' = [client EXCEPT ![c] = NoClient]
  /\ CloseSocket(c, s)

Drop(c) == ClientDisconnect(c, client[c], table, zones, sent[c])

-----------------------------------------------------------------------------
(* new_client.                                                             *)

(* The structure as malloc() returns it, read_fd not set to -1.            *)
NewClientStructUninitialised(fd) ==
  [phase |-> "client", client_fd |-> fd, read_fd |-> 0,
   read_mapped_zone |-> FALSE, returncode_bufev |-> FALSE,
   armed |-> TRUE, outbuf |-> 0, unsent |-> FALSE]

NewClientStruct(fd) ==
  [phase |-> "client", client_fd |-> fd, read_fd |-> -1,
   read_mapped_zone |-> FALSE, returncode_bufev |-> FALSE,
   armed |-> TRUE, outbuf |-> 0, unsent |-> FALSE]

(* accept() fails while no descriptor is free; the listen event stays      *)
(* ready and the callback runs again.  Without memory the connection is    *)
(* accepted and closed.                                                    *)
NewClient ==
  /\ server = "up" /\ backlog # <<>>
  /\ backlog' = Tail(backlog)
  /\ LET c == Head(backlog)
     IN  \E fd \in UnusedFds :
           \/ /\ table' = [table EXCEPT ![fd] = Socket(c)]
              /\ client' = [client EXCEPT ![c] = NewClientStruct(fd)]
              /\ UNCHANGED <<peerVars, zones>>
           \/ Away(c) /\ UNCHANGED <<table, client, zones>>
  /\ UNCHANGED server

-----------------------------------------------------------------------------
(* client_read.                                                            *)

Reading(c) == server = "up" /\ Live(c) /\ client[c].armed

(* The connection is given up: protocol error, no memory, broken or closed *)
(* by the peer.                                                            *)
ReadEnds(c) ==
  /\ Reading(c)
  /\ Drop(c)
  /\ UNCHANGED <<server, backlog>>

(* event_add() without a timeout.                                          *)
NoTimeout(c) == FALSE /\ UNCHANGED vars

(* EV_TIMEOUT.                                                             *)
Timeout(c) ==
  /\ Reading(c)
  /\ Drop(c)
  /\ UNCHANGED <<server, backlog>>

(* A handler that leaves the read event registered as well.                *)
QueueReplyStillArmed(c, r, n) ==
  client' = [client EXCEPT ![c] = [r EXCEPT !.returncode_bufev = TRUE,
                                            !.outbuf = n]]

(* The end of a handler: bufferevent_new, then bufferevent_write of n      *)
(* bytes, whose result is ignored.  If it fails nothing is queued and no   *)
(* event is registered.                                                    *)
QueueReply(c, r, n) ==
  \E queued \in BOOLEAN :
    client' = [client EXCEPT ![c] =
                 [r EXCEPT !.armed = FALSE, !.returncode_bufev = TRUE,
                           !.outbuf = IF queued THEN n ELSE 0,
                           !.unsent = ~ queued]]

(* A complete store or delete.  A store closes write_fd before it returns. *)
HandleUpdate(c) ==
  /\ Reading(c)
  /\ \/ UNCHANGED <<table, zones, peerVars>> /\ QueueReply(c, client[c], 1)
     \/ Drop(c)
  /\ UNCHANGED <<server, backlog>>

(* A complete fetch.  The file stays open and mapped until the reply has   *)
(* been written.  It may fail before the file is open or, closing it, in   *)
(* fstat or mmap; and in bufferevent_new, with the file open and mapped.   *)
HandleFetch(c) ==
  /\ Reading(c)
  /\ \/ Drop(c)
     \/ \E fd \in UnusedFds :
          LET r == [client[c] EXCEPT !.read_fd = fd, !.read_mapped_zone = TRUE]
              t == [table EXCEPT ![fd] = File(c)]
              z == zones \cup {c}
          IN  \/ ClientDisconnect(c, r, t, z, sent[c])
              \/ /\ table' = t /\ zones' = z
                 /\ \E n \in 1 .. MaxReply : QueueReply(c, r, n)
                 /\ UNCHANGED peerVars
  /\ UNCHANGED <<server, backlog>>

-----------------------------------------------------------------------------
(* The bufferevent.                                                        *)

Writing(c) == server = "up" /\ Live(c) /\ client[c].outbuf > 0

(* What the kernel takes of the reply.                                     *)
Writable(c) ==
  {n \in 1 .. client[c].outbuf : sent[c] + n <= SendBuffer}

(* The write callback called before the buffer is empty.                   *)
WriteInPart(c) ==
  /\ Writing(c)
  /\ \E n \in Writable(c) :
       ClientDisconnect(c, client[c], table, zones, sent[c] + n)
  /\ UNCHANGED <<server, backlog>>

(* The socket is writable.  When the last byte has been taken,             *)
(* returncode_bufferev_write_cb ends the connection.                       *)
Write(c) ==
  /\ Writing(c)
  /\ \E n \in Writable(c) :
       IF n = client[c].outbuf
       THEN ClientDisconnect(c, client[c], table, zones, sent[c] + n)
       ELSE /\ client' = [client EXCEPT ![c].outbuf = @ - n]
            /\ sent' = [sent EXCEPT ![c] = @ + n]
            /\ UNCHANGED <<table, zones, peer, heard>>
  /\ UNCHANGED <<server, backlog>>

(* The peer has reset the connection: returncode_bufferev_error_cb.        *)
WriteFails(c) ==
  /\ Writing(c) /\ peer[c] = "closed"
  /\ Drop(c)
  /\ UNCHANGED <<server, backlog>>

(* Or the write raises SIGPIPE, whose default action ends the process: all *)
(* that it held is released.                                               *)
Sigpipe(c) ==
  /\ Writing(c) /\ peer[c] = "closed"
  /\ server' = "dead"
  /\ backlog' = <<>>
  /\ peer' = [d \in Clients |-> "away"]
  /\ sent' = [d \in Clients |-> 0] /\ heard' = [d \in Clients |-> 0]
  /\ client' = [d \in Clients |-> NoClient]
  /\ table' = [fd \in Fds |-> Unused]
  /\ zones' = {}

-----------------------------------------------------------------------------
(* The peers.                                                              *)

Connect(c) ==
  /\ server = "up" /\ peer[c] = "away"
  /\ peer' = [peer EXCEPT ![c] = "here"]
  /\ backlog' = Append(backlog, c)
  /\ UNCHANGED <<server, sent, heard, client, table, zones>>

(* After the server has closed, the last byte is followed by the end.      *)
PeerReads(c) ==
  /\ peer[c] \in {"here", "over"} /\ sent[c] > 0
  /\ IF peer[c] = "over" /\ sent[c] = 1 THEN Away(c)
     ELSE /\ sent' = [sent EXCEPT ![c] = @ - 1]
          /\ heard' = [heard EXCEPT ![c] = @ + 1]
          /\ UNCHANGED peer
  /\ UNCHANGED <<server, backlog, client, table, zones>>

PeerCloses(c) ==
  /\ peer[c] = "here"
  /\ peer' = [peer EXCEPT ![c] = "closed"]
  /\ UNCHANGED <<server, backlog, sent, heard, client, table, zones>>

Init ==
  /\ server = "up" /\ backlog = <<>>
  /\ peer = [c \in Clients |-> "away"]
  /\ sent = [c \in Clients |-> 0] /\ heard = [c \in Clients |-> 0]
  /\ client = [c \in Clients |-> NoClient]
  /\ table = [fd \in Fds |-> Unused]
  /\ zones = {}

Served(c) ==
  \/ ReadEnds(c) \/ Timeout(c) \/ HandleUpdate(c) \/ HandleFetch(c)
  \/ Write(c) \/ WriteFails(c) \/ Sigpipe(c)

Next ==
  \/ NewClient
  \/ \E c \in Clients :
       Served(c) \/ Connect(c) \/ PeerReads(c) \/ PeerCloses(c)

(* libevent calls back for every event that is due.  The timeout of a read *)
(* event is due in the end, for a peer cannot put it off with more bytes   *)
(* than max_read_size; except once the peer has closed, for then a read    *)
(* may be taken for an interrupted one and re-armed (see ClientRead).      *)
(* Nothing obliges a peer to send, to read or to close.                    *)
Fairness ==
  /\ WF_vars(NewClient)
  /\ \A c \in Clients :
       /\ WF_vars(peer[c] = "here" /\ Timeout(c))
       /\ WF_vars(Write(c) \/ WriteFails(c) \/ Sigpipe(c))

Spec == Init /\ [][Next]_vars /\ Fairness

-----------------------------------------------------------------------------
(* Properties.                                                             *)

TypeOK ==
  /\ server \in {"up", "dead"}
  /\ backlog \in Seq(Clients)
  /\ peer \in [Clients -> {"away", "here", "closed", "over"}]
  /\ sent \in [Clients -> 0 .. SendBuffer] /\ heard \in [Clients -> Nat]
  /\ client \in [Clients -> ClientStruct \cup {NoClient}]
  /\ table \in [Fds -> {Unused} \cup {Socket(c) : c \in Clients}
                                \cup {File(c) : c \in Clients}]
  /\ zones \subseteq Clients

(* Every descriptor and mapping of the process belongs to exactly one live *)
(* Client, which knows it: none leaks when a connection ends, in whichever *)
(* callback and at whatever point of a handler, and none is closed under   *)
(* another connection.                                                     *)
ResourcesOwned ==
  /\ \A c \in Clients :
       /\ \A fd \in Fds :
            /\ table[fd] = Socket(c) <=> Live(c) /\ client[c].client_fd = fd
            /\ table[fd] = File(c) <=> Live(c) /\ client[c].read_fd = fd
       /\ c \in zones <=> Live(c) /\ client[c].read_mapped_zone

(* Every Client waits for an event that will end it or take it further: it *)
(* reads, or has a reply to write, and never both.  The exception is a     *)
(* reply that bufferevent_write could not queue.                           *)
OneEventEach ==
  \A c \in Clients :
    Live(c) => \/ client[c].armed /\ client[c].outbuf = 0
               \/ ~ client[c].armed /\ client[c].outbuf > 0
               \/ ~ client[c].armed /\ client[c].outbuf = 0 /\ client[c].unsent

(* A connection that waits to be accepted is, even if all descriptors are  *)
(* in use: silent peers are timed out and served ones release what they    *)
(* hold.  That needs peers that go on reading their replies, for writing   *)
(* has no timeout; replies that were queued; and closed peers that are     *)
(* noticed.                                                                *)
Healthy == server = "up" /\ \A c \in Clients : Live(c) => ~ client[c].unsent

PeersBehave(c) ==
  /\ []<>(sent[c] < SendBuffer)
  /\ []<>~(peer[c] = "closed" /\ Reading(c))

BacklogServed ==
  ([]Healthy /\ \A c \in Clients : PeersBehave(c))
    => \A c \in Clients : (backlog # <<>> /\ c = Head(backlog))
                            ~> (backlog = <<>> \/ c # Head(backlog))

(* Every peer has the conversation it is promised: its turn, one question  *)
(* and one answer, which it can read to the last byte as long as it stays; *)
(* and the service ends by a peer that leaves while it is answered, and by *)
(* nothing else.  See Conversations.                                       *)
Stage(c) ==
  CASE peer[c] = "over"                     -> "told"
    [] peer[c] # "over" /\ ~ Live(c)        -> IF peer[c] = "away" THEN "away"
                                               ELSE "waiting"
    [] Live(c) /\ client[c].armed           -> "asking"
    [] Live(c) /\ ~ client[c].armed         -> IF client[c].outbuf > 0 THEN "told"
                                               ELSE "mute"

Due(c) == sent[c] + IF Live(c) THEN client[c].outbuf ELSE 0

Talk == INSTANCE Conversations
          WITH serving <- (server = "up"), line <- backlog,
               stage <- [c \in Clients |-> Stage(c)],
               due <- [c \in Clients |-> Due(c)],
               left <- {c \in Clients : peer[c] = "closed"}

ImplementsConversations == Talk!Spec

(* "Error %d when sending return code to fd #%d" (process.c:98): a reply   *)
(* that cannot be written ends its connection, not the server.             *)
WriteErrorEndsOneConnection == server # "dead"
===============================================================================
