--------------------------- MODULE ConnectionsProofs ---------------------------
(***************************************************************************)
(* Proofs about Connections, for any number of peers and descriptors.      *)
(***************************************************************************)
EXTENDS Connections, TLAPS

(* A peer waits to be accepted at most once, and not while it is served.   *)
BacklogInv ==
  /\ \A i \in 1 .. Len(backlog) :
       ~ Live(backlog[i]) /\ peer[backlog[i]] \in {"here", "closed"}
  /\ \A i, j \in 1 .. Len(backlog) : backlog[i] = backlog[j] => i = j
  /\ \A c \in Clients : Live(c) => peer[c] \in {"here", "closed"}

(* Nothing is open or mapped for a connection still read.                  *)
NothingFetched ==
  \A c \in Clients :
    Live(c) /\ client[c].armed =>
      client[c].read_fd = -1 /\ ~ client[c].read_mapped_zone

(* There are bytes for a peer only while its reply is being written, or    *)
(* once the server has closed behind it.                                   *)
ReplyInv ==
  \A c \in Clients :
    /\ peer[c] = "over" => ~ Live(c) /\ sent[c] > 0
    /\ sent[c] > 0 \/ heard[c] > 0 =>
         peer[c] = "over" \/ (Live(c) /\ client[c].outbuf > 0)

CInv ==
  /\ TypeOK
  /\ ResourcesOwned
  /\ OneEventEach
  /\ NothingFetched
  /\ BacklogInv
  /\ ReplyInv

(* What a descriptor is open on.                                           *)
Owners == {Unused} \cup {Socket(c) : c \in Clients} \cup {File(c) : c \in Clients}

LEMMA OwnerFacts ==
  /\ Unused \in Owners
  /\ \A c \in Clients : Socket(c) \in Owners /\ File(c) \in Owners
  /\ \A c, d \in Clients : Socket(c) # File(d)
  /\ \A c, d \in Clients : Socket(c) = Socket(d) => c = d
  /\ \A c, d \in Clients : File(c) = File(d) => c = d
  /\ \A c \in Clients : Socket(c) # Unused /\ File(c) # Unused
BY DEF Owners, Unused, Socket, File

(* The fields of a Client structure.                                       *)
LEMMA StructFacts ==
  ASSUME NEW r \in ClientStruct
  PROVE  /\ r.client_fd \in Fds /\ r.read_fd \in Fds \cup {-1}
         /\ r.read_mapped_zone \in BOOLEAN /\ r.armed \in BOOLEAN
         /\ r.unsent \in BOOLEAN /\ r.outbuf \in Nat
         /\ r # NoClient
<1>1. r.phase = "client"
  BY DEF ClientStruct
<1>2. NoClient.phase = "none"
  BY DEF NoClient
<1> QED BY <1>1, <1>2 DEF ClientStruct

LEMMA LiveFacts ==
  ASSUME CInv, NEW c \in Clients
  PROVE  /\ Live(c) => client[c] \in ClientStruct
         /\ client[c] \in ClientStruct => Live(c)
BY StructFacts DEF CInv, TypeOK, Live

(* What client_disconnect is handed: the structure of a connection, with   *)
(* the descriptors and mappings as they are at that point of the handler.  *)
Handed(c, r, t, z) ==
  /\ r \in ClientStruct /\ r.client_fd = client[c].client_fd
  /\ t \in [Fds -> Owners] /\ z \subseteq Clients
  /\ \A fd \in Fds : t[fd] = Socket(c) <=> r.client_fd = fd
  /\ \A fd \in Fds : t[fd] = File(c) <=> r.read_fd = fd
  /\ c \in z <=> r.read_mapped_zone
  /\ \A d \in Clients \ {c} :
       /\ \A fd \in Fds : t[fd] = Socket(d) <=> table[fd] = Socket(d)
       /\ \A fd \in Fds : t[fd] = File(d) <=> table[fd] = File(d)
       /\ d \in z <=> d \in zones

(* What is known of the other end.                                         *)
PeerVarsOK ==
  /\ peer \in [Clients -> {"away", "here", "closed", "over"}]
  /\ sent \in [Clients -> 0 .. SendBuffer] /\ heard \in [Clients -> Nat]

(* A closed connection is away for its peer, or leaves it the last bytes,  *)
(* if it has been there to read those before.                              *)
LEMMA CloseSocketFacts ==
  ASSUME PeerVarsOK, NEW c \in Clients, NEW s \in 0 .. SendBuffer, CloseSocket(c, s)
  PROVE  /\ PeerVarsOK'
         /\ peer'[c] = "over" => sent'[c] > 0
         /\ sent'[c] > 0 \/ heard'[c] > 0 => peer'[c] = "over"
         /\ \A d \in Clients \ {c} : /\ peer'[d] = peer[d] /\ sent'[d] = sent[d]
                                     /\ heard'[d] = heard[d]
<1>1. CASE peer[c] = "here" /\ s > 0
  BY <1>1 DEF CloseSocket, PeerVarsOK
<1>2. CASE ~ (peer[c] = "here" /\ s > 0)
  BY <1>2, ConnectionsAssumption DEF CloseSocket, Away, PeerVarsOK
<1> QED BY <1>1, <1>2

(* client_disconnect releases all that the connection has, and nothing of  *)
(* any other.                                                              *)
LEMMA DisconnectStep ==
  ASSUME CInv, NEW c \in Clients, Live(c), NEW r, NEW t, NEW z,
         NEW s \in 0 .. SendBuffer,
         Handed(c, r, t, z), ClientDisconnect(c, r, t, z, s),
         UNCHANGED <<server, backlog>>
  PROVE  CInv'
<1>1. /\ table' = [fd \in Fds |-> IF fd \in {r.client_fd, r.read_fd}
                                  THEN Unused ELSE t[fd]]
      /\ zones' = IF r.read_mapped_zone THEN z \ {c} ELSE z
      /\ client' = [client EXCEPT ![c] = NoClient]
      /\ CloseSocket(c, s)
  BY DEF ClientDisconnect, Closed
<1>2. /\ TypeOK /\ ResourcesOwned /\ OneEventEach /\ BacklogInv /\ ReplyInv
      /\ client \in [Clients -> ClientStruct \cup {NoClient}]
      /\ backlog \in Seq(Clients)
  BY DEF CInv, TypeOK
<1>3. /\ r \in ClientStruct /\ t \in [Fds -> Owners] /\ z \subseteq Clients
      /\ \A fd \in Fds : t[fd] = Socket(c) <=> r.client_fd = fd
      /\ \A fd \in Fds : t[fd] = File(c) <=> r.read_fd = fd
      /\ c \in z <=> r.read_mapped_zone
      /\ \A d \in Clients \ {c} :
           /\ \A fd \in Fds : t[fd] = Socket(d) <=> table[fd] = Socket(d)
           /\ \A fd \in Fds : t[fd] = File(d) <=> table[fd] = File(d)
           /\ d \in z <=> d \in zones
  BY DEF Handed
<1>4. /\ client'[c] = NoClient
      /\ \A d \in Clients \ {c} : client'[d] = client[d]
  BY <1>1, <1>2
<1>10. /\ PeerVarsOK'
       /\ peer'[c] = "over" => sent'[c] > 0
       /\ sent'[c] > 0 \/ heard'[c] > 0 => peer'[c] = "over"
       /\ \A d \in Clients \ {c} : /\ peer'[d] = peer[d] /\ sent'[d] = sent[d]
                                   /\ heard'[d] = heard[d]
  BY <1>1, <1>2, CloseSocketFacts DEF TypeOK, PeerVarsOK
<1>5. TypeOK'
  <2>1. table' \in [Fds -> Owners]
    BY <1>1, <1>3, OwnerFacts
  <2>2. zones' \subseteq Clients
    BY <1>1, <1>3
  <2>3. client' \in [Clients -> ClientStruct \cup {NoClient}]
    BY <1>1, <1>2
  <2> QED BY <1>2, <1>10, <2>1, <2>2, <2>3 DEF TypeOK, Owners, PeerVarsOK
<1>6. ResourcesOwned'
  <2>1. \A d \in Clients \ {c}, fd \in Fds :
          /\ table'[fd] = Socket(d) <=> table[fd] = Socket(d)
          /\ table'[fd] = File(d) <=> table[fd] = File(d)
    <3> SUFFICES ASSUME NEW d \in Clients \ {c}, NEW fd \in Fds
                 PROVE  /\ table'[fd] = Socket(d) <=> table[fd] = Socket(d)
                        /\ table'[fd] = File(d) <=> table[fd] = File(d)
      OBVIOUS
    <3>1. CASE fd \in {r.client_fd, r.read_fd}
      <4>1. t[fd] = Socket(c) \/ t[fd] = File(c)
        BY <1>3, <3>1
      <4>2. t[fd] # Socket(d) /\ t[fd] # File(d)
        BY <4>1, OwnerFacts
      <4>3. table'[fd] = Unused
        BY <1>1, <3>1
      <4> QED BY <1>3, <4>2, <4>3, OwnerFacts
    <3>2. CASE fd \notin {r.client_fd, r.read_fd}
      BY <1>1, <1>3, <3>2
    <3> QED BY <3>1, <3>2
  <2>2. \A fd \in Fds : table'[fd] # Socket(c) /\ table'[fd] # File(c)
    BY <1>1, <1>3, OwnerFacts
  <2>3. c \notin zones' /\ \A d \in Clients \ {c} : d \in zones' <=> d \in zones
    BY <1>1, <1>3
  <2> QED BY <1>2, <1>4, <2>1, <2>2, <2>3 DEF ResourcesOwned, Live
<1>7. OneEventEach'
  BY <1>2, <1>4 DEF OneEventEach, Live
<1>8. BacklogInv'
  <2>1. \A i \in 1 .. Len(backlog) : backlog[i] \in Clients /\ backlog[i] # c
    BY <1>2 DEF BacklogInv
  <2> QED BY <1>2, <1>4, <1>10, <2>1 DEF BacklogInv, Live
<1>9. NothingFetched'
  BY <1>4 DEF CInv, NothingFetched, Live
<1>11. ReplyInv'
  BY <1>2, <1>4, <1>10 DEF ReplyInv, Live
<1> QED BY <1>5, <1>6, <1>7, <1>8, <1>9, <1>11 DEF CInv

LEMMA HandedAsItStands ==
  ASSUME CInv, NEW c \in Clients, Live(c)
  PROVE  Handed(c, client[c], table, zones)
BY LiveFacts DEF Handed, CInv, TypeOK, ResourcesOwned, Owners

(* Dropping a connection as it stands.                                     *)
LEMMA DropStep ==
  ASSUME CInv, NEW c \in Clients, Live(c), Drop(c),
         UNCHANGED <<server, backlog>>
  PROVE  CInv'
<1>1. Handed(c, client[c], table, zones)
  BY HandedAsItStands
<1>2. sent[c] \in 0 .. SendBuffer
  BY DEF CInv, TypeOK
<1> QED BY <1>1, <1>2, DisconnectStep DEF Drop

(* A step of a connection that keeps its descriptors.                      *)
LEMMA KeepStep ==
  ASSUME CInv, NEW c \in Clients, Live(c), NEW r \in ClientStruct,
         client' = [client EXCEPT ![c] = r],
         r.client_fd = client[c].client_fd, r.read_fd = client[c].read_fd,
         r.read_mapped_zone = client[c].read_mapped_zone,
         ~ r.armed, r.outbuf > 0 \/ r.unsent,
         sent' \in [Clients -> 0 .. SendBuffer],
         \A d \in Clients \ {c} : sent'[d] = sent[d],
         sent'[c] > 0 \/ heard[c] > 0 => r.outbuf > 0,
         UNCHANGED <<server, backlog, peer, heard, table, zones>>
  PROVE  CInv'
<1>1. client'[c] = r /\ \A d \in Clients \ {c} : client'[d] = client[d]
  BY DEF CInv, TypeOK
<1>2. TypeOK'
  BY DEF CInv, TypeOK
<1>3. \A d \in Clients : Live(d)' <=> Live(d)
  BY <1>1, StructFacts DEF Live
<1>4. ResourcesOwned'
  BY <1>1, <1>3 DEF CInv, ResourcesOwned
<1>5. OneEventEach'
  <2>1. ~ r.armed /\ r.outbuf = 0 => r.unsent
    OBVIOUS
  <2>2. r.outbuf > 0 \/ r.outbuf = 0
    BY StructFacts
  <2> QED BY <1>1, <1>3, <2>1, <2>2 DEF CInv, OneEventEach
<1>6. BacklogInv'
  BY <1>1, StructFacts DEF CInv, BacklogInv, Live
<1>7. NothingFetched'
  BY <1>1, <1>3 DEF CInv, NothingFetched
<1>8. ReplyInv'
  BY <1>1, <1>3 DEF CInv, ReplyInv
<1> QED BY <1>2, <1>4, <1>5, <1>6, <1>7, <1>8 DEF CInv

(* Nothing of a reply has been sent while the request is still read.       *)
LEMMA NothingSent ==
  ASSUME CInv, NEW c \in Clients, Live(c), client[c].armed
  PROVE  sent[c] = 0 /\ heard[c] = 0
<1>1. client[c].outbuf = 0
  BY DEF CInv, OneEventEach
<1>2. peer[c] # "over"
  BY DEF CInv, ReplyInv
<1>3. ~ (sent[c] > 0 \/ heard[c] > 0)
  BY <1>1, <1>2 DEF CInv, ReplyInv
<1> QED BY <1>3 DEF CInv, TypeOK

-----------------------------------------------------------------------------
(* The callbacks.                                                          *)

(* The structure after a handler has queued its reply, or failed to.       *)
LEMMA QueueReplyFacts ==
  ASSUME NEW c \in Clients, NEW r \in ClientStruct, NEW n \in Nat \ {0},
         QueueReply(c, r, n)
  PROVE  \E q \in ClientStruct :
           /\ client' = [client EXCEPT ![c] = q]
           /\ q.client_fd = r.client_fd /\ q.read_fd = r.read_fd
           /\ q.read_mapped_zone = r.read_mapped_zone
           /\ ~ q.armed
           /\ q.outbuf > 0 \/ q.unsent
           /\ q.outbuf \in {0, n}
<1>1. PICK queued \in BOOLEAN :
        client' = [client EXCEPT ![c] =
                     [r EXCEPT !.armed = FALSE, !.returncode_bufev = TRUE,
                               !.outbuf = IF queued THEN n ELSE 0,
                               !.unsent = ~ queued]]
  BY DEF QueueReply
<1> DEFINE q == [r EXCEPT !.armed = FALSE, !.returncode_bufev = TRUE,
                          !.outbuf = IF queued THEN n ELSE 0,
                          !.unsent = ~ queued]
<1>2. /\ q \in ClientStruct
      /\ q.client_fd = r.client_fd /\ q.read_fd = r.read_fd
      /\ q.read_mapped_zone = r.read_mapped_zone
      /\ ~ q.armed
  BY DEF ClientStruct
<1>3. q.outbuf > 0 \/ q.unsent
  <2>1. q.outbuf = (IF queued THEN n ELSE 0) /\ q.unsent = ~ queued
    BY DEF ClientStruct
  <2> HIDE DEF q
  <2>2. CASE queued
    <3>1. q.outbuf = n
      BY <2>1, <2>2
    <3> QED BY <3>1
  <2>3. CASE ~ queued
    <3>1. q.unsent
      BY <2>1, <2>3
    <3> QED BY <3>1
  <2> QED BY <2>2, <2>3
<1>5. q.outbuf \in {0, n}
  BY DEF ClientStruct
<1>4. client' = [client EXCEPT ![c] = q]
  BY <1>1
<1> HIDE DEF q
<1> QED BY <1>2, <1>3, <1>4, <1>5

LEMMA HandleUpdateStep ==
  ASSUME CInv, NEW c \in Clients, HandleUpdate(c)
  PROVE  CInv'
<1>1. /\ Live(c) /\ client[c].armed /\ UNCHANGED <<server, backlog>>
      /\ client[c] \in ClientStruct
  BY LiveFacts DEF HandleUpdate, Reading
<1>2. CASE Drop(c)
  BY <1>1, <1>2, DropStep
<1>3. CASE UNCHANGED <<table, zones, peerVars>> /\ QueueReply(c, client[c], 1)
  <2>1. PICK q \in ClientStruct :
          /\ client' = [client EXCEPT ![c] = q]
          /\ q.client_fd = client[c].client_fd
          /\ q.read_fd = client[c].read_fd
          /\ q.read_mapped_zone = client[c].read_mapped_zone
          /\ ~ q.armed
          /\ q.outbuf > 0 \/ q.unsent
    BY <1>1, <1>3, QueueReplyFacts
  <2>2. /\ sent' \in [Clients -> 0 .. SendBuffer] /\ sent' = sent
        /\ UNCHANGED <<peer, heard, table, zones>>
    BY <1>3 DEF CInv, TypeOK, peerVars
  <2>3. ~ (sent'[c] > 0 \/ heard[c] > 0)
    BY <1>1, <2>2, NothingSent
  <2> QED BY <1>1, <2>1, <2>2, <2>3, KeepStep
<1> QED BY <1>2, <1>3 DEF HandleUpdate

(* A fetch that opens a file with a free descriptor, and either hands all  *)
(* of it to client_disconnect or keeps it for its reply.                   *)
LEMMA HandleFetchStep ==
  ASSUME CInv, NEW c \in Clients, HandleFetch(c)
  PROVE  CInv'
<1>1. /\ Live(c) /\ client[c].armed /\ UNCHANGED <<server, backlog>>
      /\ client[c] \in ClientStruct
  BY LiveFacts DEF HandleFetch, Reading
<1>2. CASE Drop(c)
  BY <1>1, <1>2, DropStep
<1>3. CASE ~ Drop(c)
  <2> DEFINE R(fd) == [client[c] EXCEPT !.read_fd = fd, !.read_mapped_zone = TRUE]
             T(fd) == [table EXCEPT ![fd] = File(c)]
             z == zones \cup {c}
  <2>1. PICK fd \in UnusedFds :
          \/ ClientDisconnect(c, R(fd), T(fd), z, sent[c])
          \/ /\ table' = T(fd) /\ zones' = z
             /\ \E n \in 1 .. MaxReply : QueueReply(c, R(fd), n)
             /\ UNCHANGED peerVars
    BY <1>3 DEF HandleFetch
  <2> DEFINE r == R(fd)
             t == T(fd)
  <2>2. /\ fd \in Fds /\ table[fd] = Unused /\ TypeOK
        /\ table \in [Fds -> Owners] /\ zones \subseteq Clients
    BY DEF UnusedFds, CInv, TypeOK, Owners
  <2>3. /\ r \in ClientStruct /\ r.client_fd = client[c].client_fd
        /\ r.read_fd = fd /\ r.read_mapped_zone = TRUE
    BY <1>1, <2>2 DEF ClientStruct
  <2>4. c \notin zones /\ \A g \in Fds : table[g] # File(c)
    <3>1. client[c].read_fd = -1 /\ ~ client[c].read_mapped_zone
      BY <1>1 DEF CInv, NothingFetched
    <3>2. -1 \notin Fds
      BY ConnectionsAssumption
    <3> QED BY <3>1, <3>2 DEF CInv, ResourcesOwned
  <2>5. /\ t \in [Fds -> Owners] /\ t[fd] = File(c)
        /\ \A g \in Fds : g # fd => t[g] = table[g]
    BY <2>2, OwnerFacts
  <2>6. \A g \in Fds : /\ table[g] = Socket(c) <=> client[c].client_fd = g
    BY <1>1 DEF CInv, ResourcesOwned
  <2> HIDE DEF r, t, R, T
  <2>7. Handed(c, r, t, z)
    <3>1. \A g \in Fds : t[g] = Socket(c) <=> r.client_fd = g
      BY <2>2, <2>3, <2>5, <2>6, OwnerFacts
    <3>2. \A g \in Fds : t[g] = File(c) <=> r.read_fd = g
      BY <2>3, <2>4, <2>5
    <3>3. \A d \in Clients \ {c} :
            /\ \A g \in Fds : t[g] = Socket(d) <=> table[g] = Socket(d)
            /\ \A g \in Fds : t[g] = File(d) <=> table[g] = File(d)
            /\ d \in z <=> d \in zones
      BY <2>2, <2>5, OwnerFacts
    <3> QED BY <2>2, <2>3, <2>5, <3>1, <3>2, <3>3 DEF Handed
  <2>8. CASE ClientDisconnect(c, r, t, z, sent[c])
    <3>1. sent[c] \in 0 .. SendBuffer
      BY DEF CInv, TypeOK
    <3> QED BY <1>1, <2>7, <2>8, <3>1, DisconnectStep
  <2>9. CASE /\ table' = t /\ zones' = z
             /\ \E n \in 1 .. MaxReply : QueueReply(c, r, n)
             /\ UNCHANGED peerVars
    <3>1. PICK q \in ClientStruct :
            /\ client' = [client EXCEPT ![c] = q]
            /\ q.client_fd = r.client_fd /\ q.read_fd = r.read_fd
            /\ q.read_mapped_zone = r.read_mapped_zone
            /\ ~ q.armed
            /\ q.outbuf > 0 \/ q.unsent
      BY <2>3, <2>9, QueueReplyFacts, ConnectionsAssumption
    <3>2. client'[c] = q /\ \A d \in Clients \ {c} : client'[d] = client[d]
      BY <2>2, <3>1 DEF TypeOK
    <3>3. Live(c)' /\ \A d \in Clients : Live(d)' <=> Live(d)
      BY <1>1, <3>2, StructFacts DEF Live
    <3>4. TypeOK'
      BY <1>1, <2>2, <2>5, <2>9, <3>1 DEF TypeOK, Owners, peerVars
    <3>5. ResourcesOwned'
      BY <2>3, <2>7, <2>9, <3>1, <3>2, <3>3 DEF CInv, ResourcesOwned, Handed
    <3>6. OneEventEach'
      <4>1. ~ q.armed /\ (q.outbuf > 0 \/ (q.outbuf = 0 /\ q.unsent))
        BY <3>1, StructFacts
      <4> QED BY <3>2, <3>3, <4>1 DEF CInv, OneEventEach
    <3>7. BacklogInv'
      <4>1. UNCHANGED <<backlog, peer>>
        BY <1>1, <2>9 DEF peerVars
      <4>2. \A i \in 1 .. Len(backlog) : backlog[i] \in Clients
        BY DEF CInv, TypeOK
      <4> QED BY <3>3, <4>1, <4>2 DEF CInv, BacklogInv
    <3>8. NothingFetched'
      BY <3>1, <3>2, <3>3 DEF CInv, NothingFetched
    <3>9. ReplyInv'
      <4>1. sent'[c] = 0 /\ heard'[c] = 0
        BY <1>1, <2>9, NothingSent DEF peerVars
      <4>2. UNCHANGED <<peer, sent, heard>>
        BY <2>9 DEF peerVars
      <4> QED BY <3>2, <3>3, <4>1, <4>2 DEF CInv, ReplyInv
    <3> QED BY <3>4, <3>5, <3>6, <3>7, <3>8, <3>9 DEF CInv
  <2> QED BY <2>1, <2>8, <2>9 DEF r, t
<1> QED BY <1>2, <1>3

LEMMA WriteStep ==
  ASSUME CInv, NEW c \in Clients, Write(c)
  PROVE  CInv'
<1>1. /\ Live(c) /\ UNCHANGED <<server, backlog>>
      /\ client[c] \in ClientStruct /\ client[c].outbuf > 0
  BY LiveFacts DEF Write, Writing
<1>2. PICK n \in Writable(c) :
        IF n = client[c].outbuf
        THEN ClientDisconnect(c, client[c], table, zones, sent[c] + n)
        ELSE /\ client' = [client EXCEPT ![c].outbuf = @ - n]
             /\ sent' = [sent EXCEPT ![c] = @ + n]
             /\ UNCHANGED <<table, zones, peer, heard>>
  BY DEF Write
<1>5. /\ n \in Nat /\ n > 0 /\ sent[c] + n \in 0 .. SendBuffer
      /\ n \in 1 .. client[c].outbuf
      /\ client[c].outbuf \in Nat /\ sent \in [Clients -> 0 .. SendBuffer]
  <2>1. /\ client[c].outbuf \in Nat
        /\ sent \in [Clients -> 0 .. SendBuffer]
    BY <1>1, StructFacts DEF CInv, TypeOK
  <2>2. n \in 1 .. client[c].outbuf /\ sent[c] + n <= SendBuffer
    BY DEF Writable
  <2> QED BY <2>1, <2>2, ConnectionsAssumption
<1>3. CASE n = client[c].outbuf
  <2>1. Handed(c, client[c], table, zones)
    BY <1>1, HandedAsItStands
  <2> QED BY <1>1, <1>2, <1>3, <1>5, <2>1, DisconnectStep
<1>4. CASE n # client[c].outbuf
  <2> DEFINE r == [client[c] EXCEPT !.outbuf = client[c].outbuf - n]
  <2>1. /\ client' = [client EXCEPT ![c] = r]
        /\ sent' = [sent EXCEPT ![c] = sent[c] + n]
        /\ UNCHANGED <<table, zones, peer, heard>>
    BY <1>2, <1>4
  <2>2. /\ n \in Nat /\ client[c].outbuf \in Nat
        /\ client[c].outbuf - n \in Nat /\ client[c].outbuf - n > 0
        /\ sent[c] + n \in 0 .. SendBuffer
        /\ sent \in [Clients -> 0 .. SendBuffer]
    BY <1>4, <1>5
  <2>3. /\ r \in ClientStruct
        /\ r.client_fd = client[c].client_fd /\ r.read_fd = client[c].read_fd
        /\ r.read_mapped_zone = client[c].read_mapped_zone
        /\ r.outbuf = client[c].outbuf - n
        /\ r.armed = client[c].armed
    BY <1>1, <2>2 DEF ClientStruct
  <2>4. ~ client[c].armed
    <3>1. client[c].outbuf # 0
      BY <2>2
    <3> QED BY <1>1, <3>1 DEF CInv, OneEventEach
  <2>5. /\ sent' \in [Clients -> 0 .. SendBuffer]
        /\ \A d \in Clients \ {c} : sent'[d] = sent[d]
    BY <2>1, <2>2
  <2> HIDE DEF r
  <2>6. ~ r.armed
    BY <2>3, <2>4
  <2>7. r.outbuf > 0
    BY <2>2, <2>3
  <2> QED BY <1>1, <2>1, <2>3, <2>5, <2>6, <2>7, KeepStep
<1> QED BY <1>3, <1>4

(* A connection is accepted from the head of the backlog, where it was     *)
(* only once, or accepted and closed.                                      *)
LEMMA NewClientStep ==
  ASSUME CInv, NewClient
  PROVE  CInv'
<1>0. PICK c : c = Head(backlog)
  OBVIOUS
<1>1. /\ backlog' = Tail(backlog) /\ server' = server
      /\ backlog # <<>> /\ backlog \in Seq(Clients)
  BY DEF NewClient, CInv, TypeOK
<1>2. /\ c \in Clients /\ c = backlog[1] /\ 1 \in 1 .. Len(backlog)
      /\ backlog' \in Seq(Clients) /\ Len(backlog') = Len(backlog) - 1
      /\ \A i \in 1 .. Len(backlog') : /\ backlog'[i] = backlog[i + 1]
                                      /\ i + 1 \in 1 .. Len(backlog)
      /\ \A i \in 1 .. Len(backlog) : backlog[i] \in Clients
  BY <1>0, <1>1
<1>3. /\ ~ Live(c) /\ peer[c] \in {"here", "closed"} /\ client[c] = NoClient
      /\ \A i \in 1 .. Len(backlog') : backlog'[i] # c
  BY <1>2 DEF CInv, BacklogInv, Live
<1>4. \A i, j \in 1 .. Len(backlog') : backlog'[i] = backlog'[j] => i = j
  <2> SUFFICES ASSUME NEW i \in 1 .. Len(backlog'), NEW j \in 1 .. Len(backlog'),
                      backlog'[i] = backlog'[j]
               PROVE  i = j
    OBVIOUS
  <2>1. i + 1 = j + 1
    BY <1>2 DEF CInv, BacklogInv
  <2> QED BY <2>1
<1>5. \A i \in 1 .. Len(backlog') :
        /\ ~ Live(backlog'[i]) /\ peer[backlog'[i]] \in {"here", "closed"}
        /\ backlog'[i] \in Clients
  BY <1>2 DEF CInv, BacklogInv
<1>6. PICK fd \in UnusedFds :
        \/ /\ table' = [table EXCEPT ![fd] = Socket(c)]
           /\ client' = [client EXCEPT ![c] = NewClientStruct(fd)]
           /\ UNCHANGED <<peerVars, zones>>
        \/ Away(c) /\ UNCHANGED <<table, client, zones>>
  BY <1>0 DEF NewClient
<1>7. CASE /\ table' = [table EXCEPT ![fd] = Socket(c)]
           /\ client' = [client EXCEPT ![c] = NewClientStruct(fd)]
           /\ UNCHANGED <<peerVars, zones>>
  <2> USE DEF peerVars
  <2> DEFINE r == NewClientStruct(fd)
  <2>1. fd \in Fds /\ table[fd] = Unused /\ table \in [Fds -> Owners]
    BY DEF UnusedFds, CInv, TypeOK, Owners
  <2>2. /\ r \in ClientStruct /\ r.client_fd = fd /\ r.read_fd = -1
        /\ r.read_mapped_zone = FALSE /\ r.armed = TRUE /\ r.outbuf = 0
    BY <2>1 DEF NewClientStruct, ClientStruct
  <2> HIDE DEF r
  <2>3. /\ client'[c] = r /\ client' = [client EXCEPT ![c] = r]
        /\ \A d \in Clients \ {c} : client'[d] = client[d]
    BY <1>2, <1>7 DEF CInv, TypeOK, r
  <2>4. Live(c)' /\ \A d \in Clients \ {c} : Live(d)' <=> Live(d)
    BY <2>2, <2>3, StructFacts DEF Live
  <2>5. /\ table' \in [Fds -> Owners] /\ table'[fd] = Socket(c)
        /\ \A g \in Fds : g # fd => table'[g] = table[g]
    BY <1>2, <1>7, <2>1, OwnerFacts
  <2>6. TypeOK'
    BY <1>1, <1>2, <1>7, <2>2, <2>3, <2>5 DEF CInv, TypeOK, Owners
  <2>7. ResourcesOwned'
    <3>1. \A g \in Fds : table[g] # Socket(c) /\ table[g] # File(c)
      BY <1>2, <1>3 DEF CInv, ResourcesOwned
    <3>2. \A g \in Fds : g # -1
      BY ConnectionsAssumption
    <3>3. \A g \in Fds : table'[g] = Socket(c) <=> r.client_fd = g
      BY <2>2, <2>5, <3>1
    <3>4. \A g \in Fds : table'[g] = File(c) <=> r.read_fd = g
      BY <1>2, <2>2, <2>5, <3>1, <3>2, OwnerFacts
    <3>5. \A d \in Clients \ {c}, g \in Fds :
            /\ table'[g] = Socket(d) <=> table[g] = Socket(d)
            /\ table'[g] = File(d) <=> table[g] = File(d)
      BY <1>2, <2>1, <2>5, OwnerFacts
    <3>6. c \notin zones' /\ zones' = zones
      BY <1>2, <1>3, <1>7 DEF CInv, ResourcesOwned
    <3> QED BY <2>2, <2>3, <2>4, <3>3, <3>4, <3>5, <3>6
            DEF CInv, ResourcesOwned
  <2>8. OneEventEach'
    BY <2>2, <2>3, <2>4 DEF CInv, OneEventEach
  <2>9. NothingFetched'
    BY <2>2, <2>3, <2>4 DEF CInv, NothingFetched
  <2>10. BacklogInv'
    BY <1>3, <1>4, <1>5, <1>7, <2>4 DEF CInv, BacklogInv
  <2>11. ReplyInv'
    <3>1. ~ (sent[c] > 0 \/ heard[c] > 0)
      BY <1>2, <1>3 DEF CInv, ReplyInv
    <3> QED BY <1>3, <1>7, <2>3, <2>4, <3>1 DEF CInv, ReplyInv
  <2> QED BY <2>6, <2>7, <2>8, <2>9, <2>10, <2>11 DEF CInv
<1>8. CASE Away(c) /\ UNCHANGED <<table, client, zones>>
  <2>1. /\ PeerVarsOK'
        /\ peer'[c] = "away" /\ sent'[c] = 0 /\ heard'[c] = 0
        /\ \A d \in Clients \ {c} : /\ peer'[d] = peer[d] /\ sent'[d] = sent[d]
                                    /\ heard'[d] = heard[d]
    BY <1>2, <1>8, ConnectionsAssumption DEF CInv, TypeOK, Away, PeerVarsOK
  <2>2. \A d \in Clients : Live(d)' <=> Live(d)
    BY <1>8 DEF Live
  <2>3. TypeOK'
    BY <1>1, <1>2, <1>8, <2>1 DEF CInv, TypeOK, PeerVarsOK
  <2>4. ResourcesOwned' /\ OneEventEach' /\ NothingFetched'
    BY <1>8, <2>2 DEF CInv, ResourcesOwned, OneEventEach, NothingFetched
  <2>5. BacklogInv'
    BY <1>3, <1>4, <1>5, <2>1, <2>2 DEF CInv, BacklogInv
  <2>6. ReplyInv'
    BY <1>8, <2>1, <2>2 DEF CInv, ReplyInv
  <2> QED BY <2>3, <2>4, <2>5, <2>6 DEF CInv
<1> QED BY <1>6, <1>7, <1>8

-----------------------------------------------------------------------------
(* The peers, and the end of the process.                                  *)

LEMMA ConnectStep ==
  ASSUME CInv, NEW c \in Clients, Connect(c)
  PROVE  CInv'
<1>1. /\ peer[c] = "away" /\ peer' = [peer EXCEPT ![c] = "here"]
      /\ backlog' = Append(backlog, c) /\ backlog \in Seq(Clients)
      /\ peer \in [Clients -> {"away", "here", "closed", "over"}]
      /\ UNCHANGED <<server, sent, heard, client, table, zones>>
  BY DEF Connect, CInv, TypeOK
<1>2. /\ backlog' \in Seq(Clients) /\ Len(backlog') = Len(backlog) + 1
      /\ Len(backlog) \in Nat
      /\ \A i \in 1 .. Len(backlog) : backlog'[i] = backlog[i]
                                     /\ backlog[i] \in Clients
      /\ backlog'[Len(backlog) + 1] = c
  BY <1>1
<1>3. /\ peer'[c] = "here"
      /\ \A d \in Clients \ {c} : peer'[d] = peer[d]
      /\ peer' \in [Clients -> {"away", "here", "closed", "over"}]
  BY <1>1
<1>4. \A d \in Clients : Live(d)' <=> Live(d)
  BY <1>1 DEF Live
<1>5. TypeOK'
  BY <1>1, <1>2, <1>3 DEF CInv, TypeOK
<1>6. ResourcesOwned' /\ OneEventEach' /\ NothingFetched'
  BY <1>1, <1>4 DEF CInv, ResourcesOwned, OneEventEach, NothingFetched
<1>7. BacklogInv'
  <2>1. ~ Live(c) /\ \A i \in 1 .. Len(backlog) : backlog[i] # c
    BY <1>1 DEF CInv, BacklogInv
  <2>2. ASSUME NEW i \in 1 .. Len(backlog')
        PROVE  /\ ~ Live(backlog[i])' \/ i = Len(backlog) + 1
               /\ i \in 1 .. Len(backlog) \/ i = Len(backlog) + 1
    BY <1>2, <1>4 DEF CInv, BacklogInv
  <2>3. \A i \in 1 .. Len(backlog') :
          /\ backlog'[i] \in Clients
          /\ ~ Live(backlog'[i])
          /\ peer'[backlog'[i]] \in {"here", "closed"}
    <3> TAKE i \in 1 .. Len(backlog')
    <3>1. CASE i \in 1 .. Len(backlog)
      BY <1>2, <1>3, <2>1, <3>1 DEF CInv, BacklogInv
    <3>2. CASE i = Len(backlog) + 1
      BY <1>2, <1>3, <2>1, <3>2
    <3> QED BY <2>2, <3>1, <3>2
  <2>4. \A i, j \in 1 .. Len(backlog') : backlog'[i] = backlog'[j] => i = j
    <3> TAKE i, j \in 1 .. Len(backlog')
    <3>1. CASE i \in 1 .. Len(backlog) /\ j \in 1 .. Len(backlog)
      BY <1>2, <3>1 DEF CInv, BacklogInv
    <3>2. CASE i = Len(backlog) + 1 \/ j = Len(backlog) + 1
      BY <1>2, <2>1, <2>2, <3>2
    <3> QED BY <2>2, <3>1, <3>2
  <2> QED BY <1>3, <1>4, <2>3, <2>4, <1>1 DEF CInv, BacklogInv, Live
<1>8. ReplyInv'
  BY <1>1, <1>3, <1>4 DEF CInv, ReplyInv
<1> QED BY <1>5, <1>6, <1>7, <1>8 DEF CInv

LEMMA PeerStep ==
  ASSUME CInv, NEW c \in Clients, PeerReads(c) \/ PeerCloses(c)
  PROVE  CInv'
<1>1. UNCHANGED <<server, backlog, client, table, zones>>
  BY DEF PeerReads, PeerCloses
<1>0. /\ PeerVarsOK /\ ReplyInv
      /\ sent[c] \in 0 .. SendBuffer /\ heard[c] \in Nat
  BY DEF CInv, TypeOK, PeerVarsOK
(* A peer that goes away has neither a Client nor a place in the backlog.  *)
<1>2. /\ PeerVarsOK'
      /\ \A d \in Clients : peer[d] \in {"here", "closed"}
                             => peer'[d] \in {"here", "closed"}
      /\ ReplyInv'
  <2>1. CASE PeerReads(c) /\ peer[c] = "over" /\ sent[c] = 1
    <3>1. Away(c)
      BY <2>1 DEF PeerReads
    <3>2. /\ PeerVarsOK'
          /\ peer'[c] = "away" /\ sent'[c] = 0 /\ heard'[c] = 0
          /\ \A d \in Clients \ {c} : /\ peer'[d] = peer[d] /\ sent'[d] = sent[d]
                                      /\ heard'[d] = heard[d]
      BY <1>0, <3>1, ConnectionsAssumption DEF Away, PeerVarsOK
    <3> QED BY <1>0, <1>1, <2>1, <3>2 DEF ReplyInv, Live
  <2>2. CASE PeerReads(c) /\ ~ (peer[c] = "over" /\ sent[c] = 1)
    <3>1. /\ sent[c] > 0 /\ sent' = [sent EXCEPT ![c] = sent[c] - 1]
          /\ heard' = [heard EXCEPT ![c] = heard[c] + 1] /\ peer' = peer
      BY <2>2 DEF PeerReads
    <3>2. sent[c] - 1 \in 0 .. SendBuffer /\ heard[c] + 1 \in Nat
      BY <1>0, <3>1, ConnectionsAssumption
    <3>3. /\ PeerVarsOK' /\ sent'[c] = sent[c] - 1
          /\ \A d \in Clients \ {c} : sent'[d] = sent[d] /\ heard'[d] = heard[d]
      BY <1>0, <3>1, <3>2 DEF PeerVarsOK
    <3>4. peer[c] = "over" => sent'[c] > 0
      BY <1>0, <2>2, <3>1, <3>3
    <3>5. peer[c] = "over" \/ (Live(c) /\ client[c].outbuf > 0)
      BY <1>0, <3>1 DEF ReplyInv
    <3> QED BY <1>0, <1>1, <3>1, <3>3, <3>4, <3>5 DEF ReplyInv, Live
  <2>3. CASE PeerCloses(c)
    <3>1. /\ PeerVarsOK' /\ peer[c] = "here" /\ peer'[c] = "closed"
          /\ sent' = sent /\ heard' = heard
          /\ \A d \in Clients \ {c} : peer'[d] = peer[d]
      BY <1>0, <2>3 DEF PeerCloses, PeerVarsOK
    <3> QED BY <1>0, <1>1, <3>1 DEF ReplyInv, Live
  <2> QED BY <2>1, <2>2, <2>3
<1>4. \A d \in Clients : Live(d)' <=> Live(d)
  BY <1>1 DEF Live
<1>5. TypeOK'
  BY <1>1, <1>2 DEF CInv, TypeOK, PeerVarsOK
<1>6. ResourcesOwned' /\ OneEventEach' /\ NothingFetched'
  BY <1>1, <1>4 DEF CInv, ResourcesOwned, OneEventEach, NothingFetched
<1>7. BacklogInv'
  <2>1. \A i \in 1 .. Len(backlog) : backlog[i] \in Clients
    BY DEF CInv, TypeOK
  <2> QED BY <1>1, <1>2, <1>4, <2>1 DEF CInv, BacklogInv
<1> QED BY <1>2, <1>5, <1>6, <1>7 DEF CInv

(* Nothing is open or mapped, and nobody waits.                            *)
Empty ==
  /\ server \in {"up", "dead"} /\ backlog = <<>>
  /\ peer = [c \in Clients |-> "away"]
  /\ sent = [c \in Clients |-> 0] /\ heard = [c \in Clients |-> 0]
  /\ client = [c \in Clients |-> NoClient]
  /\ table = [fd \in Fds |-> Unused]
  /\ zones = {}

LEMMA EmptyInv == Empty => CInv
<1> SUFFICES ASSUME Empty
             PROVE  CInv
  OBVIOUS
<1>1. TypeOK
  BY ConnectionsAssumption DEF Empty, TypeOK
<1>2. \A c \in Clients : ~ Live(c)
  BY DEF Empty, Live
<1>3. ResourcesOwned
  BY <1>2, OwnerFacts DEF Empty, ResourcesOwned
<1>4. OneEventEach /\ NothingFetched
  BY <1>2 DEF OneEventEach, NothingFetched
<1>5. BacklogInv
  BY <1>2 DEF Empty, BacklogInv
<1>6. ReplyInv
  <2>1. \A c \in Clients : peer[c] # "over"
    BY DEF Empty
  <2>2. \A c \in Clients : ~ (sent[c] > 0) /\ ~ (heard[c] > 0)
    <3> TAKE c \in Clients
    <3>1. sent[c] = 0 /\ heard[c] = 0
      BY DEF Empty
    <3>2. ~ (0 > 0)
      OBVIOUS
    <3> QED BY <3>1, <3>2, Zenon
  <2> QED BY <2>1, <2>2 DEF ReplyInv
<1> QED BY <1>1, <1>3, <1>4, <1>5, <1>6 DEF CInv

LEMMA SigpipeStep ==
  ASSUME CInv, NEW c \in Clients, Sigpipe(c)
  PROVE  CInv'
<1>1. Empty'
  BY DEF Sigpipe, Empty
<1> QED BY <1>1, EmptyInv, PTL

-----------------------------------------------------------------------------

LEMMA StepInv ==
  ASSUME CInv, [Next]_vars
  PROVE  CInv'
<1>1. CASE NewClient
  BY <1>1, NewClientStep
<1>2. ASSUME NEW c \in Clients, Served(c)
      PROVE  CInv'
  <2>1. CASE ReadEnds(c) \/ Timeout(c) \/ WriteFails(c)
    BY <2>1, DropStep DEF ReadEnds, Timeout, WriteFails, Reading, Writing
  <2>2. CASE HandleUpdate(c)
    BY <2>2, HandleUpdateStep
  <2>3. CASE HandleFetch(c)
    BY <2>3, HandleFetchStep
  <2>4. CASE Write(c)
    BY <2>4, WriteStep
  <2>5. CASE Sigpipe(c)
    BY <2>5, SigpipeStep
  <2> QED BY <1>2, <2>1, <2>2, <2>3, <2>4, <2>5 DEF Served
<1>3. ASSUME NEW c \in Clients, Connect(c) \/ PeerReads(c) \/ PeerCloses(c)
      PROVE  CInv'
  BY <1>3, ConnectStep, PeerStep
<1>4. CASE UNCHANGED vars
  <2>1. UNCHANGED <<server, backlog, peer, sent, heard, client, table, zones>>
    BY <1>4 DEF vars
  <2>2. TypeOK' /\ ResourcesOwned' /\ OneEventEach' /\ NothingFetched'
    BY <2>1 DEF CInv, TypeOK, ResourcesOwned, OneEventEach, NothingFetched, Live
  <2>3. BacklogInv' /\ ReplyInv'
    BY <2>1 DEF CInv, BacklogInv, ReplyInv, Live
  <2> QED BY <2>2, <2>3 DEF CInv
<1> QED BY <1>1, <1>2, <1>3, <1>4 DEF Next

(* The invariant and its strengthening.                                    *)
THEOREM Invariance == Spec => []CInv
<1>1. Init => CInv
  BY EmptyInv DEF Init, Empty
<1>2. CInv /\ [Next]_vars => CInv'
  BY StepInv
<1> QED BY <1>1, <1>2, PTL DEF Spec

(* The variables of the connections keep their types.                      *)
THEOREM TypeCorrect == Spec => []TypeOK
<1>1. CInv => TypeOK
  BY DEF CInv
<1> QED BY <1>1, Invariance, PTL

(* No descriptor or mapping outlives its connection, none is released      *)
(* twice or under another connection.                                      *)
THEOREM NoLeak == Spec => []ResourcesOwned
<1>1. CInv => ResourcesOwned
  BY DEF CInv
<1> QED BY <1>1, Invariance, PTL

(* A connection waits to be read or to be written, never both, and never   *)
(* neither unless its reply could not be queued.                           *)
THEOREM OneEvent == Spec => []OneEventEach
<1>1. CInv => OneEventEach
  BY DEF CInv
<1> QED BY <1>1, Invariance, PTL

-----------------------------------------------------------------------------
(* Connections implements Conversations.                                   *)

Stages == [c \in Clients |-> Stage(c)]
Dues == [c \in Clients |-> Due(c)]
Left == {c \in Clients : peer[c] = "closed"}

(* A step of one connection shows in its conversation alone.               *)
OnlyAt(c) ==
  \A d \in Clients \ {c} :
    /\ client'[d] = client[d] /\ peer'[d] = peer[d]
    /\ sent'[d] = sent[d] /\ heard'[d] = heard[d]

LEMMA OnlyAtFacts ==
  ASSUME CInv, CInv', NEW c \in Clients, OnlyAt(c)
  PROVE  /\ Stages' = [Stages EXCEPT ![c] = Stage(c)']
         /\ Dues' = [Dues EXCEPT ![c] = Due(c)']
         /\ heard' = [heard EXCEPT ![c] = heard'[c]]
         /\ Left' = IF peer'[c] = "closed" THEN Left \cup {c} ELSE Left \ {c}
<1>1. \A d \in Clients \ {c} : Stage(d)' = Stage(d)
  BY DEF OnlyAt, Stage, Live
<1>2. \A d \in Clients \ {c} : Due(d)' = Due(d)
  BY DEF OnlyAt, Due, Live
<1>3. heard \in [Clients -> Nat] /\ heard' \in [Clients -> Nat]
  BY DEF CInv, TypeOK
<1>4. heard' = [heard EXCEPT ![c] = heard'[c]]
  BY <1>3 DEF OnlyAt
<1>5. Left' = IF peer'[c] = "closed" THEN Left \cup {c} ELSE Left \ {c}
  BY DEF OnlyAt, Left
<1> QED BY <1>1, <1>2, <1>4, <1>5 DEF Stages, Dues

(* The stage of a conversation, by what the server has of it.              *)
Shown(c) ==
  /\ peer[c] = "away" => ~ Live(c) /\ Stage(c) = "away" /\ Due(c) = 0
  /\ peer[c] = "over" => ~ Live(c) /\ Stage(c) = "told" /\ Due(c) = sent[c]
  /\ ~ Live(c) /\ peer[c] \in {"here", "closed"} =>
       Stage(c) = "waiting" /\ Due(c) = 0 /\ heard[c] = 0
  /\ Live(c) /\ client[c].armed => Stage(c) = "asking" /\ Due(c) = 0
  /\ Live(c) /\ client[c].outbuf > 0 =>
       Stage(c) = "told" /\ Due(c) = sent[c] + client[c].outbuf
  /\ Live(c) /\ ~ client[c].armed /\ client[c].outbuf = 0 =>
       Stage(c) = "mute" /\ Due(c) = 0

LEMMA ShownAlways == CInv => \A c \in Clients : Shown(c)
<1> SUFFICES ASSUME CInv, NEW c \in Clients
             PROVE  Shown(c)
  OBVIOUS
<1>1. /\ sent[c] \in Nat /\ heard[c] \in Nat
      /\ peer[c] \in {"away", "here", "closed", "over"}
  BY ConnectionsAssumption DEF CInv, TypeOK
<1>2. Live(c) => peer[c] \in {"here", "closed"} /\ client[c].outbuf \in Nat
                 /\ client[c].armed \in BOOLEAN
  BY LiveFacts, StructFacts DEF CInv, BacklogInv
<1>3. /\ peer[c] = "over" => ~ Live(c)
      /\ sent[c] > 0 \/ heard[c] > 0 =>
           peer[c] = "over" \/ (Live(c) /\ client[c].outbuf > 0)
  BY DEF CInv, ReplyInv
<1>4. Live(c) /\ client[c].armed => client[c].outbuf = 0
  BY DEF CInv, OneEventEach
<1>5. Due(c) = sent[c] + IF Live(c) THEN client[c].outbuf ELSE 0
  BY DEF Due
<1>6. CASE ~ Live(c)
  BY <1>1, <1>3, <1>5, <1>6 DEF Shown, Stage
<1>7. CASE Live(c) /\ client[c].armed
  <2>1. sent[c] = 0
    BY <1>1, <1>3, <1>4, <1>7
  <2> QED BY <1>1, <1>2, <1>4, <1>5, <1>7, <2>1 DEF Shown, Stage
<1>8. CASE Live(c) /\ ~ client[c].armed
  <2>1. client[c].outbuf = 0 => sent[c] = 0
    BY <1>1, <1>3, <1>8
  <2> QED BY <1>1, <1>2, <1>5, <1>8, <2>1 DEF Shown, Stage
<1> QED BY <1>6, <1>7, <1>8

LEMMA ShownNext ==
  ASSUME CInv'
  PROVE  \A c \in Clients : Shown(c)'
<1>1. CInv' => (\A c \in Clients : Shown(c))'
  BY ShownAlways, PTL
<1> QED BY <1>1

(* A connection of which nothing is left is a conversation that is over.   *)
LEMMA OverFacts ==
  ASSUME CInv, CInv', NEW c \in Clients, OnlyAt(c),
         peer'[c] = "away", heard'[c] = 0
  PROVE  Talk!Over(c)
<1>1. Stage(c)' = "away" /\ Due(c)' = 0
  BY ShownNext DEF Shown
<1>2. /\ Stages' = [Stages EXCEPT ![c] = "away"]
      /\ Dues' = [Dues EXCEPT ![c] = 0]
      /\ heard' = [heard EXCEPT ![c] = 0]
      /\ Left' = Left \ {c}
  BY <1>1, OnlyAtFacts
<1> QED BY <1>2 DEF Talk!Over, Stages, Dues, Left

(* The request of a connection that is read comes to nothing.              *)
LEMMA TurnedAway ==
  ASSUME CInv, CInv', NEW c \in Clients, Live(c), client[c].armed,
         NEW r, NEW t, NEW z, ClientDisconnect(c, r, t, z, sent[c]),
         UNCHANGED <<server, backlog>>
  PROVE  Talk!TurnAway(c)
<1>1. client' = [client EXCEPT ![c] = NoClient] /\ Away(c)
  BY NothingSent DEF ClientDisconnect, CloseSocket
<1>2. OnlyAt(c) /\ peer'[c] = "away" /\ heard'[c] = 0
  BY <1>1 DEF OnlyAt, Away, CInv, TypeOK
<1>3. Talk!Over(c)
  BY <1>2, OverFacts
<1>4. Stages[c] = "asking"
  BY ShownAlways DEF Shown, Stages
<1>5. UNCHANGED <<(server = "up"), backlog>>
  OBVIOUS
<1> QED BY <1>3, <1>4, <1>5 DEF Talk!TurnAway, Stages

(* It is answered, or its reply could not be queued.                       *)
LEMMA Answered ==
  ASSUME CInv, CInv', NEW c \in Clients, Live(c), client[c].armed,
         NEW q \in ClientStruct, client' = [client EXCEPT ![c] = q], ~ q.armed,
         NEW n \in 1 .. MaxReply, q.outbuf \in {0, n},
         UNCHANGED <<peer, sent, heard>>, UNCHANGED <<server, backlog>>
  PROVE  Talk!Answer(c)
<1>1. /\ client'[c] = q /\ Live(c)' /\ OnlyAt(c)
      /\ Left' = Left
  BY StructFacts DEF CInv, TypeOK, Live, OnlyAt, Left
<1>2. /\ Stages' = [Stages EXCEPT ![c] = Stage(c)']
      /\ Dues' = [Dues EXCEPT ![c] = Due(c)']
  BY <1>1, OnlyAtFacts
<1>3. Stages[c] = "asking" /\ Dues[c] = 0 /\ Dues = [Dues EXCEPT ![c] = 0]
  BY ShownAlways DEF Shown, Stages, Dues
<1>4. sent'[c] = 0
  BY NothingSent
<1>5. \/ Stage(c)' = "told" /\ Due(c)' = n
      \/ Stage(c)' = "mute" /\ Due(c)' = 0
  <2>1. CASE q.outbuf = n
    <3>1. n \in Nat /\ n > 0
      BY ConnectionsAssumption
    <3>2. Stage(c)' = "told" /\ Due(c)' = 0 + n
      BY <1>1, <1>4, <2>1, <3>1, ShownNext DEF Shown
    <3> QED BY <3>1, <3>2
  <2>2. CASE q.outbuf = 0
    BY <1>1, <2>2, ShownNext DEF Shown
  <2> QED BY <2>1, <2>2
<1>6. UNCHANGED <<(server = "up"), backlog, heard, Left>>
  BY <1>1
<1>7. CASE Stage(c)' = "told" /\ Due(c)' = n
  <2>1. Stages' = [Stages EXCEPT ![c] = "told"] /\ Dues' = [Dues EXCEPT ![c] = n]
    BY <1>2, <1>7
  <2> QED BY <1>3, <1>6, <2>1 DEF Talk!Answer, Stages, Dues, Left
<1>8. CASE Stage(c)' = "mute" /\ Due(c)' = 0
  <2>1. Stages' = [Stages EXCEPT ![c] = "mute"] /\ Dues' = Dues
    BY <1>2, <1>3, <1>8
  <2> QED BY <1>3, <1>6, <2>1 DEF Talk!Answer, Stages, Dues, Left
<1> QED BY <1>5, <1>7, <1>8

(* Nobody is there any more to read the reply.                             *)
LEMMA BrokenOff ==
  ASSUME CInv, CInv', NEW c \in Clients, Live(c), client[c].outbuf > 0,
         peer[c] = "closed", NEW s, ClientDisconnect(c, client[c], table, zones, s),
         UNCHANGED <<server, backlog>>
  PROVE  Talk!BreakOff(c)
<1>1. client' = [client EXCEPT ![c] = NoClient] /\ Away(c)
  BY DEF ClientDisconnect, CloseSocket
<1>2. OnlyAt(c) /\ peer'[c] = "away" /\ heard'[c] = 0
  BY <1>1 DEF OnlyAt, Away, CInv, TypeOK
<1>3. Talk!Over(c)
  BY <1>2, OverFacts
<1>4. Stages[c] = "told" /\ c \in Left
  BY ShownAlways DEF Shown, Stages, Left
<1>5. UNCHANGED <<(server = "up"), backlog>>
  OBVIOUS
<1> QED BY <1>3, <1>4, <1>5 DEF Talk!BreakOff, Stages, Left

LEMMA Unnoticed ==
  ASSUME CInv, CInv', NEW c \in Clients, OnlyAt(c),
         Stage(c)' = Stage(c), Due(c)' = Due(c), heard'[c] = heard[c],
         peer'[c] = "closed" <=> peer[c] = "closed", UNCHANGED <<server, backlog>>
  PROVE  UNCHANGED Talk!vars
<1>1. /\ Stages' = [Stages EXCEPT ![c] = Stage(c)]
      /\ Dues' = [Dues EXCEPT ![c] = Due(c)]
      /\ heard' = [heard EXCEPT ![c] = heard[c]]
      /\ Left' = IF peer[c] = "closed" THEN Left \cup {c} ELSE Left \ {c}
  BY OnlyAtFacts
<1>2. Stages' = Stages /\ Dues' = Dues
  BY <1>1 DEF Stages, Dues
<1>3. heard' = heard /\ Left' = Left
  BY <1>1 DEF Left, CInv, TypeOK
<1>4. UNCHANGED <<(server = "up"), backlog>>
  OBVIOUS
<1> QED BY <1>2, <1>3, <1>4 DEF Talk!vars, Stages, Dues, Left

(* Bytes on their way to the peer are not heard yet.                       *)
LEMMA WriteTalk ==
  ASSUME CInv, CInv', NEW c \in Clients, Write(c)
  PROVE  UNCHANGED Talk!vars \/ Talk!BreakOff(c)
<1>1. /\ Live(c) /\ UNCHANGED <<server, backlog>> /\ client[c].outbuf > 0
      /\ client[c] \in ClientStruct /\ client[c].outbuf \in Nat
      /\ sent[c] \in Nat
  <2>1. /\ Live(c) /\ UNCHANGED <<server, backlog>> /\ client[c].outbuf > 0
        /\ client[c] \in ClientStruct
    BY LiveFacts DEF Write, Writing
  <2>2. sent[c] \in Nat
    BY ConnectionsAssumption DEF CInv, TypeOK
  <2> QED BY <2>1, <2>2, StructFacts
<1>2. PICK n \in Writable(c) :
        IF n = client[c].outbuf
        THEN ClientDisconnect(c, client[c], table, zones, sent[c] + n)
        ELSE /\ client' = [client EXCEPT ![c].outbuf = @ - n]
             /\ sent' = [sent EXCEPT ![c] = @ + n]
             /\ UNCHANGED <<table, zones, peer, heard>>
  BY DEF Write
<1>3. /\ n \in 1 .. client[c].outbuf /\ n \in Nat /\ n > 0
      /\ sent[c] + n > 0 /\ sent[c] + n \in Nat
  BY <1>1 DEF Writable
<1>4. Stage(c) = "told" /\ Due(c) = sent[c] + client[c].outbuf
  BY <1>1, ShownAlways DEF Shown
<1>5. CASE n = client[c].outbuf /\ peer[c] = "here"
  <2>1. /\ client' = [client EXCEPT ![c] = NoClient]
        /\ peer' = [peer EXCEPT ![c] = "over"]
        /\ sent' = [sent EXCEPT ![c] = sent[c] + n] /\ heard' = heard
    BY <1>2, <1>3, <1>5 DEF ClientDisconnect, CloseSocket
  <2>2. OnlyAt(c) /\ peer'[c] = "over" /\ sent'[c] = sent[c] + n
    BY <2>1 DEF OnlyAt, CInv, TypeOK
  <2>3. Stage(c)' = "told" /\ Due(c)' = sent[c] + n
    BY <2>2, ShownNext DEF Shown
  <2> QED BY <1>1, <1>4, <1>5, <2>1, <2>2, <2>3, Unnoticed
<1>6. CASE n = client[c].outbuf /\ peer[c] # "here"
  <2>1. peer[c] = "closed"
    BY <1>1, <1>6 DEF CInv, BacklogInv
  <2> QED BY <1>1, <1>2, <1>6, <2>1, BrokenOff
<1>7. CASE n # client[c].outbuf
  <2> DEFINE r == [client[c] EXCEPT !.outbuf = client[c].outbuf - n]
  <2>1. /\ client' = [client EXCEPT ![c] = r]
        /\ sent' = [sent EXCEPT ![c] = sent[c] + n]
        /\ UNCHANGED <<peer, heard>>
    BY <1>2, <1>7
  <2>2. r.outbuf = client[c].outbuf - n /\ r.phase = "client"
    BY <1>1 DEF ClientStruct
  <2> HIDE DEF r
  <2>3. /\ OnlyAt(c) /\ client'[c] = r /\ sent'[c] = sent[c] + n
        /\ peer'[c] = peer[c] /\ heard'[c] = heard[c]
    BY <2>1 DEF OnlyAt, CInv, TypeOK
  <2>4. Live(c)' /\ client'[c].outbuf = client[c].outbuf - n
    <3>1. NoClient.phase = "none"
      BY DEF NoClient
    <3> QED BY <2>2, <2>3, <3>1 DEF Live
  <2>5. client[c].outbuf - n > 0
    BY <1>1, <1>3, <1>7
  <2>6. Stage(c)' = "told" /\ Due(c)' = (sent[c] + n) + (client[c].outbuf - n)
    BY <2>3, <2>4, <2>5, ShownNext DEF Shown
  <2>7. Due(c)' = Due(c)
    BY <1>1, <1>3, <1>4, <2>6
  <2> QED BY <1>1, <1>4, <2>3, <2>6, <2>7, Unnoticed
<1> QED BY <1>5, <1>6, <1>7

LEMMA UpdateTalk ==
  ASSUME CInv, CInv', NEW c \in Clients, HandleUpdate(c)
  PROVE  Talk!TurnAway(c) \/ Talk!Answer(c)
<1>1. /\ Live(c) /\ client[c].armed /\ UNCHANGED <<server, backlog>>
      /\ client[c] \in ClientStruct
  BY LiveFacts DEF HandleUpdate, Reading
<1>2. CASE Drop(c)
  BY <1>1, <1>2, TurnedAway DEF Drop
<1>3. CASE UNCHANGED <<table, zones, peerVars>> /\ QueueReply(c, client[c], 1)
  <2>1. PICK q \in ClientStruct :
          client' = [client EXCEPT ![c] = q] /\ ~ q.armed /\ q.outbuf \in {0, 1}
    BY <1>1, <1>3, QueueReplyFacts
  <2>2. 1 \in 1 .. MaxReply
    BY ConnectionsAssumption
  <2>3. UNCHANGED <<peer, sent, heard>>
    BY <1>3 DEF peerVars
  <2> QED BY <1>1, <2>1, <2>2, <2>3, Answered
<1> QED BY <1>2, <1>3 DEF HandleUpdate

LEMMA FetchTalk ==
  ASSUME CInv, CInv', NEW c \in Clients, HandleFetch(c)
  PROVE  Talk!TurnAway(c) \/ Talk!Answer(c)
<1>1. /\ Live(c) /\ client[c].armed /\ UNCHANGED <<server, backlog>>
      /\ client[c] \in ClientStruct
  BY LiveFacts DEF HandleFetch, Reading
<1>2. CASE Drop(c)
  BY <1>1, <1>2, TurnedAway DEF Drop
<1>3. CASE ~ Drop(c)
  <2> DEFINE R(fd) == [client[c] EXCEPT !.read_fd = fd, !.read_mapped_zone = TRUE]
             T(fd) == [table EXCEPT ![fd] = File(c)]
             z == zones \cup {c}
  <2>1. PICK fd \in UnusedFds :
          \/ ClientDisconnect(c, R(fd), T(fd), z, sent[c])
          \/ /\ table' = T(fd) /\ zones' = z
             /\ \E n \in 1 .. MaxReply : QueueReply(c, R(fd), n)
             /\ UNCHANGED peerVars
    BY <1>3 DEF HandleFetch
  <2>2. R(fd) \in ClientStruct
    BY <1>1 DEF ClientStruct, UnusedFds
  <2> HIDE DEF R, T
  <2>3. CASE ClientDisconnect(c, R(fd), T(fd), z, sent[c])
    BY <1>1, <2>3, TurnedAway
  <2>4. CASE \E n \in 1 .. MaxReply : QueueReply(c, R(fd), n) /\ UNCHANGED peerVars
    <3>1. PICK n \in 1 .. MaxReply : QueueReply(c, R(fd), n) /\ UNCHANGED peerVars
      BY <2>4
    <3>2. n \in Nat \ {0}
      BY ConnectionsAssumption
    <3>3. PICK q \in ClientStruct :
            client' = [client EXCEPT ![c] = q] /\ ~ q.armed /\ q.outbuf \in {0, n}
      BY <2>2, <3>1, <3>2, QueueReplyFacts
    <3>4. UNCHANGED <<peer, sent, heard>>
      BY <3>1 DEF peerVars
    <3> QED BY <1>1, <3>3, <3>4, Answered
  <2> QED BY <2>1, <2>3, <2>4
<1> QED BY <1>2, <1>3

LEMMA NewClientTalk ==
  ASSUME CInv, CInv', NewClient
  PROVE  \E c \in Clients : Talk!Admit(c)
<1>0. PICK c : c = Head(backlog)
  OBVIOUS
<1>1. /\ backlog' = Tail(backlog) /\ server' = server
      /\ backlog # <<>> /\ backlog \in Seq(Clients)
  BY DEF NewClient, CInv, TypeOK
<1>2. c \in Clients /\ c = backlog[1] /\ 1 \in 1 .. Len(backlog)
  BY <1>0, <1>1
<1>3. PICK fd \in UnusedFds :
        \/ /\ table' = [table EXCEPT ![fd] = Socket(c)]
           /\ client' = [client EXCEPT ![c] = NewClientStruct(fd)]
           /\ UNCHANGED <<peerVars, zones>>
        \/ Away(c) /\ UNCHANGED <<table, client, zones>>
  BY <1>0 DEF NewClient
<1>4. UNCHANGED (server = "up")
  BY <1>1
<1>5. CASE /\ client' = [client EXCEPT ![c] = NewClientStruct(fd)]
           /\ UNCHANGED <<peer, sent, heard>>
  <2>1. OnlyAt(c) /\ client'[c] = NewClientStruct(fd)
    BY <1>2, <1>5 DEF OnlyAt, CInv, TypeOK
  <2>2. Live(c)' /\ client'[c].armed
    BY <2>1, StructFacts DEF NewClientStruct, NoClient, Live
  <2>3. Stage(c)' = "asking" /\ Due(c)' = 0
    BY <1>2, <2>2, ShownNext DEF Shown
  <2>4. ~ Live(c) /\ peer[c] \in {"here", "closed"}
    BY <1>2 DEF CInv, BacklogInv
  <2>5. Due(c) = 0
    BY <1>2, <2>4, ShownAlways DEF Shown
  <2>6. Stages' = [Stages EXCEPT ![c] = "asking"] /\ Dues' = [Dues EXCEPT ![c] = 0]
    BY <1>2, <2>1, <2>3, OnlyAtFacts
  <2>7. Dues' = Dues
    BY <1>2, <2>5, <2>6 DEF Dues
  <2>8. UNCHANGED <<heard, Left>>
    BY <1>5 DEF Left
  <2> QED BY <1>0, <1>1, <1>2, <1>4, <2>6, <2>7, <2>8 DEF Talk!Admit, Stages, Dues, Left
<1>6. CASE Away(c) /\ UNCHANGED client
  <2>1. OnlyAt(c) /\ peer'[c] = "away" /\ heard'[c] = 0
    BY <1>2, <1>6 DEF OnlyAt, Away, CInv, TypeOK
  <2>2. Talk!Over(c)
    BY <1>2, <2>1, OverFacts
  <2> QED BY <1>0, <1>1, <1>2, <1>4, <2>2 DEF Talk!Admit
<1> QED BY <1>3, <1>5, <1>6 DEF peerVars

LEMMA ConnectTalk ==
  ASSUME CInv, CInv', NEW c \in Clients, Connect(c)
  PROVE  Talk!Arrive(c)
<1>1. /\ server = "up" /\ peer[c] = "away" /\ peer' = [peer EXCEPT ![c] = "here"]
      /\ backlog' = Append(backlog, c)
      /\ UNCHANGED <<server, sent, heard, client>>
  BY DEF Connect
<1>2. OnlyAt(c) /\ peer'[c] = "here"
  BY <1>1 DEF OnlyAt, CInv, TypeOK
<1>3. ~ Live(c) /\ Stage(c) = "away" /\ Due(c) = 0
  BY <1>1, ShownAlways DEF Shown
<1>4. ~ Live(c)'
  BY <1>1, <1>3 DEF Live
<1>5. Stage(c)' = "waiting" /\ Due(c)' = 0
  BY <1>2, <1>4, ShownNext DEF Shown
<1>6. Stages' = [Stages EXCEPT ![c] = "waiting"] /\ Dues' = [Dues EXCEPT ![c] = 0]
  BY <1>2, <1>5, OnlyAtFacts
<1>7. Stages[c] = "away" /\ Dues' = Dues
  BY <1>3, <1>6 DEF Stages, Dues
<1>8. Left' = Left
  BY <1>1, <1>2 DEF Left, OnlyAt
<1>9. UNCHANGED (server = "up")
  BY <1>1
<1> QED BY <1>1, <1>6, <1>7, <1>8, <1>9 DEF Talk!Arrive, Stages, Dues, Left

LEMMA PeerReadsTalk ==
  ASSUME CInv, CInv', NEW c \in Clients, PeerReads(c)
  PROVE  Talk!Hear(c)
<1>1. /\ peer[c] \in {"here", "over"} /\ sent[c] > 0 /\ sent[c] \in Nat
      /\ UNCHANGED <<server, backlog, client>>
  BY ConnectionsAssumption DEF PeerReads, CInv, TypeOK
<1>2. c \notin Left /\ UNCHANGED <<(server = "up"), backlog>>
  BY <1>1 DEF Left
<1>3. CASE peer[c] = "over" /\ sent[c] = 1
  <2>1. Away(c)
    BY <1>3 DEF PeerReads
  <2>2. OnlyAt(c) /\ peer'[c] = "away" /\ heard'[c] = 0
    BY <1>1, <2>1 DEF OnlyAt, Away, CInv, TypeOK
  <2>3. Talk!Over(c)
    BY <2>2, OverFacts
  <2>4. Stages[c] = "told" /\ Dues[c] = 1
    BY <1>3, ShownAlways DEF Shown, Stages, Dues
  <2> QED BY <1>2, <2>3, <2>4 DEF Talk!Hear, Stages, Dues, Left
<1>4. CASE ~ (peer[c] = "over" /\ sent[c] = 1)
  <2>1. /\ sent' = [sent EXCEPT ![c] = sent[c] - 1]
        /\ heard' = [heard EXCEPT ![c] = heard[c] + 1] /\ peer' = peer
    BY <1>4 DEF PeerReads
  <2>2. OnlyAt(c) /\ sent'[c] = sent[c] - 1
    BY <1>1, <2>1 DEF OnlyAt, CInv, TypeOK
  <2>3. Stage(c) = "told" /\ Stage(c)' = "told" /\ Due(c)' = Due(c) - 1 /\ Due(c) # 1
    <3>1. CASE peer[c] = "over"
      <4>1. Stage(c) = "told" /\ Due(c) = sent[c]
        BY <3>1, ShownAlways DEF Shown
      <4>2. Stage(c)' = "told" /\ Due(c)' = sent'[c]
        BY <2>1, <3>1, ShownNext DEF Shown
      <4> QED BY <1>1, <1>4, <2>2, <3>1, <4>1, <4>2
    <3>2. CASE peer[c] # "over"
      <4>1. Live(c) /\ client[c].outbuf > 0
        BY <1>1, <3>2 DEF CInv, ReplyInv
      <4>2. client[c].outbuf \in Nat
        BY <4>1, LiveFacts, StructFacts
      <4>3. Stage(c) = "told" /\ Due(c) = sent[c] + client[c].outbuf
        BY <4>1, ShownAlways DEF Shown
      <4>4. Live(c)' /\ client'[c].outbuf > 0 /\ client'[c].outbuf = client[c].outbuf
        BY <1>1, <4>1 DEF Live
      <4>5. Stage(c)' = "told" /\ Due(c)' = (sent[c] - 1) + client[c].outbuf
        BY <2>2, <4>4, ShownNext DEF Shown
      <4> QED BY <1>1, <4>1, <4>2, <4>3, <4>5
    <3> QED BY <3>1, <3>2
  <2>4. Stages' = [Stages EXCEPT ![c] = "told"] /\ Dues' = [Dues EXCEPT ![c] = Due(c) - 1]
    BY <2>2, <2>3, OnlyAtFacts
  <2>5. /\ Stages[c] = "told" /\ Stages' = Stages
        /\ Dues[c] # 1 /\ Dues' = [Dues EXCEPT ![c] = Dues[c] - 1]
    BY <2>3, <2>4 DEF Stages, Dues
  <2>6. Left' = Left
    BY <2>1 DEF Left
  <2> QED BY <1>2, <2>1, <2>5, <2>6 DEF Talk!Hear, Stages, Dues, Left
<1> QED BY <1>3, <1>4

LEMMA PeerClosesTalk ==
  ASSUME CInv, CInv', NEW c \in Clients, PeerCloses(c)
  PROVE  Talk!Leave(c)
<1>1. /\ peer[c] = "here" /\ peer' = [peer EXCEPT ![c] = "closed"]
      /\ UNCHANGED <<server, backlog, sent, heard, client>>
  BY DEF PeerCloses
<1>2. OnlyAt(c) /\ peer'[c] = "closed"
  BY <1>1 DEF OnlyAt, CInv, TypeOK
<1>3. Stage(c)' = Stage(c) /\ Due(c)' = Due(c) /\ Stage(c) # "away"
  BY <1>1, <1>2 DEF Stage, Due, Live
<1>4. /\ Stages' = [Stages EXCEPT ![c] = Stage(c)] /\ Dues' = [Dues EXCEPT ![c] = Due(c)]
      /\ Left' = Left \cup {c}
  BY <1>2, <1>3, OnlyAtFacts
<1>5. Stages' = Stages /\ Dues' = Dues /\ Stages[c] # "away" /\ c \notin Left
  BY <1>1, <1>3, <1>4 DEF Stages, Dues, Left
<1>6. UNCHANGED <<(server = "up"), backlog, heard>>
  BY <1>1
<1> QED BY <1>4, <1>5, <1>6 DEF Talk!Leave, Stages, Dues, Left

(* A server with nothing open shows nothing.                               *)
NothingShown ==
  /\ Stages = [c \in Clients |-> "away"] /\ Dues = [c \in Clients |-> 0]
  /\ heard = [c \in Clients |-> 0] /\ Left = {} /\ backlog = <<>>

LEMMA EmptyTalk == Empty => NothingShown
<1> SUFFICES ASSUME Empty
             PROVE  NothingShown
  OBVIOUS
<1>1. \A c \in Clients : peer[c] = "away" /\ ~ Live(c) /\ sent[c] = 0
  BY DEF Empty, Live
<1>2. \A c \in Clients : Stage(c) = "away" /\ Due(c) = 0
  <2> TAKE c \in Clients
  <2>1. peer[c] = "away" /\ ~ Live(c) /\ sent[c] = 0
    BY <1>1
  <2>2. Due(c) = 0 + 0
    BY <2>1 DEF Due
  <2> QED BY <2>1, <2>2 DEF Stage
<1> QED BY <1>1, <1>2 DEF NothingShown, Stages, Dues, Left, Empty

LEMMA SigpipeTalk ==
  ASSUME CInv, NEW c \in Clients, Sigpipe(c)
  PROVE  Talk!End(c)
<1>1. Empty'
  BY DEF Sigpipe, Empty
<1>2. NothingShown'
  <2>1. Empty' => NothingShown'
    BY EmptyTalk, PTL
  <2> QED BY <1>1, <2>1
<1>3. Live(c) /\ client[c].outbuf > 0 /\ peer[c] = "closed"
  BY DEF Sigpipe, Writing
<1>4. Stages[c] = "told" /\ c \in Left
  BY <1>3, ShownAlways DEF Shown, Stages, Left
<1>5. (server = "up")' = FALSE
  BY DEF Sigpipe
<1> QED BY <1>2, <1>4, <1>5 DEF Talk!End, NothingShown, Stages, Dues, Left

LEMMA NextTalk ==
  ASSUME CInv, CInv', [Next]_vars
  PROVE  [Talk!Next]_(Talk!vars)
<1>1. CASE NewClient
  BY <1>1, NewClientTalk DEF Talk!Next
<1>2. ASSUME NEW c \in Clients, Served(c)
      PROVE  [Talk!Next]_(Talk!vars)
  <2>1. CASE ReadEnds(c) \/ Timeout(c)
    <3>1. Talk!TurnAway(c)
      BY <2>1, TurnedAway DEF ReadEnds, Timeout, Reading, Drop
    <3> QED BY <3>1 DEF Talk!Next
  <2>2. CASE HandleUpdate(c)
    BY <2>2, UpdateTalk DEF Talk!Next
  <2>3. CASE HandleFetch(c)
    BY <2>3, FetchTalk DEF Talk!Next
  <2>4. CASE Write(c)
    BY <2>4, WriteTalk DEF Talk!Next
  <2>5. CASE WriteFails(c)
    <3>1. Talk!BreakOff(c)
      BY <2>5, BrokenOff DEF WriteFails, Writing, Drop
    <3> QED BY <3>1 DEF Talk!Next
  <2>6. CASE Sigpipe(c)
    BY <2>6, SigpipeTalk DEF Talk!Next
  <2> QED BY <1>2, <2>1, <2>2, <2>3, <2>4, <2>5, <2>6 DEF Served
<1>3. ASSUME NEW c \in Clients, Connect(c) \/ PeerReads(c) \/ PeerCloses(c)
      PROVE  [Talk!Next]_(Talk!vars)
  BY <1>3, ConnectTalk, PeerReadsTalk, PeerClosesTalk DEF Talk!Next
<1>4. CASE UNCHANGED vars
  <2>1. UNCHANGED <<server, backlog, peer, sent, heard, client>>
    BY <1>4 DEF vars
  <2>2. UNCHANGED <<Stages, Dues, Left>>
    BY <2>1 DEF Stages, Dues, Left, Stage, Due, Live
  <2> QED BY <2>1, <2>2 DEF Talk!vars, Stages, Dues, Left
<1> QED BY <1>1, <1>2, <1>3, <1>4 DEF Next

LEMMA InitTalk == Init => Talk!Init
<1> SUFFICES ASSUME Init
             PROVE  Talk!Init
  OBVIOUS
<1>1. Empty
  BY DEF Init, Empty
<1>2. (server = "up") = TRUE
  BY DEF Init
<1> QED BY <1>1, <1>2, EmptyTalk DEF Talk!Init, NothingShown, Stages, Dues, Left

(* Connections implements Conversations: each peer has its turn, asks      *)
(* once, and can read its whole answer if it stays, however the callbacks  *)
(* for all the others come in between.                                     *)
THEOREM ConversationsImplemented == Spec => ImplementsConversations
<1>1. CInv /\ CInv' /\ [Next]_vars => [Talk!Next]_(Talk!vars)
  BY NextTalk
<1> QED BY <1>1, InitTalk, Invariance, PTL DEF Spec, ImplementsConversations, Talk!Spec


-----------------------------------------------------------------------------
(* What follows from it for one peer.                                      *)

(* A step changes nothing about an answer that is being told, unless it is *)
(* its peer that hears, leaves or is left.                                 *)
LEMMA ToldStep ==
  ASSUME CInv, [Talk!Next]_(Talk!vars), NEW c \in Clients,
         Stage(c) = "told", peer[c] # "closed", (server = "up")' = TRUE
  PROVE  \/ Stage(c)' = "told" /\ heard'[c] + Due(c)' = heard[c] + Due(c)
         \/ Stage(c)' = "away" /\ Due(c) = 1
<1>1. /\ Stages[c] = "told" /\ Dues[c] = Due(c) /\ c \notin Left
      /\ Stages'[c] = Stage(c)' /\ Dues'[c] = Due(c)'
      /\ DOMAIN Stages = Clients /\ DOMAIN Dues = Clients
  BY DEF Stages, Dues, Left
<1>2. /\ heard \in [Clients -> Nat] /\ sent[c] \in Nat
      /\ client[c] \in ClientStruct \cup {NoClient}
  BY ConnectionsAssumption DEF CInv, TypeOK
<1>3. Due(c) \in Nat
  <2>1. Live(c) => client[c].outbuf \in Nat
    BY <1>2, StructFacts DEF Live
  <2> QED BY <1>2, <2>1 DEF Due
<1>4. CASE UNCHANGED Talk!vars
  <2>1. Stages' = Stages /\ Dues' = Dues /\ heard' = heard
    BY <1>4 DEF Talk!vars, Stages, Dues
  <2> QED BY <1>1, <2>1
<1>5. ASSUME NEW d \in Clients,
             \/ Talk!Arrive(d) \/ Talk!Admit(d) \/ Talk!TurnAway(d) \/ Talk!Answer(d)
             \/ Talk!Hear(d) \/ Talk!Leave(d) \/ Talk!BreakOff(d) \/ Talk!End(d)
      PROVE  \/ Stage(c)' = "told" /\ heard'[c] + Due(c)' = heard[c] + Due(c)
             \/ Stage(c)' = "away" /\ Due(c) = 1
  <2>1. CASE Talk!Arrive(d)
    <3>1. /\ Stages[d] = "away" /\ Stages' = [Stages EXCEPT ![d] = "waiting"]
          /\ Dues' = Dues /\ heard' = heard
      BY <2>1 DEF Talk!Arrive, Stages, Dues
    <3> QED BY <1>1, <3>1
  <2>2. CASE Talk!Admit(d)
    <3>1. Len(backlog) >= 1 /\ d = backlog[1]
      BY <2>2, ConnectionsAssumption DEF Talk!Admit, CInv, TypeOK
    <3>2. d # c
      <4>1. ~ Live(d) /\ peer[d] \in {"here", "closed"}
        BY <3>1 DEF CInv, BacklogInv, TypeOK
      <4>2. Stage(d) = "waiting"
        BY <4>1 DEF Stage
      <4> QED BY <4>2
    <3>3. /\ Stages'[c] = Stages[c] /\ Dues'[c] = Dues[c] /\ heard'[c] = heard[c]
      BY <1>1, <1>2, <2>2, <3>2 DEF Talk!Admit, Talk!Over, Stages, Dues
    <3> QED BY <1>1, <3>3
  <2>3. CASE Talk!TurnAway(d)
    <3>1. d # c
      BY <1>1, <2>3 DEF Talk!TurnAway, Stages
    <3>2. /\ Stages'[c] = Stages[c] /\ Dues'[c] = Dues[c] /\ heard'[c] = heard[c]
      BY <1>1, <1>2, <2>3, <3>1 DEF Talk!TurnAway, Talk!Over, Stages, Dues
    <3> QED BY <1>1, <3>2
  <2>4. CASE Talk!Answer(d)
    <3>1. d # c
      BY <1>1, <2>4 DEF Talk!Answer, Stages
    <3>2. /\ Stages'[c] = Stages[c] /\ Dues'[c] = Dues[c] /\ heard'[c] = heard[c]
      BY <1>1, <2>4, <3>1 DEF Talk!Answer, Stages, Dues
    <3> QED BY <1>1, <3>2
  <2>5. CASE Talk!Hear(d) /\ d = c /\ Dues[c] = 1
    <3>1. Stages' = [Stages EXCEPT ![c] = "away"]
      BY <2>5 DEF Talk!Hear, Talk!Over, Stages, Dues
    <3> QED BY <1>1, <2>5, <3>1
  <2>6. CASE Talk!Hear(d) /\ d = c /\ Dues[c] # 1
    <3>1. /\ heard' = [heard EXCEPT ![c] = @ + 1]
          /\ Dues' = [Dues EXCEPT ![c] = @ - 1] /\ Stages' = Stages
      BY <2>6 DEF Talk!Hear, Stages, Dues
    <3>2. heard'[c] = heard[c] + 1 /\ Due(c)' = Due(c) - 1
      BY <1>1, <1>2, <3>1
    <3> QED BY <1>1, <1>2, <1>3, <3>1, <3>2
  <2>7. CASE (Talk!Hear(d) \/ Talk!BreakOff(d)) /\ d # c
    <3>1. /\ Stages'[c] = Stages[c] /\ Dues'[c] = Dues[c] /\ heard'[c] = heard[c]
      BY <1>1, <1>2, <2>7 DEF Talk!Hear, Talk!BreakOff, Talk!Over, Stages, Dues
    <3> QED BY <1>1, <3>1
  <2>8. CASE Talk!Leave(d)
    <3>1. Stages' = Stages /\ Dues' = Dues /\ heard' = heard
      BY <2>8 DEF Talk!Leave, Stages, Dues
    <3> QED BY <1>1, <3>1
  <2>9. ~ (Talk!BreakOff(d) /\ d = c)
    BY <1>1 DEF Talk!BreakOff, Left
  <2>10. ~ Talk!End(d)
    BY DEF Talk!End
  <2> QED BY <1>5, <2>1, <2>2, <2>3, <2>4, <2>5, <2>6, <2>7, <2>8, <2>9, <2>10
<1> QED BY <1>4, <1>5 DEF Talk!Next

(* An answer that has begun reaches the peer that stays to its last byte:  *)
(* what is in the output buffer, in the kernel and read already is the     *)
(* same at every step, and the conversation ends with the last byte.       *)
AnswersWhole ==
  [][\A c \in Clients :
       Stage(c) = "told" /\ peer[c] # "closed" /\ server' = "up" =>
         \/ Stage(c)' = "told" /\ heard'[c] + Due(c)' = heard[c] + Due(c)
         \/ Stage(c)' = "away" /\ Due(c) = 1]_vars

(* No callback of another connection, and no close(), cuts an answer short.*)
THEOREM AnswersReachTheirPeers == Spec => AnswersWhole
<1>1. CInv /\ CInv' /\ [Next]_vars =>
        [\A c \in Clients :
           Stage(c) = "told" /\ peer[c] # "closed" /\ server' = "up" =>
             \/ Stage(c)' = "told" /\ heard'[c] + Due(c)' = heard[c] + Due(c)
             \/ Stage(c)' = "away" /\ Due(c) = 1]_vars
  BY NextTalk, ToldStep
<1> QED BY <1>1, Invariance, PTL DEF Spec, AnswersWhole

(* A peer that waits while every descriptor is in use waits for somebody   *)
(* who is being read, with a timeout, or written to; or for a reply that   *)
(* could not be queued, which nothing ends but the server's own end.       *)
NoStandstill ==
  Fds # {} /\ UnusedFds = {} =>
    \E c \in Clients :
      Live(c) /\ (client[c].armed \/ client[c].outbuf > 0 \/ client[c].unsent)

(* The descriptors that accept() lacks are all in hands that are to let    *)
(* them go.                                                                *)
THEOREM DescriptorsInHands == Spec => []NoStandstill
<1>1. CInv => NoStandstill
  <2> SUFFICES ASSUME CInv, NEW fd \in Fds, UnusedFds = {}
               PROVE  \E c \in Clients :
                        Live(c) /\ (client[c].armed \/ client[c].outbuf > 0
                                    \/ client[c].unsent)
    BY DEF NoStandstill
  <2>1. PICK c \in Clients : table[fd] = Socket(c) \/ table[fd] = File(c)
    BY DEF CInv, TypeOK, UnusedFds
  <2>2. Live(c)
    BY <2>1 DEF CInv, ResourcesOwned
  <2> QED BY <2>2 DEF CInv, OneEventEach
<1> QED BY <1>1, Invariance, PTL
===============================================================================
