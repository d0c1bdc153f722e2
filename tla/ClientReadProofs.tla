--------------------------- MODULE ClientReadProofs ---------------------------
(***************************************************************************)
(* Proofs about ClientRead, for every chunk size, size limit, set of       *)
(* lengths and stream length.                                              *)
(***************************************************************************)
EXTENDS ClientRead, TLAPS

(* The facts the reader keeps about the buffer: it holds the bytes the     *)
(* peer has sent so far, and stays below the limit while more is awaited.  *)
BufferInv ==
  /\ client.offset_read_buf + unread = peer.bytes
  /\ client.offset_read_buf <= client.sizeof_read_buf
  /\ client.sizeof_read_buf < MaxReadSize + ChunkSize
  /\ phase = "queued" => client = NewClientStruct
  /\ phase = "reading" => client.offset_read_buf < MaxReadSize

(* The facts it keeps about the header: undecoded, or decoded to exactly   *)
(* what the peer declared.                                                 *)
HeaderInv ==
  \/ /\ client.client_command = "undef"
     /\ client.total_len = 0
     /\ phase # "dispatched"
     /\ phase = "reading" /\ peer.first \notin Commands
          => client.offset_read_buf = 0
     /\ phase = "reading" /\ peer.first \in Commands
          => client.offset_read_buf <= Header(peer.first)
  \/ /\ client.client_command = peer.first
     /\ peer.first \in Commands
     /\ client.key_len = peer.key
     /\ client.data_len = IF peer.first = "store" THEN peer.data ELSE 0
     /\ client.total_len = Declared(peer)
     /\ client.offset_read_buf > Header(peer.first)
     /\ phase # "queued"
     /\ phase = "reading" => client.offset_read_buf < client.total_len
     /\ phase = "dispatched" => client.offset_read_buf = client.total_len

(* Why a connection has been closed.                                       *)
RefusalInv ==
  phase = "closed" =>
    /\ why # "open"
    /\ why = "unknown" => peer.first \notin Commands
    /\ why = "too many" => peer.bytes > Declared(peer)
    /\ why = "limit" => Declared(peer) > MaxReadSize
    /\ why = "eof" => \/ peer.first \notin Commands
                      \/ peer.bytes < Declared(peer)
                      \/ peer.bytes <= Header(peer.first)

IInv ==
  /\ TypeOK
  /\ ArmedWhileReading
  /\ BufferInv
  /\ HeaderInv
  /\ RefusalInv

-----------------------------------------------------------------------------
(* The lengths a peer declares, and how long its header and request are.   *)
LEMMA PeerFacts ==
  ASSUME peer \in Peers
  PROVE  /\ peer.bytes \in Nat
         /\ Header(peer.first) \in {5, 9}
         /\ Declared(peer) \in Nat
         /\ Declared(peer) >= Header(peer.first)
<1>1. /\ peer.key \in Lengths /\ peer.data \in Lengths
      /\ peer.bytes \in 0 .. MaxStream
  BY DEF Peers
<1>2. peer.key \in Nat /\ peer.data \in Nat
  BY <1>1, SizesAssumption
<1>3. peer.bytes \in Nat
  BY <1>1, SizesAssumption
<1>4. Header(peer.first) = 5 \/ Header(peer.first) = 9
  BY DEF Header
<1> QED BY <1>2, <1>3, <1>4 DEF Declared

(* The realloc of client_read only grows the buffer, to the bytes held and *)
(* one chunk more.                                                         *)
LEMMA GrownFacts ==
  ASSUME NEW c \in Client
  PROVE  /\ Grown(c) \in Client
         /\ Grown(c).offset_read_buf = c.offset_read_buf
         /\ Grown(c).client_command = c.client_command
         /\ Grown(c).key_len = c.key_len
         /\ Grown(c).data_len = c.data_len
         /\ Grown(c).total_len = c.total_len
         /\ Grown(c).sizeof_read_buf >= c.offset_read_buf + ChunkSize
         /\ \/ Grown(c).sizeof_read_buf = c.sizeof_read_buf
            \/ Grown(c).sizeof_read_buf = c.offset_read_buf + ChunkSize
BY SizesAssumption DEF Grown, Client

(* Decoding either leaves the structure alone or, once the header is in    *)
(* the buffer, sets the command and the lengths the peer declared.         *)
LEMMA DecodeFacts ==
  ASSUME NEW c \in Client, DecodeHeader(c), peer \in Peers
  PROVE  /\ client' \in Client
         /\ client'.sizeof_read_buf = c.sizeof_read_buf
         /\ client'.offset_read_buf = c.offset_read_buf
         /\ \/ /\ client' = c
               /\ \/ c.client_command # "undef"
                  \/ peer.first \notin Commands
                  \/ c.offset_read_buf <= Header(peer.first)
            \/ /\ c.client_command = "undef"
               /\ peer.first \in Commands
               /\ c.offset_read_buf > Header(peer.first)
               /\ client'.client_command = peer.first
               /\ client'.key_len = peer.key
               /\ client'.data_len = IF peer.first = "store" THEN peer.data ELSE 0
               /\ client'.total_len = Declared(peer)
<1> c.offset_read_buf \in Nat /\ Header(peer.first) \in {5, 9}
  BY DEF Client, Header
<1>1. CASE ~ Decodable(c)
  <2>1. client' = c
    BY <1>1 DEF DecodeHeader
  <2>2. \/ c.client_command # "undef"
        \/ peer.first \notin Commands
        \/ c.offset_read_buf <= Header(peer.first)
    BY <1>1 DEF Decodable, HeaderArrived
  <2> QED BY <2>1, <2>2
<1>2. CASE Decodable(c)
  <2>1. /\ c.client_command = "undef"
        /\ peer.first \in Commands
        /\ c.offset_read_buf > Header(peer.first)
    BY <1>2 DEF Decodable, HeaderArrived
  <2>2. Decoded(c, 5, peer.key) = {peer.key}
    BY <2>1 DEF Decoded, Header
  <2>3. peer.first = "store" => Decoded(c, 9, peer.data) = {peer.data}
    BY <2>1 DEF Decoded, Header
  <2> DEFINE data == IF peer.first = "store" THEN peer.data ELSE 0
  <2>4. client' = [c EXCEPT !.client_command = peer.first,
                            !.key_len = peer.key,
                            !.data_len = data,
                            !.total_len = Header(peer.first) + peer.key + data]
    BY <1>2, <2>2, <2>3 DEF DecodeHeader
  <2>5. peer.key \in Nat /\ data \in Nat
    BY SizesAssumption DEF Peers
  <2>6. Header(peer.first) + peer.key + data \in Nat
    BY <2>5
  <2>7. Declared(peer) = Header(peer.first) + peer.key + data
    BY DEF Declared
  <2> HIDE DEF data
  <2>8. client' \in Client
    BY <2>1, <2>4, <2>5, <2>6 DEF Client
  <2>9. /\ client'.sizeof_read_buf = c.sizeof_read_buf
        /\ client'.offset_read_buf = c.offset_read_buf
        /\ client'.client_command = peer.first
        /\ client'.key_len = peer.key
        /\ client'.data_len = data
        /\ client'.total_len = Declared(peer)
    BY <2>4, <2>7 DEF Client
  <2> QED BY <2>1, <2>8, <2>9 DEF data
<1> QED BY <1>1, <1>2

(* The initial states satisfy the invariant.                               *)
LEMMA InitInvariant == Init => IInv
<1> SUFFICES ASSUME Init PROVE IInv
  OBVIOUS
<1>1. TypeOK
  <2>1. peer \in Peers /\ unread \in Nat
    BY SizesAssumption DEF Init, Peers
  <2>2. client \in Client
    BY DEF Init, NewClientStruct, Client
  <2> QED BY <2>1, <2>2 DEF Init, TypeOK
<1>2. ArmedWhileReading /\ RefusalInv
  BY DEF Init, ArmedWhileReading, RefusalInv
<1>3. BufferInv
  BY SizesAssumption DEF Init, BufferInv, NewClientStruct, Peers
<1>4. HeaderInv
  BY DEF Init, HeaderInv, NewClientStruct
<1> QED BY <1>1, <1>2, <1>3, <1>4 DEF IInv

(* Reading some bytes, decoding the header and deciding what comes next    *)
(* preserves the invariant: the heart of client_read.                      *)
LEMMA ReadBytesInvariant ==
  ASSUME IInv, ReadBytes
  PROVE  IInv'
<1> USE SizesAssumption
<1>0. /\ phase = "reading" /\ client \in Client /\ peer \in Peers
      /\ unread \in Nat /\ peer' = peer /\ eof' = eof
      /\ errno' = errno /\ wakeups' = wakeups
  BY DEF IInv, TypeOK, ReadBytes, Readable, environment
<1> DEFINE g == Grown(client)
<1>1. PICK n \in 1 .. unread :
        /\ n <= g.sizeof_read_buf - g.offset_read_buf
        /\ unread' = unread - n
        /\ DecodeHeader([g EXCEPT !.offset_read_buf = @ + n])
        /\ Decide(client')
  BY DEF ReadBytes
<1> DEFINE c == [g EXCEPT !.offset_read_buf = @ + n]
<1>2. /\ g \in Client
      /\ g.offset_read_buf = client.offset_read_buf
      /\ g.client_command = client.client_command
      /\ g.key_len = client.key_len
      /\ g.data_len = client.data_len
      /\ g.total_len = client.total_len
      /\ \/ g.sizeof_read_buf = client.sizeof_read_buf
         \/ g.sizeof_read_buf = client.offset_read_buf + ChunkSize
  BY <1>0, GrownFacts
<1>3. n \in Nat /\ n > 0 /\ n <= unread /\ unread' \in Nat
  BY <1>0, <1>1
<1> HIDE DEF g
<1>4. /\ c \in Client
      /\ c.offset_read_buf = client.offset_read_buf + n
      /\ c.sizeof_read_buf = g.sizeof_read_buf
      /\ c.client_command = client.client_command
      /\ c.key_len = client.key_len
      /\ c.data_len = client.data_len
      /\ c.total_len = client.total_len
  BY <1>2, <1>3 DEF Client
<1>5. DecodeHeader(c)
  BY <1>1
<1> HIDE DEF c
<1>6. /\ client' \in Client
      /\ client'.sizeof_read_buf = c.sizeof_read_buf
      /\ client'.offset_read_buf = c.offset_read_buf
      /\ \/ /\ client' = c
            /\ \/ c.client_command # "undef"
               \/ peer.first \notin Commands
               \/ c.offset_read_buf <= Header(peer.first)
         \/ /\ c.client_command = "undef"
            /\ peer.first \in Commands
            /\ c.offset_read_buf > Header(peer.first)
            /\ client'.client_command = peer.first
            /\ client'.key_len = peer.key
            /\ client'.data_len = IF peer.first = "store" THEN peer.data ELSE 0
            /\ client'.total_len = Declared(peer)
  BY <1>0, <1>4, <1>5, DecodeFacts
<1>7. /\ Header(peer.first) \in {5, 9}
      /\ Declared(peer) \in Nat /\ Declared(peer) >= Header(peer.first)
      /\ peer.bytes \in Nat
  BY <1>0, PeerFacts
<1>8. /\ client.offset_read_buf \in Nat /\ client.sizeof_read_buf \in Nat
      /\ client.offset_read_buf + unread = peer.bytes
      /\ client.sizeof_read_buf < MaxReadSize + ChunkSize
      /\ client.offset_read_buf < MaxReadSize
      /\ ChunkSize \in Nat /\ MaxReadSize \in Nat /\ MaxReadSize >= 10
      /\ g.sizeof_read_buf \in Nat
  BY <1>0, <1>2 DEF IInv, BufferInv, Client
<1> DEFINE size == client'.sizeof_read_buf
           offset == client'.offset_read_buf
<1>9. /\ offset \in Nat /\ offset > 0
      /\ offset + unread' = peer.bytes
      /\ offset <= size
      /\ size < MaxReadSize + ChunkSize
  <2>1. offset = client.offset_read_buf + n /\ size = g.sizeof_read_buf
    BY <1>4, <1>6
  <2>2. g.sizeof_read_buf < MaxReadSize + ChunkSize
    BY <1>2, <1>8
  <2>3. n <= g.sizeof_read_buf - client.offset_read_buf
    BY <1>1, <1>2
  <2> QED BY <2>1, <2>2, <2>3, <1>0, <1>1, <1>3, <1>8
(* What the structure knows of the header before the decision.             *)
<1>10. \/ /\ client'.client_command = "undef"
          /\ client'.total_len = 0
          /\ peer.first \in Commands => offset <= Header(peer.first)
       \/ /\ client'.client_command = peer.first
          /\ peer.first \in Commands
          /\ client'.key_len = peer.key
          /\ client'.data_len = IF peer.first = "store" THEN peer.data ELSE 0
          /\ client'.total_len = Declared(peer)
          /\ offset > Header(peer.first)
          /\ client'.client_command # "undef"
  <2>1. HeaderInv
    BY DEF IInv
  <2>2. peer.first \in Commands => peer.first # "undef"
    BY DEF Commands
  <2>3. CASE /\ client' = c
             /\ \/ c.client_command # "undef"
                \/ peer.first \notin Commands
                \/ c.offset_read_buf <= Header(peer.first)
    <3>1. /\ client'.client_command = client.client_command
          /\ client'.key_len = client.key_len
          /\ client'.data_len = client.data_len
          /\ client'.total_len = client.total_len
      BY <1>4, <2>3
    <3>2. CASE client.client_command = "undef"
      BY <1>4, <2>1, <2>2, <2>3, <3>1, <3>2 DEF HeaderInv
    <3>3. CASE client.client_command # "undef"
      <4>1. client.offset_read_buf > Header(peer.first)
        BY <2>1, <3>3 DEF HeaderInv
      <4>2. offset > Header(peer.first)
        BY <1>3, <1>4, <1>6, <1>7, <1>8, <4>1
      <4> QED BY <2>1, <2>2, <3>1, <3>3, <4>2 DEF HeaderInv
    <3> QED BY <3>2, <3>3
  <2> QED BY <1>6, <2>2, <2>3
<1>11. Decide(client')
  BY <1>1
(* The five ways the decision can go.                                      *)
<1>12. \/ UnknownCommand(client') /\ ClientDisconnect("unknown")
       \/ ~ UnknownCommand(client') /\ Complete(client') /\ Dispatch
       \/ ~ UnknownCommand(client') /\ TooMany(client')
           /\ ClientDisconnect("too many")
       \/ /\ ~ (UnknownCommand(client') \/ Complete(client') \/ TooMany(client'))
          /\ AtLimit(client') /\ ClientDisconnect("limit")
       \/ /\ ~ (UnknownCommand(client') \/ Complete(client') \/ TooMany(client'))
          /\ ~ AtLimit(client') /\ Rearm
  BY <1>11 DEF Decide
<1>13. /\ BufferInv' <=> (phase' = "queued" => client' = NewClientStruct)
                          /\ (phase' = "reading" => offset < MaxReadSize)
       /\ client' \in Client /\ peer' = peer
       /\ TypeOK' <=> /\ armed' \in BOOLEAN
                      /\ phase' \in {"queued", "reading", "dispatched", "closed"}
                      /\ why' \in {"open", "memory", "unknown", "too many",
                                   "limit", "eof", "error", "timeout"}
  <2>1. TypeOK
    BY DEF IInv
  <2> QED BY <2>1, <1>0, <1>3, <1>6, <1>9 DEF TypeOK, BufferInv
<1>14. /\ armed \in BOOLEAN
       /\ why \in {"open", "memory", "unknown", "too many", "limit", "eof",
                    "error", "timeout"}
  BY DEF IInv, TypeOK
<1>15. client'.total_len \in Nat
  BY <1>6 DEF Client
<1> DEFINE total == client'.total_len
<1>16. CASE UnknownCommand(client') /\ ClientDisconnect("unknown")
  <2>1. peer.first \notin Commands /\ client'.client_command = "undef"
    BY <1>16, <1>0 DEF UnknownCommand
  <2>2. phase' = "closed" /\ armed' = FALSE /\ why' = "unknown"
    BY <1>16 DEF ClientDisconnect
  <2>3. TypeOK' /\ BufferInv' /\ ArmedWhileReading'
    BY <1>13, <2>2 DEF ArmedWhileReading
  <2>4. HeaderInv' /\ RefusalInv'
    BY <1>10, <1>13, <2>1, <2>2 DEF HeaderInv, RefusalInv
  <2> QED BY <2>3, <2>4 DEF IInv
<1>17. CASE ~ UnknownCommand(client') /\ Complete(client') /\ Dispatch
  <2>1. total > 0 /\ offset = total
    BY <1>17 DEF Complete
  <2>2. phase' = "dispatched" /\ armed' = FALSE /\ why' = why
    BY <1>17 DEF Dispatch
  <2>4. peer.first \in Commands /\ client'.client_command = peer.first
    BY <1>10, <1>15, <2>1
  <2>3. TypeOK' /\ BufferInv' /\ ArmedWhileReading'
    BY <1>13, <1>14, <2>2 DEF ArmedWhileReading
  <2>5. HeaderInv'
    <3>1. /\ client'.client_command = peer.first
          /\ peer.first \in Commands
          /\ client'.key_len = peer.key
          /\ client'.data_len = IF peer.first = "store" THEN peer.data ELSE 0
          /\ total = Declared(peer)
          /\ offset > Header(peer.first)
      BY <1>10, <2>1, <2>4
    <3>2. peer' = peer
      BY <1>13
    <3> QED BY <2>1, <2>2, <3>1, <3>2 DEF HeaderInv
  <2>6. RefusalInv'
    BY <2>2 DEF RefusalInv
  <2> QED BY <2>3, <2>5, <2>6 DEF IInv
<1>18. CASE ~ UnknownCommand(client') /\ TooMany(client')
              /\ ClientDisconnect("too many")
  <2>1. total > 0 /\ offset > total
    BY <1>18 DEF TooMany
  <2>2. phase' = "closed" /\ armed' = FALSE /\ why' = "too many"
    BY <1>18 DEF ClientDisconnect
  <2>3. TypeOK' /\ BufferInv' /\ ArmedWhileReading'
    BY <1>13, <2>2 DEF ArmedWhileReading
  <2>4. HeaderInv'
    BY <1>10, <1>13, <2>1, <2>2 DEF HeaderInv
  <2>5. peer.bytes > Declared(peer)
    BY <1>3, <1>7, <1>9, <1>10, <2>1
  <2>6. RefusalInv'
    BY <1>13, <2>2, <2>5 DEF RefusalInv
  <2> QED BY <2>3, <2>4, <2>6 DEF IInv
<1>19. CASE /\ ~ (UnknownCommand(client') \/ Complete(client') \/ TooMany(client'))
            /\ AtLimit(client') /\ ClientDisconnect("limit")
  <2>1. /\ offset >= MaxReadSize
        /\ client'.client_command = "undef" => peer.first \in Commands
        /\ total > 0 => offset < total
    BY <1>0, <1>9, <1>15, <1>19 DEF AtLimit, UnknownCommand, Complete, TooMany
  <2>2. phase' = "closed" /\ armed' = FALSE /\ why' = "limit"
    BY <1>19 DEF ClientDisconnect
  <2>3. TypeOK' /\ BufferInv' /\ ArmedWhileReading'
    BY <1>13, <2>2 DEF ArmedWhileReading
  <2>4. total = Declared(peer) /\ total > 0
    BY <1>7, <1>8, <1>9, <1>10, <2>1
  <2>5. HeaderInv'
    BY <1>10, <1>13, <2>2 DEF HeaderInv
  <2>6. RefusalInv'
    BY <1>8, <1>9, <1>13, <1>15, <2>1, <2>2, <2>4 DEF RefusalInv
  <2> QED BY <2>3, <2>5, <2>6 DEF IInv
<1>20. CASE /\ ~ (UnknownCommand(client') \/ Complete(client') \/ TooMany(client'))
            /\ ~ AtLimit(client') /\ Rearm
  <2>1. /\ offset < MaxReadSize
        /\ client'.client_command = "undef" => peer.first \in Commands
        /\ total > 0 => offset < total
    BY <1>0, <1>8, <1>9, <1>15, <1>20
    DEF AtLimit, UnknownCommand, Complete, TooMany
  <2>2. phase' = "reading" /\ armed' = TRUE /\ why' = why
    BY <1>0, <1>20 DEF Rearm
  <2>3. TypeOK' /\ BufferInv' /\ ArmedWhileReading'
    BY <1>13, <1>14, <2>1, <2>2 DEF ArmedWhileReading
  <2>4. peer.first \in Commands => Declared(peer) > 0
    BY <1>7
  <2>5. HeaderInv'
    BY <1>10, <1>13, <2>1, <2>2, <2>4 DEF HeaderInv
  <2>6. RefusalInv'
    BY <2>2 DEF RefusalInv
  <2> QED BY <2>3, <2>5, <2>6 DEF IInv
<1> QED BY <1>12, <1>16, <1>17, <1>18, <1>19, <1>20

(* The other ways a call of client_read can go preserve the invariant:     *)
(* they leave the bytes and the header alone.                              *)
LEMMA OtherReadsInvariant ==
  ASSUME IInv,
         ReadInterrupted \/ ReadEof \/ ReadError \/ OutOfMemory \/ ReadTimeout
  PROVE  IInv'
<1> USE SizesAssumption
<1>1. /\ TypeOK /\ BufferInv /\ HeaderInv /\ RefusalInv
      /\ phase = "reading" /\ armed = TRUE
      /\ client \in Client /\ unread \in Nat
  BY DEF IInv, TypeOK, ReadInterrupted, ReadEof, ReadError, OutOfMemory,
         ReadTimeout, Readable
<1>2. /\ peer' = peer /\ eof' = eof /\ unread' = unread
      /\ client' = Grown(client) \/ client' = client
  BY DEF ReadInterrupted, ReadEof, ReadError, OutOfMemory, ReadTimeout,
         environment
<1>3. /\ errno' \in {"again", "other"} /\ wakeups' \in Nat
  <2>1. errno \in {"again", "other"} /\ wakeups \in Nat
    BY <1>1 DEF TypeOK
  <2>2. \/ errno' = errno /\ wakeups' = wakeups
        \/ errno' = "again" /\ wakeups' = wakeups + 1
        \/ errno' = "other" /\ wakeups' = wakeups
    BY DEF ReadInterrupted, ReadEof, ReadError, OutOfMemory, ReadTimeout
  <2> QED BY <2>1, <2>2
(* The connection goes on, or ends for one of four reasons.                *)
<1>4. \/ phase' = phase /\ armed' = TRUE /\ why' = why
      \/ /\ phase' = "closed" /\ armed' = FALSE
         /\ \/ why' \in {"memory", "timeout", "error"}
            \/ why' = "eof" /\ unread = 0
  BY DEF ReadInterrupted, ReadEof, ReadError, OutOfMemory, ReadTimeout,
         ClientDisconnect, Rearm
<1>5. /\ Grown(client) \in Client
      /\ Grown(client).offset_read_buf = client.offset_read_buf
      /\ Grown(client).client_command = client.client_command
      /\ Grown(client).key_len = client.key_len
      /\ Grown(client).data_len = client.data_len
      /\ Grown(client).total_len = client.total_len
      /\ Grown(client).sizeof_read_buf >= client.offset_read_buf + ChunkSize
      /\ \/ Grown(client).sizeof_read_buf = client.sizeof_read_buf
         \/ Grown(client).sizeof_read_buf = client.offset_read_buf + ChunkSize
  BY <1>1, GrownFacts
<1>6. /\ client' \in Client
      /\ client'.offset_read_buf = client.offset_read_buf
      /\ client'.client_command = client.client_command
      /\ client'.key_len = client.key_len
      /\ client'.data_len = client.data_len
      /\ client'.total_len = client.total_len
      /\ \/ client'.sizeof_read_buf = client.sizeof_read_buf
         \/ client'.sizeof_read_buf = client.offset_read_buf + ChunkSize
  BY <1>1, <1>2, <1>5
<1>7. /\ client.offset_read_buf \in Nat /\ client.sizeof_read_buf \in Nat
      /\ client'.sizeof_read_buf \in Nat
      /\ client.offset_read_buf < MaxReadSize
      /\ client.offset_read_buf <= client.sizeof_read_buf
      /\ client.sizeof_read_buf < MaxReadSize + ChunkSize
      /\ ChunkSize \in Nat /\ MaxReadSize \in Nat
  BY <1>1, <1>6 DEF Client, BufferInv
<1>8. TypeOK'
  BY <1>1, <1>2, <1>3, <1>4, <1>6 DEF TypeOK
<1>9. ArmedWhileReading'
  BY <1>1, <1>4 DEF ArmedWhileReading
<1>10. BufferInv'
  <2>1. /\ client'.offset_read_buf <= client'.sizeof_read_buf
        /\ client'.sizeof_read_buf < MaxReadSize + ChunkSize
    BY <1>6, <1>7
  <2> QED BY <2>1, <1>1, <1>2, <1>4, <1>6, <1>7 DEF BufferInv
<1>11. phase' # "queued" /\ phase' # "dispatched"
  BY <1>1, <1>4
<1>12. HeaderInv'
  BY <1>1, <1>2, <1>4, <1>6, <1>11 DEF HeaderInv
<1>13. RefusalInv'
  <2>1. unread = 0 => peer.bytes = client.offset_read_buf
    BY <1>1, <1>7 DEF BufferInv
  <2>2. unread = 0 => \/ peer.first \notin Commands
                      \/ peer.bytes < Declared(peer)
                      \/ peer.bytes <= Header(peer.first)
    BY <1>1, <2>1 DEF HeaderInv
  <2> QED BY <1>1, <1>2, <1>4, <2>2 DEF RefusalInv
<1> QED BY <1>8, <1>9, <1>10, <1>12, <1>13 DEF IInv

(* Every step preserves the invariant.                                     *)
LEMMA NextInvariant == IInv /\ [Next]_vars => IInv'
<1> SUFFICES ASSUME IInv, [Next]_vars PROVE IInv'
  OBVIOUS
<1> USE SizesAssumption
<1>1. CASE NewClient
  <2>1. /\ phase = "queued" /\ client = NewClientStruct
        /\ client' = client /\ peer' = peer /\ eof' = eof /\ errno' = errno
        /\ unread' = unread /\ wakeups' = wakeups
    BY <1>1 DEF NewClient, IInv, BufferInv, environment
  <2>2. \/ phase' = "reading" /\ armed' = TRUE /\ why' = why
        \/ phase' = "closed" /\ why' = "memory" /\ armed' = armed
    BY <1>1 DEF NewClient
  <2>3. armed = FALSE
    BY <2>1 DEF IInv, ArmedWhileReading, TypeOK
  <2>4. TypeOK' /\ ArmedWhileReading'
    BY <2>1, <2>2, <2>3 DEF IInv, TypeOK, ArmedWhileReading
  <2>5. /\ client.offset_read_buf = 0 /\ client.total_len = 0
        /\ client.client_command = "undef"
    BY <2>1 DEF NewClientStruct
  <2>6. BufferInv'
    BY <2>1, <2>2, <2>5 DEF IInv, BufferInv
  <2>7. HeaderInv'
    BY <2>1, <2>2, <2>5 DEF HeaderInv, Header
  <2>8. RefusalInv'
    BY <2>2 DEF RefusalInv
  <2> QED BY <2>4, <2>6, <2>7, <2>8 DEF IInv
<1>2. CASE ReadBytes
  BY <1>2, ReadBytesInvariant
<1>3. CASE ReadInterrupted \/ ReadEof \/ ReadError \/ OutOfMemory \/ ReadTimeout
  BY <1>3, OtherReadsInvariant
<1>4. CASE PeerClose
  BY <1>4 DEF PeerClose, IInv, TypeOK, ArmedWhileReading, BufferInv, HeaderInv,
              RefusalInv
<1>5. CASE OtherCallback
  BY <1>5 DEF OtherCallback, environment, IInv, TypeOK, ArmedWhileReading,
              BufferInv, HeaderInv, RefusalInv
<1>6. CASE UNCHANGED vars
  BY <1>6 DEF vars, IInv, TypeOK, ArmedWhileReading, BufferInv, HeaderInv,
              RefusalInv
<1> QED BY <1>1, <1>2, <1>3, <1>4, <1>5, <1>6 DEF Next, ClientReadCallback

(* The invariant holds in every reachable state.                           *)
THEOREM Invariance == Spec => []IInv
<1>1. Init => IInv
  BY InitInvariant
<1>2. IInv /\ [Next]_vars => IInv'
  BY NextInvariant
<1> QED BY <1>1, <1>2, PTL DEF Spec

(* client_read keeps its variables well-typed.                             *)
THEOREM TypeCorrect == Spec => []TypeOK
<1>1. IInv => TypeOK
  BY DEF IInv
<1> QED BY <1>1, Invariance, PTL

(* The read buffer holds the bytes read and never reaches the maximum      *)
(* request size plus one chunk, whatever the peer sends.                   *)
THEOREM BufferIsBounded == Spec => []BufferBounded
<1>1. IInv => BufferBounded
  BY DEF IInv, BufferInv, BufferBounded
<1> QED BY <1>1, Invariance, PTL

(* No path of client_read leaks a connection by forgetting its event, or   *)
(* leaves the event of a freed or handed-over connection registered.       *)
THEOREM EventRegistration == Spec => []ArmedWhileReading
<1>1. IInv => ArmedWhileReading
  BY DEF IInv
<1> QED BY <1>1, Invariance, PTL

(* A request sent whole, within the limit and with nothing after it, is    *)
(* never refused by the protocol checks of client_read, however TCP cuts   *)
(* it up.                                                                  *)
THEOREM NoWholeRequestRefused == Spec => []WholeRequestNotRefused
<1>1. IInv => WholeRequestNotRefused
  <2> SUFFICES ASSUME IInv, OneWholeRequest, phase = "closed"
               PROVE  why \in {"memory", "error", "timeout"}
    BY DEF WholeRequestNotRefused
  <2> USE SizesAssumption
  <2>1. /\ peer.bytes = Declared(peer) /\ peer.bytes <= MaxReadSize
        /\ Declared(peer) > Header(peer.first) /\ peer.first \in Commands
    BY DEF OneWholeRequest
  <2>2. /\ RefusalInv /\ peer \in Peers
        /\ why \in {"open", "memory", "unknown", "too many", "limit", "eof",
                    "error", "timeout"}
    BY DEF IInv, TypeOK
  <2>3. /\ peer.bytes \in Nat /\ Declared(peer) \in Nat
        /\ Header(peer.first) \in {5, 9}
    BY <2>2, PeerFacts
  <2>4. why \notin {"open", "unknown"}
    BY <2>1, <2>2 DEF RefusalInv
  <2>5. why \notin {"too many", "limit", "eof"}
    <3>1. /\ why = "too many" => peer.bytes > Declared(peer)
          /\ why = "limit" => Declared(peer) > MaxReadSize
          /\ why = "eof" => \/ peer.bytes < Declared(peer)
                            \/ peer.bytes <= Header(peer.first)
      BY <2>1, <2>2 DEF RefusalInv
    <3>2. ~ (peer.bytes > Declared(peer)) /\ ~ (peer.bytes < Declared(peer))
      BY <2>1, <2>3
    <3>3. ~ (Declared(peer) > MaxReadSize)
      BY <2>1, <2>3
    <3>4. ~ (peer.bytes <= Header(peer.first))
      BY <2>1, <2>3
    <3> QED BY <3>1, <3>2, <3>3, <3>4
  <2> QED BY <2>2, <2>4, <2>5
<1> QED BY <1>1, Invariance, PTL

-----------------------------------------------------------------------------
(* A connection that has been handed over or closed stays as it is, and    *)
(* what the peer sends never changes.                                      *)
LEMMA OutcomeIsFinal ==
  ASSUME IInv, [Next]_vars
  PROVE  /\ peer' = peer
         /\ phase \in {"dispatched", "closed"}
              => phase' = phase /\ client' = client
BY DEF Next, ClientReadCallback, NewClient, ReadBytes, ReadInterrupted,
       ReadEof, ReadError, OutOfMemory, ReadTimeout, Readable, PeerClose,
       OtherCallback, environment, vars

(* ClientRead implements RequestFraming: whatever the segmentation of the  *)
(* stream, a connection is handed over with exactly the declared command   *)
(* and lengths, completely received, or refused, and nothing else.         *)
THEOREM FramingImplemented == Spec => ImplementsFraming
<1> USE SizesAssumption
<1>1. Init => Framing!Init
  BY DEF Init, Framing!Init, Framing!Pending, Framing!Commands, outcome,
         Peers, Commands
<1>2. IInv /\ IInv' /\ [Next]_vars => [Framing!Next]_<<peer, outcome>>
  <2> SUFFICES ASSUME IInv, IInv', [Next]_vars
               PROVE  Framing!Next \/ (peer' = peer /\ outcome' = outcome)
    OBVIOUS
  <2>1. /\ peer' = peer
        /\ phase \in {"dispatched", "closed"}
             => phase' = phase /\ client' = client
    BY OutcomeIsFinal
  <2>2. /\ phase \in {"queued", "reading", "dispatched", "closed"}
        /\ phase' \in {"queued", "reading", "dispatched", "closed"}
    BY DEF IInv, TypeOK
  <2>3. CASE phase \in {"dispatched", "closed"}
    BY <2>1, <2>3 DEF outcome
  <2>4. CASE phase' \in {"queued", "reading"}
    BY <2>1, <2>2, <2>4 DEF outcome
  <2>5. CASE phase \in {"queued", "reading"} /\ phase' = "closed"
    BY <2>1, <2>5 DEF outcome, Framing!Next, Framing!Refuse, Framing!Pending,
                      Framing!Refused
  <2>6. CASE phase \in {"queued", "reading"} /\ phase' = "dispatched"
    <3> DEFINE data == IF peer.first = "store" THEN peer.data ELSE 0
    <3>1. HeaderInv' /\ BufferInv' /\ client' \in Client /\ peer \in Peers
          /\ unread' \in Nat
      BY DEF IInv, TypeOK
    <3>2. /\ client'.client_command = peer.first
          /\ peer.first \in Commands
          /\ client'.key_len = peer.key
          /\ client'.data_len = data
          /\ client'.total_len = Declared(peer)
          /\ client'.offset_read_buf = Declared(peer)
          /\ client'.offset_read_buf > Header(peer.first)
      BY <2>1, <2>6, <3>1 DEF HeaderInv
    <3>3. /\ client'.offset_read_buf + unread' = peer.bytes
          /\ client'.offset_read_buf <= client'.sizeof_read_buf
          /\ client'.sizeof_read_buf < MaxReadSize + ChunkSize
          /\ client'.sizeof_read_buf \in Nat
      BY <2>1, <3>1 DEF BufferInv, Client
    <3>4. Framing!RequestLength(peer.first, peer.key, data) = Declared(peer)
      BY DEF Framing!RequestLength, Framing!Header, Declared, Header
    <3>5. Framing!Header(peer.first) = Header(peer.first)
      BY DEF Framing!Header, Header
    <3>6. /\ Declared(peer) <= peer.bytes
          /\ Declared(peer) < MaxReadSize + ChunkSize
          /\ Declared(peer) > Header(peer.first)
      BY <3>1, <3>2, <3>3, PeerFacts
    <3>7. outcome = Framing!Pending
      BY <2>6 DEF outcome, Framing!Pending
    <3>8. outcome' = Framing!Accepted(peer.first, peer.key, data)
      BY <2>6, <3>2 DEF outcome, Framing!Accepted
    <3>9. peer.first \in Framing!Commands
      BY <3>2 DEF Framing!Commands, Commands
    <3> HIDE DEF data
    <3>10. Framing!Accept
      BY <3>4, <3>5, <3>6, <3>7, <3>8, <3>9 DEF Framing!Accept, data
    <3> QED BY <2>1, <3>10 DEF Framing!Next
  <2> QED BY <2>2, <2>3, <2>4, <2>5, <2>6
<1> QED BY <1>1, <1>2, Invariance, PTL DEF Spec, ImplementsFraming, Framing!Spec


-----------------------------------------------------------------------------
(* What becomes of a connection, state by state.                           *)

(* What a handler is given is the request the peer has sent: its command   *)
(* and its lengths, and in the buffer all of its bytes and no others.      *)
HandedOverAsDeclared ==
  phase = "dispatched" =>
    /\ client.client_command = peer.first
    /\ client.key_len = peer.key
    /\ peer.first = "store" => client.data_len = peer.data
    /\ client.offset_read_buf = Declared(peer)
    /\ peer.bytes = Declared(peer) + unread
    /\ Header(peer.first) < Declared(peer) /\ Declared(peer) < MaxReadSize + ChunkSize

(* Garbage in an undecoded length field, and the errno that callbacks of   *)
(* other connections leave behind, never reach a handler.                  *)
THEOREM RequestsHandedOver == Spec => []HandedOverAsDeclared
<1>1. IInv => HandedOverAsDeclared
  <2> SUFFICES ASSUME IInv, phase = "dispatched"
               PROVE  HandedOverAsDeclared
    BY DEF HandedOverAsDeclared
  <2>1. /\ client.client_command = peer.first /\ client.key_len = peer.key
        /\ client.data_len = IF peer.first = "store" THEN peer.data ELSE 0
        /\ client.total_len = Declared(peer)
        /\ client.offset_read_buf > Header(peer.first)
        /\ client.offset_read_buf = client.total_len
    BY DEF IInv, HeaderInv
  <2>2. /\ client.offset_read_buf + unread = peer.bytes
        /\ client.offset_read_buf <= client.sizeof_read_buf
        /\ client.sizeof_read_buf < MaxReadSize + ChunkSize
        /\ client \in Client /\ peer \in Peers
    BY DEF IInv, BufferInv, TypeOK
  <2>3. /\ Declared(peer) \in Nat /\ client.sizeof_read_buf \in Nat
        /\ Header(peer.first) \in {5, 9} /\ MaxReadSize + ChunkSize \in Nat
    BY <2>2, PeerFacts, SizesAssumption DEF Client
  <2> QED BY <2>1, <2>2, <2>3 DEF HandedOverAsDeclared
<1> QED BY <1>1, Invariance, PTL

(* A connection refused for its contents deserves it, whatever the peer:   *)
(* one of its bytes is wrong, missing, in excess or above the limit.       *)
THEOREM RefusedForCause == Spec => []RefusalInv
<1>1. IInv => RefusalInv
  BY DEF IInv
<1> QED BY <1>1, Invariance, PTL

(* A connection is handed over or closed once, and for good.               *)
FinalOnce ==
  [][(phase \in {"dispatched", "closed"}) =>
       phase' = phase /\ client' = client /\ ~ armed']_vars

(* No callback of client_read runs on a Client that a handler has taken    *)
(* over or client_disconnect has freed.                                    *)
THEOREM OutcomesFinal == Spec => FinalOnce
<1>1. IInv /\ IInv' /\ [Next]_vars =>
        [(phase \in {"dispatched", "closed"}) =>
           phase' = phase /\ client' = client /\ ~ armed']_vars
  <2>1. IInv' => (armed' <=> phase' = "reading")
    BY DEF IInv, ArmedWhileReading
  <2> QED BY <2>1, OutcomeIsFinal
<1> QED BY <1>1, Invariance, PTL DEF Spec, FinalOnce
===============================================================================
