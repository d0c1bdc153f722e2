---------------------------- MODULE RequestFraming ----------------------------
(***************************************************************************)
(* What reading a request promises, whatever the segmentation of the TCP   *)
(* stream: a connection ends either accepted, with exactly the command,    *)
(* key length and data length its peer declared and with all of their      *)
(* bytes received, or refused.  ClientRead implements this specification.  *)
(***************************************************************************)
EXTENDS Integers

CONSTANTS
  Lengths,      \* the key and data lengths a peer may declare
  MaxStream,    \* bound: the most bytes one peer sends
  SizeLimit     \* no request of SizeLimit bytes or more is accepted

VARIABLES peer, outcome

Commands == {"store", "fetch", "delete"}

Header(command) == IF command = "store" THEN 9 ELSE 5

RequestLength(command, key, data) == Header(command) + key + data

Pending == [status |-> "pending"]
Refused == [status |-> "refused"]
Accepted(command, key, data) ==
  [status |-> "accepted", command |-> command, key |-> key, data |-> data]

Init ==
  /\ peer \in [first : Commands \cup {"unknown"}, key : Lengths,
               data : Lengths, bytes : 0 .. MaxStream]
  /\ outcome = Pending

(* The stream starts with a whole, non-empty request below the limit.      *)
Accept ==
  LET data == IF peer.first = "store" THEN peer.data ELSE 0
      length == RequestLength(peer.first, peer.key, data)
  IN  /\ outcome = Pending
      /\ peer.first \in Commands
      /\ length > Header(peer.first)
      /\ length <= peer.bytes
      /\ length < SizeLimit
      /\ outcome' = Accepted(peer.first, peer.key, data)

Refuse ==
  /\ outcome = Pending
  /\ outcome' = Refused

Next == (Accept \/ Refuse) /\ UNCHANGED peer

Spec == Init /\ [][Next]_<<peer, outcome>>
===============================================================================
