----------------------------- MODULE Conversations -----------------------------
(***************************************************************************)
(* What the server promises a peer that connects: it is taken in its turn  *)
(* or turned away, may ask once, and is answered once.  An answer that has *)
(* begun is heard to its last byte by a peer that stays; one that leaves   *)
(* meanwhile may end the service for all.  Descriptors, mappings and       *)
(* buffers are not mentioned.  Connections implements this specification.  *)
(***************************************************************************)
EXTENDS Integers, Sequences

CONSTANTS
  Clients,     \* peers, each in at most one conversation at a time
  MaxReply     \* bound: bytes of the longest answer

VARIABLES
  serving,  \* the service has not ended
  line,     \* the peers that wait for their turn, oldest first
  stage,    \* how far the conversation with each peer has got
  heard,    \* bytes of its answer that each peer has heard
  due,      \* bytes of it that it has still to hear
  left      \* the peers that have left a conversation

vars == <<serving, line, stage, heard, due, left>>

Stages ==
  {"away",      \* no conversation
   "waiting",   \* in line
   "asking",    \* its question is being read
   "told",      \* it is being told its answer
   "mute"}      \* its answer was lost before the first byte

Init ==
  /\ serving = TRUE /\ line = <<>>
  /\ stage = [c \in Clients |-> "away"]
  /\ heard = [c \in Clients |-> 0] /\ due = [c \in Clients |-> 0]
  /\ left = {}

(* The conversation is over.                                               *)
Over(c) ==
  /\ stage' = [stage EXCEPT ![c] = "away"]
  /\ heard' = [heard EXCEPT ![c] = 0] /\ due' = [due EXCEPT ![c] = 0]
  /\ left' = left \ {c}

Arrive(c) ==
  /\ serving /\ stage[c] = "away"
  /\ stage' = [stage EXCEPT ![c] = "waiting"]
  /\ line' = Append(line, c)
  /\ UNCHANGED <<serving, heard, due, left>>

(* The turn of the one who has waited longest.                             *)
Admit(c) ==
  /\ line # <<>> /\ c = Head(line)
  /\ line' = Tail(line)
  /\ \/ stage' = [stage EXCEPT ![c] = "asking"] /\ UNCHANGED <<heard, due, left>>
     \/ Over(c)
  /\ UNCHANGED serving

(* Its question is not one that is answered.                               *)
TurnAway(c) ==
  /\ stage[c] = "asking"
  /\ Over(c)
  /\ UNCHANGED <<serving, line>>

Answer(c) ==
  /\ stage[c] = "asking"
  /\ \/ /\ stage' = [stage EXCEPT ![c] = "told"]
        /\ \E n \in 1 .. MaxReply : due' = [due EXCEPT ![c] = n]
     \/ /\ stage' = [stage EXCEPT ![c] = "mute"]
        /\ UNCHANGED due
  /\ UNCHANGED <<serving, line, heard, left>>

(* The next byte of the answer; after the last the conversation is over.   *)
Hear(c) ==
  /\ stage[c] = "told" /\ c \notin left
  /\ IF due[c] = 1 THEN Over(c)
     ELSE /\ heard' = [heard EXCEPT ![c] = @ + 1]
          /\ due' = [due EXCEPT ![c] = @ - 1]
          /\ UNCHANGED <<stage, left>>
  /\ UNCHANGED <<serving, line>>

Leave(c) ==
  /\ stage[c] # "away" /\ c \notin left
  /\ left' = left \cup {c}
  /\ UNCHANGED <<serving, line, stage, heard, due>>

(* Nobody is left to tell the answer to.                                   *)
BreakOff(c) ==
  /\ stage[c] = "told" /\ c \in left
  /\ Over(c)
  /\ UNCHANGED <<serving, line>>

End(c) ==
  /\ stage[c] = "told" /\ c \in left
  /\ serving' = FALSE /\ line' = <<>>
  /\ stage' = [d \in Clients |-> "away"]
  /\ heard' = [d \in Clients |-> 0] /\ due' = [d \in Clients |-> 0]
  /\ left' = {}

Next ==
  \E c \in Clients :
    \/ Arrive(c) \/ Admit(c) \/ TurnAway(c) \/ Answer(c)
    \/ Hear(c) \/ Leave(c) \/ BreakOff(c) \/ End(c)

Spec == Init /\ [][Next]_vars
===============================================================================
