----------------------------- MODULE EphemeralMap -----------------------------
(***************************************************************************)
(* What the storage promises its clients: a map from keys to values in     *)
(* which every request takes effect at once, at some moment between its    *)
(* beginning and its answer, and from which entries may vanish.  A store   *)
(* or delete that is refused may have taken effect; one that is answered   *)
(* OK has.  Values are whole, except those that the disk may lack room     *)
(* for.  Storage implements this specification.                            *)
(***************************************************************************)
EXTENDS Naturals

CONSTANTS Keys, Values, Size, TooLarge

VARIABLES
  map,      \* what a fetch of each key would be answered
  request,  \* the request being served
  result,   \* its answer, once it has taken effect
  answer    \* what the client of the last request was answered

vars == <<map, request, result, answer>>

Requests ==
  [kind : {"store"}, key : Keys, value : Values]
  \cup [kind : {"fetch", "delete"}, key : Keys]

NoRequest == [kind |-> "none"]

NoAnswer == [kind |-> "none"]
Ok       == [kind |-> "ok"]
Refused  == [kind |-> "refused"]
WholeValue(v) == [kind |-> "data", value |-> v, len |-> Size[v]]
CutShort(v) == [kind : {"data"}, value : {v}, len : 0 .. Size[v]]

(* What a store of a value may leave in the map.                           *)
Stored(v) == {WholeValue(v)} \cup (IF v \in TooLarge THEN CutShort(v) ELSE {})

Present(k) == map[k] # Refused

Init ==
  /\ map = [k \in Keys |-> Refused]
  /\ request = NoRequest
  /\ result = NoAnswer /\ answer = NoAnswer

Begin ==
  /\ request = NoRequest
  /\ request' \in Requests
  /\ answer' = NoAnswer
  /\ UNCHANGED <<map, result>>

(* A request takes effect, once.                                           *)
Store ==
  /\ request.kind = "store" /\ result = NoAnswer
  /\ \E data \in Stored(request.value) :
       map' = [map EXCEPT ![request.key] = data]
  /\ result' = Ok
  /\ UNCHANGED <<request, answer>>

Delete ==
  /\ request.kind = "delete" /\ result = NoAnswer
  /\ Present(request.key)
  /\ map' = [map EXCEPT ![request.key] = Refused]
  /\ result' = Ok
  /\ UNCHANGED <<request, answer>>

(* An empty value is answered as an absent one.                            *)
Fetch ==
  /\ request.kind = "fetch" /\ result = NoAnswer
  /\ Present(request.key)
  /\ result' = IF map[request.key].len > 0 THEN map[request.key] ELSE Refused
  /\ UNCHANGED <<map, request, answer>>

(* The answer: what the effect calls for, or none.                         *)
Return ==
  /\ request # NoRequest /\ result # NoAnswer
  /\ answer' = result
  /\ request' = NoRequest /\ result' = NoAnswer
  /\ UNCHANGED map

Refuse ==
  /\ request # NoRequest
  /\ answer' = Refused
  /\ request' = NoRequest /\ result' = NoAnswer
  /\ UNCHANGED map

(* An entry vanishes.                                                      *)
Evict ==
  /\ \E k \in Keys : map' = [map EXCEPT ![k] = Refused]
  /\ UNCHANGED <<request, result, answer>>

Next == Begin \/ Store \/ Delete \/ Fetch \/ Return \/ Refuse \/ Evict

Spec == Init /\ [][Next]_vars
===============================================================================
