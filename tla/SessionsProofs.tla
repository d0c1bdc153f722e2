----------------------------- MODULE SessionsProofs -----------------------------
(***************************************************************************)
(* Proofs about Sessions, for any number of PHP processes, sessions and    *)
(* connections.  The inductive invariant SInv has a part that always       *)
(* holds, BaseInv, and a part on quiet states, QuietInv.                   *)
(***************************************************************************)
EXTENDS Sessions, TLAPS

(* The connection of a PHP process in the state x; a free one if it has    *)
(* none.                                                                   *)
ConnOf(x, conns) == IF x.fp = NoConn THEN FreeConn ELSE conns[x.fp]

(* The request whose reply such a process waits for.                       *)
Asked(x) ==
  IF x.pc = "fetching" THEN [kind |-> "fetch", key |-> x.id]
  ELSE IF x.pc = "storing"
       THEN [kind |-> "store", key |-> x.id, value |-> x.data + 1]
       ELSE [kind |-> "delete", key |-> x.id]

(* A process in the state x over the connection r.                         *)
ProcOK(x, r) ==
  /\ x.id = NoId <=> x.pc = "idle"
  /\ x.fp = NoConn <=> x.pc \in {"idle", "script", "undecodable"}
  /\ x.pc = "read" => r.phase \in {"open", "dropped"}
  /\ x.pc \in {"fetching", "storing", "destroying"} =>
       \/ r.phase = "dropped"
       \/ r.phase \in {"sent", "serving", "replied"} /\ r.request = Asked(x)
  /\ x.pc = "storing" => x.data < MaxCount

ProcInv == \A p \in Procs : ProcOK(php[p], ConnOf(php[p], conn))

MapInv ==
  /\ map \in [Ids -> {Map!Refused} \cup {Map!WholeValue(v) : v \in Counts}]
  /\ request \in Map!Requests \cup {Map!NoRequest}
  /\ result \in Replies
  /\ request = Map!NoRequest => result = Map!NoAnswer

(* One connection is being served while the server has a request, and it   *)
(* carries that request.                                                   *)
ServingInv ==
  /\ serving = NoConn <=> request = Map!NoRequest
  /\ serving # NoConn =>
       conn[serving].phase = "serving" /\ conn[serving].request = request
  /\ \A c \in Conns : conn[c].phase = "serving" => c = serving

DroppedInv ==
  \A c \in Conns : conn[c].phase = "dropped" => conn[c].reply = Map!NoAnswer

BaseInv ==
  TypeOK /\ MapInv /\ ServingInv /\ DroppedInv /\ ProcInv /\ NoSocketLeft

-----------------------------------------------------------------------------
(* What an undisturbed session looks like.                                 *)

(* What the server keeps of a session loaded n times.                      *)
Kept(n) == IF n = 0 THEN Map!Refused ELSE Map!WholeValue(n - 1)

(* A process in the state x over the connection r, for a session loaded n  *)
(* times of which the server keeps m; res is the result it has for the     *)
(* request it serves.                                                      *)
Undisturbed(x, r, m, n, res) ==
  LET done == r.phase = "replied" \/ (r.phase = "serving" /\ res # Map!NoAnswer)
      reply == IF r.phase = "replied" THEN r.reply ELSE res
  IN  /\ x.pc = "read" => m = Kept(n) /\ r.phase = "open"
      /\ x.pc = "fetching" =>
           /\ m = Kept(n)
           /\ done => n > 0 /\ reply = m
           /\ r.phase = "dropped" => n = 0
      /\ x.pc \in {"script", "storing"} => x.data = n - 1
      /\ x.pc = "script" => m = Kept(n)
      /\ x.pc # "undecodable"
      /\ x.pc = "storing" =>
           /\ r.phase # "dropped"
           /\ IF done THEN reply = Map!Ok /\ m = Kept(n + 1) ELSE m = Kept(n)
      /\ x.pc = "destroying" =>
           /\ r.phase = "dropped" => n = 0
           /\ IF done THEN reply = Map!Ok /\ m = Map!Refused ELSE m = Kept(n)

Alone(p) == \A q \in Procs : q # p => php[q].id # php[p].id

QuietInv ==
  quiet =>
    /\ \A c \in Conns : conn[c].phase \in {"sent", "serving"} => conn[c].held
    /\ \A i \in Ids : (\A p \in Procs : php[p].id # i) => map[i] = Kept(reloads[i])
    /\ \A p \in Procs : php[p].pc # "idle" =>
         /\ Alone(p)
         /\ Undisturbed(php[p], ConnOf(php[p], conn), map[php[p].id],
                        reloads[php[p].id], result)

(* The inductive invariant.                                                *)
SInv == BaseInv /\ QuietInv

-----------------------------------------------------------------------------
(* What the shape of the records tells.                                    *)
LEMMA ConnFacts ==
  ASSUME NEW r \in ConnRecords
  PROVE  /\ r.phase \in {"free", "open", "sent", "serving", "replied", "dropped"}
         /\ r.held \in BOOLEAN /\ r.reply \in Replies
         /\ r.phase \in {"sent", "serving"} =>
              r.request \in Map!Requests /\ r.reply = Map!NoAnswer
         /\ r.phase = "free" => r = FreeConn
         /\ ~ r.held => r.phase \in {"free", "sent", "serving"}
         /\ r.phase = "open" => r.held
<1>1. CASE r = FreeConn
  BY <1>1 DEF FreeConn, Replies
<1>2. CASE r \in [phase : {"open"}, request : {Map!NoRequest},
                  reply : {Map!NoAnswer}, held : {TRUE}]
  BY <1>2 DEF Replies
<1>3. CASE r \in [phase : {"sent", "serving"}, request : Map!Requests,
                  reply : {Map!NoAnswer}, held : BOOLEAN]
  BY <1>3 DEF Replies
<1>4. CASE r \in [phase : {"replied", "dropped"},
                  request : Map!Requests \cup {Map!NoRequest}, reply : Replies,
                  held : {TRUE}]
  BY <1>4
<1> QED BY <1>1, <1>2, <1>3, <1>4 DEF ConnRecords

(* Connections that carry a request not answered yet.                      *)
Busy ==
  [phase : {"sent", "serving"}, request : Map!Requests, reply : {Map!NoAnswer},
   held : BOOLEAN]

LEMMA BusyFacts ==
  /\ Busy \subseteq ConnRecords
  /\ \A r \in ConnRecords : r.phase \in {"sent", "serving"} => r \in Busy
<1>1. Busy \subseteq ConnRecords
  BY DEF Busy, ConnRecords
<1>2. ASSUME NEW r \in ConnRecords, r.phase \in {"sent", "serving"}
      PROVE  r \in Busy
  <2>1. r # FreeConn
    BY <1>2 DEF FreeConn
  <2>2. r \notin [phase : {"open"}, request : {Map!NoRequest},
                  reply : {Map!NoAnswer}, held : {TRUE}]
    BY <1>2
  <2>3. r \notin [phase : {"replied", "dropped"},
                  request : Map!Requests \cup {Map!NoRequest}, reply : Replies,
                  held : {TRUE}]
    BY <1>2
  <2> QED BY <2>1, <2>2, <2>3 DEF ConnRecords, Busy
<1> QED BY <1>1, <1>2

(* PHP closes such a connection, and the server goes on with it.           *)
LEMMA LeftFacts ==
  ASSUME NEW r \in ConnRecords, r.phase \in {"sent", "serving"}
  PROVE  /\ [r EXCEPT !.held = FALSE] \in ConnRecords
         /\ ~ [r EXCEPT !.held = FALSE].held
         /\ [r EXCEPT !.held = FALSE].phase = r.phase
         /\ [r EXCEPT !.held = FALSE].request = r.request
<1>1. r \in Busy
  BY BusyFacts
<1>2. [r EXCEPT !.held = FALSE] \in Busy
  BY <1>1 DEF Busy
<1>3. [r EXCEPT !.held = FALSE] \in ConnRecords
  BY <1>2, BusyFacts
<1> QED BY <1>1, <1>3 DEF Busy

(* The server takes its request up.                                        *)
LEMMA SentFacts ==
  ASSUME NEW r \in ConnRecords, r.phase = "sent"
  PROVE  /\ [r EXCEPT !.phase = "serving"] \in ConnRecords
         /\ [r EXCEPT !.phase = "serving"].phase = "serving"
         /\ [r EXCEPT !.phase = "serving"].held = r.held
         /\ [r EXCEPT !.phase = "serving"].request = r.request
<1>1. r \in Busy
  BY BusyFacts
<1>2. [r EXCEPT !.phase = "serving"] \in Busy
  BY <1>1 DEF Busy
<1>3. [r EXCEPT !.phase = "serving"] \in ConnRecords
  BY <1>2, BusyFacts
<1> QED BY <1>1, <1>3 DEF Busy

(* A connection of PHP's that the server is done with.                     *)
Over(r, phase, reply) == [r EXCEPT !.phase = phase, !.reply = reply]

LEMMA OverFacts ==
  ASSUME NEW r \in ConnRecords, r.held, NEW phase \in {"replied", "dropped"},
         NEW reply \in Replies
  PROVE  /\ Over(r, phase, reply) \in ConnRecords
         /\ Over(r, phase, reply).held
         /\ Over(r, phase, reply).phase = phase
         /\ Over(r, phase, reply).reply = reply
         /\ Over(r, phase, reply).request = r.request
<1> DEFINE over == [r EXCEPT !.phase = phase, !.reply = reply]
           Any == [phase : {"free", "open", "sent", "serving", "replied", "dropped"},
                   request : Map!Requests \cup {Map!NoRequest},
                   reply : Replies, held : BOOLEAN]
<1>1. r \in Any
  <2>1. CASE r = FreeConn
    BY <2>1 DEF FreeConn
  <2>2. CASE r \in [phase : {"open"}, request : {Map!NoRequest},
                    reply : {Map!NoAnswer}, held : {TRUE}]
    BY <2>2 DEF Replies
  <2>3. CASE r \in [phase : {"sent", "serving"}, request : Map!Requests,
                    reply : {Map!NoAnswer}, held : BOOLEAN]
    BY <2>3 DEF Replies
  <2>4. CASE r \in [phase : {"replied", "dropped"},
                    request : Map!Requests \cup {Map!NoRequest}, reply : Replies,
                    held : {TRUE}]
    BY <2>4
  <2> QED BY <2>1, <2>2, <2>3, <2>4 DEF ConnRecords
<1>2. over \in [phase : {"replied", "dropped"},
                request : Map!Requests \cup {Map!NoRequest}, reply : Replies,
                held : {TRUE}]
  BY <1>1
<1>3. over \in ConnRecords
  BY <1>2 DEF ConnRecords
<1>4. over.held /\ over.phase = phase /\ over.reply = reply /\ over.request = r.request
  BY <1>1
<1> QED BY <1>3, <1>4 DEF Over

LEMMA FreeFacts ==
  /\ FreeConn \in ConnRecords /\ FreeConn.phase = "free" /\ ~ FreeConn.held
  /\ IdleProc \in ProcRecords
  /\ IdleProc.pc = "idle" /\ IdleProc.fp = NoConn /\ IdleProc.id = NoId
  /\ ProcOK(IdleProc, FreeConn)
BY DEF FreeConn, ConnRecords, IdleProc, ProcRecords, Nothing, ProcOK

(* The requests and answers are told apart by their kinds.                 *)
LEMMA MapFacts ==
  /\ Map!NoRequest \notin Map!Requests
  /\ \A v \in Counts : Map!WholeValue(v) # Map!Refused /\ Map!WholeValue(v).len = 1
  /\ \A v \in Counts : Map!WholeValue(v).kind = "data" /\ Map!WholeValue(v).value = v
  /\ Map!Ok.kind = "ok" /\ Map!Refused.kind = "refused" /\ Map!NoAnswer.kind = "none"
  /\ Map!NoRequest.kind = "none"
  /\ \A r \in Map!Requests : r.kind \in {"store", "fetch", "delete"} /\ r.key \in Ids
  /\ \A r \in Map!Requests : r.kind = "store" => r.value \in Counts
BY DEF Map!NoRequest, Map!Requests, Map!WholeValue, Map!Refused, Map!Ok,
       Map!NoAnswer, Counts

(* A step of one process, with one connection, its own or a new one.       *)
LEMMA ClientBase ==
  ASSUME BaseInv,
         NEW p \in Procs, NEW c \in Conns,
         NEW x \in ProcRecords, NEW r \in ConnRecords,
         php' = [php EXCEPT ![p] = x], conn' = [conn EXCEPT ![c] = r],
         php[p].fp = c \/ (php[p].fp = NoConn /\ ~ conn[c].held),
         x.fp = IF r.held THEN c ELSE NoConn,
         ProcOK(x, IF r.held THEN r ELSE FreeConn),
         r.phase = "dropped" => r.reply = Map!NoAnswer,
         r.phase = "serving" <=> conn[c].phase = "serving",
         r.phase = "serving" => r.request = conn[c].request,
         UNCHANGED <<mapVars, serving>>,
         reloads' \in [Ids -> Nat], quiet' \in BOOLEAN
  PROVE  BaseInv'
<1>1. \A q \in Procs : q # p => php'[q] = php[q] /\ php[q].fp # c
  BY SessionsAssumption DEF BaseInv, NoSocketLeft, TypeOK
<1>2. \A d \in Conns : d # c => conn'[d] = conn[d]
  BY DEF BaseInv, TypeOK
<1>3. php'[p] = x /\ conn'[c] = r
  BY DEF BaseInv, TypeOK
<1>4. TypeOK'
  BY DEF BaseInv, TypeOK
<1>5. MapInv'
  BY DEF BaseInv, MapInv, mapVars
<1>6. ServingInv'
  BY <1>2, <1>3, SessionsAssumption DEF BaseInv, ServingInv, TypeOK, mapVars
<1>7. DroppedInv'
  BY <1>2, <1>3 DEF BaseInv, DroppedInv
<1>8. ProcInv'
  <2> SUFFICES ASSUME NEW q \in Procs
               PROVE  ProcOK(php'[q], ConnOf(php'[q], conn'))
    BY DEF ProcInv
  <2>1. CASE q = p
    <3>1. ConnOf(x, conn') = IF r.held THEN r ELSE FreeConn
      BY <1>3, SessionsAssumption DEF ConnOf
    <3> QED BY <2>1, <3>1, <1>3
  <2>2. CASE q # p
    <3>1. php[q].fp \in Conns \cup {NoConn}
      BY DEF BaseInv, TypeOK, ProcRecords
    <3>2. ConnOf(php[q], conn') = ConnOf(php[q], conn)
      BY <3>1, <2>2, <1>1, <1>2 DEF ConnOf
    <3> QED BY <2>2, <3>2, <1>1 DEF BaseInv, ProcInv
  <2> QED BY <2>1, <2>2
<1>9. NoSocketLeft'
  <2>1. \A d \in Conns : conn'[d].held <=> \E q \in Procs : php'[q].fp = d
    <3> SUFFICES ASSUME NEW d \in Conns
                 PROVE  conn'[d].held <=> \E q \in Procs : php'[q].fp = d
      OBVIOUS
    <3>1. CASE d = c
      BY <3>1, <1>1, <1>3, SessionsAssumption
    <3>2. CASE d # c
      BY <3>2, <1>1, <1>2, <1>3, SessionsAssumption DEF BaseInv, NoSocketLeft
    <3> QED BY <3>1, <3>2
  <2>2. \A q, s \in Procs : php'[q].fp = php'[s].fp /\ q # s => php'[q].fp = NoConn
    BY <1>1, <1>3 DEF BaseInv, NoSocketLeft
  <2>3. \A q \in Procs : php'[q].pc = "idle" => php'[q].fp = NoConn
    BY <1>1, <1>3 DEF BaseInv, NoSocketLeft, ProcOK
  <2> QED BY <2>1, <2>2, <2>3 DEF NoSocketLeft
<1> QED BY <1>4, <1>5, <1>6, <1>7, <1>8, <1>9 DEF BaseInv

(* A step of the server at one connection, or at none.                     *)
LEMMA ServerBase ==
  ASSUME BaseInv,
         NEW c \in Conns, NEW r \in ConnRecords,
         php' = php, conn' = [conn EXCEPT ![c] = r], r.held = conn[c].held,
         \A p \in Procs : php[p].fp = c => ProcOK(php[p], r),
         r.phase = "dropped" => r.reply = Map!NoAnswer,
         serving' \in Conns \cup {NoConn}, MapInv', ServingInv',
         reloads' \in [Ids -> Nat], quiet' \in BOOLEAN
  PROVE  BaseInv'
<1>1. \A d \in Conns : d # c => conn'[d] = conn[d]
  BY DEF BaseInv, TypeOK
<1>2. conn'[c] = r
  BY DEF BaseInv, TypeOK
<1>3. TypeOK'
  BY DEF BaseInv, TypeOK
<1>4. DroppedInv'
  BY <1>1, <1>2 DEF BaseInv, DroppedInv
<1>5. ProcInv'
  <2> SUFFICES ASSUME NEW p \in Procs
               PROVE  ProcOK(php[p], ConnOf(php[p], conn'))
    BY DEF ProcInv
  <2>1. CASE php[p].fp = c
    BY <2>1, <1>2, SessionsAssumption DEF ConnOf
  <2>2. CASE php[p].fp # c
    <3>1. php[p].fp \in Conns \cup {NoConn}
      BY DEF BaseInv, TypeOK, ProcRecords
    <3>2. ConnOf(php[p], conn') = ConnOf(php[p], conn)
      BY <3>1, <2>2, <1>1 DEF ConnOf
    <3> QED BY <3>2 DEF BaseInv, ProcInv
  <2> QED BY <2>1, <2>2
<1>6. NoSocketLeft'
  <2>1. \A d \in Conns : conn'[d].held = conn[d].held
    BY <1>1, <1>2
  <2> QED BY <2>1 DEF BaseInv, NoSocketLeft
<1> QED BY <1>3, <1>4, <1>5, <1>6 DEF BaseInv

-----------------------------------------------------------------------------
(* The same steps, of undisturbed sessions.                                *)
LEMMA ClientQuiet ==
  ASSUME SInv,
         NEW p \in Procs, NEW c \in Conns,
         NEW x \in ProcRecords, NEW r \in ConnRecords,
         php' = [php EXCEPT ![p] = x], conn' = [conn EXCEPT ![c] = r],
         php[p].fp = c \/ (php[p].fp = NoConn /\ ~ conn[c].held),
         x.fp = IF r.held THEN c ELSE NoConn,
         x.id = NoId <=> x.pc = "idle",
         UNCHANGED mapVars,
         \A i \in Ids : i # php[p].id => reloads'[i] = reloads[i],
         quiet' =>
           /\ quiet
           /\ r.phase \in {"sent", "serving"} => r.held
           /\ x.id # NoId => \A q \in Procs : q # p => php[q].id # x.id
           /\ php[p].id \notin {x.id, NoId} =>
                map[php[p].id] = Kept(reloads'[php[p].id])
           /\ x.pc # "idle" =>
                Undisturbed(x, IF r.held THEN r ELSE FreeConn, map[x.id],
                            reloads'[x.id], result)
  PROVE  QuietInv'
<1> SUFFICES ASSUME quiet'
             PROVE  /\ \A d \in Conns : conn'[d].phase \in {"sent", "serving"} =>
                                          conn'[d].held
                    /\ \A i \in Ids : (\A q \in Procs : php'[q].id # i) =>
                                        map'[i] = Kept(reloads'[i])
                    /\ \A q \in Procs : php'[q].pc # "idle" =>
                         /\ Alone(q)'
                         /\ Undisturbed(php'[q], ConnOf(php'[q], conn'),
                                        map'[php'[q].id], reloads'[php'[q].id],
                                        result')
  BY DEF QuietInv
<1>1. \A q \in Procs : q # p => php'[q] = php[q] /\ php[q].fp # c
  BY SessionsAssumption DEF SInv, BaseInv, NoSocketLeft, TypeOK
<1>2. \A d \in Conns : d # c => conn'[d] = conn[d]
  BY DEF SInv, BaseInv, TypeOK
<1>3. php'[p] = x /\ conn'[c] = r
  BY DEF SInv, BaseInv, TypeOK
<1>4. map' = map /\ result' = result
  BY DEF mapVars
<1>5. \A q \in Procs : php[q] \in ProcRecords
  BY DEF SInv, BaseInv, TypeOK
<1>6. \A q \in Procs : php[q].id = NoId <=> php[q].pc = "idle"
  BY DEF SInv, BaseInv, ProcInv, ProcOK
<1>7. \A q \in Procs : q # p /\ php[q].pc # "idle" => php[q].id # php[p].id
  BY DEF SInv, QuietInv, Alone
<1>8. \A d \in Conns : conn'[d].phase \in {"sent", "serving"} => conn'[d].held
  BY <1>2, <1>3 DEF SInv, QuietInv
<1>9. ASSUME NEW i \in Ids, \A q \in Procs : php'[q].id # i
      PROVE  map'[i] = Kept(reloads'[i])
  <2>1. CASE php[p].id = i
    BY <2>1, <1>3, <1>4, <1>9, SessionsAssumption
  <2>2. CASE php[p].id # i
    <3>1. \A q \in Procs : php[q].id # i
      BY <2>2, <1>1, <1>9
    <3> QED BY <3>1, <2>2, <1>4 DEF SInv, QuietInv
  <2> QED BY <2>1, <2>2
<1>10. ASSUME NEW q \in Procs, php'[q].pc # "idle"
       PROVE  /\ Alone(q)'
              /\ Undisturbed(php'[q], ConnOf(php'[q], conn'), map'[php'[q].id],
                             reloads'[php'[q].id], result')
  <2>1. CASE q = p
    <3>1. ConnOf(x, conn') = IF r.held THEN r ELSE FreeConn
      BY <1>3, SessionsAssumption DEF ConnOf
    <3>2. x.pc # "idle" /\ x.id # NoId
      BY <2>1, <1>3, <1>10
    <3>3. Alone(q)'
      BY <2>1, <1>1, <1>3, <3>2 DEF Alone
    <3> QED BY <2>1, <1>3, <1>4, <3>1, <3>2, <3>3
  <2>2. CASE q # p
    <3>1. php'[q] = php[q] /\ php[q].pc # "idle"
      BY <2>2, <1>1, <1>10
    <3>2. ConnOf(php[q], conn') = ConnOf(php[q], conn)
      BY <2>2, <1>1, <1>2, <1>5 DEF ConnOf, ProcRecords
    <3>3. php[q].id \in Ids /\ reloads'[php[q].id] = reloads[php[q].id]
      BY <2>2, <3>1, <1>5, <1>6, <1>7 DEF ProcRecords
    <3>4. x.id # php[q].id
      BY <2>2, <3>3, SessionsAssumption
    <3>5. Alone(q)'
      BY <2>2, <3>1, <3>4, <1>1, <1>3 DEF SInv, QuietInv, Alone
    <3> QED BY <3>1, <3>2, <3>3, <3>5, <1>4 DEF SInv, QuietInv
  <2> QED BY <2>1, <2>2
<1> QED BY <1>8, <1>9, <1>10

LEMMA ServerQuiet ==
  ASSUME SInv,
         NEW c \in Conns, NEW r \in ConnRecords,
         php' = php, conn' = [conn EXCEPT ![c] = r],
         map' = map, reloads' = reloads,
         quiet' =>
           /\ quiet
           /\ r.phase \in {"sent", "serving"} => r.held
           /\ \A p \in Procs : php[p].pc # "idle" =>
                IF php[p].fp = c
                THEN Undisturbed(php[p], r, map[php[p].id], reloads[php[p].id],
                                 result')
                ELSE Undisturbed(php[p], ConnOf(php[p], conn), map[php[p].id],
                                 reloads[php[p].id], result')
  PROVE  QuietInv'
<1> SUFFICES ASSUME quiet'
             PROVE  /\ \A d \in Conns : conn'[d].phase \in {"sent", "serving"} =>
                                          conn'[d].held
                    /\ \A i \in Ids : (\A q \in Procs : php[q].id # i) =>
                                        map[i] = Kept(reloads[i])
                    /\ \A q \in Procs : php[q].pc # "idle" =>
                         /\ Alone(q)
                         /\ Undisturbed(php[q], ConnOf(php[q], conn'),
                                        map[php[q].id], reloads[php[q].id],
                                        result')
  BY DEF QuietInv, Alone
<1>1. \A d \in Conns : d # c => conn'[d] = conn[d]
  BY DEF SInv, BaseInv, TypeOK
<1>2. conn'[c] = r
  BY DEF SInv, BaseInv, TypeOK
<1>3. \A d \in Conns : conn'[d].phase \in {"sent", "serving"} => conn'[d].held
  BY <1>1, <1>2 DEF SInv, QuietInv
<1>4. ASSUME NEW q \in Procs, php[q].pc # "idle"
      PROVE  Undisturbed(php[q], ConnOf(php[q], conn'), map[php[q].id],
                         reloads[php[q].id], result')
  <2>1. CASE php[q].fp = c
    <3>1. ConnOf(php[q], conn') = r
      BY <2>1, <1>2, SessionsAssumption DEF ConnOf
    <3> QED BY <2>1, <3>1, <1>4
  <2>2. CASE php[q].fp # c
    <3>1. ConnOf(php[q], conn') = ConnOf(php[q], conn)
      BY <2>2, <1>1 DEF ConnOf, SInv, BaseInv, TypeOK, ProcRecords
    <3> QED BY <2>2, <3>1, <1>4
  <2> QED BY <2>1, <2>2
<1> QED BY <1>3, <1>4 DEF SInv, QuietInv

-----------------------------------------------------------------------------
(* The steps of the PHP processes.                                         *)
LEMMA ClientStep ==
  ASSUME SInv,
         NEW p \in Procs, NEW c \in Conns,
         NEW x \in ProcRecords, NEW r \in ConnRecords,
         php' = [php EXCEPT ![p] = x], conn' = [conn EXCEPT ![c] = r],
         php[p].fp = c \/ (php[p].fp = NoConn /\ ~ conn[c].held),
         x.fp = IF r.held THEN c ELSE NoConn,
         ProcOK(x, IF r.held THEN r ELSE FreeConn),
         r.phase = "dropped" => r.reply = Map!NoAnswer,
         r.phase = "serving" <=> conn[c].phase = "serving",
         r.phase = "serving" => r.request = conn[c].request,
         UNCHANGED <<mapVars, serving>>,
         reloads' \in [Ids -> Nat], quiet' \in BOOLEAN,
         \A i \in Ids : i # php[p].id => reloads'[i] = reloads[i],
         quiet' =>
           /\ quiet
           /\ r.phase \in {"sent", "serving"} => r.held
           /\ x.id # NoId => \A q \in Procs : q # p => php[q].id # x.id
           /\ php[p].id \notin {x.id, NoId} =>
                map[php[p].id] = Kept(reloads'[php[p].id])
           /\ x.pc # "idle" =>
                Undisturbed(x, IF r.held THEN r ELSE FreeConn, map[x.id],
                            reloads'[x.id], result)
  PROVE  SInv'
<1>1. BaseInv'
  BY ClientBase DEF SInv
<1>2. x.id = NoId <=> x.pc = "idle"
  BY DEF ProcOK
<1>3. QuietInv'
  BY <1>2, ClientQuiet
<1> QED BY <1>1, <1>3 DEF SInv

(* What is known of a process and its connection.                          *)
LEMMA ProcFacts ==
  ASSUME BaseInv, NEW p \in Procs
  PROVE  /\ php[p] \in ProcRecords
         /\ php[p].id = NoId <=> php[p].pc = "idle"
         /\ php[p].pc # "idle" => php[p].id \in Ids
         /\ php[p].fp = NoConn <=> php[p].pc \in {"idle", "script", "undecodable"}
         /\ ProcOK(php[p], ConnOf(php[p], conn))
         /\ php[p].fp # NoConn =>
              /\ php[p].fp \in Conns
              /\ conn[php[p].fp] \in ConnRecords /\ conn[php[p].fp].held
              /\ ConnOf(php[p], conn) = conn[php[p].fp]
         /\ reloads \in [Ids -> Nat] /\ quiet \in BOOLEAN
BY DEF BaseInv, TypeOK, ProcInv, ProcOK, ProcRecords, NoSocketLeft, ConnOf

LEMMA QuietFacts ==
  ASSUME SInv, quiet, NEW p \in Procs, php[p].pc # "idle"
  PROVE  /\ \A q \in Procs : q # p => php[q].id # php[p].id
         /\ Undisturbed(php[p], ConnOf(php[p], conn), map[php[p].id],
                        reloads[php[p].id], result)
BY DEF SInv, QuietInv, Alone

LEMMA OpenStep ==
  ASSUME SInv, NEW p \in Procs, Open(p)
  PROVE  SInv'
<1>1. PICK i \in Ids :
        /\ SharedanceOpen(p, [IdleProc EXCEPT !.pc = "read", !.id = i])
        /\ quiet' = (quiet /\ \A q \in Procs : php[q].id # i)
  BY DEF Open
<1>2. PICK c \in Free :
        /\ conn' = [conn EXCEPT ![c] = [FreeConn EXCEPT !.phase = "open",
                                                        !.held = TRUE]]
        /\ php' = [php EXCEPT ![p] = [[IdleProc EXCEPT !.pc = "read", !.id = i]
                                        EXCEPT !.fp = c]]
  BY <1>1 DEF SharedanceOpen
<1> DEFINE x == [[IdleProc EXCEPT !.pc = "read", !.id = i] EXCEPT !.fp = c]
           r == [FreeConn EXCEPT !.phase = "open", !.held = TRUE]
<1>3. c \in Conns /\ conn[c] = FreeConn /\ ~ conn[c].held
  BY FreeFacts, ConnFacts DEF Free, SInv, BaseInv, TypeOK
<1>4. x \in ProcRecords /\ x.pc = "read" /\ x.id = i /\ x.fp = c
  BY <1>3 DEF IdleProc, ProcRecords
<1>5. r \in ConnRecords /\ r.phase = "open" /\ r.held
  BY DEF FreeConn, ConnRecords
<1>6. php[p].pc = "idle" /\ php[p].id = NoId /\ php[p].fp = NoConn
  BY ProcFacts DEF Open, SInv
<1>7. ProcOK(x, r)
  BY <1>3, <1>4, <1>5, SessionsAssumption DEF ProcOK
<1>8. UNCHANGED <<mapVars, serving>> /\ reloads' = reloads
  BY DEF Open
<1>9. reloads' \in [Ids -> Nat] /\ quiet' \in BOOLEAN
  BY <1>1, <1>8 DEF SInv, BaseInv, TypeOK
<1>10. quiet' => /\ quiet /\ \A q \in Procs : php[q].id # i
                 /\ Undisturbed(x, r, map[i], reloads'[i], result)
  BY <1>1, <1>4, <1>5, <1>8 DEF SInv, QuietInv, Undisturbed
<1>11. conn[c].phase # "serving"
  BY <1>3, FreeFacts
<1> HIDE DEF x, r
<1> QED BY <1>2, <1>3, <1>4, <1>5, <1>6, <1>7, <1>8, <1>9, <1>10, <1>11, ClientStep
           DEF x, r

(* A request is sent on the connection that is open, or on a new one.      *)
LEMMA SendStep ==
  ASSUME SInv, NEW p \in Procs, NEW label, NEW req,
         \/ php[p].pc = "read" /\ label = "fetching"
         \/ php[p].pc = "script" /\ label = "storing" /\ php[p].data < MaxCount
         \/ php[p].pc \in {"script", "undecodable"} /\ label = "destroying",
         req = Asked([php[p] EXCEPT !.pc = label]),
         Send(p, req, label),
         UNCHANGED <<mapVars, serving, reloads, quiet>>
  PROVE  SInv'
<1>1. PICK c \in IF php[p].fp = NoConn THEN Free ELSE {php[p].fp} :
        /\ conn' = [conn EXCEPT ![c] = Sent(@, req)]
        /\ php' = [php EXCEPT ![p].fp = c, ![p].pc = label]
  BY DEF Send
<1> DEFINE x == [php[p] EXCEPT !.fp = c, !.pc = label]
           r == Sent(conn[c], req)
           new == [phase |-> "sent", request |-> req, reply |-> Map!NoAnswer,
                   held |-> TRUE]
<1>2. /\ php[p] \in ProcRecords /\ php[p].id \in Ids
      /\ reloads \in [Ids -> Nat] /\ quiet \in BOOLEAN
  BY ProcFacts DEF SInv
<1>3. c \in Conns /\ conn[c] \in ConnRecords
  BY <1>1, ProcFacts DEF Free, SInv, BaseInv, TypeOK
<1>4. x \in ProcRecords /\ x.fp = c /\ x.pc = label /\ x.id = php[p].id
                        /\ x.data = php[p].data
  BY <1>2, <1>3 DEF ProcRecords
<1>5. php' = [php EXCEPT ![p] = x] /\ conn' = [conn EXCEPT ![c] = r]
  BY <1>1 DEF SInv, BaseInv, TypeOK
<1>6. req = Asked(x)
  BY <1>4, <1>2 DEF Asked, ProcRecords
<1>7. req \in Map!Requests
  BY <1>6, <1>4, <1>2, SessionsAssumption
     DEF Asked, Map!Requests, ProcRecords, Counts, Nothing
<1>8. new \in ConnRecords
  BY <1>7 DEF ConnRecords
<1>9. \/ php[p].fp = c /\ php[p].pc = "read" /\ conn[c].held
         /\ conn[c].phase \in {"open", "dropped"}
      \/ php[p].fp = NoConn /\ php[p].pc \in {"script", "undecodable"}
         /\ conn[c].phase = "free" /\ ~ conn[c].held
  BY <1>1, <1>3, ProcFacts, ConnFacts, FreeFacts DEF ProcOK, Free, SInv
<1>10. \/ conn[c].phase \in {"free", "open"} /\ r = new
       \/ conn[c].phase = "dropped" /\ r = conn[c]
  BY <1>9 DEF Sent
<1>11. r \in ConnRecords /\ r.held /\ r.phase \in {"sent", "dropped"}
       /\ (r.phase = "sent" => r.request = req)
  BY <1>3, <1>8, <1>9, <1>10
<1>12. r.phase = "dropped" => r.reply = Map!NoAnswer
  BY <1>3, <1>10 DEF SInv, BaseInv, DroppedInv
<1>13. ProcOK(x, r)
  BY <1>4, <1>2, <1>3, <1>6, <1>11, SessionsAssumption DEF ProcOK
<1>14. ASSUME quiet
       PROVE  Undisturbed(x, r, map[x.id], reloads[x.id], result)
  <2>1. Undisturbed(php[p], ConnOf(php[p], conn), map[php[p].id],
                    reloads[php[p].id], result)
    BY <1>14, <1>9, QuietFacts
  <2>2. map[x.id] = Kept(reloads[x.id]) /\ php[p].pc # "undecodable"
    BY <2>1, <1>4, <1>9 DEF Undisturbed
  <2>3. r.phase = "sent"
    <3>1. CASE php[p].pc = "read"
      <4>1. conn[c].phase = "open"
        BY <3>1, <2>1, <1>9, <1>3, SessionsAssumption DEF Undisturbed, ConnOf
      <4> QED BY <4>1, <1>10
    <3>2. CASE php[p].pc # "read"
      BY <3>2, <1>9, <1>10
    <3> QED BY <3>1, <3>2
  <2>4. label = "storing" => x.data = reloads[x.id] - 1
    BY <2>1, <1>4 DEF Undisturbed
  <2> QED BY <2>2, <2>3, <2>4, <1>4 DEF Undisturbed
<1>15. conn[c].phase # "serving"
  BY <1>9
<1>16. quiet => \A q \in Procs : q # p => php[q].id # x.id
  BY <1>4, <1>9, QuietFacts
<1>17. php[p].fp = c \/ (php[p].fp = NoConn /\ ~ conn[c].held)
  BY <1>9
<1> HIDE DEF x, r, new
<1> QED BY <1>2, <1>3, <1>4, <1>5, <1>11, <1>12, <1>13, <1>14, <1>15, <1>16, <1>17,
           ClientStep

LEMMA SendsStep ==
  ASSUME SInv, NEW p \in Procs, Fetch(p) \/ Store(p) \/ Destroy(p)
  PROVE  SInv'
<1>1. php[p] \in ProcRecords
  BY ProcFacts DEF SInv
<1>2. CASE Fetch(p)
  <2>1. [kind |-> "fetch", key |-> php[p].id] = Asked([php[p] EXCEPT !.pc = "fetching"])
    BY <1>1 DEF Asked, ProcRecords
  <2> QED BY <1>2, <2>1, SendStep DEF Fetch
<1>3. CASE Store(p)
  <2>1. [kind |-> "store", key |-> php[p].id, value |-> php[p].data + 1]
          = Asked([php[p] EXCEPT !.pc = "storing"])
    BY <1>1 DEF Asked, ProcRecords
  <2> QED BY <1>3, <2>1, SendStep DEF Store
<1>4. CASE Destroy(p)
  <2>1. [kind |-> "delete", key |-> php[p].id]
          = Asked([php[p] EXCEPT !.pc = "destroying"])
    BY <1>1 DEF Asked, ProcRecords
  <2> QED BY <1>4, <2>1, SendStep DEF Destroy
<1> QED BY <1>2, <1>3, <1>4

LEMMA CannotReopenStep ==
  ASSUME SInv, NEW p \in Procs, CannotReopen(p)
  PROVE  SInv'
<1>1. php' = [php EXCEPT ![p] = IdleProc] /\ php[p].fp = NoConn /\ ~ quiet'
  BY DEF CannotReopen
<1>2. UNCHANGED <<mapVars, serving, conn, reloads>>
  BY DEF CannotReopen
<1>3. php'[p] = IdleProc /\ \A q \in Procs : q # p => php'[q] = php[q]
  BY <1>1 DEF SInv, BaseInv, TypeOK
<1>4. \A q \in Procs : php'[q].fp = php[q].fp
  BY <1>1, <1>3, FreeFacts
<1>5. TypeOK'
  BY <1>1, <1>2, FreeFacts DEF SInv, BaseInv, TypeOK, CannotReopen
<1>6. MapInv' /\ ServingInv' /\ DroppedInv'
  BY <1>2 DEF SInv, BaseInv, MapInv, ServingInv, DroppedInv, mapVars
<1>7. ProcInv'
  BY <1>2, <1>3, FreeFacts DEF SInv, BaseInv, ProcInv, ConnOf
<1>8. NoSocketLeft'
  BY <1>2, <1>3, <1>4, FreeFacts DEF SInv, BaseInv, NoSocketLeft
<1> QED BY <1>1, <1>5, <1>6, <1>7, <1>8 DEF SInv, BaseInv, QuietInv

(* A process that waits ends its wait by closing its connection.           *)
LEMMA CloseStep ==
  ASSUME SInv, NEW p \in Procs, Waiting(p),
         NEW next \in ProcRecords,
         next.pc \in {"idle", "script", "undecodable"},
         next.id = NoId <=> next.pc = "idle", next.id \in {php[p].id, NoId},
         SharedanceClose(p, next),
         UNCHANGED <<mapVars, serving>>,
         reloads' \in [Ids -> Nat], quiet' \in BOOLEAN,
         \A i \in Ids : i # php[p].id => reloads'[i] = reloads[i],
         quiet' =>
           /\ quiet /\ Answered(p)
           /\ next.pc = "idle" => map[php[p].id] = Kept(reloads'[php[p].id])
           /\ next.pc = "script" =>
                /\ map[php[p].id] = Kept(reloads'[php[p].id])
                /\ next.data = reloads'[php[p].id] - 1
           /\ next.pc # "undecodable"
  PROVE  SInv'
<1> DEFINE c == php[p].fp
           x == [next EXCEPT !.fp = NoConn]
           r == Closed(conn[c])
<1>1. /\ php[p] \in ProcRecords /\ c \in Conns /\ php[p].id \in Ids
      /\ conn[c] \in ConnRecords
  BY ProcFacts DEF Waiting, SInv
<1>2. x \in ProcRecords /\ x.fp = NoConn /\ x.pc = next.pc /\ x.id = next.id
                        /\ x.data = next.data
  BY DEF ProcRecords
<1>3. php' = [php EXCEPT ![p] = x] /\ conn' = [conn EXCEPT ![c] = r]
  BY DEF SharedanceClose
<1>4. \/ /\ conn[c].phase \in {"sent", "serving"}
         /\ r = [conn[c] EXCEPT !.held = FALSE]
      \/ conn[c].phase \notin {"sent", "serving"} /\ r = FreeConn
  BY DEF Closed
<1>5. ASSUME conn[c].phase \in {"sent", "serving"}
      PROVE  /\ [conn[c] EXCEPT !.held = FALSE] \in ConnRecords
             /\ ~ [conn[c] EXCEPT !.held = FALSE].held
             /\ [conn[c] EXCEPT !.held = FALSE].phase = conn[c].phase
             /\ [conn[c] EXCEPT !.held = FALSE].request = conn[c].request
  BY <1>5, <1>1, LeftFacts
<1>6. /\ r \in ConnRecords /\ ~ r.held
      /\ r.phase = "serving" <=> conn[c].phase = "serving"
      /\ r.phase = "serving" => r.request = conn[c].request
      /\ r.phase # "dropped"
      /\ r.phase \in {"sent", "serving"} <=> conn[c].phase \in {"sent", "serving"}
  BY <1>4, <1>5, FreeFacts
<1>7. ProcOK(x, FreeConn)
  BY <1>2 DEF ProcOK
<1>8. Answered(p) => r.phase \notin {"sent", "serving"}
  BY <1>6 DEF Answered
<1>9. quiet => \A q \in Procs : q # p => php[q].id # php[p].id
  BY QuietFacts DEF Waiting
<1>10. quiet' /\ x.pc # "idle" =>
         Undisturbed(x, FreeConn, map[x.id], reloads'[x.id], result)
  BY <1>2 DEF Undisturbed
<1>11. php[p].fp = c
  OBVIOUS
<1> HIDE DEF x, r, c
<1>12. /\ x.fp = IF r.held THEN c ELSE NoConn
       /\ ProcOK(x, IF r.held THEN r ELSE FreeConn)
       /\ r.phase = "dropped" => r.reply = Map!NoAnswer
  BY <1>2, <1>6, <1>7
<1>13. quiet' =>
         /\ quiet
         /\ r.phase \in {"sent", "serving"} => r.held
         /\ x.id # NoId => \A q \in Procs : q # p => php[q].id # x.id
         /\ php[p].id \notin {x.id, NoId} =>
              map[php[p].id] = Kept(reloads'[php[p].id])
         /\ x.pc # "idle" =>
              Undisturbed(x, IF r.held THEN r ELSE FreeConn, map[x.id],
                          reloads'[x.id], result)
  BY <1>2, <1>6, <1>8, <1>9, <1>10
<1> QED BY <1>1, <1>2, <1>3, <1>6, <1>11, <1>12, <1>13, ClientStep

LEMMA FetchReturnsStep ==
  ASSUME SInv, NEW p \in Procs, FetchReturns(p)
  PROVE  SInv'
<1> DEFINE next == [php[p] EXCEPT !.pc = "script", !.data = FetchedData(Reply(p))]
<1>1. /\ php[p].pc = "fetching" /\ Waiting(p) /\ Answered(p)
      /\ SharedanceClose(p, next)
      /\ UNCHANGED <<mapVars, serving, reloads, quiet>>
  BY DEF FetchReturns, Answered, FetchEnds
<1>2. /\ php[p] \in ProcRecords /\ php[p].id \in Ids
      /\ conn[php[p].fp] \in ConnRecords
      /\ ConnOf(php[p], conn) = conn[php[p].fp]
      /\ reloads \in [Ids -> Nat] /\ quiet \in BOOLEAN
      /\ php[p].fp \in Conns
  BY <1>1, ProcFacts DEF SInv
<1>3. Reply(p) \in Replies
  BY <1>2, ConnFacts DEF Reply
<1>4. FetchedData(Reply(p)) \in Counts \cup {Nothing}
  BY <1>3, MapFacts DEF FetchedData, Replies
<1>5. next \in ProcRecords /\ next.pc = "script" /\ next.id = php[p].id
      /\ next.data = FetchedData(Reply(p))
  BY <1>2, <1>4 DEF ProcRecords
<1>6. ASSUME quiet
      PROVE  /\ map[php[p].id] = Kept(reloads[php[p].id])
             /\ FetchedData(Reply(p)) = reloads[php[p].id] - 1
  <2>1. Undisturbed(php[p], conn[php[p].fp], map[php[p].id], reloads[php[p].id],
                    result)
    BY <1>1, <1>2, <1>6, QuietFacts
  <2>2. map[php[p].id] = Kept(reloads[php[p].id])
    BY <2>1, <1>1 DEF Undisturbed
  <2>3. CASE conn[php[p].fp].phase = "replied"
    <3>1. reloads[php[p].id] > 0 /\ Reply(p) = Map!WholeValue(reloads[php[p].id] - 1)
      BY <2>1, <2>3, <1>1, <1>2 DEF Undisturbed, Reply, Kept
    <3> QED BY <3>1, <2>2 DEF FetchedData, Map!WholeValue
  <2>4. CASE conn[php[p].fp].phase = "dropped"
    <3>1. reloads[php[p].id] = 0 /\ Reply(p) = Map!NoAnswer
      BY <2>1, <2>4, <1>1, <1>2 DEF Undisturbed, Reply, SInv, BaseInv, DroppedInv
    <3> QED BY <3>1, <2>2, MapFacts DEF FetchedData, Nothing
  <2> QED BY <2>3, <2>4, <1>1 DEF Answered
<1>7. next.id # NoId
  BY <1>2, <1>5, SessionsAssumption
<1> HIDE DEF next
<1> QED BY <1>1, <1>2, <1>5, <1>6, <1>7, CloseStep

LEMMA FetchCutStep ==
  ASSUME SInv, NEW p \in Procs, FetchCut(p)
  PROVE  SInv'
<1> DEFINE next == [php[p] EXCEPT !.pc = "undecodable"]
<1>1. /\ Waiting(p) /\ SharedanceClose(p, next) /\ ~ quiet' /\ quiet' \in BOOLEAN
      /\ UNCHANGED <<mapVars, serving, reloads>>
  BY DEF FetchCut, Answered, FetchEnds
<1>2. php[p] \in ProcRecords /\ php[p].id \in Ids /\ reloads \in [Ids -> Nat]
  BY <1>1, ProcFacts DEF SInv, Waiting
<1>3. next \in ProcRecords /\ next.pc = "undecodable" /\ next.id = php[p].id
  BY <1>2 DEF ProcRecords
<1>4. next.id # NoId
  BY <1>2, <1>3, SessionsAssumption
<1> HIDE DEF next
<1> QED BY <1>1, <1>2, <1>3, <1>4, CloseStep

LEMMA UpdateReturnsStep ==
  ASSUME SInv, NEW p \in Procs, UpdateReturns(p)
  PROVE  SInv'
<1>1. /\ php[p].pc \in {"storing", "destroying"} /\ Waiting(p) /\ Answered(p)
      /\ SharedanceClose(p, IdleProc) /\ reloads' = Counted(p)
      /\ UNCHANGED <<mapVars, serving, quiet>>
  BY DEF UpdateReturns, Answered
<1>2. /\ php[p] \in ProcRecords /\ php[p].id \in Ids
      /\ conn[php[p].fp] \in ConnRecords
      /\ ConnOf(php[p], conn) = conn[php[p].fp]
      /\ reloads \in [Ids -> Nat] /\ quiet \in BOOLEAN
      /\ php[p].fp \in Conns
  BY <1>1, ProcFacts DEF SInv
<1>3. reloads' \in [Ids -> Nat] /\ \A i \in Ids : i # php[p].id => reloads'[i] = reloads[i]
  BY <1>1, <1>2 DEF Counted
<1>4. ASSUME quiet
      PROVE  map[php[p].id] = Kept(reloads'[php[p].id])
  <2>1. Undisturbed(php[p], conn[php[p].fp], map[php[p].id], reloads[php[p].id],
                    result)
    BY <1>1, <1>2, <1>4, QuietFacts
  <2>2. CASE conn[php[p].fp].phase = "replied" /\ php[p].pc = "storing"
    <3>1. Reply(p) = Map!Ok /\ map[php[p].id] = Kept(reloads[php[p].id] + 1)
      BY <2>1, <2>2 DEF Undisturbed, Reply
    <3>2. reloads'[php[p].id] = reloads[php[p].id] + 1
      BY <3>1, <2>2, <1>1, <1>2, <1>4 DEF Counted
    <3> QED BY <3>1, <3>2
  <2>3. CASE conn[php[p].fp].phase = "replied" /\ php[p].pc = "destroying"
    <3>1. Reply(p) = Map!Ok /\ map[php[p].id] = Map!Refused
      BY <2>1, <2>3 DEF Undisturbed, Reply
    <3>2. reloads'[php[p].id] = 0
      BY <3>1, <2>3, <1>1, <1>2, <1>4 DEF Counted
    <3> QED BY <3>1, <3>2 DEF Kept
  <2>4. CASE conn[php[p].fp].phase = "dropped"
    <3>1. Reply(p) = Map!NoAnswer
      BY <2>4, <1>2 DEF Reply, SInv, BaseInv, DroppedInv
    <3>2. reloads' = reloads
      BY <3>1, <1>1, MapFacts DEF Counted
    <3>3. map[php[p].id] = Kept(reloads[php[p].id])
      BY <2>1, <2>4, <1>1 DEF Undisturbed
    <3> QED BY <3>2, <3>3
  <2> QED BY <2>2, <2>3, <2>4, <1>1 DEF Answered
<1> QED BY <1>1, <1>2, <1>3, <1>4, FreeFacts, CloseStep

LEMMA TimesOutStep ==
  ASSUME SInv, NEW p \in Procs, TimesOut(p)
  PROVE  SInv'
<1>1. /\ Waiting(p) /\ ~ quiet' /\ quiet' \in BOOLEAN
      /\ UNCHANGED <<mapVars, serving, reloads>>
  BY DEF TimesOut
<1>2. php[p] \in ProcRecords /\ php[p].id \in Ids /\ reloads \in [Ids -> Nat]
  BY <1>1, ProcFacts DEF SInv, Waiting
<1>3. CASE php[p].pc = "fetching"
  <2> DEFINE next == [php[p] EXCEPT !.pc = "script"]
  <2>1. SharedanceClose(p, next)
    BY <1>3 DEF TimesOut, FetchEnds
  <2>2. next \in ProcRecords /\ next.pc = "script" /\ next.id = php[p].id
    BY <1>2 DEF ProcRecords
  <2>3. next.id # NoId
    BY <1>2, <2>2, SessionsAssumption
  <2> HIDE DEF next
  <2> QED BY <1>1, <1>2, <2>1, <2>2, <2>3, CloseStep
<1>4. CASE php[p].pc # "fetching"
  <2>1. SharedanceClose(p, IdleProc)
    BY <1>4 DEF TimesOut
  <2> QED BY <1>1, <1>2, <2>1, FreeFacts, CloseStep
<1> QED BY <1>3, <1>4

-----------------------------------------------------------------------------
(* The steps of the server.                                                *)

(* Only the process that waits for it depends on the result.               *)
LEMMA OnlyServed ==
  ASSUME NEW x, NEW r, NEW m, NEW n, NEW res, NEW other,
         Undisturbed(x, r, m, n, res), r.phase # "serving"
  PROVE  Undisturbed(x, r, m, n, other)
BY DEF Undisturbed

(* Who waits on a connection that carries a request.                       *)
LEMMA Sender ==
  ASSUME BaseInv, NEW p \in Procs, php[p].fp \in Conns,
         conn[php[p].fp].phase \in {"sent", "serving"}
  PROVE  /\ php[p].pc \in {"fetching", "storing", "destroying"}
         /\ conn[php[p].fp].request = Asked(php[p])
         /\ php[p].id \in Ids /\ Asked(php[p]).key = php[p].id
BY ProcFacts, SessionsAssumption DEF ProcOK, ProcRecords, Asked

LEMMA ServeStep ==
  ASSUME SInv, NEW c \in Conns, Serve(c)
  PROVE  SInv'
<1> DEFINE r == [conn[c] EXCEPT !.phase = "serving"]
<1>1. /\ conn[c].phase = "sent" /\ request = Map!NoRequest
      /\ request' \in Map!Requests /\ request' = conn[c].request
      /\ serving' = c /\ conn' = [conn EXCEPT ![c] = r]
      /\ php' = php /\ map' = map /\ result' = result
      /\ reloads' = reloads /\ quiet' = quiet
  BY DEF Serve, Map!Begin, SInv, BaseInv, TypeOK
<1>2. conn[c] \in ConnRecords
  BY DEF SInv, BaseInv, TypeOK
<1>3. /\ r \in ConnRecords /\ r.phase = "serving" /\ r.held = conn[c].held
      /\ r.request = conn[c].request
  BY <1>1, <1>2, SentFacts
<1>4. \A d \in Conns : d # c => conn'[d] = conn[d]
  BY <1>1 DEF SInv, BaseInv, TypeOK
<1>5. conn'[c] = r
  BY <1>1 DEF SInv, BaseInv, TypeOK
<1>6. \A p \in Procs : php[p].fp = c => ProcOK(php[p], r)
  BY <1>1, <1>3, Sender, ProcFacts DEF ProcOK, SInv
<1> HIDE DEF r
<1>7. MapInv'
  BY <1>1, MapFacts DEF SInv, BaseInv, MapInv
<1>8. ServingInv'
  BY <1>1, <1>3, <1>4, <1>5, MapFacts, SessionsAssumption
     DEF SInv, BaseInv, ServingInv
<1>9. BaseInv'
  BY <1>1, <1>3, <1>6, <1>7, <1>8, ServerBase DEF SInv, BaseInv, TypeOK
<1>10. QuietInv'
  <2>1. ASSUME quiet
        PROVE  /\ conn[c].held
               /\ \A p \in Procs : php[p].pc # "idle" =>
                    IF php[p].fp = c
                    THEN Undisturbed(php[p], r, map[php[p].id], reloads[php[p].id],
                                     result')
                    ELSE Undisturbed(php[p], ConnOf(php[p], conn), map[php[p].id],
                                     reloads[php[p].id], result')
    <3>1. conn[c].held
      BY <2>1, <1>1 DEF SInv, QuietInv
    <3>2. result = Map!NoAnswer
      BY <1>1 DEF SInv, BaseInv, MapInv
    <3>3. ASSUME NEW p \in Procs, php[p].fp = c, php[p].pc # "idle"
          PROVE  Undisturbed(php[p], r, map[php[p].id], reloads[php[p].id], result)
      <4>1. Undisturbed(php[p], conn[c], map[php[p].id], reloads[php[p].id], result)
        BY <2>1, <3>3, SessionsAssumption, QuietFacts DEF ConnOf
      <4>2. php[p].pc \in {"fetching", "storing", "destroying"}
        BY <3>3, <1>1, Sender DEF SInv
      <4> QED BY <4>1, <4>2, <3>2, <1>1, <1>3 DEF Undisturbed
    <3>4. ASSUME NEW p \in Procs, php[p].fp # c, php[p].pc # "idle"
          PROVE  Undisturbed(php[p], ConnOf(php[p], conn), map[php[p].id],
                             reloads[php[p].id], result)
      BY <2>1, <3>4, QuietFacts
    <3> QED BY <3>1, <3>3, <3>4, <1>1
  <2> QED BY <2>1, <1>1, <1>3, ServerQuiet
<1> QED BY <1>9, <1>10 DEF SInv

(* The server is done with a connection.                                   *)
LEMMA DoneStep ==
  ASSUME SInv, NEW c \in Conns, NEW phase \in {"replied", "dropped"},
         NEW reply \in Replies,
         conn[c].phase \in {"open", "sent", "serving"},
         phase = "replied" => conn[c].phase = "serving",
         phase = "dropped" => reply = Map!NoAnswer,
         Done(c, phase, reply),
         UNCHANGED <<map, php, reloads>>, quiet' \in BOOLEAN,
         \/ /\ serving' = NoConn /\ request' = Map!NoRequest /\ result' = Map!NoAnswer
            /\ conn[c].phase = "serving"
         \/ UNCHANGED <<request, result, serving>> /\ conn[c].phase # "serving",
         quiet' =>
           /\ quiet /\ conn[c].phase = "serving"
           /\ \A p \in Procs : php[p].fp = c =>
                Undisturbed(php[p], Over(conn[c], phase, reply),
                            map[php[p].id], reloads[php[p].id], Map!NoAnswer)
  PROVE  SInv'
<1> DEFINE over == Over(conn[c], phase, reply)
           r == IF conn[c].held THEN over ELSE FreeConn
<1>1. conn' = [conn EXCEPT ![c] = r]
  BY DEF Done, Over, SInv, BaseInv, TypeOK
<1>2. conn[c] \in ConnRecords
  BY DEF SInv, BaseInv, TypeOK
<1>3. ASSUME conn[c].held
      PROVE  /\ over \in ConnRecords /\ over.held /\ over.phase = phase
             /\ over.reply = reply /\ over.request = conn[c].request
  BY <1>2, <1>3, OverFacts
<1>4. /\ r \in ConnRecords /\ r.held = conn[c].held
      /\ r.phase \in {"free", "replied", "dropped"}
      /\ r.phase = "dropped" => r.reply = Map!NoAnswer
  BY <1>2, <1>3, FreeFacts, ConnFacts
<1>5. \A d \in Conns : d # c => conn'[d] = conn[d]
  BY <1>1 DEF SInv, BaseInv, TypeOK
<1>6. conn'[c] = r
  BY <1>1 DEF SInv, BaseInv, TypeOK
<1>7. \A p \in Procs : php[p].fp = c => conn[c].held /\ r = over
  BY DEF SInv, BaseInv, NoSocketLeft
<1>8. \A p \in Procs : php[p].fp = c => ProcOK(php[p], r)
  <2> SUFFICES ASSUME NEW p \in Procs, php[p].fp = c
               PROVE  ProcOK(php[p], over)
    BY <1>7
  <2>1. ProcOK(php[p], conn[c])
    BY SessionsAssumption, ProcFacts DEF SInv
  <2>2. conn[c].held /\ over.phase = phase /\ over.request = conn[c].request
    BY <1>3, <1>7
  <2> HIDE DEF over
  <2>3. CASE phase = "dropped"
    BY <2>1, <2>2, <2>3 DEF ProcOK
  <2>4. CASE phase = "replied"
    BY <2>1, <2>2, <2>4 DEF ProcOK
  <2> QED BY <2>3, <2>4
<1>9. MapInv'
  BY DEF SInv, BaseInv, MapInv, Replies
<1>10. ServingInv'
  BY <1>4, <1>5, <1>6, SessionsAssumption DEF SInv, BaseInv, ServingInv, TypeOK
<1>11. BaseInv'
  <2>1. /\ serving' \in Conns \cup {NoConn} /\ reloads' \in [Ids -> Nat]
    BY DEF SInv, BaseInv, TypeOK
  <2> HIDE DEF r
  <2> QED BY <2>1, <1>1, <1>4, <1>8, <1>9, <1>10, ServerBase DEF SInv
<1>12. QuietInv'
  <2>1. ASSUME quiet'
        PROVE  /\ quiet
               /\ r.phase \in {"sent", "serving"} => r.held
               /\ \A p \in Procs : php[p].pc # "idle" =>
                    IF php[p].fp = c
                    THEN Undisturbed(php[p], r, map[php[p].id], reloads[php[p].id],
                                     result')
                    ELSE Undisturbed(php[p], ConnOf(php[p], conn), map[php[p].id],
                                     reloads[php[p].id], result')
    <3>1. quiet /\ conn[c].phase = "serving" /\ result' = Map!NoAnswer
      BY <2>1
    <3>2. ASSUME NEW p \in Procs, php[p].pc # "idle", php[p].fp = c
          PROVE  Undisturbed(php[p], r, map[php[p].id], reloads[php[p].id], result')
      BY <2>1, <3>1, <3>2, <1>7
    <3>3. ASSUME NEW p \in Procs, php[p].pc # "idle", php[p].fp # c
          PROVE  Undisturbed(php[p], ConnOf(php[p], conn), map[php[p].id],
                             reloads[php[p].id], result')
      <4>1. Undisturbed(php[p], ConnOf(php[p], conn), map[php[p].id],
                        reloads[php[p].id], result)
        BY <3>1, <3>3, QuietFacts
      <4>2. ConnOf(php[p], conn).phase # "serving"
        <5>1. CASE php[p].fp = NoConn
          BY <5>1, FreeFacts DEF ConnOf
        <5>2. CASE php[p].fp # NoConn
          BY <5>2, <3>1, <3>3, ProcFacts DEF SInv, BaseInv, ServingInv
        <5> QED BY <5>1, <5>2
      <4> QED BY <4>1, <4>2, OnlyServed
    <3> QED BY <3>1, <3>2, <3>3, <1>4
  <2> HIDE DEF r
  <2> QED BY <2>1, <1>1, <1>4, ServerQuiet
<1> QED BY <1>11, <1>12 DEF SInv

LEMMA ServingFacts ==
  ASSUME BaseInv, request # Map!NoRequest
  PROVE  /\ serving \in Conns /\ conn[serving] \in ConnRecords
         /\ conn[serving].phase = "serving" /\ conn[serving].request = request
         /\ request \in Map!Requests
BY DEF BaseInv, ServingInv, MapInv, TypeOK

(* What a quiet state says of the process whose request is served.         *)
LEMMA QuietSender ==
  ASSUME SInv, quiet, request # Map!NoRequest, NEW p \in Procs, php[p].fp = serving
  PROVE  /\ php[p].pc \in {"fetching", "storing", "destroying"}
         /\ request = Asked(php[p]) /\ request.key = php[p].id
         /\ php[p].id \in Ids /\ conn[serving].held
         /\ Undisturbed(php[p], conn[serving], map[php[p].id], reloads[php[p].id],
                        result)
<1>1. serving \in Conns /\ conn[serving].phase = "serving"
      /\ conn[serving].request = request
  BY ServingFacts DEF SInv
<1>2. /\ php[p].pc \in {"fetching", "storing", "destroying"}
      /\ request = Asked(php[p]) /\ request.key = php[p].id /\ php[p].id \in Ids
  BY <1>1, Sender DEF SInv
<1>3. ConnOf(php[p], conn) = conn[serving] /\ conn[serving].held
  BY <1>1, ProcFacts, SessionsAssumption DEF SInv
<1> QED BY <1>2, <1>3, QuietFacts

LEMMA ReturnStep ==
  ASSUME SInv, Return
  PROVE  SInv'
<1>1. /\ request # Map!NoRequest /\ result # Map!NoAnswer
      /\ Done(serving, "replied", result) /\ serving' = NoConn
      /\ request' = Map!NoRequest /\ result' = Map!NoAnswer
      /\ UNCHANGED <<map, php, reloads, quiet>>
  BY DEF Return, Map!Return
<1>2. /\ serving \in Conns /\ conn[serving] \in ConnRecords
      /\ conn[serving].phase = "serving" /\ result \in Replies /\ quiet \in BOOLEAN
  BY <1>1, ServingFacts DEF SInv, BaseInv, MapInv, TypeOK
<1>3. ASSUME quiet, NEW p \in Procs, php[p].fp = serving
      PROVE  Undisturbed(php[p], Over(conn[serving], "replied", result),
                         map[php[p].id], reloads[php[p].id], Map!NoAnswer)
  <2>1. /\ php[p].pc \in {"fetching", "storing", "destroying"}
        /\ conn[serving].held
        /\ Undisturbed(php[p], conn[serving], map[php[p].id], reloads[php[p].id],
                       result)
    BY <1>1, <1>3, QuietSender
  <2>2. Over(conn[serving], "replied", result).phase = "replied"
        /\ Over(conn[serving], "replied", result).reply = result
    BY <2>1, <1>2, OverFacts
  <2> QED BY <2>1, <2>2, <1>1, <1>2 DEF Undisturbed
<1> QED BY <1>1, <1>2, <1>3, DoneStep

LEMMA RefuseStep ==
  ASSUME SInv, Refuse
  PROVE  SInv'
<1>1. /\ request # Map!NoRequest
      /\ Done(serving, "dropped", Map!NoAnswer) /\ serving' = NoConn
      /\ request' = Map!NoRequest /\ result' = Map!NoAnswer
      /\ UNCHANGED <<map, php, reloads>>
      /\ quiet' = (quiet /\ request.kind # "store" /\ result = Map!NoAnswer
                         /\ ~ Map!Present(request.key))
  BY DEF Refuse, Map!Refuse
<1>2. /\ serving \in Conns /\ conn[serving] \in ConnRecords
      /\ conn[serving].phase = "serving" /\ Map!NoAnswer \in Replies
      /\ quiet \in BOOLEAN
  BY <1>1, ServingFacts DEF SInv, BaseInv, TypeOK, Replies
<1>3. ASSUME quiet', NEW p \in Procs, php[p].fp = serving
      PROVE  Undisturbed(php[p], Over(conn[serving], "dropped", Map!NoAnswer),
                         map[php[p].id], reloads[php[p].id], Map!NoAnswer)
  <2>1. /\ php[p].pc \in {"fetching", "storing", "destroying"}
        /\ request = Asked(php[p]) /\ request.key = php[p].id
        /\ conn[serving].held /\ php[p].id \in Ids
        /\ Undisturbed(php[p], conn[serving], map[php[p].id], reloads[php[p].id],
                       result)
    BY <1>1, <1>3, QuietSender
  <2>2. Over(conn[serving], "dropped", Map!NoAnswer).phase = "dropped"
    BY <2>1, <1>2, OverFacts
  <2>3. php[p].pc # "storing"
    BY <2>1, <1>1, <1>3 DEF Asked
  <2>4. map[php[p].id] = Map!Refused /\ result = Map!NoAnswer
    BY <2>1, <1>1, <1>3 DEF Map!Present
  <2>5. map[php[p].id] = Kept(reloads[php[p].id])
    BY <2>1, <2>3, <2>4, <1>2 DEF Undisturbed
  <2>6. reloads[php[p].id] = 0
    <3>1. Map!WholeValue(reloads[php[p].id] - 1) # Map!Refused
      BY DEF Map!WholeValue, Map!Refused
    <3> QED BY <3>1, <2>4, <2>5 DEF Kept
  <2> QED BY <2>1, <2>2, <2>3, <2>5, <2>6 DEF Undisturbed
<1>4. quiet' \in BOOLEAN /\ (quiet' => quiet)
  BY <1>1
<1> QED BY <1>1, <1>2, <1>3, <1>4, DoneStep

LEMMA DropStep ==
  ASSUME SInv, NEW c \in Conns, Drop(c)
  PROVE  SInv'
<1>1. Map!NoAnswer \in Replies
  BY DEF Replies
<1>2. conn[c].phase # "serving" /\ UNCHANGED <<map, request, result, serving>>
  BY DEF Drop, mapVars
<1> QED BY <1>1, <1>2, DoneStep DEF Drop

(* A request takes effect, without a change to any connection.             *)
LEMMA TakeEffectStep ==
  ASSUME SInv, TakeEffect
  PROVE  SInv'
<1> DEFINE Answers == {Map!Refused} \cup {Map!WholeValue(v) : v \in Counts}
<1>1. /\ request # Map!NoRequest /\ result = Map!NoAnswer /\ request' = request
      /\ UNCHANGED <<serving, conn, php, reloads, quiet>>
  BY MapFacts DEF TakeEffect, Map!Store, Map!Delete, Map!Fetch
<1>2. request \in Map!Requests /\ request.key \in Ids
      /\ map \in [Ids -> Answers] /\ map[request.key] \in Answers
  BY <1>1, ServingFacts, MapFacts DEF SInv, BaseInv, MapInv
<1>3. \/ /\ request.kind = "store" /\ result' = Map!Ok
         /\ map' = [map EXCEPT ![request.key] = Map!WholeValue(request.value)]
      \/ /\ request.kind = "delete" /\ result' = Map!Ok
         /\ map' = [map EXCEPT ![request.key] = Map!Refused]
      \/ /\ request.kind = "fetch" /\ map' = map /\ result' = map[request.key]
         /\ map[request.key] # Map!Refused
  <2>1. Map!Present(request.key) => map[request.key].len > 0
    BY <1>2, MapFacts DEF Map!Present
  <2>2. \A v : Map!Stored(v) = {Map!WholeValue(v)}
    BY DEF Map!Stored
  <2> QED BY <2>1, <2>2
          DEF TakeEffect, Map!Store, Map!Delete, Map!Fetch, Map!Present
<1>4. MapInv'
  <2>1. request.kind = "store" => request.value \in Counts
    BY <1>2, MapFacts
  <2>2. map' \in [Ids -> Answers]
    BY <2>1, <1>2, <1>3
  <2>3. result' \in Replies
    BY <1>2, <1>3 DEF Replies
  <2> QED BY <2>2, <2>3, <1>1, <1>2 DEF MapInv
<1>5. BaseInv'
  BY <1>1, <1>4 DEF SInv, BaseInv, TypeOK, ServingInv, DroppedInv, ProcInv, ConnOf,
                    NoSocketLeft
<1>6. ASSUME quiet
      PROVE  QuietInv'
  <2>1. PICK p \in Procs : php[p].fp = serving
    <3>1. conn[serving].held
      BY <1>1, <1>6, ServingFacts DEF SInv, QuietInv
    <3> QED BY <3>1, <1>1, ServingFacts DEF SInv, BaseInv, NoSocketLeft
  <2>2. /\ php[p].pc \in {"fetching", "storing", "destroying"}
        /\ request = Asked(php[p]) /\ request.key = php[p].id /\ php[p].id \in Ids
        /\ Undisturbed(php[p], conn[serving], map[php[p].id], reloads[php[p].id],
                       result)
    BY <2>1, <1>1, <1>6, QuietSender
  <2>3. /\ conn[serving].phase = "serving" /\ ConnOf(php[p], conn) = conn[serving]
    BY <2>1, <1>1, ServingFacts, SessionsAssumption DEF SInv, ConnOf
  <2>4. \A i \in Ids : i # php[p].id => map'[i] = map[i]
    BY <2>2, <1>2, <1>3
  <2>5. Undisturbed(php[p], conn[serving], map'[php[p].id], reloads[php[p].id],
                    result')
    <3>0. /\ map[php[p].id] \in Answers /\ reloads[php[p].id] \in Nat
          /\ php[p] \in ProcRecords
      BY <2>2, <1>2, ProcFacts DEF SInv
    <3>1. CASE php[p].pc = "fetching"
      <4>1. request.kind = "fetch"
        BY <3>1, <2>2 DEF Asked
      <4>2. map' = map /\ result' = map[php[p].id] /\ map[php[p].id] # Map!Refused
        BY <4>1, <1>3, <2>2
      <4>3. map[php[p].id] = Kept(reloads[php[p].id])
        BY <3>1, <2>2 DEF Undisturbed
      <4>4. reloads[php[p].id] > 0
        BY <4>2, <4>3, <3>0 DEF Kept
      <4> QED BY <4>2, <4>3, <4>4, <3>1, <2>3 DEF Undisturbed
    <3>2. CASE php[p].pc = "storing"
      <4>1. request.kind = "store" /\ request.value = php[p].data + 1
        BY <3>2, <2>2 DEF Asked
      <4>2. php[p].data = reloads[php[p].id] - 1
        BY <3>2, <2>2 DEF Undisturbed
      <4>3. request.value = reloads[php[p].id]
        BY <4>1, <4>2, <3>0
      <4>4. map'[php[p].id] = Kept(reloads[php[p].id] + 1) /\ result' = Map!Ok
        BY <4>1, <4>3, <1>2, <1>3, <2>2, <3>0 DEF Kept
      <4> QED BY <4>2, <4>4, <3>2, <2>3, MapFacts DEF Undisturbed
    <3>3. CASE php[p].pc = "destroying"
      <4>1. request.kind = "delete"
        BY <3>3, <2>2 DEF Asked
      <4>2. map'[php[p].id] = Map!Refused /\ result' = Map!Ok
        BY <4>1, <1>2, <1>3, <2>2
      <4> QED BY <4>2, <3>3, <2>3, MapFacts DEF Undisturbed
    <3> QED BY <3>1, <3>2, <3>3, <2>2
  <2>6. ASSUME NEW q \in Procs, q # p, php[q].pc # "idle"
        PROVE  Undisturbed(php[q], ConnOf(php[q], conn), map'[php[q].id],
                           reloads[php[q].id], result')
    <3>1. Undisturbed(php[q], ConnOf(php[q], conn), map[php[q].id],
                      reloads[php[q].id], result) /\ php[p].id # php[q].id
      BY <2>6, <1>6, QuietFacts
    <3>2. php[q].id \in Ids
      BY <2>6, ProcFacts DEF SInv
    <3>3. ConnOf(php[q], conn).phase # "serving"
      <4>1. CASE php[q].fp = NoConn
        BY <4>1, FreeFacts DEF ConnOf
      <4>2. CASE php[q].fp # NoConn
        BY <4>2, <2>1, <2>6, ProcFacts DEF SInv, BaseInv, ServingInv, NoSocketLeft
      <4> QED BY <4>1, <4>2
    <3> QED BY <3>1, <3>2, <3>3, <2>4, OnlyServed
  <2>7. ASSUME NEW i \in Ids, \A q \in Procs : php[q].id # i
        PROVE  map'[i] = Kept(reloads[i])
    BY <2>4, <2>7, <1>6 DEF SInv, QuietInv
  <2>8. \A q \in Procs : php[q].pc # "idle" =>
          Undisturbed(php[q], ConnOf(php[q], conn), map'[php[q].id],
                      reloads[php[q].id], result')
    BY <2>3, <2>5, <2>6
  <2> QED BY <2>7, <2>8, <1>1, <1>6 DEF SInv, QuietInv, Alone, ConnOf
<1>7. ~ quiet => QuietInv'
  BY <1>1 DEF QuietInv
<1> QED BY <1>5, <1>6, <1>7 DEF SInv

LEMMA EvictStep ==
  ASSUME SInv, Evict
  PROVE  SInv'
<1>1. MapInv'
  BY DEF Evict, Map!Evict, SInv, BaseInv, MapInv
<1>2. BaseInv'
  BY <1>1 DEF Evict, Map!Evict, SInv, BaseInv, TypeOK, ServingInv, DroppedInv,
              ProcInv, ConnOf, NoSocketLeft
<1> QED BY <1>2 DEF Evict, SInv, QuietInv

-----------------------------------------------------------------------------
(* The theorems.                                                           *)

LEMMA InitInv == Init => SInv
<1> SUFFICES ASSUME Init
             PROVE  SInv
  OBVIOUS
<1>1. TypeOK
  BY FreeFacts DEF Init, TypeOK
<1>2. MapInv
  BY DEF Init, Map!Init, MapInv, Replies
<1>3. ServingInv /\ DroppedInv /\ ProcInv /\ NoSocketLeft
  BY FreeFacts, SessionsAssumption
     DEF Init, Map!Init, ServingInv, DroppedInv, ProcInv, ConnOf, NoSocketLeft
<1>4. QuietInv
  BY FreeFacts DEF Init, Map!Init, QuietInv, Kept
<1> QED BY <1>1, <1>2, <1>3, <1>4 DEF SInv, BaseInv

LEMMA NextInv == SInv /\ [Next]_vars => SInv'
<1> SUFFICES ASSUME SInv, [Next]_vars
             PROVE  SInv'
  OBVIOUS
<1>1. ASSUME NEW p \in Procs, Open(p) \/ Sends(p) \/ Receives(p)
      PROVE  SInv'
  BY <1>1, OpenStep, SendsStep, CannotReopenStep, FetchReturnsStep, FetchCutStep,
     UpdateReturnsStep, TimesOutStep DEF Sends, Receives
<1>2. ASSUME NEW c \in Conns, Serve(c) \/ Drop(c)
      PROVE  SInv'
  BY <1>2, ServeStep, DropStep
<1>3. CASE TakeEffect \/ Return \/ Refuse \/ Evict
  BY <1>3, TakeEffectStep, ReturnStep, RefuseStep, EvictStep
<1>4. CASE UNCHANGED vars
  BY <1>4 DEF vars, mapVars, SInv, BaseInv, TypeOK, MapInv, ServingInv, DroppedInv,
              ProcInv, ConnOf, NoSocketLeft, QuietInv, Alone
<1> QED BY <1>1, <1>2, <1>3, <1>4 DEF Next

THEOREM Invariance == Spec => []SInv
BY InitInv, NextInv, PTL DEF Spec

(* Every variable has its type.                                            *)
THEOREM TypeCorrect == Spec => []TypeOK
<1>1. SInv => TypeOK
  BY DEF SInv, BaseInv
<1> QED BY <1>1, Invariance, PTL

(* No answer is taken for the answer to another request: the functions of  *)
(* sharedance.php, which share a global connection, never mix them up.     *)
THEOREM OwnReply == Spec => []WaitsForOwnReply
<1>1. SInv => WaitsForOwnReply
  <2> SUFFICES ASSUME SInv, NEW p \in Procs, Waiting(p)
               PROVE  \/ conn[php[p].fp].phase = "dropped"
                      \/ conn[php[p].fp].request \in AskedFor(p)
    BY DEF WaitsForOwnReply
  <2>1. /\ ConnOf(php[p], conn) = conn[php[p].fp] /\ ProcOK(php[p], conn[php[p].fp])
    BY ProcFacts DEF SInv, Waiting
  <2>2. \/ conn[php[p].fp].phase = "dropped"
        \/ conn[php[p].fp].request = Asked(php[p])
    BY <2>1 DEF ProcOK, Waiting
  <2>3. Asked(php[p]) \in AskedFor(p)
    BY DEF Asked, AskedFor, Waiting
  <2> QED BY <2>2, <2>3
<1> QED BY <1>1, Invariance, PTL

(* No connection is left open by a script, however many run.               *)
THEOREM SocketsClosed == Spec => []NoSocketLeft
<1>1. SInv => NoSocketLeft
  BY DEF SInv, BaseInv
<1> QED BY <1>1, Invariance, PTL

(* No load of an undisturbed session is lost or counted twice.             *)
THEOREM LoadsCounted == Spec => []EveryLoadCounted
<1>1. SInv => EveryLoadCounted
  BY DEF SInv, QuietInv, EveryLoadCounted, Kept
<1> QED BY <1>1, Invariance, PTL


(* Whatever the scripts send, and whenever they leave, the server they     *)
(* share goes through the steps of EphemeralMap and no others: the model   *)
(* asks nothing of it that Storage does not provide.                       *)
THEOREM ServerIsMap == Spec => Map!Spec
<1>1. Init => Map!Init
  BY DEF Init
<1>2. SInv /\ [Next]_vars => [Map!Next]_Map!vars
  <2> SUFFICES ASSUME SInv, [Next]_vars
               PROVE  [Map!Next]_Map!vars
    OBVIOUS
  <2>1. UNCHANGED mapVars => UNCHANGED Map!vars
    BY DEF mapVars, Map!vars
  <2>2. CASE UNCHANGED vars
    BY <2>1, <2>2 DEF vars
  <2>3. ASSUME NEW p \in Procs, Open(p) \/ Sends(p) \/ Receives(p)
        PROVE  UNCHANGED mapVars
    BY <2>3 DEF Open, Sends, Fetch, Store, Destroy, CannotReopen, Receives,
                FetchReturns, FetchCut, UpdateReturns, TimesOut
  <2>4. ASSUME NEW c \in Conns, Serve(c)
        PROVE  Map!Next
    <3>1. conn[c] \in ConnRecords /\ conn[c].phase = "sent"
      BY <2>4 DEF Serve, SInv, BaseInv, TypeOK
    <3>2. conn[c].request \in Map!Requests
      BY <3>1, ConnFacts
    <3> QED BY <2>4, <3>2 DEF Serve, Map!Next
  <2>5. ASSUME NEW c \in Conns, Drop(c)
        PROVE  UNCHANGED mapVars
    BY <2>5 DEF Drop
  <2>6. CASE TakeEffect \/ Return \/ Refuse \/ Evict
    BY <2>6 DEF TakeEffect, Return, Refuse, Evict, Map!Next
  <2> QED BY <2>1, <2>2, <2>3, <2>4, <2>5, <2>6 DEF Next
<1> QED BY <1>1, <1>2, Invariance, PTL DEF Spec, Map!Spec
===============================================================================
