------------------------------- MODULE Sessions --------------------------------
(***************************************************************************)
(* PHP scripts that keep their sessions in Sharedance: php/sharedance.php  *)
(* and php/session_handler.php, run by several PHP processes at once, over *)
(* a server of which nothing but EphemeralMap is assumed.  The script is   *)
(* the one of php/test_session.php, which counts how often it was loaded,  *)
(* or one that destroys the session.                                       *)
(*                                                                         *)
(* A connection is an object of its own: the server goes on with a request *)
(* whose sender has given up and opened another connection.                *)
(***************************************************************************)
EXTENDS Integers

CONSTANTS
  Procs,     \* PHP processes
  Ids,       \* session ids
  Conns,     \* bound: connections that exist at once
  MaxCount   \* bound on the counter kept in a session

CONSTANTS NoConn, NoId

ASSUME SessionsAssumption ==
  /\ MaxCount \in Nat
  /\ NoConn \notin Conns /\ NoId \notin Ids

VARIABLES
  map, request, result, answer,  \* the server, see EphemeralMap
  serving,   \* the connection whose request the server is serving
  conn,      \* the connections
  php,       \* the PHP processes
  reloads,   \* history: scripts that have counted, while quiet
  quiet      \* history: nothing has failed, expired or overlapped

mapVars == <<map, request, result, answer>>
vars == <<mapVars, serving, conn, php, reloads, quiet>>

Counts == 0 .. MaxCount

Map == INSTANCE EphemeralMap
         WITH Keys <- Ids, Values <- Counts, Size <- [v \in Counts |-> 1],
              TooLarge <- {}

(* What read() returns when there is no data: the script then counts 0.    *)
Nothing == -1

(* A connection: `held' as long as PHP has not closed it.                  *)
FreeConn ==
  [phase |-> "free", request |-> Map!NoRequest, reply |-> Map!NoAnswer,
   held |-> FALSE]

IdleProc == [pc |-> "idle", fp |-> NoConn, id |-> NoId, data |-> Nothing]

Free == {c \in Conns : conn[c].phase = "free"}

-----------------------------------------------------------------------------
(* sharedance.php.  php[p].fp is $GLOBAL_SHAREDANCE_FP.                    *)

(* sharedance_open, which finds no connection open.                        *)
SharedanceOpen(p, next) ==
  \E c \in Free :
    /\ conn' = [conn EXCEPT ![c] = [FreeConn EXCEPT !.phase = "open",
                                                    !.held = TRUE]]
    /\ php' = [php EXCEPT ![p] = [next EXCEPT !.fp = c]]

(* A connection that is forgotten whatever the server still does with it.  *)
ClosedAlways(r) == [r EXCEPT !.held = FALSE]

(* A connection after fclose(): the server still serves what was sent.     *)
Closed(r) ==
  IF r.phase \in {"sent", "serving"} THEN [r EXCEPT !.held = FALSE]
  ELSE FreeConn

(* sharedance_close without its fclose().                                  *)
SharedanceForget(p, next) ==
  /\ conn' = conn
  /\ php' = [php EXCEPT ![p] = [next EXCEPT !.fp = NoConn]]

SharedanceClose(p, next) ==
  /\ conn' = [conn EXCEPT ![php[p].fp] = Closed(@)]
  /\ php' = [php EXCEPT ![p] = [next EXCEPT !.fp = NoConn]]

(* fwrite: without effect if the server has closed, or has had a request.  *)
Sent(r, req) ==
  IF r.phase \in {"free", "open"}
  THEN [phase |-> "sent", request |-> req, reply |-> Map!NoAnswer, held |-> TRUE]
  ELSE r

(* sharedance_reopen, then fwrite.                                         *)
Send(p, req, label) ==
  \E c \in IF php[p].fp = NoConn THEN Free ELSE {php[p].fp} :
    /\ conn' = [conn EXCEPT ![c] = Sent(@, req)]
    /\ php' = [php EXCEPT ![p].fp = c, ![p].pc = label]

Waiting(p) == php[p].pc \in {"fetching", "storing", "destroying"}

(* The server has answered or closed the connection.                       *)
Answered(p) == Waiting(p) /\ conn[php[p].fp].phase \in {"replied", "dropped"}

Reply(p) == conn[php[p].fp].reply

-----------------------------------------------------------------------------
(* session_handler.php, in the order PHP calls it for a script.            *)

(* open().  If it fails there is no session and nothing else happens.      *)
Open(p) ==
  /\ php[p].pc = "idle"
  /\ \E i \in Ids :
       /\ SharedanceOpen(p, [IdleProc EXCEPT !.pc = "read", !.id = i])
       /\ quiet' = (quiet /\ \A q \in Procs : php[q].id # i)
  /\ UNCHANGED <<mapVars, serving, reloads>>

(* read(), up to the fread.                                                *)
Fetch(p) ==
  /\ php[p].pc = "read"
  /\ Send(p, [kind |-> "fetch", key |-> php[p].id], "fetching")
  /\ UNCHANGED <<mapVars, serving, reloads, quiet>>

(* A counter of 0 compared to FALSE, loosely.                              *)
FetchedDataLoose(reply) ==
  IF reply.kind = "data" /\ reply.value # 0 THEN reply.value ELSE Nothing

(* What read() makes of a reply: "" of none.                               *)
FetchedData(reply) == IF reply.kind = "data" THEN reply.value ELSE Nothing

(* sharedance_fetch that does not close its connection.                    *)
FetchEndsOpen(p, next) == conn' = conn /\ php' = [php EXCEPT ![p] = next]

FetchEnds(p, next) == SharedanceClose(p, next)

FetchReturns(p) ==
  /\ php[p].pc = "fetching" /\ Answered(p)
  /\ FetchEnds(p, [php[p] EXCEPT !.pc = "script", !.data = FetchedData(Reply(p))])
  /\ UNCHANGED <<mapVars, serving, reloads, quiet>>

(* The reply is cut short, by the network, by the end of the server, or    *)
(* by a chunk "0", which the loop takes for FALSE.  PHP cannot decode the  *)
(* session and destroys it.                                                *)
FetchCut(p) ==
  /\ php[p].pc = "fetching" /\ Answered(p) /\ Reply(p).kind = "data"
  /\ FetchEnds(p, [php[p] EXCEPT !.pc = "undecodable"])
  /\ quiet' = FALSE
  /\ UNCHANGED <<mapVars, serving, reloads>>

(* The script, then write() up to the fgets.                               *)
Store(p) ==
  /\ php[p].pc = "script" /\ php[p].data < MaxCount
  /\ Send(p, [kind |-> "store", key |-> php[p].id, value |-> php[p].data + 1],
          "storing")
  /\ UNCHANGED <<mapVars, serving, reloads, quiet>>

(* destroy() up to the fgets.                                              *)
Destroy(p) ==
  /\ php[p].pc \in {"script", "undecodable"}
  /\ Send(p, [kind |-> "delete", key |-> php[p].id], "destroying")
  /\ UNCHANGED <<mapVars, serving, reloads, quiet>>

(* sharedance_reopen fails: write() and destroy() return false.            *)
CannotReopen(p) ==
  /\ php[p].pc \in {"script", "undecodable"} /\ php[p].fp = NoConn
  /\ php' = [php EXCEPT ![p] = IdleProc]
  /\ quiet' = FALSE
  /\ UNCHANGED <<mapVars, serving, conn, reloads>>

(* A store acknowledged is one more load, a delete none at all.            *)
Counted(p) ==
  IF ~ quiet \/ Reply(p) # Map!Ok THEN reloads
  ELSE [reloads EXCEPT ![php[p].id] =
          IF php[p].pc = "storing" THEN @ + 1 ELSE 0]

(* Waiting for an OK, and for nothing else.                                *)
UpdateReturnsIfOk(p) ==
  /\ php[p].pc \in {"storing", "destroying"} /\ Answered(p)
  /\ Reply(p) = Map!Ok
  /\ SharedanceClose(p, IdleProc)
  /\ reloads' = Counted(p)
  /\ UNCHANGED <<mapVars, serving, quiet>>

(* write() and destroy() return, true or false, and close() has nothing to *)
(* do.                                                                     *)
UpdateReturns(p) ==
  /\ php[p].pc \in {"storing", "destroying"} /\ Answered(p)
  /\ SharedanceClose(p, IdleProc)
  /\ reloads' = Counted(p)
  /\ UNCHANGED <<mapVars, serving, quiet>>

(* default_socket_timeout: fread and fgets give up.                        *)
TimesOut(p) ==
  /\ Waiting(p) /\ ~ Answered(p)
  /\ IF php[p].pc = "fetching"
     THEN FetchEnds(p, [php[p] EXCEPT !.pc = "script"])
     ELSE SharedanceClose(p, IdleProc)
  /\ quiet' = FALSE
  /\ UNCHANGED <<mapVars, serving, reloads>>

-----------------------------------------------------------------------------
(* The server.                                                             *)

(* A connection the server is done with.                                   *)
Done(c, phase, reply) ==
  conn' = [conn EXCEPT ![c] =
             IF @.held THEN [@ EXCEPT !.phase = phase, !.reply = reply]
             ELSE FreeConn]

Serve(c) ==
  /\ conn[c].phase = "sent"
  /\ Map!Begin /\ request' = conn[c].request
  /\ serving' = c
  /\ conn' = [conn EXCEPT ![c].phase = "serving"]
  /\ UNCHANGED <<php, reloads, quiet>>

TakeEffect ==
  /\ Map!Store \/ Map!Delete \/ Map!Fetch
  /\ UNCHANGED <<serving, conn, php, reloads, quiet>>

Return ==
  /\ Map!Return
  /\ Done(serving, "replied", answer')
  /\ serving' = NoConn
  /\ UNCHANGED <<php, reloads, quiet>>

(* The connection is dropped without a reply.  That is as it should be for *)
(* the fetch or delete of a session that does not exist.                   *)
Refuse ==
  /\ Map!Refuse
  /\ Done(serving, "dropped", Map!NoAnswer)
  /\ serving' = NoConn
  /\ quiet' = (quiet /\ request.kind # "store" /\ result = Map!NoAnswer
                     /\ ~ Map!Present(request.key))
  /\ UNCHANGED <<php, reloads>>

(* Or before the request is complete: after --timeout, or when the server  *)
(* ends.                                                                   *)
Drop(c) ==
  /\ conn[c].phase \in {"open", "sent"}
  /\ Done(c, "dropped", Map!NoAnswer)
  /\ quiet' = FALSE
  /\ UNCHANGED <<mapVars, serving, php, reloads>>

Evict ==
  /\ Map!Evict
  /\ quiet' = FALSE
  /\ UNCHANGED <<serving, conn, php, reloads>>

-----------------------------------------------------------------------------

Init ==
  /\ Map!Init
  /\ serving = NoConn
  /\ conn = [c \in Conns |-> FreeConn]
  /\ php = [p \in Procs |-> IdleProc]
  /\ reloads = [i \in Ids |-> 0]
  /\ quiet = TRUE

Sends(p) == Fetch(p) \/ Store(p) \/ Destroy(p) \/ CannotReopen(p)
Receives(p) == FetchReturns(p) \/ FetchCut(p) \/ UpdateReturns(p) \/ TimesOut(p)

Next ==
  \/ \E p \in Procs : Open(p) \/ Sends(p) \/ Receives(p)
  \/ \E c \in Conns : Serve(c) \/ Drop(c)
  \/ TakeEffect \/ Return \/ Refuse \/ Evict

(* PHP runs its scripts, and its sockets time out.  The server owes them   *)
(* nothing.                                                                *)
Fairness == \A p \in Procs : WF_vars(Sends(p)) /\ WF_vars(Receives(p))

Spec == Init /\ [][Next]_vars /\ Fairness

-----------------------------------------------------------------------------
(* Properties.                                                             *)

Replies ==
  {Map!NoAnswer, Map!Ok, Map!Refused} \cup {Map!WholeValue(v) : v \in Counts}

ConnRecords ==
  [phase : {"open"}, request : {Map!NoRequest}, reply : {Map!NoAnswer},
   held : {TRUE}]
  \cup [phase : {"sent", "serving"}, request : Map!Requests,
        reply : {Map!NoAnswer}, held : BOOLEAN]
  \cup [phase : {"replied", "dropped"},
        request : Map!Requests \cup {Map!NoRequest}, reply : Replies,
        held : {TRUE}]
  \cup {FreeConn}

ProcRecords ==
  [pc : {"idle", "read", "fetching", "script", "storing", "undecodable",
         "destroying"},
   fp : Conns \cup {NoConn}, id : Ids \cup {NoId}, data : Counts \cup {Nothing}]

TypeOK ==
  /\ serving \in Conns \cup {NoConn}
  /\ conn \in [Conns -> ConnRecords]
  /\ php \in [Procs -> ProcRecords]
  /\ reloads \in [Ids -> Nat]
  /\ quiet \in BOOLEAN

(* A script that waits for a reply waits on a connection that carries its  *)
(* own request, or that the server has dropped: the server answers one     *)
(* request for each connection, and the answer to an earlier request is    *)
(* never taken for the answer to a later one.                              *)
AskedFor(p) ==
  CASE php[p].pc = "fetching"   -> [kind : {"fetch"}, key : {php[p].id}]
    [] php[p].pc = "storing"    -> [kind : {"store"}, key : {php[p].id},
                                    value : {php[p].data + 1}]
    [] php[p].pc = "destroying" -> [kind : {"delete"}, key : {php[p].id}]

WaitsForOwnReply ==
  \A p \in Procs :
    Waiting(p) => LET r == conn[php[p].fp]
                  IN  r.phase = "dropped" \/ r.request \in AskedFor(p)

(* Every connection that PHP has not closed is the one some script knows,  *)
(* and a script that has ended has none: none is left to the timeout of    *)
(* the server, whichever operation of the script failed.                   *)
NoSocketLeft ==
  /\ \A c \in Conns : conn[c].held <=> \E p \in Procs : php[p].fp = c
  /\ \A p, q \in Procs : php[p].fp = php[q].fp /\ p # q => php[p].fp = NoConn
  /\ \A p \in Procs : php[p].pc = "idle" => php[p].fp = NoConn

(* 'You reloaded that page N time(s)' (php/test_session.php): as long as   *)
(* nothing fails, expires or overlaps on a session, no load is lost or     *)
(* counted twice.                                                          *)
EveryLoadCounted ==
  quiet => \A i \in Ids :
             (\A p \in Procs : php[p].id # i) =>
               map[i] = IF reloads[i] = 0 THEN Map!Refused
                        ELSE Map!WholeValue(reloads[i] - 1)

(* A script ends, whatever the server does.                                *)
ScriptsEnd == \A p \in Procs : php[p].pc # "idle" ~> php[p].pc = "idle"
===============================================================================
